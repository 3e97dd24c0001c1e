---------------------------- MODULE Verification ----------------------------
(***************************************************************************)
(* Verification of one merchant, for a platform that requires it            *)
(* (MERCHANT_ONBOARDING_MODE): the details the merchant saves, the code     *)
(* sent to the phone among them, the documents uploaded as evidence, and    *)
(* the decision of the platform's reviewers.                                *)
(*                                                                         *)
(* A request is a `call': the statement it runs next and what it has read.  *)
(* The codes are numbered as they are sent; the minute between two codes    *)
(* and the ten minutes of a code's life pass whenever they may.             *)
(***************************************************************************)
EXTENDS Naturals

CONSTANTS
  Calls,      \* requests in progress at one time
  Forms,      \* details the merchant may save
  Phone,      \* the phone number of each
  Needs,      \* the types of evidence each calls for
  Docs, Type, \* documents that may be uploaded, and the type of each
  MaxTries,   \* MERCHANT_PHONE_OTP_MAX_ATTEMPTS
  MaxCodes,   \* bound on codes sent
  MaxFaults,  \* bound on requests stopped, and on statements that fail
  None

ASSUME VerificationAssumption ==
  /\ None \notin Forms \cup Docs
  /\ MaxTries \in Nat \ {0} /\ MaxCodes \in Nat /\ MaxFaults \in Nat

VARIABLES
  form,     \* the details of the profile, None before there is one
  verified, \* phoneVerifiedAt is set
  otp,      \* the stored code: its number, the wrong answers to it, whether it
            \* expired; and, of its message, the phone and whether it arrived
  cooling,  \* phoneOtpSentAt is less than a minute ago
  made,     \* codes made so far
  proof,    \* history: the phone whose code verified the one of the profile
  status,   \* verificationStatus
  doc,      \* status of each evidence row
  object,   \* documents in private storage
  due,      \* rows with a retentionDueAt
  call,     \* the requests
  faults,   \* stops and failures so far
  crossed   \* history: see Crosses

vars == << form, verified, otp, cooling, made, proof, status, doc,
           object, due, call, faults, crossed >>

phone    == << verified, otp, cooling, made, proof >>
evidence == << doc, object, due >>
bounds   == << faults, crossed >>
-----------------------------------------------------------------------------
NoCode == [ code |-> 0, tries |-> 0, expired |-> FALSE, to |-> None, arrived |-> FALSE ]

Idle == [ pc |-> "idle", on |-> None, seen |-> None, hash |-> 0,
          flag |-> FALSE, want |-> "none" ]

At(k, pc) == call[k].pc = pc
Goes(k, pc) == call' = [call EXCEPT ![k].pc = pc]
Ends(k) == call' = [call EXCEPT ![k] = Idle]
Begins(k, c) == At(k, "idle") /\ call' = [call EXCEPT ![k] = c]

HasRow(d) == doc[d] \notin { "none", "gone" }

(* The types of evidence with a row in one of the statuses *)
Filed(statuses) == { Type[d] : d \in { e \in Docs : doc[e] \in statuses } }

(* Requests that have read the merchant's details and go on *)
Readers == { k \in Calls : call[k].pc \in
             { "save", "check", "submit", "reserve", "papers", "decide" } }

(* The history variable `crossed' remembers that details were replaced while
   another request that had read them went on. *)
Crosses(k) == crossed' = (crossed \/ Readers \ {k} # {})

Init ==
  /\ form = None /\ verified = FALSE /\ otp = NoCode /\ cooling = FALSE
  /\ made = 0 /\ proof = None
  /\ status = "NOT_STARTED"
  /\ doc = [d \in Docs |-> "none"] /\ object = {} /\ due = {}
  /\ call = [k \in Calls |-> Idle]
  /\ faults = 0 /\ crossed = FALSE
-----------------------------------------------------------------------------
(* The merchant saves the details *)

(* The saved ones are read, to see whether the phone is another *)
Save(k, f) ==
  /\ Begins(k, [ Idle EXCEPT !.pc = "save", !.on = f,
                   !.flag = (form = None \/ Phone[form] # Phone[f]) ])
  /\ UNCHANGED << form, phone, status, evidence, bounds >>

(* Faulty: a code under way outlives the change of the phone *)
SaveProfileCode(k) ==
  /\ At(k, "save")
  /\ form' = call[k].on
  /\ verified' = (verified /\ ~call[k].flag)
  /\ proof' = IF call[k].flag THEN None ELSE proof
  /\ Crosses(k)
  /\ call' = [call EXCEPT ![k].pc = "check", ![k].flag = ~@ /\ verified]
  /\ UNCHANGED << otp, cooling, made, status, evidence, faults >>

(* With another phone the verification starts again *)
SaveProfile(k) ==
  /\ At(k, "save")
  /\ form' = call[k].on
  /\ IF call[k].flag
     THEN verified' = FALSE /\ proof' = None /\ otp' = NoCode /\ cooling' = FALSE
     ELSE UNCHANGED << verified, proof, otp, cooling >>
  /\ Crosses(k)
  /\ call' = [call EXCEPT ![k].pc = "check", ![k].flag = ~@ /\ verified]
  /\ UNCHANGED << made, status, evidence, faults >>

(* Faulty: what cannot be submitted does not change the status *)
CheckEvidenceOnly(k) ==
  /\ At(k, "check")
  /\ IF call[k].flag /\ Needs[call[k].on] \subseteq Filed({"PENDING", "APPROVED"})
     THEN call' = [call EXCEPT ![k].pc = "submit", ![k].want = "PENDING_REVIEW"]
     ELSE Ends(k)
  /\ UNCHANGED << form, phone, status, evidence, bounds >>

CheckEvidence(k) ==
  /\ At(k, "check")
  /\ call' = [call EXCEPT ![k].pc = "submit", ![k].want =
       IF call[k].flag /\ Needs[call[k].on] \subseteq Filed({"PENDING", "APPROVED"})
       THEN "PENDING_REVIEW" ELSE "IN_PROGRESS"]
  /\ UNCHANGED << form, phone, status, evidence, bounds >>

SetStatus(k) ==
  /\ At(k, "submit")
  /\ status' = call[k].want
  /\ Ends(k)
  /\ UNCHANGED << form, phone, evidence, bounds >>
-----------------------------------------------------------------------------
(* The code to the phone: sendMerchantPhoneOtp *)

SendCode(k) ==
  /\ form # None
  /\ Begins(k, [ Idle EXCEPT !.pc = "reserve", !.seen = form ])
  /\ UNCHANGED << form, phone, status, evidence, bounds >>

(* The code is stored, unless one was less than a minute ago (or the bound on
   codes is reached), and goes to the phone that was read *)
Reserve(k) ==
  /\ At(k, "reserve")
  /\ \/ /\ ~cooling /\ made < MaxCodes
        /\ made' = made + 1
        /\ otp' = [ NoCode EXCEPT !.code = made', !.to = Phone[call[k].seen] ]
        /\ cooling' = TRUE
        /\ call' = [call EXCEPT ![k].pc = "sms", ![k].hash = made', ![k].seen = None]
     \/ /\ cooling \/ made = MaxCodes
        /\ Ends(k)
        /\ UNCHANGED << otp, cooling, made >>
  /\ UNCHANGED << form, verified, proof, status, evidence, bounds >>

(* sendSms: the message arrives, or not although it may have left (a timeout),
   or the provider refuses it *)
Sms(k) ==
  /\ At(k, "sms")
  /\ \/ otp' = [otp EXCEPT !.arrived = @ \/ otp.code = call[k].hash] /\ Ends(k)
     \/ UNCHANGED otp /\ Ends(k)
     \/ UNCHANGED otp /\ Goes(k, "release")
  /\ UNCHANGED << form, verified, cooling, made, proof, status, evidence, bounds >>

(* Faulty: whatever code is stored is taken back *)
ReleaseAny(k) ==
  /\ At(k, "release")
  /\ otp' = NoCode /\ cooling' = FALSE
  /\ Ends(k)
  /\ UNCHANGED << form, verified, made, proof, status, evidence, bounds >>

Release(k) ==
  /\ At(k, "release")
  /\ IF otp.code = call[k].hash THEN otp' = NoCode /\ cooling' = FALSE
                                ELSE UNCHANGED << otp, cooling >>
  /\ Ends(k)
  /\ UNCHANGED << form, verified, made, proof, status, evidence, bounds >>

Cool ==
  /\ cooling /\ cooling' = FALSE
  /\ UNCHANGED << form, verified, otp, made, proof, status, evidence, call, bounds >>

Expire ==
  /\ otp.code # 0 /\ ~otp.expired /\ ~cooling
  /\ otp' = [otp EXCEPT !.expired = TRUE]
  /\ UNCHANGED << form, verified, cooling, made, proof, status, evidence, call, bounds >>

(* verifyMerchantPhoneOtp: the stored code is read and compared with one that
   arrived, or with a wrong one *)
Answerable == otp.code # 0 /\ ~otp.expired /\ otp.tries < MaxTries

Guess(k) ==
  /\ Answerable
  /\ \/ otp.arrived /\ Begins(k, [ Idle EXCEPT !.pc = "consume", !.hash = otp.code ])
     \/ Begins(k, [ Idle EXCEPT !.pc = "wrong", !.hash = otp.code ])
  /\ UNCHANGED << form, phone, status, evidence, bounds >>

(* Faulty: the wrong answers are not looked at again *)
StillStoredOnly(k) == otp.code = call[k].hash

(* What the conditional updates ask for again: the code that was read, with
   wrong answers to go. Their time is the one at which the request began, when
   that code had not expired. *)
Still(k) == otp.code # 0 /\ otp.code = call[k].hash /\ otp.tries < MaxTries

Wrong(k) ==
  /\ At(k, "wrong")
  /\ otp' = IF Still(k) THEN [otp EXCEPT !.tries = @ + 1] ELSE otp
  /\ Ends(k)
  /\ UNCHANGED << form, verified, cooling, made, proof, status, evidence, bounds >>

Consume(k) ==
  /\ At(k, "consume")
  /\ IF Still(k) THEN verified' = TRUE /\ otp' = NoCode /\ proof' = otp.to
                 ELSE UNCHANGED << verified, otp, proof >>
  /\ Ends(k)
  /\ UNCHANGED << form, cooling, made, status, evidence, bounds >>
-----------------------------------------------------------------------------
(* Documents: the file is stored, then its row; if either fails the file is
   deleted, an error of that left aside *)

Upload(k, d) ==
  /\ form # None /\ doc[d] = "none" /\ d \notin object
  /\ \A j \in Calls : call[j].on # d
  /\ Begins(k, [ Idle EXCEPT !.pc = "put", !.on = d ])
  /\ UNCHANGED << form, phone, status, evidence, bounds >>

Put(k) ==
  /\ At(k, "put")
  /\ object' = object \cup {call[k].on}
  /\ Goes(k, "row")
  /\ UNCHANGED << form, phone, status, doc, due, bounds >>

Row(k) ==
  /\ At(k, "row")
  /\ doc' = [doc EXCEPT ![call[k].on] = "PENDING"]
  /\ Ends(k)
  /\ UNCHANGED << form, phone, status, object, due, bounds >>

Undo(k) ==
  /\ At(k, "undo")
  /\ object' = object \ {call[k].on}
  /\ Ends(k)
  /\ UNCHANGED << form, phone, status, doc, due, bounds >>

(* Faulty: a file that could not be deleted is passed over *)
FailsQuietly(k) ==
  /\ faults < MaxFaults /\ faults' = faults + 1
  /\ \/ At(k, "put") /\ Goes(k, "undo")
     \/ At(k, "row") /\ Goes(k, "undo")
     \/ At(k, "undo") /\ Ends(k)
     \/ At(k, "erase") /\ Goes(k, "forget")
     \/ At(k, "forget") /\ Ends(k)
  /\ UNCHANGED << form, phone, status, evidence, crossed >>

(* A statement on the file or its row fails *)
Fails(k) ==
  /\ faults < MaxFaults /\ faults' = faults + 1
  /\ \/ At(k, "put") /\ Goes(k, "undo")
     \/ At(k, "row") /\ Goes(k, "undo")
     \/ At(k, "undo") /\ Ends(k)
     \/ At(k, "erase") /\ Ends(k)
     \/ At(k, "forget") /\ Ends(k)
  /\ UNCHANGED << form, phone, status, evidence, crossed >>
-----------------------------------------------------------------------------
(* The platform's reviewers *)

Examine(d) ==
  /\ HasRow(d)
  /\ \E s \in {"PENDING", "APPROVED", "REJECTED"} : doc' = [doc EXCEPT ![d] = s]
  /\ UNCHANGED << form, phone, status, object, due, call, bounds >>

(* The transaction that decides also dates the retention of the evidence that
   has no date yet *)
Decides(s) ==
  /\ status' = s
  /\ due' = due \cup { d \in Docs : HasRow(d) }

Reject ==
  /\ Decides("REJECTED")
  /\ UNCHANGED << form, phone, doc, object, call, bounds >>

Request ==
  /\ status' = "PENDING_REVIEW"
  /\ UNCHANGED << form, phone, evidence, call, bounds >>

(* An approval reads the profile, then the evidence, then decides *)
Approve(k) ==
  /\ form # None /\ verified
  /\ Begins(k, [ Idle EXCEPT !.pc = "papers", !.seen = form ])
  /\ UNCHANGED << form, phone, status, evidence, bounds >>

Papers(k) ==
  /\ At(k, "papers")
  /\ IF Needs[call[k].seen] \subseteq Filed({"APPROVED"}) THEN Goes(k, "decide")
                                                          ELSE Ends(k)
  /\ UNCHANGED << form, phone, status, evidence, bounds >>

Decide(k) ==
  /\ At(k, "decide")
  /\ Decides("APPROVED")
  /\ Ends(k)
  /\ UNCHANGED << form, phone, doc, object, bounds >>
-----------------------------------------------------------------------------
(* processVerificationEvidenceRetention, ninety days later: the file first *)

Sweep(k, d) ==
  /\ d \in due
  /\ Begins(k, [ Idle EXCEPT !.pc = "erase", !.on = d ])
  /\ UNCHANGED << form, phone, status, evidence, bounds >>

Erase(k) ==
  /\ At(k, "erase")
  /\ object' = object \ {call[k].on}
  /\ Goes(k, "forget")
  /\ UNCHANGED << form, phone, status, doc, due, bounds >>

Forget(k) ==
  /\ At(k, "forget")
  /\ doc' = [doc EXCEPT ![call[k].on] = "gone"]
  /\ due' = due \ {call[k].on}
  /\ Ends(k)
  /\ UNCHANGED << form, phone, status, object, bounds >>

(* The function of a request is stopped between two statements *)
Drop(k) ==
  /\ faults < MaxFaults /\ faults' = faults + 1
  /\ ~At(k, "idle")
  /\ Ends(k)
  /\ UNCHANGED << form, phone, status, evidence, crossed >>
-----------------------------------------------------------------------------
Steps(k) ==
  \/ SaveProfile(k) \/ CheckEvidence(k) \/ SetStatus(k)
  \/ Reserve(k) \/ Sms(k) \/ Release(k) \/ Wrong(k) \/ Consume(k)
  \/ Put(k) \/ Row(k) \/ Undo(k) \/ Papers(k) \/ Decide(k) \/ Erase(k) \/ Forget(k)

Next ==
  \/ \E k \in Calls : \/ Steps(k) \/ SendCode(k) \/ Guess(k) \/ Approve(k)
                      \/ Fails(k) \/ Drop(k)
  \/ \E k \in Calls, f \in Forms : Save(k, f)
  \/ \E k \in Calls, d \in Docs : Upload(k, d) \/ Sweep(k, d)
  \/ \E d \in Docs : Examine(d)
  \/ Cool \/ Expire \/ Reject \/ Request

Spec == Init /\ [][Next]_vars
-----------------------------------------------------------------------------
CallPC == { "idle", "save", "check", "submit", "reserve", "sms", "release",
            "wrong", "consume", "put", "row", "undo", "papers", "decide",
            "erase", "forget" }

Phones == { Phone[f] : f \in Forms }

CallState ==
  [ pc : CallPC, on : Forms \cup Docs \cup {None}, seen : Forms \cup {None},
    hash : 0 .. MaxCodes, flag : BOOLEAN,
    want : { "none", "IN_PROGRESS", "PENDING_REVIEW" } ]

DetailsOK ==
  /\ form \in Forms \cup {None}
  /\ verified \in BOOLEAN /\ proof \in Phones \cup {None}
  /\ verified => form # None /\ proof \in Phones
  /\ status \in { "NOT_STARTED", "IN_PROGRESS", "PENDING_REVIEW", "APPROVED", "REJECTED" }

CodesOK ==
  /\ made \in 0 .. MaxCodes /\ cooling \in BOOLEAN
  /\ otp \in [ code : 0 .. made, tries : 0 .. MaxTries, expired : BOOLEAN,
               to : Phones \cup {None}, arrived : BOOLEAN ]

DocumentsOK ==
  /\ doc \in [Docs -> { "none", "PENDING", "APPROVED", "REJECTED", "gone" }]
  /\ object \subseteq Docs /\ due \subseteq Docs

CallsOK ==
  /\ call \in [Calls -> CallState]
  /\ faults \in 0 .. MaxFaults /\ crossed \in BOOLEAN

(* The type of the state; and a code is stored only after it was made, and a
   phone is verified only by one of a phone that was saved. *)
TypeOK == DetailsOK /\ CodesOK /\ DocumentsOK /\ CallsOK

(* The phone of the profile is verified only by a code that was sent to it: a
   code of the old phone is worthless once another is saved, unless requests
   for both crossed. *)
CodeProvesPhone == (verified /\ ~crossed) => proof = Phone[form]

(* However answers to one code race, it verifies nothing once MaxTries wrong
   ones are counted, and no more than those are counted. *)
GuessLimit ==
  [][ (otp.tries >= MaxTries /\ verified') => verified ]_vars

(* A code that has arrived is taken away by its use, by the change of the
   phone, or by the next code, never by another request's failed message. *)
ArrivedCodeStands ==
  [][ (otp.arrived /\ otp'.code = 0) =>
        (\E k \in Calls : At(k, "consume") \/ At(k, "save")) ]_vars

(* "The merchant must complete phone verification [...] before tenant approval":
   an approved merchant's phone is verified, also after the details were saved
   again, once the save has ended, where nothing crossed it or stopped it. *)
ApprovedIsVerified ==
  (/\ status = "APPROVED" /\ ~crossed /\ faults = 0
   /\ \A k \in Calls : ~At(k, "check") /\ ~At(k, "submit")) => verified

(* The sweep of the evidence deletes the file before its row: no file outlives
   its row, whatever fails or stops; a row without its file is still dated, so
   that the next sweep takes it; and a file without a row is one being uploaded,
   where nothing failed. *)
EvidenceStored ==
  \A d \in Docs :
    /\ doc[d] = "gone" => d \notin object
    /\ (d \in object /\ ~HasRow(d) /\ faults = 0)
       => \E k \in Calls : call[k].on = d
    /\ (HasRow(d) /\ d \notin object) => d \in due
=============================================================================

------------------------- MODULE VerificationProofs -------------------------
(***************************************************************************)
(* Proofs about Verification, for any details, documents and number of     *)
(* requests: its types; that a code proves the phone it was sent to, and   *)
(* stands up to wrong answers and to other requests; that files, their     *)
(* rows and the dates of their deletion agree; and that an approved        *)
(* merchant is verified.                                                   *)
(***************************************************************************)
EXTENDS Verification, TLAPS

Filing == { "put", "row", "undo" }
Erasing == { "erase", "forget" }

(* What a request holds is what its next statement needs. *)
Held ==
  \A k \in Calls :
    /\ call[k].pc \in {"save", "check"} => call[k].on \in Forms
    /\ call[k].pc = "reserve" => call[k].seen \in Forms /\ form # None
    /\ call[k].pc \in Filing \cup Erasing => call[k].on \in Docs
    /\ call[k].pc = "submit" => call[k].want # "none"

(* A stored code was sent to a phone that was saved. *)
Sent == otp.code # 0 => otp.to \in Phones /\ form # None

Sound == TypeOK /\ Held /\ Sent

(* The requests as they begin *)
LEMMA IdleTyped == Idle \in CallState /\ Idle.pc = "idle" /\ Idle.on = None
BY VerificationAssumption DEF Idle, CallState, CallPC

LEMMA SaveBegun ==
  ASSUME NEW f \in Forms, NEW flag \in BOOLEAN
  PROVE  LET r == [ Idle EXCEPT !.pc = "save", !.on = f, !.flag = flag ]
         IN r \in CallState /\ r.pc = "save" /\ r.on = f /\ r.flag = flag
BY IdleTyped DEF CallState, CallPC

LEMMA FileBegun ==
  ASSUME NEW pc \in {"put", "erase"}, NEW d \in Docs
  PROVE  LET r == [ Idle EXCEPT !.pc = pc, !.on = d ]
         IN r \in CallState /\ r.pc = pc /\ r.on = d
BY IdleTyped DEF CallState, CallPC

LEMMA ReadBegun ==
  ASSUME NEW pc \in {"reserve", "papers"}, NEW f \in Forms
  PROVE  LET r == [ Idle EXCEPT !.pc = pc, !.seen = f ]
         IN r \in CallState /\ r.pc = pc /\ r.seen = f
BY IdleTyped DEF CallState, CallPC

LEMMA AnswerBegun ==
  ASSUME NEW pc, pc \in {"consume", "wrong"}, NEW n, n \in 0 .. MaxCodes
  PROVE  LET r == [ Idle EXCEPT !.pc = pc, !.hash = n ]
         IN r \in CallState /\ r.pc = pc /\ r.hash = n
BY IdleTyped DEF CallState, CallPC

(* A stored code as it is made *)
LEMMA Unmade ==
  ASSUME NEW n \in Nat
  PROVE  /\ NoCode \in [ code : 0 .. n, tries : 0 .. MaxTries, expired : BOOLEAN,
                         to : Phones \cup {None}, arrived : BOOLEAN ]
         /\ NoCode.code = 0 /\ ~NoCode.arrived /\ NoCode.tries = 0
BY VerificationAssumption DEF NoCode

LEMMA Made ==
  ASSUME NEW n \in Nat, NEW p \in Phones
  PROVE  LET o == [ NoCode EXCEPT !.code = n, !.to = p ]
         IN /\ o \in [ code : 0 .. n, tries : 0 .. MaxTries, expired : BOOLEAN,
                       to : Phones \cup {None}, arrived : BOOLEAN ]
            /\ o.code = n /\ o.to = p /\ ~o.arrived /\ o.tries = 0
<1>1. n \in 0 .. n
  OBVIOUS
<1> QED
  BY <1>1, Unmade

(* A request that moves on leaves the others as they were. *)
LEMMA OthersWait ==
  ASSUME CallsOK, NEW k \in Calls,
         \/ Steps(k) \/ SendCode(k) \/ Guess(k) \/ Approve(k) \/ Fails(k) \/ Drop(k)
         \/ \E f \in Forms : Save(k, f)
         \/ \E d \in Docs : Upload(k, d) \/ Sweep(k, d)
  PROVE  \A j \in Calls \ {k} : call'[j] = call[j]
<1> USE DEF CallsOK, Begins, Goes, Ends
<1>1. CASE Steps(k)
  BY <1>1 DEF Steps, SaveProfile, CheckEvidence, SetStatus, Reserve, Sms, Release,
     Wrong, Consume, Put, Row, Undo, Papers, Decide, Erase, Forget
<1>2. CASE SendCode(k) \/ Guess(k) \/ Approve(k) \/ Fails(k) \/ Drop(k)
  BY <1>2 DEF SendCode, Guess, Approve, Fails, Drop
<1>3. CASE \/ \E f \in Forms : Save(k, f)
           \/ \E d \in Docs : Upload(k, d) \/ Sweep(k, d)
  BY <1>3 DEF Save, Upload, Sweep
<1> QED
  BY <1>1, <1>2, <1>3

(* The types of the requests, and what they hold: a request goes on with what
   it has read, ends, or begins with what it reads. *)
LEMMA CallsTyped ==
  ASSUME Sound, NEW k \in Calls, NEW r \in CallState,
         call' = [call EXCEPT ![k] = r], faults' \in 0 .. MaxFaults,
         crossed' \in BOOLEAN, form' # None \/ form' = form,
         r.pc \in {"save", "check"} => r.on \in Forms,
         r.pc = "reserve" => r.seen \in Forms /\ form' # None,
         r.pc \in Filing \cup Erasing => r.on \in Docs,
         r.pc = "submit" => r.want # "none"
  PROVE  CallsOK' /\ Held'
BY DEF Sound, TypeOK, CallsOK, Held

LEMMA SoundStep ==
  ASSUME Sound, [Next]_vars
  PROVE  Sound'
<1> USE VerificationAssumption
    DEF Sound, TypeOK, At, phone, evidence, bounds, Filing, Erasing
<1>1. ASSUME NEW k \in Calls, NEW f \in Forms, Save(k, f)
      PROVE  Sound'
  <2> DEFINE flag == form = None \/ Phone[form] # Phone[f]
             r == [ Idle EXCEPT !.pc = "save", !.on = f, !.flag = flag ]
  <2>1. r \in CallState /\ r.pc = "save" /\ r.on = f
    <3> flag \in BOOLEAN
      OBVIOUS
    <3> HIDE DEF flag
    <3> QED
      BY SaveBegun
  <2>2. call' = [call EXCEPT ![k] = r]
    BY <1>1 DEF Save, Begins
  <2> HIDE DEF r
  <2>3. CallsOK' /\ Held'
    BY <1>1, <2>1, <2>2, CallsTyped DEF Save, CallsOK
  <2> QED
    BY <1>1, <2>3 DEF Save, DetailsOK, CodesOK, DocumentsOK, Sent
<1>2. ASSUME NEW k \in Calls, SaveProfile(k)
      PROVE  Sound'
  <2> DEFINE r == [call[k] EXCEPT !.pc = "check", !.flag = ~@ /\ verified]
  <2>1. r \in CallState /\ r.pc = "check" /\ r.on = call[k].on
    BY DEF CallsOK, DetailsOK, CallState, CallPC
  <2>2. call' = [call EXCEPT ![k] = r]
    BY <1>2 DEF SaveProfile, CallsOK
  <2> HIDE DEF r
  <2>3. call[k].on \in Forms /\ call[k].on # None
    BY <1>2 DEF SaveProfile, Held
  <2>4. CallsOK' /\ Held'
    <3>1. crossed' \in BOOLEAN /\ faults' = faults /\ form' # None
      BY <1>2, <2>3 DEF SaveProfile, Crosses, CallsOK
    <3> QED
      BY <2>1, <2>2, <2>3, <3>1, CallsTyped DEF CallsOK
  <2>5. CodesOK' /\ Sent'
    <3>1. made \in Nat /\ made' = made
      BY <1>2 DEF SaveProfile, CodesOK
    <3>2. CASE UNCHANGED << otp, cooling >>
      BY <3>1, <3>2, <2>3, <1>2 DEF CodesOK, Sent, SaveProfile
    <3>3. CASE otp' = NoCode /\ cooling' = FALSE
      BY <3>1, <3>3, Unmade DEF CodesOK, Sent
    <3> QED
      BY <1>2, <3>2, <3>3 DEF SaveProfile
  <2>6. DetailsOK' /\ DocumentsOK'
    BY <1>2, <2>3 DEF SaveProfile, DetailsOK, DocumentsOK
  <2> QED
    BY <2>4, <2>5, <2>6
<1>3. ASSUME NEW k \in Calls, CheckEvidence(k)
      PROVE  Sound'
  <2> DEFINE want == IF call[k].flag /\ Needs[call[k].on] \subseteq Filed({"PENDING", "APPROVED"})
                     THEN "PENDING_REVIEW" ELSE "IN_PROGRESS"
             r == [call[k] EXCEPT !.pc = "submit", !.want = want]
  <2>1. r \in CallState /\ r.pc = "submit" /\ r.want # "none"
    BY DEF CallsOK, CallState, CallPC
  <2>2. call' = [call EXCEPT ![k] = r]
    BY <1>3 DEF CheckEvidence, CallsOK
  <2> HIDE DEF r
  <2>3. CallsOK' /\ Held'
    BY <1>3, <2>1, <2>2, CallsTyped DEF CheckEvidence, CallsOK
  <2> QED
    BY <1>3, <2>3 DEF CheckEvidence, DetailsOK, CodesOK, DocumentsOK, Sent
<1>4. ASSUME NEW k \in Calls, SetStatus(k)
      PROVE  Sound'
  <2>1. CallsOK' /\ Held'
    BY <1>4, IdleTyped, CallsTyped DEF SetStatus, Ends, CallsOK
  <2>2. status' \in {"IN_PROGRESS", "PENDING_REVIEW"}
    BY <1>4 DEF SetStatus, CallsOK, CallState, Held
  <2> QED
    BY <1>4, <2>1, <2>2 DEF SetStatus, DetailsOK, CodesOK, DocumentsOK, Sent
<1>5. ASSUME NEW k \in Calls, SendCode(k)
      PROVE  Sound'
  <2> DEFINE r == [ Idle EXCEPT !.pc = "reserve", !.seen = form ]
  <2>1. form \in Forms /\ form # None
    BY <1>5 DEF SendCode, DetailsOK
  <2>2. r \in CallState /\ r.pc = "reserve" /\ r.seen = form
    BY <2>1, ReadBegun
  <2>3. call' = [call EXCEPT ![k] = r]
    BY <1>5 DEF SendCode, Begins
  <2> HIDE DEF r
  <2>4. CallsOK' /\ Held'
    BY <1>5, <2>1, <2>2, <2>3, CallsTyped DEF SendCode, CallsOK
  <2> QED
    BY <1>5, <2>4 DEF SendCode, DetailsOK, CodesOK, DocumentsOK, Sent
<1>6. ASSUME NEW k \in Calls, Reserve(k)
      PROVE  Sound'
  <2>1. CASE /\ ~cooling /\ made < MaxCodes
             /\ made' = made + 1
             /\ otp' = [ NoCode EXCEPT !.code = made', !.to = Phone[call[k].seen] ]
             /\ cooling' = TRUE
             /\ call' = [call EXCEPT ![k].pc = "sms", ![k].hash = made', ![k].seen = None]
    <3>1. made \in 0 .. MaxCodes /\ made' \in 0 .. MaxCodes /\ made' \in Nat
      BY <2>1 DEF CodesOK
    <3>2. Phone[call[k].seen] \in Phones /\ form # None
      BY <1>6 DEF Reserve, Held, Phones
    <3>3. /\ otp' \in [ code : 0 .. made', tries : 0 .. MaxTries, expired : BOOLEAN,
                        to : Phones \cup {None}, arrived : BOOLEAN ]
          /\ otp'.to = Phone[call[k].seen]
      <4> HIDE DEF Sound
      <4> QED
        BY <2>1, <3>1, <3>2, Made
    <3> DEFINE r == [call[k] EXCEPT !.pc = "sms", !.hash = made', !.seen = None]
    <3>4. r \in CallState /\ r.pc = "sms"
      BY <3>1 DEF CallsOK, CallState, CallPC
    <3>5. call' = [call EXCEPT ![k] = r]
      BY <2>1 DEF CallsOK
    <3> HIDE DEF r
    <3>6. CallsOK' /\ Held'
      BY <1>6, <3>4, <3>5, CallsTyped DEF Reserve, CallsOK
    <3>7. CodesOK' /\ Sent'
      BY <1>6, <2>1, <3>1, <3>2, <3>3 DEF Reserve, CodesOK, Sent
    <3> QED
      BY <1>6, <3>6, <3>7 DEF Reserve, DetailsOK, DocumentsOK
  <2>2. CASE Ends(k) /\ UNCHANGED << otp, cooling, made >>
    <3>1. CallsOK' /\ Held'
      BY <1>6, <2>2, IdleTyped, CallsTyped DEF Reserve, Ends, CallsOK
    <3> QED
      BY <1>6, <2>2, <3>1 DEF Reserve, DetailsOK, CodesOK, DocumentsOK, Sent
  <2> QED
    BY <1>6, <2>1, <2>2 DEF Reserve
<1>7. ASSUME NEW k \in Calls, Sms(k) \/ Release(k) \/ Wrong(k) \/ Consume(k)
      PROVE  Sound'
  <2>1. CallsOK' /\ Held'
    <3>1. CASE Ends(k)
      BY <1>7, <3>1, IdleTyped, CallsTyped DEF Sms, Release, Wrong, Consume, Ends, CallsOK
    <3>2. CASE Sms(k) /\ Goes(k, "release")
      BY <3>2 DEF Sms, Goes, CallsOK, Held, CallState, CallPC
    <3> QED
      BY <1>7, <3>1, <3>2 DEF Sms, Release, Wrong, Consume
  <2>2. /\ made' = made /\ cooling' \in BOOLEAN
        /\ \/ otp' = otp \/ otp' = NoCode
           \/ \E b \in BOOLEAN : otp' = [otp EXCEPT !.arrived = b]
           \/ otp' = [otp EXCEPT !.tries = @ + 1] /\ otp.tries < MaxTries
    <3>1. CASE Sms(k)
      <4>1. otp.arrived \in BOOLEAN /\ (otp.arrived \/ otp.code = call[k].hash) \in BOOLEAN
        BY DEF CodesOK
      <4>2. otp' = otp \/ otp' = [otp EXCEPT !.arrived = otp.arrived \/ otp.code = call[k].hash]
        BY <3>1 DEF Sms, CodesOK
      <4> QED
        BY <3>1, <4>1, <4>2 DEF Sms, CodesOK
    <3>2. CASE Release(k) \/ Wrong(k) \/ Consume(k)
      BY <3>2 DEF Release, Wrong, Consume, Still, CodesOK
    <3> QED
      BY <1>7, <3>1, <3>2
  <2>3. CodesOK'
    BY <2>2, Unmade DEF CodesOK
  <2>4. Sent'
    <3>1. otp'.code = 0 \/ (otp'.code = otp.code /\ otp'.to = otp.to)
      <4>1. NoCode.code = 0
        BY DEF NoCode
      <4>2. CASE otp' = otp \/ otp' = NoCode
        BY <4>1, <4>2
      <4>3. CASE \E b \in BOOLEAN : otp' = [otp EXCEPT !.arrived = b]
        BY <4>3 DEF CodesOK
      <4>4. CASE otp' = [otp EXCEPT !.tries = @ + 1]
        BY <4>4 DEF CodesOK
      <4> QED
        BY <2>2, <4>2, <4>3, <4>4
    <3> QED
      BY <1>7, <3>1 DEF Sms, Release, Wrong, Consume, Sent
  <2>5. DetailsOK'
    <3>1. CASE UNCHANGED << verified, proof >>
      BY <1>7, <3>1 DEF Sms, Release, Wrong, Consume, DetailsOK
    <3>2. CASE Consume(k) /\ Still(k)
      BY <3>2 DEF Consume, Still, Sent, DetailsOK
    <3> QED
      BY <1>7, <3>1, <3>2 DEF Sms, Release, Wrong, Consume
  <2> QED
    BY <1>7, <2>1, <2>3, <2>4, <2>5 DEF Sms, Release, Wrong, Consume, DocumentsOK
<1>8. ASSUME NEW k \in Calls, Guess(k)
      PROVE  Sound'
  <2>1. PICK pc \in {"consume", "wrong"} :
          call' = [call EXCEPT ![k] = [ Idle EXCEPT !.pc = pc, !.hash = otp.code ]]
    BY <1>8 DEF Guess, Begins
  <2> DEFINE n == otp.code
             r == [ Idle EXCEPT !.pc = pc, !.hash = n ]
  <2>2. n \in 0 .. MaxCodes
    BY DEF CodesOK
  <2>3. r \in CallState /\ r.pc = pc
    <3> HIDE DEF n
    <3> QED
      BY <2>2, AnswerBegun
  <2> HIDE DEF r
  <2>4. CallsOK' /\ Held'
    BY <1>8, <2>1, <2>3, CallsTyped DEF Guess, CallsOK, r
  <2> QED
    BY <1>8, <2>4 DEF Guess, DetailsOK, CodesOK, DocumentsOK, Sent
<1>9. ASSUME NEW k \in Calls, NEW d \in Docs, Upload(k, d) \/ Sweep(k, d)
      PROVE  Sound'
  <2>1. PICK pc \in {"put", "erase"} :
          call' = [call EXCEPT ![k] = [ Idle EXCEPT !.pc = pc, !.on = d ]]
    BY <1>9 DEF Upload, Sweep, Begins
  <2> DEFINE r == [ Idle EXCEPT !.pc = pc, !.on = d ]
  <2>2. r \in CallState /\ r.pc = pc /\ r.on = d
    BY FileBegun
  <2> HIDE DEF r
  <2>3. CallsOK' /\ Held'
    BY <1>9, <2>1, <2>2, CallsTyped DEF Upload, Sweep, CallsOK, r
  <2> QED
    BY <1>9, <2>3 DEF Upload, Sweep, DetailsOK, CodesOK, DocumentsOK, Sent
<1>10. ASSUME NEW k \in Calls,
              Put(k) \/ Row(k) \/ Undo(k) \/ Erase(k) \/ Forget(k) \/ Papers(k) \/ Decide(k)
       PROVE  Sound'
  <2>1. CallsOK' /\ Held'
    <3>1. CASE Put(k)
      BY <3>1 DEF Put, Goes, CallsOK, Held, CallState, CallPC
    <3>2. CASE Erase(k)
      BY <3>2 DEF Erase, Goes, CallsOK, Held, CallState, CallPC
    <3>3. CASE Papers(k)
      <4>1. CASE Goes(k, "decide")
        BY <3>3, <4>1 DEF Papers, Goes, CallsOK, Held, CallState, CallPC
      <4>2. CASE Ends(k)
        BY <3>3, <4>2, IdleTyped, CallsTyped DEF Papers, Ends, CallsOK
      <4> QED
        BY <3>3, <4>1, <4>2 DEF Papers
    <3>4. CASE Row(k) \/ Undo(k) \/ Forget(k) \/ Decide(k)
      BY <3>4, IdleTyped, CallsTyped DEF Row, Undo, Forget, Decide, Ends, CallsOK
    <3> QED
      BY <1>10, <3>1, <3>2, <3>3, <3>4
  <2>2. DocumentsOK'
    <3>1. CASE Put(k) \/ Undo(k) \/ Erase(k) \/ Row(k) \/ Forget(k)
      <4>1. call[k].on \in Docs
        BY <3>1 DEF Put, Undo, Erase, Row, Forget, Held
      <4> QED
        BY <3>1, <4>1 DEF Put, Undo, Erase, Row, Forget, DocumentsOK
    <3>2. CASE Papers(k) \/ Decide(k)
      BY <3>2 DEF Papers, Decide, Decides, DocumentsOK
    <3> QED
      BY <1>10, <3>1, <3>2
  <2>3. DetailsOK'
    BY <1>10 DEF Put, Row, Undo, Erase, Forget, Papers, Decide, Decides, DetailsOK
  <2>4. CodesOK' /\ Sent'
    BY <1>10 DEF Put, Row, Undo, Erase, Forget, Papers, Decide, CodesOK, Sent
  <2> QED
    BY <2>1, <2>2, <2>3, <2>4
<1>11. ASSUME NEW k \in Calls, Approve(k)
       PROVE  Sound'
  <2> DEFINE r == [ Idle EXCEPT !.pc = "papers", !.seen = form ]
  <2>1. form \in Forms
    BY <1>11 DEF Approve, DetailsOK
  <2>2. r \in CallState /\ r.pc = "papers"
    BY <2>1, ReadBegun
  <2>3. call' = [call EXCEPT ![k] = r]
    BY <1>11 DEF Approve, Begins
  <2> HIDE DEF r
  <2>4. CallsOK' /\ Held'
    BY <1>11, <2>2, <2>3, CallsTyped DEF Approve, CallsOK
  <2> QED
    BY <1>11, <2>4 DEF Approve, DetailsOK, CodesOK, DocumentsOK, Sent
<1>12. ASSUME NEW k \in Calls, Fails(k) \/ Drop(k)
       PROVE  Sound'
  <2>1. faults' \in 0 .. MaxFaults
    BY <1>12 DEF Fails, Drop, CallsOK
  <2>2. CallsOK' /\ Held'
    <3>1. CASE Ends(k)
      BY <1>12, <2>1, <3>1, IdleTyped, CallsTyped DEF Fails, Drop, Ends, CallsOK
    <3>2. CASE Fails(k) /\ call[k].pc \in {"put", "row"} /\ Goes(k, "undo")
      BY <2>1, <3>2 DEF Fails, Goes, CallsOK, Held, CallState, CallPC
    <3> QED
      BY <1>12, <3>1, <3>2 DEF Fails, Drop
  <2> QED
    BY <1>12, <2>2 DEF Fails, Drop, DetailsOK, CodesOK, DocumentsOK, Sent
<1>13. ASSUME NEW d \in Docs, Examine(d)
       PROVE  Sound'
  <2>1. DocumentsOK'
    BY <1>13 DEF Examine, DocumentsOK
  <2> QED
    BY <1>13, <2>1 DEF Examine, DetailsOK, CodesOK, CallsOK, Held, Sent
<1>14. CASE Cool \/ Expire
  <2>1. CodesOK' /\ Sent'
    BY <1>14 DEF Cool, Expire, CodesOK, Sent
  <2> QED
    BY <1>14, <2>1 DEF Cool, Expire, DetailsOK, DocumentsOK, CallsOK, Held
<1>15. CASE Reject \/ Request
  <2>1. DetailsOK' /\ DocumentsOK'
    BY <1>15 DEF Reject, Request, Decides, DetailsOK, DocumentsOK
  <2> QED
    BY <1>15, <2>1 DEF Reject, Request, CodesOK, CallsOK, Held, Sent
<1>16. CASE UNCHANGED vars
  BY <1>16 DEF vars, DetailsOK, CodesOK, DocumentsOK, CallsOK, Held, Sent
<1> HIDE VerificationAssumption
    DEF Sound, TypeOK, At, phone, evidence, bounds, Filing, Erasing
<1> QED
  BY <1>1, <1>2, <1>3, <1>4, <1>5, <1>6, <1>7, <1>8, <1>9, <1>10, <1>11, <1>12,
     <1>13, <1>14, <1>15, <1>16 DEF Next, Steps

LEMMA SoundHolds == Spec => []Sound
<1>1. Init => Sound
  <2> SUFFICES ASSUME Init PROVE Sound
    OBVIOUS
  <2>1. NoCode \in [ code : 0 .. 0, tries : 0 .. MaxTries, expired : BOOLEAN,
                     to : Phones \cup {None}, arrived : BOOLEAN ] /\ NoCode.code = 0
    BY Unmade
  <2>2. CodesOK /\ Sent
    <3>2. 0 \in 0 .. MaxCodes
      BY VerificationAssumption
    <3>1. made \in 0 .. MaxCodes /\ made = 0 /\ cooling \in BOOLEAN /\ otp = NoCode
      BY <3>2 DEF Init
    <3> QED
      BY <2>1, <3>1 DEF CodesOK, Sent
  <2>3. DetailsOK /\ DocumentsOK
    BY VerificationAssumption DEF Init, DetailsOK, DocumentsOK
  <2>4. CallsOK /\ Held
    <3>1. \A k \in Calls : call[k] = Idle
      BY DEF Init
    <3>4. 0 \in 0 .. MaxFaults
      BY VerificationAssumption
    <3>2. faults \in 0 .. MaxFaults /\ crossed \in BOOLEAN
      BY <3>4 DEF Init
    <3>3. call \in [Calls -> CallState]
      BY IdleTyped DEF Init
    <3> QED
      BY IdleTyped, <3>1, <3>2, <3>3 DEF CallsOK, Held, Filing, Erasing
  <2> QED
    BY <2>2, <2>3, <2>4 DEF Sound, TypeOK
<1> QED
  BY <1>1, SoundStep, PTL DEF Spec

(* The state has its type, whatever requests and failures there are; with it a
   phone is verified only by a code of a phone that was saved. *)
THEOREM VerificationTyped == Spec => []TypeOK
BY SoundHolds, PTL DEF Sound

-----------------------------------------------------------------------------
(* As long as no request crossed another's change of the details: what is
   stored of the phone, and what requests have read of it, is of the profile. *)
Matching ==
  ~crossed =>
    /\ verified => proof = Phone[form]
    /\ otp.code # 0 => otp.to = Phone[form]
    /\ \A k \in Calls :
         /\ At(k, "save") => (call[k].flag <=> (form = None \/ Phone[form] # Phone[call[k].on]))
         /\ At(k, "reserve") => call[k].seen = form

LEMMA MatchingKept ==
  ASSUME Matching, form' = form, crossed' = crossed,
         verified' => verified /\ proof' = proof,
         otp'.code # 0 => otp.code # 0 /\ otp'.to = otp.to,
         \A k \in Calls : call'[k] = call[k] \/ call'[k].pc \notin {"save", "reserve"}
  PROVE  Matching'
BY DEF Matching, At

LEMMA MatchingStep ==
  ASSUME Sound, Matching, [Next]_vars
  PROVE  Matching'
<1> USE DEF Sound, TypeOK, At, phone, evidence, bounds
<1>1. ASSUME NEW k \in Calls, NEW f \in Forms, Save(k, f)
      PROVE  Matching'
  <2>1. \A j \in Calls \ {k} : call'[j] = call[j]
    BY <1>1, OthersWait
  <2>2. /\ call'[k].pc = "save" /\ call'[k].on = f
        /\ call'[k].flag <=> (form = None \/ Phone[form] # Phone[f])
    <3> DEFINE flag == form = None \/ Phone[form] # Phone[f]
    <3>1. flag \in BOOLEAN
      OBVIOUS
    <3> DEFINE r == [ Idle EXCEPT !.pc = "save", !.on = f, !.flag = flag ]
    <3>2. call'[k] = r
      BY <1>1 DEF Save, Begins, CallsOK
    <3> HIDE DEF flag
    <3>3. r.pc = "save" /\ r.on = f /\ r.flag = flag
      BY <3>1, SaveBegun
    <3> HIDE DEF r
    <3> QED
      BY <3>2, <3>3 DEF flag
  <2> QED
    BY <1>1, <2>1, <2>2 DEF Save, Matching
<1>2. ASSUME NEW k \in Calls, SaveProfile(k)
      PROVE  Matching'
  <2> SUFFICES ASSUME ~crossed' PROVE Matching'
    BY DEF Matching
  <2>1. /\ \A j \in Calls \ {k} : call[j].pc \notin {"save", "reserve"}
        /\ ~crossed
    BY <1>2 DEF SaveProfile, Crosses, Readers
  <2>2. /\ \A j \in Calls \ {k} : call'[j] = call[j]
        /\ call'[k].pc = "check"
    BY <1>2 DEF SaveProfile, CallsOK, CallState
  <2>3. /\ form' = call[k].on /\ call[k].pc = "save"
        /\ IF call[k].flag THEN ~verified' /\ otp'.code = 0
           ELSE verified' = verified /\ proof' = proof /\ otp' = otp
    BY <1>2 DEF SaveProfile, NoCode
  <2>4. ~call[k].flag => form # None /\ Phone[form'] = Phone[form]
    BY <2>1, <2>3 DEF Matching
  <2> QED
    BY <2>1, <2>2, <2>3, <2>4 DEF Matching
<1>3. ASSUME NEW k \in Calls, SendCode(k)
      PROVE  Matching'
  <2>1. \A j \in Calls \ {k} : call'[j] = call[j]
    BY <1>3, OthersWait
  <2>2. call'[k].pc = "reserve" /\ call'[k].seen = form
    <3>1. call'[k] = [ Idle EXCEPT !.pc = "reserve", !.seen = form ]
      BY <1>3 DEF SendCode, Begins, CallsOK
    <3>2. form \in Forms
      BY <1>3 DEF SendCode, DetailsOK
    <3> QED
      BY <3>1, <3>2, ReadBegun
  <2> QED
    BY <1>3, <2>1, <2>2 DEF SendCode, Matching
<1>4. ASSUME NEW k \in Calls, Reserve(k)
      PROVE  Matching'
  <2>1. \A j \in Calls \ {k} : call'[j] = call[j]
    BY <1>4, OthersWait DEF Steps
  <2>2. call'[k].pc \in {"sms", "idle"}
    BY <1>4 DEF Reserve, Ends, Idle, CallsOK, CallState
  <2>3. CASE UNCHANGED otp
    BY <1>4, <2>1, <2>2, <2>3, MatchingKept DEF Reserve
  <2>4. CASE otp' = [ NoCode EXCEPT !.code = made', !.to = Phone[call[k].seen] ]
    <3>1. otp'.to = Phone[call[k].seen]
      BY <2>4 DEF NoCode
    <3> QED
      BY <1>4, <2>1, <2>2, <3>1 DEF Reserve, Matching
  <2> QED
    BY <1>4, <2>3, <2>4 DEF Reserve
<1>5. ASSUME NEW k \in Calls, Consume(k)
      PROVE  Matching'
  <2>1. \A j \in Calls \ {k} : call'[j] = call[j]
    BY <1>5, OthersWait DEF Steps
  <2>2. call'[k].pc = "idle"
    BY <1>5 DEF Consume, Ends, Idle, CallsOK
  <2>3. CASE ~Still(k)
    BY <1>5, <2>1, <2>2, <2>3, MatchingKept DEF Consume
  <2>4. CASE Still(k)
    BY <1>5, <2>1, <2>2, <2>4 DEF Consume, Matching, Still, NoCode
  <2> QED
    BY <2>3, <2>4
<1>6. ASSUME NEW k \in Calls,
             \/ CheckEvidence(k) \/ SetStatus(k) \/ Sms(k) \/ Release(k) \/ Wrong(k)
             \/ Put(k) \/ Row(k) \/ Undo(k) \/ Papers(k) \/ Decide(k) \/ Erase(k)
             \/ Forget(k) \/ Guess(k) \/ Approve(k) \/ Fails(k) \/ Drop(k)
             \/ \E d \in Docs : Upload(k, d) \/ Sweep(k, d)
      PROVE  Matching'
  <2>1. \A j \in Calls \ {k} : call'[j] = call[j]
    BY <1>6, OthersWait DEF Steps
  <2>2. call'[k].pc \notin {"save", "reserve"}
    <3>1. CASE CheckEvidence(k)
      BY <3>1 DEF CheckEvidence, CallsOK, CallState
    <3>2. CASE \E pc \in {"release", "row", "undo", "decide", "forget"} : Goes(k, pc)
      BY <3>2 DEF Goes, CallsOK, CallState
    <3>3. CASE Ends(k)
      BY <3>3 DEF Ends, Idle, CallsOK
    <3>4. CASE Guess(k) \/ Approve(k) \/ \E d \in Docs : Upload(k, d) \/ Sweep(k, d)
      <4>1. \E pc \in {"consume", "wrong", "papers", "put", "erase"} : \E x :
              \/ call'[k] = [ Idle EXCEPT !.pc = pc, !.hash = x ]
              \/ call'[k] = [ Idle EXCEPT !.pc = pc, !.seen = x ]
              \/ call'[k] = [ Idle EXCEPT !.pc = pc, !.on = x ]
        BY <3>4 DEF Guess, Approve, Upload, Sweep, Begins, CallsOK
      <4> QED
        BY <4>1 DEF Idle
    <3> QED
      BY <1>6, <3>1, <3>2, <3>3, <3>4 DEF SetStatus, Sms, Release, Wrong, Put, Row, Undo,
         Papers, Decide, Erase, Forget, Fails, Drop
  <2>3. form' = form /\ crossed' = crossed /\ verified' = verified /\ proof' = proof
    BY <1>6 DEF CheckEvidence, SetStatus, Sms, Release, Wrong, Put, Row, Undo, Papers,
       Decide, Erase, Forget, Guess, Approve, Fails, Drop, Upload, Sweep
  <2>4. otp'.code # 0 => otp.code # 0 /\ otp'.to = otp.to
    <3>1. CASE Sms(k) \/ Wrong(k)
      BY <3>1 DEF Sms, Wrong, CodesOK
    <3>2. CASE Release(k)
      BY <3>2 DEF Release, NoCode
    <3>3. CASE UNCHANGED otp
      BY <3>3
    <3> QED
      BY <1>6, <3>1, <3>2, <3>3 DEF CheckEvidence, SetStatus, Put, Row, Undo, Papers,
         Decide, Erase, Forget, Guess, Approve, Fails, Drop, Upload, Sweep
  <2> QED
    BY <2>1, <2>2, <2>3, <2>4, MatchingKept
<1>7. ASSUME \/ \E d \in Docs : Examine(d)
             \/ Cool \/ Expire \/ Reject \/ Request \/ UNCHANGED vars
      PROVE  Matching'
  <2>1. /\ form' = form /\ crossed' = crossed /\ verified' = verified
        /\ proof' = proof /\ call' = call
    BY <1>7 DEF Examine, Cool, Expire, Reject, Request, vars
  <2>2. otp'.code # 0 => otp.code # 0 /\ otp'.to = otp.to
    BY <1>7 DEF Examine, Cool, Expire, Reject, Request, vars, CodesOK
  <2> QED
    BY <2>1, <2>2, MatchingKept
<1> QED
  BY <1>1, <1>2, <1>3, <1>4, <1>5, <1>6, <1>7 DEF Next, Steps

(* The phone of the profile is verified only by a code that was sent to it,
   whatever requests run together, unless two of them crossed. *)
THEOREM CodesProvePhones == Spec => []CodeProvesPhone
<1>1. Init => Matching
  BY DEF Init, Matching, At, Idle, NoCode
<1>2. Matching => CodeProvesPhone
  BY DEF Matching, CodeProvesPhone
<1> QED
  BY <1>1, <1>2, MatchingStep, SoundHolds, PTL DEF Spec

(* Whatever answers race, a code verifies nothing once its wrong answers are
   as many as are allowed. *)
THEOREM GuessesAreLimited == Spec => GuessLimit
<1>1. ASSUME Sound, [Next]_vars
      PROVE  [otp.tries >= MaxTries /\ verified' => verified]_vars
  <2> SUFFICES ASSUME Next, otp.tries >= MaxTries, ~verified
               PROVE  ~verified'
    BY <1>1
  <2>1. otp.tries \in Nat /\ MaxTries \in Nat
    BY <1>1, VerificationAssumption DEF Sound, TypeOK, CodesOK
  <2>2. ~(otp.tries < MaxTries)
    BY <2>1
  <2> USE DEF phone
  <2>3. ASSUME NEW k \in Calls, Steps(k) \/ SendCode(k) \/ Guess(k) \/ Approve(k)
                                \/ Fails(k) \/ Drop(k)
        PROVE  ~verified'
    BY <2>2, <2>3 DEF Steps, SaveProfile, CheckEvidence, SetStatus, Reserve, Sms,
       Release, Wrong, Consume, Still, Put, Row, Undo, Papers, Decide, Erase, Forget,
       SendCode, Guess, Approve, Fails, Drop
  <2> QED
    BY <2>3 DEF Next, Save, Upload, Sweep, Examine, Cool, Expire, Reject, Request
<1> QED
  BY <1>1, SoundHolds, PTL DEF Spec, GuessLimit

-----------------------------------------------------------------------------
(* Of the requests that send a message, each holds a code of its own, which has
   not arrived. *)
Sending == {"sms", "release"}

Undelivered ==
  /\ otp.arrived => otp.code # 0
  /\ \A k \in Calls : call[k].pc \in Sending =>
       /\ call[k].hash \in 1 .. made
       /\ otp.code = call[k].hash => ~otp.arrived
       /\ \A j \in Calls \ {k} : call[j].pc \in Sending => call[j].hash # call[k].hash

LEMMA UndeliveredKept ==
  ASSUME Undelivered, made' = made,
         \/ otp'.code = 0 /\ ~otp'.arrived
         \/ otp'.code = otp.code /\ otp'.arrived = otp.arrived,
         \A k \in Calls : call'[k].pc \in Sending =>
                            call[k].pc \in Sending /\ call'[k].hash = call[k].hash
  PROVE  Undelivered'
<1>1. otp'.arrived => otp'.code # 0
  BY DEF Undelivered
<1>2. ASSUME NEW k \in Calls, call'[k].pc \in Sending
      PROVE  /\ call'[k].hash \in 1 .. made'
             /\ otp'.code = call'[k].hash => ~otp'.arrived
             /\ \A j \in Calls \ {k} : call'[j].pc \in Sending
                                       => call'[j].hash # call'[k].hash
  BY <1>2 DEF Undelivered
<1> QED
  BY <1>1, <1>2 DEF Undelivered

LEMMA UndeliveredStep ==
  ASSUME Sound, Undelivered, [Next]_vars
  PROVE  Undelivered'
<1> USE DEF Sound, TypeOK, At, phone, evidence, bounds
<1>1. ASSUME NEW k \in Calls, Reserve(k)
      PROVE  Undelivered'
  <2>1. \A j \in Calls \ {k} : call'[j] = call[j]
    BY <1>1, OthersWait DEF Steps
  <2>2. CASE Ends(k) /\ UNCHANGED << otp, made >>
    <3>1. call'[k].pc = "idle"
      BY <2>2 DEF Ends, Idle, CallsOK
    <3> QED
      BY <2>1, <2>2, <3>1, UndeliveredKept DEF Sending
  <2>3. CASE ~(Ends(k) /\ UNCHANGED << otp, made >>)
    <3>1. /\ made' = made + 1 /\ made \in Nat
          /\ otp' = [ NoCode EXCEPT !.code = made', !.to = Phone[call[k].seen] ]
          /\ call' = [call EXCEPT ![k].pc = "sms", ![k].hash = made', ![k].seen = None]
      BY <1>1, <2>3 DEF Reserve, CodesOK
    <3>2. ~otp'.arrived /\ otp'.code = made'
      BY <3>1 DEF NoCode
    <3>3. call'[k].hash = made'
      BY <3>1 DEF CallsOK, CallState
    <3>4. \A j \in Calls \ {k} : call'[j].pc \in Sending => call'[j].hash \in 1 .. made
      BY <2>1 DEF Undelivered
    <3>5. \A n \in 1 .. made : n \in 1 .. made' /\ n # made'
      BY <3>1
    <3>6. made' \in 1 .. made' /\ otp'.code # 0
      BY <3>1, <3>2
    <3> HIDE DEF Sound
    <3> QED
      BY <2>1, <3>2, <3>3, <3>4, <3>5, <3>6 DEF Undelivered
  <2> QED
    BY <2>2, <2>3
<1>2. ASSUME NEW k \in Calls, Sms(k)
      PROVE  Undelivered'
  <2>1. \A j \in Calls \ {k} : call'[j] = call[j]
    BY <1>2, OthersWait DEF Steps
  <2>2. call[k].pc \in Sending /\ made' = made
    BY <1>2 DEF Sms, Sending
  <2>3. CASE otp' = otp
    <3>1. call'[k].pc \in Sending => call'[k].hash = call[k].hash
      <4>1. CASE Ends(k)
        BY <4>1 DEF Ends, Idle, CallsOK, Sending
      <4>2. CASE Goes(k, "release")
        BY <4>2 DEF Goes, CallsOK, CallState
      <4> QED
        BY <1>2, <4>1, <4>2 DEF Sms
    <3> QED
      BY <2>1, <2>2, <2>3, <3>1, UndeliveredKept
  <2>4. CASE otp' # otp
    <3>1. /\ call'[k].pc = "idle" /\ otp'.code = otp.code
          /\ otp'.arrived => otp.arrived \/ otp.code = call[k].hash
      BY <1>2, <2>4 DEF Sms, Ends, Idle, CallsOK, CodesOK
    <3>2. otp'.arrived => otp'.code # 0
      <4>1. call[k].hash # 0
        BY <2>2 DEF Undelivered, CodesOK
      <4> QED
        BY <3>1, <4>1 DEF Undelivered
    <3> HIDE DEF Sound
    <3>3. ASSUME NEW j \in Calls \ {k}, call'[j].pc \in Sending
          PROVE  /\ call'[j].hash \in 1 .. made'
                 /\ otp'.code = call'[j].hash => ~otp'.arrived
                 /\ \A i \in Calls \ {j} : call'[i].pc \in Sending
                                           => call'[i].hash # call'[j].hash
      BY <2>1, <2>2, <3>1, <3>3 DEF Undelivered, Sending
    <3> QED
      BY <3>1, <3>2, <3>3 DEF Undelivered, Sending
  <2> QED
    BY <2>3, <2>4
<1>3. ASSUME NEW k \in Calls,
             \/ SaveProfile(k) \/ CheckEvidence(k) \/ SetStatus(k)
             \/ Release(k) \/ Wrong(k) \/ Consume(k)
             \/ Put(k) \/ Row(k) \/ Undo(k) \/ Papers(k) \/ Decide(k) \/ Erase(k)
             \/ Forget(k) \/ SendCode(k) \/ Guess(k) \/ Approve(k) \/ Fails(k) \/ Drop(k)
             \/ \E f \in Forms : Save(k, f)
             \/ \E d \in Docs : Upload(k, d) \/ Sweep(k, d)
      PROVE  Undelivered'
  <2>1. \A j \in Calls \ {k} : call'[j] = call[j]
    BY <1>3, OthersWait DEF Steps
  <2>2. call'[k].pc \notin Sending
    <3>1. CASE SaveProfile(k) \/ CheckEvidence(k)
      BY <3>1 DEF SaveProfile, CheckEvidence, CallsOK, CallState, Sending
    <3>2. CASE \E pc \in {"row", "undo", "decide", "forget"} : Goes(k, pc)
      BY <3>2 DEF Goes, CallsOK, CallState, Sending
    <3>3. CASE Ends(k)
      BY <3>3 DEF Ends, Idle, CallsOK, Sending
    <3>4. CASE \/ SendCode(k) \/ Guess(k) \/ Approve(k)
               \/ \E f \in Forms : Save(k, f)
               \/ \E d \in Docs : Upload(k, d) \/ Sweep(k, d)
      <4>1. CASE \E f \in Forms : Save(k, f)
        BY <4>1 DEF Save, Begins, Idle, CallsOK, Sending
      <4>2. CASE ~ \E f \in Forms : Save(k, f)
        <5>1. \E pc \in {"reserve", "consume", "wrong", "papers", "put", "erase"} : \E x :
                \/ call'[k] = [ Idle EXCEPT !.pc = pc, !.hash = x ]
                \/ call'[k] = [ Idle EXCEPT !.pc = pc, !.seen = x ]
                \/ call'[k] = [ Idle EXCEPT !.pc = pc, !.on = x ]
          <6> DEFINE Opens(pc, x) ==
                \/ call'[k] = [ Idle EXCEPT !.pc = pc, !.hash = x ]
                \/ call'[k] = [ Idle EXCEPT !.pc = pc, !.seen = x ]
                \/ call'[k] = [ Idle EXCEPT !.pc = pc, !.on = x ]
          <6>1. CASE SendCode(k)
            <7> Opens("reserve", form)
              BY <6>1 DEF SendCode, Begins, CallsOK
            <7> QED  OBVIOUS
          <6>2. CASE Guess(k)
            <7> Opens("consume", otp.code) \/ Opens("wrong", otp.code)
              BY <6>2 DEF Guess, Begins, CallsOK
            <7> QED  OBVIOUS
          <6>3. CASE Approve(k)
            <7> Opens("papers", form)
              BY <6>3 DEF Approve, Begins, CallsOK
            <7> QED  OBVIOUS
          <6>4. ASSUME NEW d \in Docs, Upload(k, d) \/ Sweep(k, d)
                PROVE  Opens("put", d) \/ Opens("erase", d)
            BY <6>4 DEF Upload, Sweep, Begins, CallsOK
          <6> QED
            BY <3>4, <4>2, <6>1, <6>2, <6>3, <6>4
        <5> QED
          BY <5>1 DEF Idle, Sending
      <4> QED
        BY <4>1, <4>2
    <3> QED
      BY <1>3, <3>1, <3>2, <3>3, <3>4 DEF SetStatus, Release, Wrong, Consume, Put, Row,
         Undo, Papers, Decide, Erase, Forget, Fails, Drop
  <2>3. /\ made' = made
        /\ \/ otp'.code = 0 /\ ~otp'.arrived
           \/ otp'.code = otp.code /\ otp'.arrived = otp.arrived
    <3>1. CASE UNCHANGED << otp, made >>
      BY <3>1
    <3>2. CASE otp' = NoCode /\ made' = made
      BY <3>2 DEF NoCode
    <3>3. CASE Wrong(k)
      BY <3>3 DEF Wrong, CodesOK
    <3> QED
      BY <1>3, <3>1, <3>2, <3>3 DEF SaveProfile, CheckEvidence, SetStatus, Release,
         Consume, Put, Row, Undo, Papers, Decide, Erase, Forget, SendCode, Guess,
         Approve, Fails, Drop, Save, Upload, Sweep
  <2> QED
    BY <2>1, <2>2, <2>3, UndeliveredKept
<1>4. ASSUME \/ \E d \in Docs : Examine(d)
             \/ Cool \/ Expire \/ Reject \/ Request \/ UNCHANGED vars
      PROVE  Undelivered'
  <2>1. /\ made' = made /\ call' = call
        /\ otp'.code = otp.code /\ otp'.arrived = otp.arrived
    BY <1>4 DEF Examine, Cool, Expire, Reject, Request, vars, CodesOK
  <2> QED
    BY <2>1, UndeliveredKept
<1> QED
  BY <1>1, <1>2, <1>3, <1>4 DEF Next, Steps

(* A code that has arrived is not taken away by another request's failed
   message. *)
THEOREM ArrivedCodesStand == Spec => ArrivedCodeStands
<1>1. Init => Undelivered
  BY DEF Init, Undelivered, Sending, Idle, NoCode
<1>2. ASSUME Sound, Undelivered, [Next]_vars
      PROVE  [ (otp.arrived /\ otp'.code = 0) =>
                 (\E k \in Calls : At(k, "consume") \/ At(k, "save")) ]_vars
  <2> SUFFICES ASSUME Next, otp.arrived, otp'.code = 0,
                      ~ \E k \in Calls : At(k, "consume") \/ At(k, "save")
               PROVE  FALSE
    BY <1>2
  <2> USE DEF phone, At
  <2>1. otp.code # 0 /\ otp \in [ code : 0 .. made, tries : 0 .. MaxTries,
          expired : BOOLEAN, to : Phones \cup {None}, arrived : BOOLEAN ] /\ made \in Nat
    BY <1>2 DEF Undelivered, Sound, TypeOK, CodesOK
  <2>2. ASSUME NEW k \in Calls, Steps(k)
        PROVE  otp'.code # 0
    <3>1. CASE Reserve(k)
      <4>1. otp' = otp \/ (otp' = [ NoCode EXCEPT !.code = made', !.to = Phone[call[k].seen] ]
                            /\ made' = made + 1)
        BY <3>1 DEF Reserve
      <4>2. CASE otp' = [ NoCode EXCEPT !.code = made', !.to = Phone[call[k].seen] ]
                 /\ made' = made + 1
        <5>1. otp'.code = made'
          BY <4>2 DEF NoCode
        <5>2. made' # 0
          BY <4>2, <2>1
        <5> QED
          BY <5>1, <5>2
      <4> QED
        BY <4>1, <4>2, <2>1
    <3>2. CASE Sms(k) \/ Wrong(k)
      BY <3>2, <2>1 DEF Sms, Wrong
    <3>3. CASE Release(k)
      BY <1>2, <3>3, <2>1 DEF Release, Undelivered, Sending
    <3>4. CASE UNCHANGED otp
      BY <3>4, <2>1
    <3> QED
      BY <2>2, <3>1, <3>2, <3>3, <3>4 DEF Steps, SaveProfile, CheckEvidence, SetStatus,
         Consume, Put, Row, Undo, Papers, Decide, Erase, Forget
  <2>3. CASE Expire
    BY <2>1, <2>3 DEF Expire
  <2> QED
    BY <2>1, <2>2, <2>3 DEF Next, SendCode, Guess, Approve, Fails, Drop, Save, Upload,
       Sweep, Examine, Cool, Reject, Request
<1> QED
  BY <1>1, <1>2, UndeliveredStep, SoundHolds, PTL DEF Spec, ArrivedCodeStands

-----------------------------------------------------------------------------
(* A document is filed by one request at a time, before it has a row; what is
   dated for deletion has a row; and what is being deleted stays dated until
   its row is gone, the file first. *)
Handles(k, d) == call[k].pc \in Filing \cup Erasing /\ call[k].on = d

Storage ==
  /\ \A d \in due : HasRow(d)
  /\ \A k \in Calls : call[k].pc \in Filing =>
       /\ doc[call[k].on] = "none"
       /\ call[k].pc = "row" => call[k].on \in object
       /\ \A j \in Calls \ {k} : ~Handles(j, call[k].on)
  /\ \A k \in Calls : call[k].pc \in Erasing =>
       call[k].on \in due \/ doc[call[k].on] = "gone"
  /\ \A k \in Calls : call[k].pc = "forget" => call[k].on \notin object

Stored ==
  \A d \in Docs :
    /\ doc[d] = "gone" => d \notin object
    /\ (d \in object /\ ~HasRow(d) /\ faults = 0)
       => \E k \in Calls : call[k].pc = "row" /\ call[k].on = d
    /\ (HasRow(d) /\ d \notin object) => d \in due

StorageOK == Storage /\ Stored

(* Requests that handle no document, before or after *)
LEMMA StorageKept ==
  ASSUME Sound, StorageOK, evidence' = evidence, faults' \in {faults, faults + 1},
         \A k \in Calls :
           \/ call'[k] = call[k]
           \/ /\ call[k].pc \notin Filing \cup Erasing
              /\ call'[k].pc \notin Filing \cup Erasing
  PROVE  StorageOK'
<1> USE DEF evidence, HasRow
<1>1. Storage'
  BY DEF StorageOK, Storage, Handles, Filing, Erasing
<1>2. faults' = 0 => faults = 0
  BY DEF Sound, TypeOK, CallsOK
<1>3. Stored'
  BY <1>2 DEF StorageOK, Stored, Filing, Erasing
<1> QED
  BY <1>1, <1>3 DEF StorageOK

LEMMA StorageStep ==
  ASSUME Sound, StorageOK, [Next]_vars
  PROVE  StorageOK'
<1> USE DEF Sound, TypeOK, At, phone, bounds
<1>1. ASSUME NEW k \in Calls, NEW d \in Docs, Upload(k, d)
      PROVE  StorageOK'
  <2>1. \A j \in Calls \ {k} : call'[j] = call[j] /\ call[j].on # d
    BY <1>1, OthersWait DEF Upload
  <2>2. call'[k].pc = "put" /\ call'[k].on = d /\ call[k].pc = "idle"
    BY <1>1 DEF Upload, Begins, Idle, CallsOK
  <2>3. UNCHANGED << doc, object, due, faults >> /\ doc[d] = "none"
    BY <1>1 DEF Upload, evidence
  <2>4. Storage'
    BY <2>1, <2>2, <2>3 DEF StorageOK, Storage, Handles, Filing, Erasing, HasRow
  <2>5. Stored'
    BY <2>1, <2>2, <2>3 DEF StorageOK, Stored, HasRow
  <2> QED
    BY <2>4, <2>5 DEF StorageOK
<1>2. ASSUME NEW k \in Calls, NEW d \in Docs, Sweep(k, d)
      PROVE  StorageOK'
  <2>1. \A j \in Calls \ {k} : call'[j] = call[j]
    BY <1>2, OthersWait
  <2>2. call'[k].pc = "erase" /\ call'[k].on = d /\ call[k].pc = "idle"
    BY <1>2 DEF Sweep, Begins, Idle, CallsOK
  <2>3. UNCHANGED << doc, object, due, faults >> /\ d \in due
    BY <1>2 DEF Sweep, evidence
  <2>4. Storage'
    BY <2>1, <2>2, <2>3 DEF StorageOK, Storage, Handles, Filing, Erasing, HasRow
  <2>5. Stored'
    BY <2>1, <2>2, <2>3 DEF StorageOK, Stored, HasRow
  <2> QED
    BY <2>4, <2>5 DEF StorageOK
<1>3. ASSUME NEW k \in Calls, Put(k)
      PROVE  StorageOK'
  <2>1. \A j \in Calls \ {k} : call'[j] = call[j]
    BY <1>3, OthersWait DEF Steps
  <2>2. call[k].pc = "put" /\ call'[k].pc = "row" /\ call'[k].on = call[k].on
    BY <1>3 DEF Put, Goes, CallsOK, CallState
  <2>3. UNCHANGED << doc, due, faults >> /\ object' = object \cup {call[k].on}
    BY <1>3 DEF Put
  <2>4. Storage'
    BY <2>1, <2>2, <2>3 DEF StorageOK, Storage, Handles, Filing, Erasing, HasRow
  <2>5. Stored'
    BY <2>1, <2>2, <2>3 DEF StorageOK, Storage, Stored, HasRow, Filing
  <2> QED
    BY <2>4, <2>5 DEF StorageOK
<1>4. ASSUME NEW k \in Calls, Row(k)
      PROVE  StorageOK'
  <2>1. \A j \in Calls \ {k} : call'[j] = call[j]
    BY <1>4, OthersWait DEF Steps
  <2>2. call[k].pc = "row" /\ call'[k].pc = "idle" /\ call[k].on \in Docs
    BY <1>4 DEF Row, Ends, Idle, CallsOK, Held, Filing, Erasing
  <2>3. /\ UNCHANGED << object, due, faults >>
        /\ doc'[call[k].on] = "PENDING"
        /\ \A d \in Docs \ {call[k].on} : doc'[d] = doc[d]
    BY <1>4, <2>2 DEF Row, DocumentsOK
  <2>4. Storage'
    BY <2>1, <2>2, <2>3 DEF StorageOK, Storage, Handles, Filing, Erasing, HasRow, Held, DocumentsOK
  <2>5. Stored'
    BY <2>1, <2>2, <2>3 DEF StorageOK, Storage, Stored, HasRow, Filing
  <2> QED
    BY <2>4, <2>5 DEF StorageOK
<1>5. ASSUME NEW k \in Calls, Undo(k)
      PROVE  StorageOK'
  <2>1. \A j \in Calls \ {k} : call'[j] = call[j]
    BY <1>5, OthersWait DEF Steps
  <2>2. call[k].pc = "undo" /\ call'[k].pc = "idle"
    BY <1>5 DEF Undo, Ends, Idle, CallsOK
  <2>3. UNCHANGED << doc, due, faults >> /\ object' = object \ {call[k].on}
    BY <1>5 DEF Undo
  <2>4. Storage'
    BY <2>1, <2>2, <2>3 DEF StorageOK, Storage, Handles, Filing, Erasing, HasRow
  <2>5. Stored'
    BY <2>1, <2>2, <2>3 DEF StorageOK, Storage, Stored, HasRow, Filing
  <2> QED
    BY <2>4, <2>5 DEF StorageOK
<1>6. ASSUME NEW k \in Calls, Erase(k)
      PROVE  StorageOK'
  <2>1. \A j \in Calls \ {k} : call'[j] = call[j]
    BY <1>6, OthersWait DEF Steps
  <2>2. call[k].pc = "erase" /\ call'[k].pc = "forget" /\ call'[k].on = call[k].on
    BY <1>6 DEF Erase, Goes, CallsOK, CallState
  <2>3. UNCHANGED << doc, due, faults >> /\ object' = object \ {call[k].on}
    BY <1>6 DEF Erase
  <2>4. Storage'
    BY <2>1, <2>2, <2>3 DEF StorageOK, Storage, Handles, Filing, Erasing, HasRow
  <2>5. Stored'
    BY <2>1, <2>2, <2>3 DEF StorageOK, Storage, Stored, HasRow, Erasing
  <2> QED
    BY <2>4, <2>5 DEF StorageOK
<1>7. ASSUME NEW k \in Calls, Forget(k)
      PROVE  StorageOK'
  <2>1. \A j \in Calls \ {k} : call'[j] = call[j]
    BY <1>7, OthersWait DEF Steps
  <2>2. call[k].pc = "forget" /\ call'[k].pc = "idle" /\ call[k].on \in Docs
    BY <1>7 DEF Forget, Ends, Idle, CallsOK, Held, Filing, Erasing
  <2>3. /\ UNCHANGED << object, faults >> /\ due' = due \ {call[k].on}
        /\ doc'[call[k].on] = "gone"
        /\ \A d \in Docs \ {call[k].on} : doc'[d] = doc[d]
    BY <1>7, <2>2 DEF Forget, DocumentsOK
  <2>4. Storage'
    BY <2>1, <2>2, <2>3 DEF StorageOK, Storage, Handles, Filing, Erasing, HasRow, Held, DocumentsOK
  <2>5. Stored'
    BY <2>1, <2>2, <2>3 DEF StorageOK, Storage, Stored, HasRow
  <2> QED
    BY <2>4, <2>5 DEF StorageOK
<1>8. ASSUME NEW k \in Calls, Fails(k) \/ Drop(k)
      PROVE  StorageOK'
  <2>1. \A j \in Calls \ {k} : call'[j] = call[j]
    BY <1>8, OthersWait
  <2>2. UNCHANGED << doc, object, due >> /\ faults' = faults + 1 /\ faults' # 0
    BY <1>8 DEF Fails, Drop, evidence, CallsOK
  <2>3. \/ call'[k].pc = "idle"
        \/ call[k].pc \in Filing /\ call'[k].pc = "undo" /\ call'[k].on = call[k].on
    BY <1>8 DEF Fails, Drop, Goes, Ends, Idle, CallsOK, CallState, Filing
  <2>4. Storage'
    BY <2>1, <2>2, <2>3 DEF StorageOK, Storage, Handles, Filing, Erasing, HasRow
  <2>5. Stored'
    BY <2>2 DEF StorageOK, Stored, HasRow
  <2> QED
    BY <2>4, <2>5 DEF StorageOK
<1>9. ASSUME NEW d \in Docs, Examine(d)
      PROVE  StorageOK'
  <2>1. /\ UNCHANGED << object, due, call, faults >>
        /\ HasRow(d) /\ doc'[d] \notin {"none", "gone"}
        /\ \A e \in Docs \ {d} : doc'[e] = doc[e]
    BY <1>9 DEF Examine, DocumentsOK
  <2>2. Storage'
    BY <2>1 DEF StorageOK, Storage, Handles, Filing, Erasing, HasRow, Held, DocumentsOK
  <2>3. Stored'
    BY <2>1 DEF StorageOK, Stored, HasRow
  <2> QED
    BY <2>2, <2>3 DEF StorageOK
<1>10. ASSUME NEW s, Decides(s), UNCHANGED << doc, object, faults >>,
              \/ call' = call
              \/ \E k \in Calls : Decide(k)
       PROVE  StorageOK'
  <2>1. \A k \in Calls : \/ call'[k] = call[k]
                         \/ call[k].pc = "decide" /\ call'[k].pc = "idle"
    BY <1>10 DEF Decide, Ends, Idle, CallsOK
  <2>2. due' = due \cup { d \in Docs : HasRow(d) }
    BY <1>10 DEF Decides
  <2>3. Storage'
    BY <1>10, <2>1, <2>2 DEF StorageOK, Storage, Handles, Filing, Erasing, HasRow
  <2>4. Stored'
    BY <1>10, <2>1, <2>2 DEF StorageOK, Stored, HasRow
  <2> QED
    BY <2>3, <2>4 DEF StorageOK
<1>11. ASSUME NEW k \in Calls,
              \/ SaveProfile(k) \/ CheckEvidence(k) \/ SetStatus(k) \/ Reserve(k)
              \/ Sms(k) \/ Release(k) \/ Wrong(k) \/ Consume(k) \/ Papers(k)
              \/ SendCode(k) \/ Guess(k) \/ Approve(k) \/ \E f \in Forms : Save(k, f)
       PROVE  StorageOK'
  <2>1. \A j \in Calls \ {k} : call'[j] = call[j]
    BY <1>11, OthersWait DEF Steps
  <2>2. evidence' = evidence /\ faults' = faults
    BY <1>11 DEF SaveProfile, CheckEvidence, SetStatus, Reserve, Sms, Release, Wrong,
       Consume, Papers, SendCode, Guess, Approve, Save, evidence
  <2>3. call[k].pc \notin Filing \cup Erasing
    BY <1>11 DEF SaveProfile, CheckEvidence, SetStatus, Reserve, Sms, Release, Wrong,
       Consume, Papers, SendCode, Guess, Approve, Save, Begins, Filing, Erasing
  <2>4. call'[k].pc \notin Filing \cup Erasing
    <3>1. CASE SaveProfile(k) \/ CheckEvidence(k)
      BY <3>1 DEF SaveProfile, CheckEvidence, CallsOK, CallState, Filing, Erasing
    <3>2. CASE Reserve(k)
      BY <3>2 DEF Reserve, Ends, Idle, CallsOK, CallState, Filing, Erasing
    <3>3. CASE \E pc \in {"release", "decide"} : Goes(k, pc)
      BY <3>3 DEF Goes, CallsOK, CallState, Filing, Erasing
    <3>4. CASE Ends(k)
      BY <3>4 DEF Ends, Idle, CallsOK, Filing, Erasing
    <3>5. CASE \E f \in Forms : Save(k, f)
      BY <3>5 DEF Save, Begins, Idle, CallsOK, Filing, Erasing
    <3>6. CASE SendCode(k) \/ Guess(k) \/ Approve(k)
      <4>1. \E pc \in {"reserve", "consume", "wrong", "papers"} : \E x :
              \/ call'[k] = [ Idle EXCEPT !.pc = pc, !.hash = x ]
              \/ call'[k] = [ Idle EXCEPT !.pc = pc, !.seen = x ]
        BY <3>6 DEF SendCode, Guess, Approve, Begins, CallsOK
      <4> QED
        BY <4>1 DEF Idle, Filing, Erasing
    <3> QED
      BY <1>11, <3>1, <3>2, <3>3, <3>4, <3>5, <3>6 DEF SetStatus, Sms, Release, Wrong,
         Consume, Papers
  <2> QED
    BY <2>1, <2>2, <2>3, <2>4, StorageKept
<1>12. ASSUME Cool \/ Expire \/ Request \/ UNCHANGED vars
       PROVE  StorageOK'
  <2>1. evidence' = evidence /\ faults' = faults /\ call' = call
    BY <1>12 DEF Cool, Expire, Request, vars, evidence
  <2> QED
    BY <2>1, StorageKept
<1>13. CASE Reject
  BY <1>10, <1>13 DEF Reject
<1>14. ASSUME NEW k \in Calls, Decide(k)
       PROVE  StorageOK'
  BY <1>10, <1>14 DEF Decide
<1> QED
  BY <1>1, <1>2, <1>3, <1>4, <1>5, <1>6, <1>7, <1>8, <1>9, <1>11, <1>12, <1>13, <1>14
     DEF Next, Steps

(* Files, their rows and the dates of their deletion agree, whatever statement
   fails and whatever request stops. *)
THEOREM EvidenceIsStored == Spec => []EvidenceStored
<1>1. Init => StorageOK
  BY DEF Init, StorageOK, Storage, Stored, HasRow, Idle, Filing, Erasing
<1>2. StorageOK => EvidenceStored
  BY DEF StorageOK, Stored, EvidenceStored
<1> QED
  BY <1>1, <1>2, StorageStep, SoundHolds, PTL DEF Spec

-----------------------------------------------------------------------------
(* As long as nothing crossed or failed: an approval in progress is of a
   verified phone, and a save that ends the verification is on its way to
   change the status. *)
Approving ==
  (~crossed /\ faults = 0) =>
    /\ status = "APPROVED" => verified \/ \E k \in Calls : At(k, "check") \/ At(k, "submit")
    /\ \A k \in Calls : At(k, "papers") \/ At(k, "decide") => verified

LEMMA ApprovingStep ==
  ASSUME Sound, Approving, [Next]_vars
  PROVE  Approving'
<1> USE DEF Sound, TypeOK, At, phone, evidence, bounds
<1>1. ASSUME NEW k \in Calls, SaveProfile(k)
      PROVE  Approving'
  <2>1. crossed' = FALSE => /\ \A j \in Calls \ {k} : call[j].pc \notin {"papers", "decide"}
                            /\ ~crossed
    BY <1>1 DEF SaveProfile, Crosses, Readers, CallsOK
  <2>2. /\ \A j \in Calls \ {k} : call'[j] = call[j]
        /\ call'[k].pc = "check" /\ crossed' \in BOOLEAN
    BY <1>1 DEF SaveProfile, Crosses, CallsOK, CallState
  <2> QED
    BY <2>1, <2>2 DEF Approving
<1>2. ASSUME NEW k \in Calls, CheckEvidence(k)
      PROVE  Approving'
  <2>1. /\ \A j \in Calls \ {k} : call'[j] = call[j]
        /\ call'[k].pc = "submit" /\ UNCHANGED << status, verified, crossed, faults >>
    BY <1>2 DEF CheckEvidence, CallsOK, CallState
  <2> QED
    BY <2>1 DEF Approving
<1>3. ASSUME NEW k \in Calls, SetStatus(k)
      PROVE  Approving'
  <2>1. /\ \A j \in Calls \ {k} : call'[j] = call[j]
        /\ call'[k].pc = "idle" /\ UNCHANGED << verified, crossed, faults >>
    BY <1>3 DEF SetStatus, Ends, Idle, CallsOK
  <2>2. status' # "APPROVED"
    BY <1>3 DEF SetStatus, CallsOK, CallState
  <2> QED
    BY <2>1, <2>2 DEF Approving
<1>4. ASSUME NEW k \in Calls, Approve(k) \/ Papers(k) \/ Decide(k)
      PROVE  Approving'
  <2>1. /\ \A j \in Calls \ {k} : call'[j] = call[j]
        /\ UNCHANGED << verified, crossed, faults >>
    BY <1>4, OthersWait DEF Steps, Approve, Papers, Decide
  <2>2. call[k].pc \notin {"check", "submit"}
    BY <1>4 DEF Approve, Papers, Decide, Begins
  <2>3. CASE Approve(k)
    BY <2>1, <2>2, <2>3 DEF Approving, Approve
  <2>4. CASE Papers(k)
    BY <2>1, <2>2, <2>4 DEF Approving, Papers
  <2>5. CASE Decide(k)
    BY <2>1, <2>2, <2>5 DEF Approving, Decide
  <2> QED
    BY <1>4, <2>3, <2>4, <2>5
<1>5. ASSUME NEW k \in Calls,
             \/ Reserve(k) \/ Sms(k) \/ Release(k) \/ Wrong(k) \/ Consume(k)
             \/ Put(k) \/ Row(k) \/ Undo(k) \/ Erase(k) \/ Forget(k)
             \/ SendCode(k) \/ Guess(k)
             \/ \E f \in Forms : Save(k, f)
             \/ \E d \in Docs : Upload(k, d) \/ Sweep(k, d)
      PROVE  Approving'
  <2>1. \A j \in Calls \ {k} : call'[j] = call[j]
    BY <1>5, OthersWait DEF Steps
  <2>2. /\ UNCHANGED << status, crossed, faults >> /\ verified' \in {verified, TRUE}
        /\ call[k].pc \notin {"check", "submit"}
    BY <1>5 DEF Reserve, Sms, Release, Wrong, Consume, Put, Row, Undo, Erase, Forget,
       SendCode, Guess, Save, Upload, Sweep, Begins
  <2>3. call'[k].pc \notin {"papers", "decide"}
    <3>1. CASE Reserve(k)
      BY <3>1 DEF Reserve, Ends, Idle, CallsOK, CallState
    <3>2. CASE \E pc \in {"release", "row", "forget"} : Goes(k, pc)
      BY <3>2 DEF Goes, CallsOK, CallState
    <3>3. CASE Ends(k)
      BY <3>3 DEF Ends, Idle, CallsOK
    <3>4. CASE \E f \in Forms : Save(k, f)
      BY <3>4 DEF Save, Begins, Idle, CallsOK
    <3>5. CASE SendCode(k) \/ Guess(k) \/ \E d \in Docs : Upload(k, d) \/ Sweep(k, d)
      <4>1. \E pc \in {"reserve", "consume", "wrong", "put", "erase"} : \E x :
              \/ call'[k] = [ Idle EXCEPT !.pc = pc, !.hash = x ]
              \/ call'[k] = [ Idle EXCEPT !.pc = pc, !.seen = x ]
              \/ call'[k] = [ Idle EXCEPT !.pc = pc, !.on = x ]
        BY <3>5 DEF SendCode, Guess, Upload, Sweep, Begins, CallsOK
      <4> QED
        BY <4>1 DEF Idle
    <3> QED
      BY <1>5, <3>1, <3>2, <3>3, <3>4, <3>5 DEF Sms, Release, Wrong, Consume, Put, Row,
         Undo, Erase, Forget
  <2>4. CASE verified' = verified
    BY <2>1, <2>2, <2>3, <2>4 DEF Approving
  <2>5. CASE verified'
    BY <2>5 DEF Approving
  <2> QED
    BY <2>2, <2>4, <2>5
<1>6. ASSUME NEW k \in Calls, Fails(k) \/ Drop(k)
      PROVE  Approving'
  <2>1. faults' # 0
    BY <1>6 DEF Fails, Drop, CallsOK
  <2> QED
    BY <2>1 DEF Approving
<1>7. CASE Reject \/ Request
  <2>1. status' # "APPROVED" /\ UNCHANGED << verified, crossed, faults, call >>
    BY <1>7 DEF Reject, Request, Decides
  <2> QED
    BY <2>1 DEF Approving
<1>8. CASE (\E d \in Docs : Examine(d)) \/ Cool \/ Expire \/ UNCHANGED vars
  <2>1. UNCHANGED << status, verified, crossed, faults, call >>
    BY <1>8 DEF Examine, Cool, Expire, vars
  <2> QED
    BY <2>1 DEF Approving
<1> QED
  BY <1>1, <1>2, <1>3, <1>4, <1>5, <1>6, <1>7, <1>8 DEF Next, Steps

(* An approved merchant's phone is verified, unless requests crossed or failed,
   once the save that took the verification away has ended. *)
THEOREM ApprovedAreVerified == Spec => []ApprovedIsVerified
<1>1. Init => Approving
  BY DEF Init, Approving, At, Idle
<1>2. Approving => ApprovedIsVerified
  BY DEF Approving, ApprovedIsVerified
<1> QED
  BY <1>1, <1>2, ApprovingStep, SoundHolds, PTL DEF Spec
=============================================================================

------------------------------- MODULE Billing -------------------------------
(***************************************************************************)
(* What one merchant pays the platform: the setup fee, then the periods of *)
(* the subscription.  Each is collected by an invoice with its payments,   *)
(* either an M-Pesa prompt whose result a callback brings or a transfer    *)
(* whose receipt an operator reviews, and reduced by account credit.       *)
(*                                                                         *)
(* A request is a `call': the statement it runs next and what it has read. *)
(* What activating a subscription does to the tenant is module Tenancy's.  *)
(***************************************************************************)
EXTENDS Naturals, Sequences, FiniteSets

CONSTANTS
  Calls,         \* requests in progress at one time
  Price, Credit, \* what an invoice costs, and the account credit at first
  MaxPayments,   \* bound on payments
  MaxDeliveries, \* bound on the deliveries of one prompt's result
  MaxDrops,      \* bound on requests stopped between two statements
  MaxErrors      \* bound on statements that fail

ASSUME BillingAssumption ==
  /\ Price \in Nat \ {0} /\ Credit \in Nat
  /\ {MaxPayments, MaxDeliveries, MaxDrops, MaxErrors} \subseteq Nat

VARIABLES
  fee,     \* setupFeeStatus of the billing record
  plan,    \* status of the subscription
  credit,  \* remaining amount of the billing credits
  inv,     \* invoices, and with each the credit applied to it
  pay,     \* payments, in the order of their creation
  answer,  \* of each payment, what M-Pesa knows of its prompt
  sent,    \* of each payment, the deliveries of its result
  call, drops, errors, stale

vars == << fee, plan, credit, inv, pay, answer, sent, call, drops, errors, stale >>

account == << fee, plan >>
outside == << answer, sent >>
bounds  == << drops, errors, stale >>
-----------------------------------------------------------------------------
Kinds   == { "SETUP_FEE", "RENEWAL" }
Manual  == "mpesa-manual"
Prompts == "mpesa"
Credited == "internal-credit"

Live == { "PENDING", "PROCESSING" }

Idle == [ pc |-> "idle", kind |-> "none", by |-> "none", on |-> 0,
          seen |-> "none", want |-> "none", via |-> "none", owed |-> FALSE ]

At(k, pc) == call[k].pc = pc
Goes(k, pc) == call' = [call EXCEPT ![k].pc = pc]
Ends(k) == call' = [call EXCEPT ![k] = Idle]

On(k) == call[k].on
Invoice(k) == pay[On(k)].inv
Kind(k) == inv[Invoice(k)].kind

Status(p, s) == pay' = [pay EXCEPT ![p].status = s]

(* A write is stale when what it was decided on has changed meanwhile: the
   history variable `stale' remembers that there was one. *)
Counts(overwrites) == stale' = (stale \/ overwrites)

Init ==
  /\ \/ fee = "PENDING" /\ plan = "INCOMPLETE"
     \/ fee = "PAID" /\ plan = "TRIALING"
  /\ credit = Credit
  /\ inv = << >> /\ pay = << >>
  /\ answer = << >> /\ sent = << >>
  /\ call = [k \in Calls |-> Idle]
  /\ drops = 0 /\ errors = 0 /\ stale = FALSE
-----------------------------------------------------------------------------
(* createSetupFeeMpesaPayment and createMpesaInvoicePayment: what is payable
   is read first *)

(* Faulty: a setup fee that is paid is asked for again *)
PayableAgain(kind) == kind = "SETUP_FEE" \/ (fee = "PAID" /\ plan # "INCOMPLETE")

Payable(kind) ==
  IF kind = "SETUP_FEE" THEN fee # "PAID" /\ plan = "INCOMPLETE"
                        ELSE fee = "PAID" /\ plan # "INCOMPLETE"

Start(k) ==
  /\ At(k, "idle")
  /\ \E kind \in Kinds, by \in {Manual, Prompts} :
       /\ Payable(kind)
       /\ call' = [call EXCEPT ![k] =
            [ Idle EXCEPT !.pc = "reserve", !.kind = kind, !.by = by ]]
  /\ UNCHANGED << account, credit, inv, pay, outside, bounds >>

(* The payment of an invoice that was created last *)
Latest(i) == CHOOSE p \in DOMAIN pay :
  pay[p].inv = i /\ \A q \in DOMAIN pay : pay[q].inv = i => q <= p

(* Faulty: a prompt that is being sent is not waited for *)
UsablePending(p) == pay[p].status \in {"PENDING", "COMPLETED"}

(* The payment that is returned instead of creating another *)
Usable(p) == pay[p].status \in Live \cup {"COMPLETED"}

Open(kind) == { i \in DOMAIN inv : inv[i].kind = kind /\ inv[i].status = "OPEN" }

Least(a, b) == IF a < b THEN a ELSE b

(* Where a request goes that finds a payment to use again *)
Reuses(k, p) ==
  call' = [call EXCEPT ![k] =
    IF \/ pay[p].by # call[k].by \/ pay[p].by = Manual
       \/ pay[p].status = "COMPLETED"
       \/ (call[k].kind = "RENEWAL" /\ pay[p].status = "PROCESSING")
       \/ (call[k].kind = "SETUP_FEE" /\ pay[p].ref)
    THEN Idle
    ELSE [ @ EXCEPT !.pc = "find", !.on = p, !.via = "checkout" ]]

(* The result of an earlier payment is not recorded everywhere: another request
   is recording its failure, or the setup fee it paid is still due *)
Unrecorded(k) ==
  \/ \E j \in Calls \ {k} :
       On(j) # 0 /\ pay[On(j)].status = "FAILED" /\ Kind(j) = call[k].kind
  \/ /\ call[k].kind = "SETUP_FEE" /\ fee # "PAID"
     /\ \E p \in DOMAIN pay :
          /\ inv[pay[p].inv].kind = "SETUP_FEE"
          /\ pay[p].status = "COMPLETED" \/ pay[p].review = "APPROVED"

(* The payment that is created, and where the request goes from it *)
Opens(k, i, total, by) ==
  /\ Len(pay) < MaxPayments
  /\ Counts(~Payable(call[k].kind) \/ Unrecorded(k))
  /\ pay' = Append(pay,
       [ inv |-> i, by |-> IF total = 0 THEN Credited ELSE by,
         status |-> IF total = 0 THEN "COMPLETED" ELSE "PENDING",
         ref |-> FALSE, review |-> "none", settled |-> FALSE ])
  /\ answer' = Append(answer, "none")
  /\ sent' = Append(sent, 0)
  /\ call' = [call EXCEPT ![k] =
       IF total = 0
       THEN [ @ EXCEPT !.pc = "invoice", !.on = Len(pay) + 1,
                       !.want = "COMPLETED", !.via = "checkout" ]
       ELSE IF by = Manual THEN Idle
       ELSE [ @ EXCEPT !.pc = "find", !.on = Len(pay) + 1, !.via = "checkout" ]]

(* The transaction, under an advisory lock of the tenant and the kind: the
   open invoice is used again, with its last payment unless that failed; a
   new invoice takes what there is of credit *)
Reserve(k) ==
  LET kind == call[k].kind
      part == IF kind = "RENEWAL" THEN Least(credit, Price) ELSE 0
  IN
  /\ At(k, "reserve")
  /\ \/ \E i \in Open(kind) :
          IF Usable(Latest(i))
          THEN Reuses(k, Latest(i)) /\ UNCHANGED << credit, inv, pay, outside, stale >>
          ELSE Opens(k, i, Price - inv[i].reserved, call[k].by)
               /\ UNCHANGED << credit, inv >>
     \/ /\ Open(kind) = {}
        /\ inv' = Append(inv, [ kind |-> kind, status |-> "OPEN", reserved |-> part,
             app |-> IF part = 0 THEN "none" ELSE "RESERVED" ])
        /\ credit' = credit - part
        /\ Opens(k, Len(inv) + 1, Price - part, call[k].by)
  /\ UNCHANGED << account, drops, errors >>

(* A request whose payment is beyond the bound ends *)
Beyond(k) ==
  /\ At(k, "reserve") /\ Len(pay) = MaxPayments
  /\ \A i \in Open(call[k].kind) : ~Usable(Latest(i))
  /\ Ends(k)
  /\ UNCHANGED << account, credit, inv, pay, outside, bounds >>
-----------------------------------------------------------------------------
(* initiateMpesaPayment of a payment that exists, and its caller's answer to
   what it returns *)

(* After a failure a renewal gives the credit back; the setup fee has none *)
GivesUp(k, s) ==
  call' = [call EXCEPT ![k].want = "FAILED",
    ![k].pc = IF Kind(k) = "RENEWAL" /\ s # "thrown" THEN "credits" ELSE "unpay"]

Find(k) ==
  /\ At(k, "find")
  /\ LET p == pay[On(k)] IN
     IF ~p.ref THEN call' = [call EXCEPT ![k].pc = "claim", ![k].seen = p.status]
     ELSE IF p.status = "FAILED" THEN GivesUp(k, "refused") ELSE Ends(k)
  /\ UNCHANGED << account, credit, inv, pay, outside, bounds >>

Claim(k) ==
  /\ At(k, "claim")
  /\ IF pay[On(k)].status = "PENDING" /\ ~pay[On(k)].ref
     THEN Status(On(k), "PROCESSING") /\ Goes(k, "push")
     ELSE /\ IF call[k].seen = "FAILED" THEN GivesUp(k, "refused") ELSE Ends(k)
          /\ UNCHANGED pay
  /\ UNCHANGED << account, credit, inv, outside, bounds >>

(* stkPush: the prompt is sent, refused, or nothing is heard of it *)
Push(k) ==
  /\ At(k, "push")
  /\ \/ /\ answer' = [answer EXCEPT ![On(k)] = "asked"]
        /\ call' = [call EXCEPT ![k].pc = "store", ![k].want = "PENDING"]
     \/ /\ call' = [call EXCEPT ![k].pc = "store", ![k].want = "FAILED"]
        /\ UNCHANGED answer
     \/ GivesUp(k, "thrown") /\ UNCHANGED answer
  /\ UNCHANGED << account, credit, inv, pay, sent, bounds >>

Store(k) ==
  /\ At(k, "store")
  /\ pay' = [pay EXCEPT ![On(k)].status = call[k].want, ![On(k)].ref = TRUE]
  /\ IF call[k].want = "FAILED" THEN GivesUp(k, "refused") ELSE Ends(k)
  /\ UNCHANGED << account, credit, inv, outside, bounds >>

Unpay(k) ==
  /\ At(k, "unpay")
  /\ Status(On(k), "FAILED")
  /\ Goes(k, IF Kind(k) = "RENEWAL" THEN "credits" ELSE "close")
  /\ UNCHANGED << account, credit, inv, outside, bounds >>

Close(k) ==
  /\ At(k, "close")
  /\ inv' = [inv EXCEPT ![Invoice(k)].status = "FAILED"]
  /\ Ends(k)
  /\ UNCHANGED << account, credit, pay, outside, bounds >>
-----------------------------------------------------------------------------
(* The merchant answers the prompt, and M-Pesa delivers the result, maybe more
   than once.  A result whose reference is not stored yet is not found. *)

Answer(p) ==
  /\ answer[p] = "asked"
  /\ \E a \in {"COMPLETED", "FAILED"} : answer' = [answer EXCEPT ![p] = a]
  /\ UNCHANGED << account, credit, inv, pay, sent, call, bounds >>

(* updatePaymentByProviderReference *)
Delivers(k, p) ==
  /\ At(k, "idle")
  /\ answer[p] \in {"COMPLETED", "FAILED"}
  /\ sent[p] < MaxDeliveries /\ sent' = [sent EXCEPT ![p] = @ + 1]
  /\ UNCHANGED << account, credit, inv, pay, answer, bounds >>

Handles(k, p) ==
  call' = [call EXCEPT ![k] =
    IF pay[p].status \in {answer[p], "COMPLETED"} THEN Idle
    ELSE [ Idle EXCEPT !.pc = "update", !.on = p, !.want = answer[p],
                       !.via = "callback" ]]

(* Faulty: the payment is found before its reference is stored *)
DeliverEarly(k, p) == Delivers(k, p) /\ Handles(k, p)

Deliver(k, p) ==
  /\ Delivers(k, p)
  /\ IF pay[p].ref THEN Handles(k, p) ELSE UNCHANGED call

Update(k) ==
  /\ At(k, "update")
  /\ Status(On(k), call[k].want)
  /\ Goes(k, "invoice")
  /\ UNCHANGED << account, credit, inv, outside, bounds >>
-----------------------------------------------------------------------------
(* Transfers: the merchant submits a receipt, the platform's operator reviews
   it.  The submission's read is checked again by its conditional update. *)

Submit(p) ==
  /\ pay[p].by = Manual /\ pay[p].status = "PENDING" /\ ~pay[p].ref
  /\ pay' = [pay EXCEPT ![p].status = "PROCESSING", ![p].ref = TRUE]
  /\ UNCHANGED << account, credit, inv, outside, call, bounds >>

(* Faulty: only a receipt in process is reviewed *)
UnfinishedNever(p) == FALSE

(* An approval of which nothing says that it was carried out *)
Unfinished(p) == pay[p].review = "APPROVED" /\ ~pay[p].settled

Resume(k, p) ==
  /\ At(k, "idle")
  /\ Unfinished(p)
  /\ call' = [call EXCEPT ![k] =
       [ Idle EXCEPT !.pc = IF pay[p].status = "COMPLETED" THEN "invoice" ELSE "verdict",
                     !.on = p, !.want = "COMPLETED", !.via = "review" ]]
  /\ UNCHANGED << account, credit, inv, pay, outside, bounds >>

Examine(k, p) ==
  /\ At(k, "idle")
  /\ pay[p].by = Manual /\ pay[p].status = "PROCESSING" /\ pay[p].review = "none"
  /\ \E want \in {"COMPLETED", "FAILED"} :
       call' = [call EXCEPT ![k] =
         [ Idle EXCEPT !.pc = "verdict", !.on = p, !.want = want, !.via = "review" ]]
  /\ UNCHANGED << account, credit, inv, pay, outside, bounds >>

Verdict(k) ==
  LET p == On(k) IN
  /\ At(k, "verdict")
  /\ IF pay[p].status = "PROCESSING"
     THEN /\ pay' = [pay EXCEPT ![p].status = call[k].want,
               ![p].review = IF call[k].want = "COMPLETED" THEN "APPROVED"
                                                            ELSE "REJECTED"]
          /\ Counts(call[k].want = "FAILED" /\ pay[p].review = "APPROVED")
          /\ Goes(k, "invoice")
     ELSE Ends(k) /\ UNCHANGED << pay, stale >>
  /\ UNCHANGED << account, credit, inv, outside, drops, errors >>

(* manualBillingSettledAt *)
Settled(k) ==
  /\ At(k, "settled")
  /\ pay' = [pay EXCEPT ![On(k)].settled = TRUE]
  /\ Ends(k)
  /\ UNCHANGED << account, credit, inv, outside, bounds >>

(* The setup's transaction failed under a review: the receipt is reviewed again *)
Reopen(k) ==
  /\ At(k, "reopen")
  /\ pay' = [pay EXCEPT ![On(k)].status = "PROCESSING", ![On(k)].review = "APPROVED"]
  /\ Ends(k)
  /\ UNCHANGED << account, credit, inv, outside, bounds >>
-----------------------------------------------------------------------------
(* markBillingPaymentFromMpesa: the invoice, its credit, then the setup fee
   or the subscription *)

Marked(k) == IF call[k].via = "review" /\ call[k].want = "COMPLETED"
             THEN Goes(k, "settled") ELSE Ends(k)

MarkInvoice(k) ==
  /\ At(k, "invoice")
  /\ inv' = [inv EXCEPT ![Invoice(k)].status =
               IF call[k].want = "COMPLETED" THEN "PAID" ELSE "FAILED"]
  /\ Goes(k, "credits")
  /\ UNCHANGED << account, credit, pay, outside, bounds >>

(* finalizeInvoiceCredits and releaseInvoiceCredits read the reservation, then
   write *)
ReadCredits(k) ==
  /\ At(k, "credits")
  /\ call' = [call EXCEPT ![k].pc = "apply",
                          ![k].owed = inv[Invoice(k)].app = "RESERVED"]
  /\ UNCHANGED << account, credit, inv, pay, outside, bounds >>

(* Faulty: a request that gave up leaves the invoice open *)
AfterCreditsOpen(k) ==
  IF call[k].via = "checkout" /\ call[k].want = "FAILED" THEN Ends(k)
  ELSE IF Kind(k) = "SETUP_FEE" THEN Goes(k, "fee")
  ELSE IF call[k].want = "COMPLETED" THEN Goes(k, "activate")
  ELSE Marked(k)

AfterCredits(k) ==
  IF call[k].via = "checkout" /\ call[k].want = "FAILED" THEN Goes(k, "close")
  ELSE IF Kind(k) = "SETUP_FEE" THEN Goes(k, "fee")
  ELSE IF call[k].want = "COMPLETED" THEN Goes(k, "activate")
  ELSE Marked(k)

(* Faulty: the credit comes back but stays reserved *)
ApplyCreditsAgain(k) ==
  LET i == Invoice(k)
      back == call[k].want = "FAILED"
  IN
  /\ At(k, "apply")
  /\ credit' = IF call[k].owed /\ back THEN credit + inv[i].reserved ELSE credit
  /\ inv' = IF call[k].owed /\ ~back THEN [inv EXCEPT ![i].app = "APPLIED"] ELSE inv
  /\ AfterCredits(k)
  /\ UNCHANGED << account, pay, outside, bounds >>

ApplyCredits(k) ==
  LET i == Invoice(k)
      back == call[k].want = "FAILED"
  IN
  /\ At(k, "apply")
  /\ IF call[k].owed
     THEN /\ Counts(inv[i].app # "RESERVED")
          /\ credit' = IF back THEN credit + inv[i].reserved ELSE credit
          /\ inv' = [inv EXCEPT ![i].app = IF back THEN "RELEASED" ELSE "APPLIED"]
     ELSE UNCHANGED << credit, inv, stale >>
  /\ AfterCredits(k)
  /\ UNCHANGED << account, pay, outside, drops, errors >>

(* The setup fee: a failure is written over whatever was there; a payment
   starts the pilot in a transaction, or throws when none is waiting *)
MarkFee(k) ==
  /\ At(k, "fee")
  /\ \/ /\ call[k].want = "FAILED"
        /\ fee' = "FAILED" /\ UNCHANGED plan
        /\ Marked(k)
     \/ /\ call[k].want = "COMPLETED"
        /\ IF fee # "PAID" /\ plan = "INCOMPLETE"
           THEN fee' = "PAID" /\ plan' = "TRIALING"
           ELSE UNCHANGED account
        /\ IF fee = "PAID" \/ plan = "INCOMPLETE" THEN Marked(k)
           ELSE IF call[k].via = "review" THEN Goes(k, "reopen") ELSE Ends(k)
  /\ UNCHANGED << credit, inv, pay, outside, bounds >>

(* The transaction fails: a callback answers 500, a review can be repeated *)
FeeFails(k) ==
  /\ errors < MaxErrors /\ errors' = errors + 1
  /\ At(k, "fee") /\ call[k].want = "COMPLETED"
  /\ IF call[k].via = "review" THEN Goes(k, "reopen") ELSE Ends(k)
  /\ UNCHANGED << account, credit, inv, pay, outside, drops, stale >>

Activate(k) ==
  /\ At(k, "activate")
  /\ plan' = "ACTIVE"
  /\ Marked(k)
  /\ UNCHANGED << fee, credit, inv, pay, outside, bounds >>

(* The error of another of these statements is swallowed *)
Swallowed(k) ==
  /\ errors < MaxErrors /\ errors' = errors + 1
  /\ \/ At(k, "invoice") /\ Goes(k, "credits")
     \/ At(k, "apply") /\ AfterCredits(k)
     \/ At(k, "activate") /\ Marked(k)
  /\ UNCHANGED << account, credit, inv, pay, outside, drops, stale >>

(* The function of a request is stopped between two statements *)
Drop(k) ==
  /\ drops < MaxDrops /\ drops' = drops + 1
  /\ ~At(k, "idle")
  /\ Ends(k)
  /\ UNCHANGED << account, credit, inv, pay, outside, errors, stale >>
-----------------------------------------------------------------------------
Steps(k) ==
  \/ Reserve(k) \/ Beyond(k) \/ Find(k) \/ Claim(k) \/ Push(k) \/ Store(k) \/ Unpay(k) \/ Close(k)
  \/ Update(k) \/ Verdict(k) \/ Settled(k) \/ Reopen(k)
  \/ MarkInvoice(k) \/ ReadCredits(k) \/ ApplyCredits(k) \/ MarkFee(k) \/ Activate(k)

Next ==
  \/ \E k \in Calls : Start(k) \/ Steps(k) \/ FeeFails(k) \/ Swallowed(k) \/ Drop(k)
  \/ \E p \in DOMAIN pay : Answer(p) \/ Submit(p)
  \/ \E k \in Calls, p \in DOMAIN pay : Deliver(k, p) \/ Examine(k, p) \/ Resume(k, p)

Spec == Init /\ [][Next]_vars

(* A request goes on until it ends or is stopped, M-Pesa delivers each result,
   and the platform's operators come back to an approval that is unfinished *)
Fairness ==
  /\ \A k \in Calls : WF_vars(Steps(k))
  /\ \A p \in 1 .. MaxPayments :
       /\ SF_vars(p \in DOMAIN pay /\ \E k \in Calls : Deliver(k, p))
       /\ SF_vars(p \in DOMAIN pay /\ \E k \in Calls : Resume(k, p))

FairSpec == Spec /\ Fairness
-----------------------------------------------------------------------------
InvoiceRow == [ kind : Kinds, status : {"OPEN", "PAID", "FAILED"},
                reserved : 0 .. Price,
                app : {"none", "RESERVED", "APPLIED", "RELEASED"} ]

PaymentRow == [ inv : 1 .. Len(inv), by : {Manual, Prompts, Credited},
                status : Live \cup {"COMPLETED", "FAILED"}, ref : BOOLEAN,
                review : {"none", "APPROVED", "REJECTED"}, settled : BOOLEAN ]

CallPC == { "idle", "reserve", "find", "claim", "push", "store", "unpay", "close",
            "update", "verdict", "settled", "reopen", "invoice", "credits",
            "apply", "fee", "activate" }

CallState == [ pc : CallPC, kind : Kinds \cup {"none"},
               by : {Manual, Prompts, "none"}, on : 0 .. Len(pay),
               seen : Live \cup {"COMPLETED", "FAILED", "none"},
               want : {"PENDING", "COMPLETED", "FAILED", "none"},
               via : {"checkout", "callback", "review", "none"}, owed : BOOLEAN ]

AccountOK ==
  /\ fee \in {"PENDING", "PAID", "FAILED"}
  /\ plan \in {"INCOMPLETE", "TRIALING", "ACTIVE"}
  /\ credit \in Nat

PaymentsOK == pay \in Seq(PaymentRow) /\ Len(pay) <= MaxPayments

OutsideOK ==
  /\ answer \in Seq({"none", "asked", "COMPLETED", "FAILED"}) /\ Len(answer) = Len(pay)
  /\ sent \in Seq(0 .. MaxDeliveries) /\ Len(sent) = Len(pay)

BoundsOK == drops \in 0 .. MaxDrops /\ errors \in 0 .. MaxErrors /\ stale \in BOOLEAN

(* The type of the state; and a payment the books hold for COMPLETED has the
   reference of its prompt or receipt, unless credit paid for all of it. *)
TypeOK ==
  /\ AccountOK /\ inv \in Seq(InvoiceRow) /\ PaymentsOK /\ OutsideOK
  /\ call \in [Calls -> CallState] /\ BoundsOK
  /\ \A p \in DOMAIN pay : pay[p].status = "COMPLETED" =>
                            pay[p].ref \/ pay[p].by = Credited

(* "browser and provider retries do not create duplicate payment prompts": of
   one kind one payment is waited for at a time, and one invoice is not paid
   twice, whatever fails in between, races with a failure apart. *)
OnePayment ==
  ~stale => \A p, q \in DOMAIN pay : p # q =>
    /\ ~(/\ inv[pay[p].inv].kind = inv[pay[q].inv].kind
         /\ pay[p].status \in Live /\ pay[q].status \in Live)
    /\ ~(/\ pay[p].inv = pay[q].inv
         /\ pay[p].status = "COMPLETED" /\ pay[q].status = "COMPLETED")

(* Account credit is neither lost nor multiplied by reservations that are used
   or given back, whatever is stopped or fails in between, unless two requests
   settle the credit of one invoice at once. *)
CreditOf(i) == IF inv[i].app \in {"RESERVED", "APPLIED"} THEN inv[i].reserved ELSE 0

CreditUsed == Cardinality(UNION { {i} \X (1 .. CreditOf(i)) : i \in DOMAIN inv })

CreditConserved == ~stale => credit + CreditUsed = Credit

(* A PAID invoice has a completed or approved payment, and the credit its price was reduced
   by has not been given back, where nothing was stopped or failed on the way. *)
PaidInFull ==
  (~stale /\ drops = 0 /\ errors = 0) => \A i \in DOMAIN inv : inv[i].status = "PAID" =>
    /\ inv[i].app # "RELEASED"
    /\ \E p \in DOMAIN pay :
         pay[p].inv = i /\ (pay[p].status = "COMPLETED" \/ pay[p].review = "APPROVED")

(* Once paid, the setup fee stays paid: no failure of another payment is
   written over it, unless a request for the fee was made while a payment of
   it was recorded. *)
FeeStaysPaid == [][fee = "PAID" /\ ~stale' => fee' = "PAID"]_vars

(* What an operator approved is carried out: a review that was stopped or
   whose transaction failed is resumed until the receipt is settled, and its
   invoice is then PAID unless an error was swallowed. *)
Carried(p) ==
  /\ p \in DOMAIN pay
  /\ pay[p].settled /\ (errors = 0 => inv[pay[p].inv].status = "PAID")

ApprovedSettles ==
  \A p \in 1 .. MaxPayments :
    (p \in DOMAIN pay /\ pay[p].review = "APPROVED") ~> (stale \/ Carried(p))

(* The one-time setup fee is collected once.  Stated of the policy; the code
   violates it: while the first payment is recorded, its invoice is PAID
   before the fee is, a request finds the fee due and no invoice open. *)
SetupFeeOnce ==
  \A p, q \in DOMAIN pay :
    /\ pay[p].status = "COMPLETED" /\ inv[pay[p].inv].kind = "SETUP_FEE"
    /\ pay[q].status = "COMPLETED" /\ inv[pay[q].inv].kind = "SETUP_FEE"
    => p = q

(* A setup fee that M-Pesa's callback confirmed starts the pilot.  Stated of
   the documentation; the code violates it: the redelivery that follows an
   error or a stop finds the payment COMPLETED and returns. *)
CallbackStartsPilot ==
  \A p \in 1 .. MaxPayments :
    (p \in DOMAIN pay /\ pay[p].by = Prompts /\ pay[p].status = "COMPLETED")
    ~> plan # "INCOMPLETE"
=============================================================================

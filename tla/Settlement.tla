----------------------------- MODULE Settlement -----------------------------
(***************************************************************************)
(* Shopper orders, the stock they hold and the payments that settle them.  *)
(*                                                                         *)
(* Postgres runs every statement of the backend atomically; what happens   *)
(* between two statements of one request is interleaved with every other   *)
(* request.  A request in progress is a `call': a record of the statement  *)
(* it runs next and of the values it has read.  A transaction that claims  *)
(* its row with a conditional UPDATE holds the row lock until it commits,  *)
(* so it is one step here; one whose claim failed holds nothing, and its   *)
(* later reads are steps of their own.                                     *)
(*                                                                         *)
(* Payments are M-Pesa prompts (STK pushes, provider "mpesa") and manual   *)
(* transfers (provider "mpesa-manual").  A push is known to the provider   *)
(* before its payment row exists.                                          *)
(***************************************************************************)
EXTENDS OrderBook

CONSTANTS
  MpesaOrders,  \* orders with paymentMethod MPESA (the others pay on delivery)
  Pushes,       \* checkout request ids the provider can hand out
  Transfers,    \* ids of manual phone-transfer payments
  Calls,        \* requests in progress at one time
  MaxDrops,     \* bound on requests that die before they finish
  MaxSwitches,  \* bound on the merchant's changes of payment route
  MaxOvertakes, \* bound on edits stored over another request's change
  None

Payments == Pushes \cup Transfers

ASSUME SettlementAssumption ==
  /\ MpesaOrders \subseteq Orders
  /\ Pushes \cap Transfers = {} /\ Orders \cap Payments = {}
  /\ None \notin Orders \cup Payments
  /\ MaxDrops \in Nat /\ MaxSwitches \in Nat /\ MaxOvertakes \in Nat

VARIABLES
  pay,       \* status of each payment row, "NONE" before it is inserted
  payOrder,  \* the order a payment (or a push without a row yet) is for
  verdict,   \* metadata.orderSettlement of each payment row
  newest,    \* the M-Pesa payment row of each order inserted last
  push,      \* what the provider knows of each push
  acked,     \* pushes whose callback the shop answered with 200
  audited,   \* payments with a transaction (zero commission) row
  route,     \* the merchant's shopper payment route
  call,      \* the requests in progress
  drops, switches, overtakes

vars == << order, stock, pay, payOrder, verdict, newest, push, acked, audited,
           route, call, drops, switches, overtakes >>

ledger == << pay, payOrder, verdict, newest, audited >>
world  == << push, acked, route, drops, switches, overtakes >>
others == << route, drops, switches, overtakes >>
-----------------------------------------------------------------------------
PayStatus == { "PENDING", "PROCESSING", "COMPLETED", "FAILED" }

Verdicts == { "ORDER_CONFIRMED", "REFUND_REQUIRED_ORDER_CANCELLED",
              "REVIEW_REQUIRED" }

PCs == { "idle", "edit", "push", "record", "transfer", "insert", "submit", "query",
         "write", "cancel", "settle", "reread", "verdict", "audit" }

Idle == [ pc |-> "idle", by |-> "none", on |-> None,
          seen |-> "NONE", want |-> "NONE", mark |-> "NONE" ]

(* The call k runs statement pc next, on an order or a payment. *)
Goes(k, pc, by, on, seen, want, mark) ==
  call' = [call EXCEPT ![k] = [ pc |-> pc, by |-> by, on |-> on,
                                seen |-> seen, want |-> want, mark |-> mark ]]

Ends(k) == call' = [call EXCEPT ![k] = Idle]

(* A callback that ends normally is answered with 200: no redelivery. *)
Answers(k) ==
  /\ Ends(k)
  /\ acked' = IF call[k].by = "callback" THEN acked \cup {call[k].on} ELSE acked

At(k, pc) == call[k].pc = pc

Init ==
  /\ BookInit
  /\ pay = [p \in Payments |-> "NONE"]
  /\ payOrder = [p \in Payments |-> None]
  /\ verdict = [p \in Payments |-> "NONE"]
  /\ newest = [o \in Orders |-> None]
  /\ push = [c \in Pushes |-> "NONE"]
  /\ acked = {}
  /\ audited = {}
  /\ route \in {"DARAJA", "PHONE"}
  /\ call = [k \in Calls |-> Idle]
  /\ drops = 0
  /\ switches = 0
  /\ overtakes = 0
-----------------------------------------------------------------------------
(* Orders and stock *)

(* Faulty: the decrement does not look at the stock. *)
PlaceOrderUnchecked(o) ==
  /\ order[o] = "NONE"
  /\ order' = [order EXCEPT ![o] = "PENDING"]
  /\ stock' = Reserved(o)
  /\ UNCHANGED << ledger, world, call >>

(* A checkout, in one step: Checkout has its statements, and implements Place. *)
PlaceOrder(o) ==
  /\ Place(o)
  /\ UNCHANGED << ledger, world, call >>

(* Faulty: units are given back without looking at the count of the claim. *)
CancelUnclaimed(o, statuses) ==
  /\ order' = [order EXCEPT ![o] = IF @ \in statuses THEN "CANCELLED" ELSE @]
  /\ stock' = Restored(o)

(* The order is claimed for cancellation and its units go back on the shelf,
   in one transaction; nothing happens when its status is not claimable. *)
CancelFrom(o, statuses) ==
  IF order[o] \in statuses
  THEN /\ order' = [order EXCEPT ![o] = "CANCELLED"]
       /\ stock' = Restored(o)
  ELSE UNCHANGED << order, stock >>

(* updateOrderStatus reads the order and checks the requested transition. *)
EditRead(k, o, s) ==
  /\ At(k, "idle")
  /\ order[o] # "NONE"
  /\ order[o] = s \/ s \in Transitions[order[o]]
  /\ Goes(k, "edit", "merchant", o, order[o], s, "NONE")
  /\ UNCHANGED << order, stock, ledger, world >>

(* Another request changed the order after this edit read it. *)
Overtaken(k) == At(k, "edit") /\ order[call[k].on] # call[k].seen

(* ... then stores it, without looking at the order again. *)
EditStore(k) ==
  /\ At(k, "edit")
  /\ call[k].want # "CANCELLED"
  /\ overtakes' = overtakes + (IF Overtaken(k) THEN 1 ELSE 0)
  /\ overtakes' <= MaxOvertakes
  /\ order' = [order EXCEPT ![call[k].on] = call[k].want]
  /\ Ends(k)
  /\ UNCHANGED << stock, ledger, push, acked, route, drops, switches >>

(* cancelOrderAndRestoreInventory: the claim fails when the status moved. *)
EditCancel(k) ==
  /\ At(k, "edit")
  /\ call[k].want = "CANCELLED"
  /\ CancelFrom(call[k].on, Cancellable)
  /\ Ends(k)
  /\ UNCHANGED << ledger, world >>

(* cancelPendingOrder, called when a prompt failed. *)
CancelPending(k) ==
  /\ At(k, "cancel")
  /\ CancelFrom(payOrder[call[k].on], {"PENDING"})
  /\ Answers(k)
  /\ UNCHANGED << ledger, push, others >>
-----------------------------------------------------------------------------
(* M-Pesa prompts *)

Payable(o) == o \in MpesaOrders /\ order[o] = "PENDING"

PromptRows(o) == { c \in Pushes : pay[c] # "NONE" /\ payOrder[c] = o }

(* Initiation finds a payable order and no M-Pesa payment row of it; one in
   any status is returned to the shopper instead of a new prompt. *)
InitiateCheck(k, o) ==
  /\ At(k, "idle")
  /\ route = "DARAJA"
  /\ Payable(o)
  /\ PromptRows(o) = {}
  /\ Goes(k, "push", "shopper", o, "NONE", "NONE", "NONE")
  /\ UNCHANGED << order, stock, ledger, world >>

(* The provider prompts the phone, or answers with an error code; either way
   it hands out a fresh CheckoutRequestID. *)
StkPush(k, c, answer) ==
  /\ At(k, "push")
  /\ push[c] = "NONE"
  /\ push' = [push EXCEPT ![c] = answer]
  /\ payOrder' = [payOrder EXCEPT ![c] = call[k].on]
  /\ Goes(k, "record", "shopper", c, "NONE",
          IF answer = "PROMPTED" THEN "PENDING" ELSE "FAILED", "NONE")
  /\ UNCHANGED << order, stock, pay, verdict, newest, audited, acked, others >>

(* The payment row is inserted after the provider has answered. *)
RecordPush(k) ==
  /\ At(k, "record")
  /\ pay' = [pay EXCEPT ![call[k].on] = call[k].want]
  /\ newest' = [newest EXCEPT ![payOrder[call[k].on]] = call[k].on]
  /\ Ends(k)
  /\ UNCHANGED << order, stock, payOrder, verdict, audited, world >>

(* The shopper enters the PIN, or declines, or lets the prompt expire. *)
Resolve(c, outcome) ==
  /\ push[c] = "PROMPTED"
  /\ push' = [push EXCEPT ![c] = outcome]
  /\ UNCHANGED << order, stock, ledger, acked, call, others >>

(* Faulty: only the response code is looked at, not the result code. *)
QueriedResponse(c) == IF push[c] = "DECLINED" THEN "FAILED" ELSE "COMPLETED"

(* mapMpesaQueryStatus on the provider's answer *)
Queried(c) ==
  CASE push[c] = "PAID"     -> "COMPLETED"
    [] push[c] = "PROMPTED" -> "PENDING"
    [] OTHER                -> "FAILED"

(* Faulty: a settled payment is answered at once, without its audit row. *)
VerifyReadNoAudit(k, o) ==
  /\ At(k, "idle")
  /\ route = "DARAJA"
  /\ newest[o] # None
  /\ LET c == newest[o]
     IN  /\ ~ (pay[c] = "COMPLETED" /\ verdict[c] = "ORDER_CONFIRMED")
         /\ Goes(k, "query", "poll", c, pay[c], "NONE", verdict[c])
  /\ UNCHANGED << order, stock, ledger, world >>

(* The verify route reads the order's newest prompt.  One that is completed
   and settled needs no query; the route only writes its audit row. *)
VerifyRead(k, o) ==
  /\ At(k, "idle")
  /\ route = "DARAJA"
  /\ newest[o] # None
  /\ LET c == newest[o]
         settled == pay[c] = "COMPLETED" /\ verdict[c] = "ORDER_CONFIRMED"
     IN  Goes(k, IF settled THEN "audit" ELSE "query", "poll", c,
              pay[c], "NONE", verdict[c])
  /\ UNCHANGED << order, stock, ledger, world >>

(* Faulty: a payment whose order has left PENDING is not settled any more. *)
VerifyQueryPendingOnly(k) ==
  /\ At(k, "query")
  /\ LET c == call[k].on
     IN  IF Queried(c) = "COMPLETED"
         THEN IF order[payOrder[c]] = "PENDING"
              THEN Goes(k, "settle", "poll", c, call[k].seen, "NONE", "NONE")
              ELSE Ends(k)
         ELSE Goes(k, "write", "poll", c, call[k].seen, Queried(c), call[k].mark)
  /\ UNCHANGED << order, stock, ledger, world >>

(* The provider's answer decides; a payment read as completed stays so. *)
VerifyQuery(k) ==
  /\ At(k, "query")
  /\ LET c == call[k].on
         status == IF call[k].seen = "COMPLETED" THEN "COMPLETED" ELSE Queried(c)
     IN  IF status = "COMPLETED"
         THEN Goes(k, "settle", "poll", c, call[k].seen, "NONE", "NONE")
         ELSE Goes(k, "write", "poll", c, call[k].seen, status, call[k].mark)
  /\ UNCHANGED << order, stock, ledger, world >>

(* The outcome the provider's report announces. *)
CallbackResult(c) == IF push[c] = "PAID" THEN "COMPLETED" ELSE "FAILED"

(* The provider delivers the callback of a resolved push, until it is
   answered with 200.  A callback whose payment row does not exist, or says
   the same already, or is completed while the callback says failed, is
   answered without effect.  (A deployment with M-Pesa credentials of its own
   refuses a paid callback without a row instead of answering it.) *)
CallbackRead(k, c) ==
  /\ At(k, "idle")
  /\ push[c] \in {"PAID", "DECLINED"} /\ c \notin acked
  /\ \/ /\ \/ pay[c] = "NONE"
           \/ CallbackResult(c) = "FAILED" /\ pay[c] \in {"FAILED", "COMPLETED"}
        /\ acked' = acked \cup {c}
        /\ UNCHANGED call
     \/ /\ pay[c] # "NONE" /\ CallbackResult(c) = "COMPLETED"
        /\ Goes(k, "settle", "callback", c, pay[c], "NONE", "NONE")
        /\ UNCHANGED acked
     \/ /\ pay[c] \notin {"NONE", "FAILED", "COMPLETED"} /\ CallbackResult(c) = "FAILED"
        /\ Goes(k, "write", "callback", c, pay[c], "FAILED", verdict[c])
        /\ UNCHANGED acked
  /\ UNCHANGED << order, stock, ledger, push, others >>

(* Faulty: the status is stored and the metadata left as it is. *)
WriteStatusOnly(k) ==
  /\ At(k, "write")
  /\ pay' = [pay EXCEPT ![call[k].on] = call[k].want]
  /\ IF call[k].want = "FAILED"
     THEN Goes(k, "cancel", call[k].by, call[k].on, "NONE", "NONE", "NONE")
     ELSE Ends(k)
  /\ UNCHANGED << order, stock, payOrder, verdict, newest, audited, world >>

(* Verify and the callback store a status that is not COMPLETED without a
   condition on the row, the metadata from the row they read. *)
WriteStatus(k) ==
  /\ At(k, "write")
  /\ pay' = [pay EXCEPT ![call[k].on] = call[k].want]
  /\ verdict' = [verdict EXCEPT ![call[k].on] = call[k].mark]
  /\ IF call[k].want = "FAILED"
     THEN Goes(k, "cancel", call[k].by, call[k].on, "NONE", "NONE", "NONE")
     ELSE Ends(k)
  /\ UNCHANGED << order, stock, payOrder, newest, audited, world >>
-----------------------------------------------------------------------------
(* Manual transfers *)

OpenTransfers(o) ==
  { t \in Transfers : payOrder[t] = o /\ pay[t] \in {"PENDING", "PROCESSING"} }

(* The route reads the order, createManualShopperPayment the profile; *)
TransferCheck(k, o) ==
  /\ At(k, "idle")
  /\ route = "PHONE"
  /\ Payable(o)
  /\ Goes(k, "transfer", "shopper", o, "NONE", "NONE", "NONE")
  /\ UNCHANGED << order, stock, ledger, world >>

(* its transaction takes the advisory lock of the order, reads it again, *)
TransferLock(k) ==
  LET o == call[k].on IN
  /\ At(k, "transfer")
  /\ \A j \in Calls : At(j, "insert") => call[j].on # o
  /\ IF Payable(o)
     THEN Goes(k, "insert", "shopper", o, "NONE", "NONE", "NONE")
     ELSE Ends(k)
  /\ UNCHANGED << order, stock, ledger, world >>

(* Faulty: no look-up of an open payment. *)
TransferCreateAlways(k) ==
  /\ At(k, "insert")
  /\ \E t \in Transfers :
       /\ pay[t] = "NONE"
       /\ pay' = [pay EXCEPT ![t] = "PENDING"]
       /\ payOrder' = [payOrder EXCEPT ![t] = call[k].on]
  /\ Ends(k)
  /\ UNCHANGED << order, stock, verdict, newest, audited, world >>

(* and inserts a payment unless one is open.  Under the lock the look-up and
   the insertion are one step; nothing locks the order's row. *)
TransferCreate(k) ==
  /\ At(k, "insert")
  /\ \/ /\ OpenTransfers(call[k].on) # {}
        /\ UNCHANGED << pay, payOrder >>
     \/ /\ OpenTransfers(call[k].on) = {}
        /\ \E t \in Transfers :
             /\ pay[t] = "NONE"
             /\ pay' = [pay EXCEPT ![t] = "PENDING"]
             /\ payOrder' = [payOrder EXCEPT ![t] = call[k].on]
  /\ Ends(k)
  /\ UNCHANGED << order, stock, verdict, newest, audited, world >>

(* The route reads the order, the service the payment that wants a receipt. *)
SubmitCheck(k, t) ==
  /\ At(k, "idle")
  /\ pay[t] = "PENDING"
  /\ Payable(payOrder[t])
  /\ Goes(k, "submit", "shopper", t, "NONE", "NONE", "NONE")
  /\ UNCHANGED << order, stock, ledger, world >>

SubmitStore(k) ==
  /\ At(k, "submit")
  /\ pay' = IF pay[call[k].on] = "PENDING"
            THEN [pay EXCEPT ![call[k].on] = "PROCESSING"] ELSE pay
  /\ Ends(k)
  /\ UNCHANGED << order, stock, payOrder, verdict, newest, audited, world >>

(* An approval that has claimed the row holds its lock until it commits. *)
RowLocked(t) ==
  \E k \in Calls : call[k].pc \in {"reread", "verdict"} /\ call[k].on = t

ReviewApprove(k, t) ==
  /\ At(k, "idle")
  /\ pay[t] = "PROCESSING"
  /\ Goes(k, "settle", "review", t, pay[t], "NONE", "NONE")
  /\ UNCHANGED << order, stock, ledger, world >>

(* The order keeps waiting: the shopper may make another payment. *)
ReviewReject(t) ==
  /\ pay[t] = "PROCESSING"
  /\ ~ RowLocked(t)
  /\ pay' = [pay EXCEPT ![t] = "FAILED"]
  /\ UNCHANGED << order, stock, payOrder, verdict, newest, audited, world, call >>
-----------------------------------------------------------------------------
(* Settlement: finalizePendingOrderPayment, and the approval of a receipt *)

(* Callers that write the audit row once the payment is settled.  A callback
   that found the payment completed already leaves it out, and so does a poll
   that must report a refund. *)
Audits(k, v) ==
  \/ call[k].by = "review"
  \/ call[k].by = "callback" /\ call[k].seen # "COMPLETED"
  \/ call[k].by = "poll" /\ v = "ORDER_CONFIRMED"

(* The payment becomes completed with verdict v and the transaction commits. *)
Settle(k, v) ==
  /\ pay' = [pay EXCEPT ![call[k].on] = "COMPLETED"]
  /\ verdict' = [verdict EXCEPT ![call[k].on] = v]
  /\ IF Audits(k, v)
     THEN /\ Goes(k, "audit", call[k].by, call[k].on, "NONE", "NONE", "NONE")
          /\ UNCHANGED acked
     ELSE Answers(k)
  /\ UNCHANGED << stock, payOrder, newest, audited, push, others >>

(* Faulty: an approval does not look at the status of the receipt again. *)
ReviewNeverLost(k) == call[k].by = "review" /\ FALSE

(* An approval first claims the payment; a receipt that was reviewed in the
   meantime is not settled again. *)
ReviewLost(k) ==
  call[k].by = "review" /\ pay[call[k].on] # "PROCESSING"

SettleRefuse(k) ==
  /\ At(k, "settle")
  /\ ReviewLost(k)
  /\ Ends(k)
  /\ UNCHANGED << order, stock, ledger, world >>

Claims(k) ==
  /\ At(k, "settle")
  /\ ~ ReviewLost(k)
  /\ call[k].by = "review" => ~ RowLocked(call[k].on)

(* Faulty: the order is confirmed without a condition on its status. *)
SettleForce(k) ==
  /\ Claims(k)
  /\ order' = [order EXCEPT ![payOrder[call[k].on]] = "CONFIRMED"]
  /\ Settle(k, "ORDER_CONFIRMED")

(* The order was pending: claimed, confirmed and settled under its row lock. *)
SettleClaim(k) ==
  /\ Claims(k)
  /\ order[payOrder[call[k].on]] = "PENDING"
  /\ order' = [order EXCEPT ![payOrder[call[k].on]] = "CONFIRMED"]
  /\ Settle(k, "ORDER_CONFIRMED")

SettleMiss(k) ==
  /\ Claims(k)
  /\ order[payOrder[call[k].on]] # "PENDING"
  /\ Goes(k, "reread", call[k].by, call[k].on, call[k].seen, "NONE", "NONE")
  /\ UNCHANGED << order, stock, ledger, world >>

SettleReread(k) ==
  /\ At(k, "reread")
  /\ Goes(k, "verdict", call[k].by, call[k].on, call[k].seen,
          order[payOrder[call[k].on]], "NONE")
  /\ UNCHANGED << order, stock, ledger, world >>

(* Faulty: every order that could not be claimed is taken for cancelled. *)
VerdictUnread(s) ==
  IF s = "PENDING" THEN "REVIEW_REQUIRED" ELSE "REFUND_REQUIRED_ORDER_CANCELLED"

VerdictFor(s) ==
  CASE s = "CANCELLED" -> "REFUND_REQUIRED_ORDER_CANCELLED"
    [] s = "PENDING"   -> "REVIEW_REQUIRED"
    [] OTHER           -> "ORDER_CONFIRMED"

SettleStore(k) ==
  /\ At(k, "verdict")
  /\ Settle(k, VerdictFor(call[k].want))
  /\ UNCHANGED order

(* recordOrderCommission: the payment must be completed when it is read. *)
Audit(k) ==
  /\ At(k, "audit")
  /\ audited' = IF pay[call[k].on] = "COMPLETED"
                THEN audited \cup {call[k].on} ELSE audited
  /\ Answers(k)
  /\ UNCHANGED << order, stock, pay, payOrder, verdict, newest, push, others >>
-----------------------------------------------------------------------------
(* The process dies or a statement throws: what is committed stays, an open
   transaction rolls back.  A callback is then not answered with 200. *)
Drop(k) ==
  /\ ~ At(k, "idle")
  /\ drops < MaxDrops
  /\ drops' = drops + 1
  /\ Ends(k)
  /\ UNCHANGED << order, stock, ledger, push, acked, route, switches, overtakes >>

(* The provider cannot be reached or answers in another shape, or the next
   statement of an edit or of a new transfer fails: the request ends there. *)
Throws(k) ==
  /\ call[k].pc \in {"edit", "push", "query", "transfer", "insert"}
  /\ Ends(k)
  /\ UNCHANGED << order, stock, ledger, world >>

(* The merchant replaces the payment profile of the store. *)
SwitchRoute ==
  /\ switches < MaxSwitches
  /\ switches' = switches + 1
  /\ route' = IF route = "DARAJA" THEN "PHONE" ELSE "DARAJA"
  /\ UNCHANGED << order, stock, ledger, push, acked, call, drops, overtakes >>

(* Steps of a request that has begun, other than a merchant's plain edit *)
Progress(k) ==
  \/ EditCancel(k) \/ CancelPending(k)
  \/ \E c \in Pushes : StkPush(k, c, "PROMPTED") \/ StkPush(k, c, "REJECTED")
  \/ RecordPush(k) \/ VerifyQuery(k) \/ WriteStatus(k)
  \/ TransferLock(k) \/ TransferCreate(k) \/ SubmitStore(k)
  \/ SettleRefuse(k) \/ SettleClaim(k) \/ SettleMiss(k) \/ SettleReread(k)
  \/ SettleStore(k) \/ Audit(k)

Begin(k) ==
  \/ \E o \in Orders : \/ \E s \in OrderStatus : EditRead(k, o, s)
                       \/ InitiateCheck(k, o)
                       \/ TransferCheck(k, o)
                       \/ VerifyRead(k, o)
  \/ \E c \in Pushes : CallbackRead(k, c)
  \/ \E t \in Transfers : SubmitCheck(k, t) \/ ReviewApprove(k, t)

Outside ==
  \/ \E o \in Orders : PlaceOrder(o)
  \/ \E c \in Pushes : Resolve(c, "PAID") \/ Resolve(c, "DECLINED")
  \/ \E t \in Transfers : ReviewReject(t)
  \/ SwitchRoute

Next ==
  \/ Outside
  \/ \E k \in Calls : Begin(k) \/ Progress(k) \/ EditStore(k) \/ Throws(k) \/ Drop(k)

Spec == Init /\ [][Next]_vars

(* Behaviours in which no plain edit is stored after another request changed
   the order it read.  Nothing in the code enforces this. *)
CalmNext ==
  \/ Outside
  \/ \E k \in Calls : \/ Begin(k) \/ Progress(k) \/ Throws(k) \/ Drop(k)
                      \/ EditStore(k) /\ ~ Overtaken(k)

CalmSpec == Init /\ [][CalmNext]_vars

(* A request that has begun takes its steps, and the provider answers a query
   sooner or later: the server runs them.  That a shopper keeps asking for the
   status of an order, and that the provider redelivers a callback until it is
   answered, is assumed of them and not of the code: the checkout page asks
   eight times and stops. *)
Fairness ==
  /\ \A k \in Calls : /\ WF_vars(Progress(k) \/ EditStore(k) \/ Throws(k))
                       /\ SF_vars(VerifyQuery(k))
  /\ \A o \in Orders : SF_vars(\E k \in Calls : VerifyRead(k, o))
  /\ \A c \in Pushes : SF_vars(\E k \in Calls : CallbackRead(k, c))

LiveSpec == Spec /\ Fairness
-----------------------------------------------------------------------------
Requests ==
  [ pc   : PCs,
    by   : {"none", "merchant", "shopper", "poll", "callback", "review"},
    on   : Orders \cup Payments \cup {None},
    seen : OrderStatus \cup PayStatus \cup {"NONE"},
    want : OrderStatus \cup PayStatus \cup {"NONE"},
    mark : Verdicts \cup {"NONE"} ]

(* Every variable holds a value of its kind: one row per order, payment and
   push, one record per request in progress (the shapes of schema.prisma). *)
TypeOK ==
  /\ BookTypeOK
  /\ pay \in [Payments -> PayStatus \cup {"NONE"}]
  /\ payOrder \in [Payments -> Orders \cup {None}]
  /\ verdict \in [Payments -> Verdicts \cup {"NONE"}]
  /\ newest \in [Orders -> Pushes \cup {None}]
  /\ push \in [Pushes -> {"NONE", "PROMPTED", "REJECTED", "PAID", "DECLINED"}]
  /\ acked \subseteq Pushes
  /\ audited \subseteq Payments
  /\ route \in {"DARAJA", "PHONE"}
  /\ call \in [Calls -> Requests]
  /\ drops \in 0 .. MaxDrops
  /\ switches \in 0 .. MaxSwitches
  /\ overtakes \in 0 .. MaxOvertakes

Fits(v, o) ==
  /\ v = "ORDER_CONFIRMED" => order[o] # "PENDING"
  /\ v = "REFUND_REQUIRED_ORDER_CANCELLED" => order[o] = "CANCELLED"
  /\ v # "REVIEW_REQUIRED"

(* What was written beside a completed payment stays true of its order: a
   confirmed one has left PENDING for good, one marked for a refund is and
   remains cancelled, and no payment is left to a review nobody asked for. *)
VerdictMatchesOrder ==
  \A p \in Payments : Fits(verdict[p], payOrder[p])

(* A payment is completed exactly when what became of its order is recorded
   beside it, and a prompt only when the shopper has paid it, however stale
   the request that records it. *)
CompletedIsSettled ==
  /\ \A p \in Payments : pay[p] = "COMPLETED" <=> verdict[p] # "NONE"
  /\ \A c \in Pushes : pay[c] = "COMPLETED" => push[c] = "PAID"

(* A reviewed receipt stays as it was reviewed: of two reviewers who answer
   differently, one loses. *)
ReviewIsFinal ==
  [][ \A t \in Transfers :
        pay[t] \in {"COMPLETED", "FAILED"} =>
          pay'[t] = pay[t] /\ verdict'[t] = verdict[t] ]_vars

(* The advisory lock leaves at most one manual payment of an order open. *)
OneOpenTransfer == \A o \in Orders : Cardinality(OpenTransfers(o)) <= 1

(* A paid prompt whose row the polls can find is in the end completed for good,
   although callbacks, polls and stale writes of both race and a request may
   die half-way. *)
PaidSettles ==
  \A c \in Pushes, o \in Orders :
    [](push[c] = "PAID" /\ newest[o] = c => <>[](pay[c] = "COMPLETED"))

(* ... and has its audit row, also when the request that settled it died before
   writing it, unless the order was cancelled and a refund is due. *)
PaidIsAudited ==
  \A c \in Pushes, o \in Orders :
    push[c] = "PAID" /\ newest[o] = c ~> c \in audited \/ order[o] = "CANCELLED"

(* "verification paths protect completed payments" (BUG_AUDIT.md, BUG-006) *)
CompletedStays ==
  [][ \A p \in Payments : pay[p] = "COMPLETED" => pay'[p] = "COMPLETED" ]_vars

(* "callbacks confirm payment" (README.md): an order the shopper has paid does
   not wait for its payment for ever. *)
PaidIsConfirmed ==
  \A c \in Pushes, o \in Orders :
    push[c] = "PAID" /\ payOrder[c] = o ~> order[o] # "PENDING"

(* "payment request reuse" (docs/README.md): an order has one prompt that the
   shopper can answer, whatever initiations race. *)
OnePrompt ==
  \A o \in Orders :
    Cardinality({ c \in Pushes : payOrder[c] = o /\ push[c] = "PROMPTED" }) <= 1
=============================================================================

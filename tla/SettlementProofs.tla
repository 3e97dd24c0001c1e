-------------------------- MODULE SettlementProofs --------------------------
(***************************************************************************)
(* Proofs about OrderBook and Settlement, for any number of orders,        *)
(* payments and requests: the order book is right; Settlement's types hold;*)
(* and, as long as no edit is stored over another request's change, it     *)
(* implements OrderBook, conserves stock and keeps the verdicts beside the *)
(* payments true.                                                          *)
(***************************************************************************)
EXTENDS Settlement, FiniteSetTheorems, TLAPS

-----------------------------------------------------------------------------
(* The order book: no unit of stock is lost or given back twice, and live
   orders never hold more than there was. *)

(* An order takes Qty[o][r] units off row r. *)
LEMMA UnitsCardinality ==
  ASSUME NEW o \in Orders, NEW r \in Rows
  PROVE  /\ IsFiniteSet(Units(o, r))
         /\ Cardinality(Units(o, r)) = Qty[o][r]
<1> DEFINE n == Qty[o][r]
<1>1. n \in Nat
  BY BookAssumption
<1> HIDE DEF n
<1>2. IsFiniteSet(1 .. n)
  BY <1>1, FS_Interval
<1>3. Cardinality(1 .. n) = IF 1 > n THEN 0 ELSE n - 1 + 1
  BY <1>1, FS_Interval
<1>4. Cardinality(1 .. n) = n
  BY <1>1, <1>3
<1>5. IsFiniteSet({o}) /\ Cardinality({o}) = 1
  BY FS_Singleton
<1>6. /\ IsFiniteSet({o} \X (1 .. n))
      /\ Cardinality({o} \X (1 .. n)) = Cardinality({o}) * Cardinality(1 .. n)
  BY <1>2, <1>5, FS_Product
<1>7. Cardinality({o} \X (1 .. n)) = n
  BY <1>1, <1>4, <1>5, <1>6
<1> QED
  BY <1>6, <1>7 DEF Units, n

(* Units of different orders are different units. *)
LEMMA UnitsApart ==
  ASSUME NEW S, NEW o, o \notin S, NEW r
  PROVE  UnitsOf(S, r) \cap Units(o, r) = {}
BY DEF UnitsOf, Units

(* An order added to a set adds its units ... *)
LEMMA UnitsOfAdd ==
  ASSUME NEW S, NEW o, NEW r
  PROVE  UnitsOf(S \cup {o}, r) = UnitsOf(S, r) \cup Units(o, r)
BY DEF UnitsOf

(* ... and one removed takes its units along. *)
LEMMA UnitsOfRemove ==
  ASSUME NEW S, NEW o \in S, NEW r
  PROVE  UnitsOf(S \ {o}, r) = UnitsOf(S, r) \ Units(o, r)
BY DEF UnitsOf, Units

(* A set of orders grows or shrinks by one: the units held do by its own. *)
LEMMA HeldGrows ==
  ASSUME NEW S \in SUBSET Orders, NEW o \in Orders, o \notin S, NEW r \in Rows,
         IsFiniteSet(UnitsOf(S, r))
  PROVE  /\ IsFiniteSet(UnitsOf(S \cup {o}, r))
         /\ Cardinality(UnitsOf(S \cup {o}, r)) =
              Cardinality(UnitsOf(S, r)) + Qty[o][r]
<1>1. /\ IsFiniteSet(Units(o, r))
      /\ Cardinality(Units(o, r)) = Qty[o][r]
  BY UnitsCardinality
<1>2. UnitsOf(S, r) \cap Units(o, r) = {}
  BY UnitsApart
<1>3. Cardinality(UnitsOf(S, r)) \in Nat /\ Qty[o][r] \in Nat
  BY FS_CardinalityType, BookAssumption
<1>4. Cardinality(UnitsOf(S, r) \cap Units(o, r)) = 0
  BY <1>2, FS_EmptySet
<1>5. /\ IsFiniteSet(UnitsOf(S, r) \cup Units(o, r))
      /\ Cardinality(UnitsOf(S, r) \cup Units(o, r)) =
           Cardinality(UnitsOf(S, r)) + Cardinality(Units(o, r))
             - Cardinality(UnitsOf(S, r) \cap Units(o, r))
  BY <1>1, FS_Union
<1>6. UnitsOf(S \cup {o}, r) = UnitsOf(S, r) \cup Units(o, r)
  BY UnitsOfAdd
<1>7. Cardinality(UnitsOf(S, r)) + Qty[o][r] - 0
        = Cardinality(UnitsOf(S, r)) + Qty[o][r]
  BY <1>3
<1> QED
  BY <1>1, <1>4, <1>5, <1>6, <1>7

(* ... and shrinks by them. *)
LEMMA HeldShrinks ==
  ASSUME NEW S \in SUBSET Orders, NEW o \in S, NEW r \in Rows,
         IsFiniteSet(UnitsOf(S, r))
  PROVE  /\ IsFiniteSet(UnitsOf(S \ {o}, r))
         /\ Cardinality(UnitsOf(S \ {o}, r)) =
              Cardinality(UnitsOf(S, r)) - Qty[o][r]
<1>1. /\ IsFiniteSet(Units(o, r))
      /\ Cardinality(Units(o, r)) = Qty[o][r]
  BY UnitsCardinality
<1>2. UnitsOf(S, r) \cap Units(o, r) = Units(o, r)
  BY DEF UnitsOf
<1>3. /\ IsFiniteSet(UnitsOf(S, r) \ Units(o, r))
      /\ Cardinality(UnitsOf(S, r) \ Units(o, r)) =
           Cardinality(UnitsOf(S, r)) - Cardinality(UnitsOf(S, r) \cap Units(o, r))
  BY FS_Difference
<1>4. UnitsOf(S \ {o}, r) = UnitsOf(S, r) \ Units(o, r)
  BY UnitsOfRemove
<1> QED
  BY <1>1, <1>2, <1>3, <1>4
-----------------------------------------------------------------------------
(* The inductive invariant: StockConserved, and that its cardinalities are
   those of finite sets. *)
BookInv ==
  /\ BookTypeOK
  /\ \A r \in Rows : IsFiniteSet(Held(r))
  /\ StockConserved

(* An empty book: everything is on the shelf. *)
LEMMA BookInvInit == BookInit => BookInv
<1> SUFFICES ASSUME BookInit PROVE BookInv
  OBVIOUS
<1>1. BookTypeOK
  BY BookAssumption DEF BookInit, BookTypeOK
<1>2. Live = {}
  BY DEF BookInit, Live
<1>3. \A r \in Rows : Held(r) = {}
  BY <1>2 DEF Held, UnitsOf
<1>4. \A r \in Rows : stock[r] \in Nat /\ stock[r] = Supply[r]
  BY BookAssumption DEF BookInit
<1>5. \A r \in Rows : IsFiniteSet(Held(r)) /\ Cardinality(Held(r)) = 0
  BY <1>3, FS_EmptySet
<1>6. StockConserved
  BY <1>4, <1>5 DEF StockConserved
<1> QED
  BY <1>1, <1>5, <1>6 DEF BookInv

(* A placed order takes what is there: the conditional decrement. *)
LEMMA PlaceTypes ==
  ASSUME BookTypeOK, NEW o \in Orders, Place(o)
  PROVE  BookTypeOK'
<1>1. order' \in [Orders -> OrderStatus \cup {"NONE"}]
  BY DEF BookTypeOK, Place, OrderStatus
<1>2. ASSUME NEW r \in Rows PROVE stock[r] - Qty[o][r] \in Nat
  <2>1. stock[r] \in Nat /\ Qty[o][r] \in Nat
    BY BookAssumption DEF BookTypeOK
  <2> QED
    BY <2>1 DEF Place
<1>3. stock' \in [Rows -> Nat]
  BY <1>2 DEF BookTypeOK, Place, Reserved
<1> QED
  BY <1>1, <1>3 DEF BookTypeOK

(* What createOrder takes off the shelf the new order holds. *)
LEMMA PlaceInv ==
  ASSUME BookInv, NEW o \in Orders, Place(o)
  PROVE  BookInv'
<1>1. BookTypeOK'
  BY PlaceTypes DEF BookInv
<1>2. Live' = Live \cup {o} /\ o \notin Live /\ Live \in SUBSET Orders
  BY DEF BookInv, BookTypeOK, Place, Live
<1>3. ASSUME NEW r \in Rows
      PROVE  /\ IsFiniteSet(Held(r)')
             /\ stock'[r] + Cardinality(Held(r)') = Supply[r]
  <2>1. IsFiniteSet(UnitsOf(Live, r))
    BY DEF BookInv, Held
  <2>2. /\ IsFiniteSet(Held(r)')
        /\ Cardinality(Held(r)') = Cardinality(Held(r)) + Qty[o][r]
    BY <1>2, <2>1, HeldGrows DEF Held
  <2>3. stock'[r] = stock[r] - Qty[o][r]
    BY DEF Place, Reserved
  <2>4. /\ stock[r] \in Nat /\ Qty[o][r] \in Nat /\ Cardinality(Held(r)) \in Nat
        /\ stock[r] + Cardinality(Held(r)) = Supply[r]
    BY <2>1, BookAssumption, FS_CardinalityType
       DEF BookInv, BookTypeOK, StockConserved, Held
  <2> QED
    BY <2>2, <2>3, <2>4
<1> QED
  BY <1>1, <1>3 DEF BookInv, StockConserved

(* What a cancelled order held is back on the shelf. *)
LEMMA CancelInv ==
  ASSUME BookInv, NEW o \in Orders, Cancel(o)
  PROVE  BookInv'
<1>1. BookTypeOK'
  <2>1. order' \in [Orders -> OrderStatus \cup {"NONE"}]
    BY DEF BookInv, BookTypeOK, Cancel, OrderStatus
  <2>2. ASSUME NEW r \in Rows PROVE stock[r] + Qty[o][r] \in Nat
    <3>1. stock[r] \in Nat /\ Qty[o][r] \in Nat
      BY BookAssumption DEF BookInv, BookTypeOK
    <3> QED
      BY <3>1 DEF Cancel
  <2>3. stock' \in [Rows -> Nat]
    BY <2>2 DEF Cancel, Restored
  <2> QED
    BY <2>1, <2>3 DEF BookTypeOK
<1>2. Live' = Live \ {o} /\ o \in Live /\ Live \in SUBSET Orders
  BY DEF BookInv, BookTypeOK, Cancel, Cancellable, Transitions, OrderStatus, Live
<1>3. ASSUME NEW r \in Rows
      PROVE  /\ IsFiniteSet(Held(r)')
             /\ stock'[r] + Cardinality(Held(r)') = Supply[r]
  <2>1. IsFiniteSet(UnitsOf(Live, r))
    BY DEF BookInv, Held
  <2>2. /\ IsFiniteSet(Held(r)')
        /\ Cardinality(Held(r)') = Cardinality(Held(r)) - Qty[o][r]
    BY <1>2, <2>1, HeldShrinks DEF Held
  <2>3. stock'[r] = stock[r] + Qty[o][r]
    BY DEF Cancel, Restored
  <2>4. /\ stock[r] \in Nat /\ Qty[o][r] \in Nat /\ Cardinality(Held(r)) \in Nat
        /\ stock[r] + Cardinality(Held(r)) = Supply[r]
    BY <2>1, BookAssumption, FS_CardinalityType
       DEF BookInv, BookTypeOK, StockConserved, Held
  <2> QED
    BY <2>2, <2>3, <2>4
<1> QED
  BY <1>1, <1>3 DEF BookInv, StockConserved

(* An order that advances stays live: neither side of the balance moves. *)
LEMMA AdvanceInv ==
  ASSUME BookInv, NEW o \in Orders, NEW s \in OrderStatus, Advance(o, s)
  PROVE  BookInv'
<1>1. BookTypeOK'
  BY DEF BookInv, BookTypeOK, Advance
<1>2. order[o] \notin {"NONE", "CANCELLED"} /\ s \notin {"NONE", "CANCELLED"}
  BY DEF Advance, Transitions, OrderStatus
<1>3. Live' = Live
  BY <1>2 DEF BookInv, BookTypeOK, Advance, Live
<1>4. \A r \in Rows : Held(r)' = Held(r)
  BY <1>3 DEF Held, UnitsOf, Units
<1> QED
  BY <1>1, <1>4 DEF BookInv, StockConserved, Advance

(* BookInv is inductive. *)
LEMMA BookInvStep == BookInv /\ [BookNext]_book => BookInv'
<1> SUFFICES ASSUME BookInv, [BookNext]_book PROVE BookInv'
  OBVIOUS
<1>1. CASE UNCHANGED book
  BY <1>1 DEF book, BookInv, BookTypeOK, StockConserved, Held, UnitsOf, Units, Live
<1>2. CASE BookNext
  BY <1>2, PlaceInv, CancelInv, AdvanceInv DEF BookNext
<1> QED
  BY <1>1, <1>2

(* Live orders hold at most the supply, because the shelf holds the rest. *)
LEMMA ConservedMeansNoOversell == BookInv => NoOversell
<1> SUFFICES ASSUME BookInv, NEW r \in Rows
             PROVE  Cardinality(Held(r)) <= Supply[r]
  BY DEF NoOversell
<1>1. Cardinality(Held(r)) \in Nat /\ stock[r] \in Nat
  BY FS_CardinalityType DEF BookInv, BookTypeOK
<1> QED
  BY <1>1 DEF BookInv, StockConserved

(* Orders and stock keep their kinds, no unit of stock is lost or given back
   twice, and live orders never hold more than there was: what createOrder and
   both cancellations of order.service.ts promise, for any orders and rows. *)
THEOREM BookCorrect == BookSpec => [](BookTypeOK /\ StockConserved /\ NoOversell)
<1>1. BookInv => BookTypeOK /\ StockConserved /\ NoOversell
  BY ConservedMeansNoOversell DEF BookInv
<1> QED
  BY <1>1, BookInvInit, BookInvStep, PTL DEF BookSpec

-----------------------------------------------------------------------------
(* Every behaviour of Settlement *)

PayPCs == { "record", "submit", "query", "write", "cancel", "settle", "reread",
            "verdict", "audit" }

(* What a request needs to hold for its next statement to make sense *)
Sound(r) ==
  /\ r.pc = "edit" => /\ r.on \in Orders /\ order[r.on] # "NONE"
                      /\ r.seen \in OrderStatus /\ r.want \in OrderStatus
                      /\ r.want = r.seen \/ r.want \in Transitions[r.seen]
  /\ r.pc \in {"push", "transfer", "insert"} => r.on \in Orders /\ order[r.on] # "NONE"
  /\ r.pc \in PayPCs => r.on \in Payments /\ payOrder[r.on] \in Orders
  /\ r.pc = "record" => r.on \in Pushes
  /\ r.pc \in {"record", "write"} => r.want \in PayStatus
  /\ r.pc = "verdict" => r.want \in OrderStatus
  /\ r.by = "callback" => r.on \in Pushes

RequestsSound == \A k \in Calls : Sound(call[k])

(* Payments and prompts belong to orders that were placed, once they exist. *)
LedgerSound ==
  /\ \A p \in Payments :
       pay[p] # "NONE" \/ verdict[p] # "NONE" => payOrder[p] \in Orders
  /\ \A p \in Payments : payOrder[p] \in Orders => order[payOrder[p]] # "NONE"
  /\ \A o \in Orders : newest[o] # None => payOrder[newest[o]] \in Orders
  /\ \A c \in Pushes : push[c] = "NONE" => payOrder[c] = None
  /\ \A t \in Transfers : pay[t] = "NONE" => payOrder[t] = None

(* The inductive invariant of every behaviour *)
Shape == TypeOK /\ RequestsSound /\ LedgerSound

(* The transactions that move stock keep its type: the decrement is
   conditional, and what is given back is a number of units. *)
LEMMA CancelFromTypes ==
  ASSUME BookTypeOK, NEW o \in Orders, NEW S, CancelFrom(o, S)
  PROVE  BookTypeOK'
<1>1. order' \in [Orders -> OrderStatus \cup {"NONE"}]
  BY DEF BookTypeOK, CancelFrom, OrderStatus
<1>2. ASSUME NEW r \in Rows PROVE stock[r] + Qty[o][r] \in Nat
  BY BookAssumption DEF BookTypeOK
<1>3. stock' \in [Rows -> Nat]
  BY <1>2 DEF BookTypeOK, CancelFrom, Restored
<1> QED
  BY <1>1, <1>3 DEF BookTypeOK

(* Nothing is in progress at first. *)
LEMMA ShapeInit == Init => Shape
<1> SUFFICES ASSUME Init PROVE Shape
  OBVIOUS
<1>1. TypeOK
  <2>1. BookTypeOK
    BY BookAssumption DEF Init, BookInit, BookTypeOK
  <2>2. Idle \in Requests
    BY DEF Idle, Requests, PCs
  <2>3. call \in [Calls -> Requests]
    BY <2>2 DEF Init
  <2> QED
    BY <2>1, <2>3, SettlementAssumption DEF Init, TypeOK
<1>2. RequestsSound
  BY DEF Init, RequestsSound, Sound, Idle, PayPCs
<1>3. LedgerSound
  BY SettlementAssumption DEF Init, LedgerSound, Payments
<1> QED
  BY <1>1, <1>2, <1>3 DEF Shape

(* One step per action, one under it for each part of the invariant *)
LEMMA ShapeStep == Shape /\ [Next]_vars => Shape'
<1> SUFFICES ASSUME Shape, [Next]_vars PROVE Shape'
  OBVIOUS
<1> USE SettlementAssumption
    DEF Shape, TypeOK, BookTypeOK, RequestsSound, Sound, LedgerSound, Requests,
        PCs, PayPCs, Idle, At, OrderStatus, PayStatus, Verdicts, Payments,
        ledger, world, others

<1>1. ASSUME NEW o \in Orders, PlaceOrder(o)
      PROVE  Shape'
  <2>0. BookTypeOK'
    BY <1>1, PlaceTypes DEF PlaceOrder
  <2>1. TypeOK'
    BY <1>1, <2>0 DEF PlaceOrder, Place
  <2>2. RequestsSound'
    BY <1>1 DEF PlaceOrder, Place
  <2>3. LedgerSound'
    BY <1>1 DEF PlaceOrder, Place
  <2> QED
    BY <2>1, <2>2, <2>3
<1>2. ASSUME NEW k \in Calls, NEW o \in Orders, NEW s \in OrderStatus,
             EditRead(k, o, s)
      PROVE  Shape'
  <2>1. TypeOK'
    BY <1>2 DEF EditRead, Goes
  <2>2. RequestsSound'
    BY <1>2 DEF EditRead, Goes
  <2>3. LedgerSound'
    BY <1>2 DEF EditRead, Goes
  <2> QED
    BY <2>1, <2>2, <2>3
<1>3. ASSUME NEW k \in Calls, EditStore(k)
      PROVE  Shape'
  <2>1. TypeOK'
    BY <1>3 DEF EditStore, Ends, Overtaken
  <2>2. RequestsSound'
    BY <1>3 DEF EditStore, Ends, Overtaken
  <2>3. LedgerSound'
    BY <1>3 DEF EditStore, Ends, Overtaken
  <2> QED
    BY <2>1, <2>2, <2>3
<1>4. ASSUME NEW k \in Calls, EditCancel(k)
      PROVE  Shape'
  <2>0. BookTypeOK'
    BY <1>4, CancelFromTypes DEF EditCancel
  <2>1. TypeOK'
    BY <1>4, <2>0 DEF EditCancel, CancelFrom, Ends, Cancellable
  <2>2. RequestsSound'
    BY <1>4 DEF EditCancel, CancelFrom, Ends
  <2>3. LedgerSound'
    BY <1>4 DEF EditCancel, CancelFrom, Ends
  <2> QED
    BY <2>1, <2>2, <2>3
<1>5. ASSUME NEW k \in Calls, CancelPending(k)
      PROVE  Shape'
  <2>0. BookTypeOK'
    BY <1>5, CancelFromTypes DEF CancelPending
  <2>1. TypeOK'
    BY <1>5, <2>0 DEF CancelPending, CancelFrom, Answers, Ends, Cancellable
  <2>2. RequestsSound'
    BY <1>5 DEF CancelPending, CancelFrom, Answers, Ends
  <2>3. LedgerSound'
    BY <1>5 DEF CancelPending, CancelFrom, Answers, Ends
  <2> QED
    BY <2>1, <2>2, <2>3
<1>6. ASSUME NEW k \in Calls, NEW o \in Orders, InitiateCheck(k, o)
      PROVE  Shape'
  <2>1. TypeOK'
    BY <1>6 DEF InitiateCheck, Payable, Goes
  <2>2. RequestsSound'
    BY <1>6 DEF InitiateCheck, Payable, Goes
  <2>3. LedgerSound'
    BY <1>6 DEF InitiateCheck, Payable, Goes
  <2> QED
    BY <2>1, <2>2, <2>3
<1>7. ASSUME NEW k \in Calls, NEW c \in Pushes, NEW a \in {"PROMPTED", "REJECTED"},
             StkPush(k, c, a)
      PROVE  Shape'
  <2>1. TypeOK'
    BY <1>7 DEF StkPush, Goes
  <2>2. RequestsSound'
    BY <1>7 DEF StkPush, Goes
  <2>3. LedgerSound'
    BY <1>7 DEF StkPush, Goes
  <2> QED
    BY <2>1, <2>2, <2>3
<1>8. ASSUME NEW k \in Calls, RecordPush(k)
      PROVE  Shape'
  <2>1. TypeOK'
    BY <1>8 DEF RecordPush, Ends
  <2>2. RequestsSound'
    BY <1>8 DEF RecordPush, Ends
  <2>3. LedgerSound'
    BY <1>8 DEF RecordPush, Ends
  <2> QED
    BY <2>1, <2>2, <2>3
<1>9. ASSUME NEW c \in Pushes, NEW a \in {"PAID", "DECLINED"}, Resolve(c, a)
      PROVE  Shape'
  <2>1. TypeOK'
    BY <1>9 DEF Resolve
  <2>2. RequestsSound'
    BY <1>9 DEF Resolve
  <2>3. LedgerSound'
    BY <1>9 DEF Resolve
  <2> QED
    BY <2>1, <2>2, <2>3
<1>10. ASSUME NEW k \in Calls, NEW o \in Orders, VerifyRead(k, o)
      PROVE  Shape'
  <2>1. TypeOK'
    BY <1>10 DEF VerifyRead, Goes
  <2>2. RequestsSound'
    BY <1>10 DEF VerifyRead, Goes
  <2>3. LedgerSound'
    BY <1>10 DEF VerifyRead, Goes
  <2> QED
    BY <2>1, <2>2, <2>3
<1>11. ASSUME NEW k \in Calls, VerifyQuery(k)
      PROVE  Shape'
  <2>1. TypeOK'
    BY <1>11 DEF VerifyQuery, Queried, Goes
  <2>2. RequestsSound'
    BY <1>11 DEF VerifyQuery, Queried, Goes
  <2>3. LedgerSound'
    BY <1>11 DEF VerifyQuery, Queried, Goes
  <2> QED
    BY <2>1, <2>2, <2>3
<1>12. ASSUME NEW k \in Calls, NEW c \in Pushes, CallbackRead(k, c)
      PROVE  Shape'
  <2>1. TypeOK'
    BY <1>12 DEF CallbackRead, Goes
  <2>2. RequestsSound'
    BY <1>12 DEF CallbackRead, Goes
  <2>3. LedgerSound'
    BY <1>12 DEF CallbackRead, Goes
  <2> QED
    BY <2>1, <2>2, <2>3
<1>13. ASSUME NEW k \in Calls, WriteStatus(k)
      PROVE  Shape'
  <2>1. TypeOK'
    BY <1>13 DEF WriteStatus, Goes, Ends
  <2>2. RequestsSound'
    <3>1. CASE call[k].want = "FAILED"
      BY <1>13, <3>1 DEF WriteStatus, Goes
    <3>2. CASE call[k].want # "FAILED"
      BY <1>13, <3>2 DEF WriteStatus, Ends
    <3> QED
      BY <3>1, <3>2
  <2>3. LedgerSound'
    BY <1>13 DEF WriteStatus, Goes, Ends
  <2> QED
    BY <2>1, <2>2, <2>3
<1>14. ASSUME NEW k \in Calls, NEW o \in Orders, TransferCheck(k, o)
      PROVE  Shape'
  <2>1. TypeOK'
    BY <1>14 DEF TransferCheck, Payable, Goes
  <2>2. RequestsSound'
    BY <1>14 DEF TransferCheck, Payable, Goes
  <2>3. LedgerSound'
    BY <1>14 DEF TransferCheck, Payable, Goes
  <2> QED
    BY <2>1, <2>2, <2>3
<1>34. ASSUME NEW k \in Calls, TransferLock(k)
      PROVE  Shape'
  <2>1. TypeOK'
    BY <1>34 DEF TransferLock, Payable, Goes, Ends
  <2>2. RequestsSound'
    BY <1>34 DEF TransferLock, Payable, Goes, Ends
  <2>3. LedgerSound'
    BY <1>34 DEF TransferLock, Payable, Goes, Ends
  <2> QED
    BY <2>1, <2>2, <2>3
<1>15. ASSUME NEW k \in Calls, TransferCreate(k)
      PROVE  Shape'
  <2>1. TypeOK'
    BY <1>15 DEF TransferCreate, Ends
  <2>2. RequestsSound'
    BY <1>15 DEF TransferCreate, Ends
  <2>3. LedgerSound'
    BY <1>15 DEF TransferCreate, Ends
  <2> QED
    BY <2>1, <2>2, <2>3
<1>16. ASSUME NEW k \in Calls, NEW t \in Transfers, SubmitCheck(k, t)
      PROVE  Shape'
  <2>1. TypeOK'
    BY <1>16 DEF SubmitCheck, Payable, Goes
  <2>2. RequestsSound'
    BY <1>16 DEF SubmitCheck, Payable, Goes
  <2>3. LedgerSound'
    BY <1>16 DEF SubmitCheck, Payable, Goes
  <2> QED
    BY <2>1, <2>2, <2>3
<1>17. ASSUME NEW k \in Calls, SubmitStore(k)
      PROVE  Shape'
  <2>1. TypeOK'
    BY <1>17 DEF SubmitStore, Ends
  <2>2. RequestsSound'
    BY <1>17 DEF SubmitStore, Ends
  <2>3. LedgerSound'
    BY <1>17 DEF SubmitStore, Ends
  <2> QED
    BY <2>1, <2>2, <2>3
<1>18. ASSUME NEW k \in Calls, NEW t \in Transfers, ReviewApprove(k, t)
      PROVE  Shape'
  <2>1. TypeOK'
    BY <1>18 DEF ReviewApprove, Goes
  <2>2. RequestsSound'
    BY <1>18 DEF ReviewApprove, Goes
  <2>3. LedgerSound'
    BY <1>18 DEF ReviewApprove, Goes
  <2> QED
    BY <2>1, <2>2, <2>3
<1>19. ASSUME NEW t \in Transfers, ReviewReject(t)
      PROVE  Shape'
  <2>1. TypeOK'
    BY <1>19 DEF ReviewReject
  <2>2. RequestsSound'
    BY <1>19 DEF ReviewReject
  <2>3. LedgerSound'
    BY <1>19 DEF ReviewReject
  <2> QED
    BY <2>1, <2>2, <2>3
<1>20. ASSUME NEW k \in Calls, SettleRefuse(k)
      PROVE  Shape'
  <2>1. TypeOK'
    BY <1>20 DEF SettleRefuse, Ends
  <2>2. RequestsSound'
    BY <1>20 DEF SettleRefuse, Ends
  <2>3. LedgerSound'
    BY <1>20 DEF SettleRefuse, Ends
  <2> QED
    BY <2>1, <2>2, <2>3
<1>21. ASSUME NEW k \in Calls, SettleClaim(k)
      PROVE  Shape'
  <2>1. TypeOK'
    BY <1>21 DEF SettleClaim, Claims, Settle, Answers, Ends, Goes
  <2>2. RequestsSound'
    <3>1. payOrder' = payOrder /\ \A o \in Orders : order[o] # "NONE" => order'[o] # "NONE"
      BY <1>21 DEF SettleClaim, Claims, Settle
    <3>2. \A j \in Calls \ {k} : call'[j] = call[j]
      BY <1>21 DEF SettleClaim, Settle, Answers, Ends, Goes
    <3>3. \/ call'[k] = Idle
          \/ /\ call'[k].pc = "audit" /\ call[k].pc = "settle"
             /\ call'[k].on = call[k].on /\ call'[k].by = call[k].by
      BY <1>21 DEF SettleClaim, Claims, Settle, Answers, Ends, Goes
    <3> QED
      BY <3>1, <3>2, <3>3
  <2>3. LedgerSound'
    BY <1>21 DEF SettleClaim, Claims, Settle, Answers, Ends, Goes
  <2> QED
    BY <2>1, <2>2, <2>3
<1>22. ASSUME NEW k \in Calls, SettleMiss(k)
      PROVE  Shape'
  <2>1. TypeOK'
    BY <1>22 DEF SettleMiss, Claims, Goes
  <2>2. RequestsSound'
    BY <1>22 DEF SettleMiss, Claims, Goes
  <2>3. LedgerSound'
    BY <1>22 DEF SettleMiss, Claims, Goes
  <2> QED
    BY <2>1, <2>2, <2>3
<1>23. ASSUME NEW k \in Calls, SettleReread(k)
      PROVE  Shape'
  <2>1. TypeOK'
    BY <1>23 DEF SettleReread, Goes
  <2>2. RequestsSound'
    BY <1>23 DEF SettleReread, Goes
  <2>3. LedgerSound'
    BY <1>23 DEF SettleReread, Goes
  <2> QED
    BY <2>1, <2>2, <2>3
<1>24. ASSUME NEW k \in Calls, SettleStore(k)
      PROVE  Shape'
  <2>1. TypeOK'
    BY <1>24 DEF SettleStore, VerdictFor, Settle, Answers, Ends, Goes
  <2>2. RequestsSound'
    BY <1>24 DEF SettleStore, VerdictFor, Settle, Answers, Ends, Goes
  <2>3. LedgerSound'
    BY <1>24 DEF SettleStore, VerdictFor, Settle, Answers, Ends, Goes
  <2> QED
    BY <2>1, <2>2, <2>3
<1>25. ASSUME NEW k \in Calls, Audit(k)
      PROVE  Shape'
  <2>1. TypeOK'
    BY <1>25 DEF Audit, Answers, Ends
  <2>2. RequestsSound'
    BY <1>25 DEF Audit, Answers, Ends
  <2>3. LedgerSound'
    BY <1>25 DEF Audit, Answers, Ends
  <2> QED
    BY <2>1, <2>2, <2>3
<1>26. ASSUME NEW k \in Calls, Throws(k)
      PROVE  Shape'
  <2>1. TypeOK'
    BY <1>26 DEF Throws, Ends
  <2>2. RequestsSound'
    BY <1>26 DEF Throws, Ends
  <2>3. LedgerSound'
    BY <1>26 DEF Throws, Ends
  <2> QED
    BY <2>1, <2>2, <2>3
<1>27. ASSUME NEW k \in Calls, Drop(k)
      PROVE  Shape'
  <2>1. TypeOK'
    BY <1>27 DEF Drop, Ends
  <2>2. RequestsSound'
    BY <1>27 DEF Drop, Ends
  <2>3. LedgerSound'
    BY <1>27 DEF Drop, Ends
  <2> QED
    BY <2>1, <2>2, <2>3
<1>28. ASSUME SwitchRoute
      PROVE  Shape'
  <2>1. TypeOK'
    BY <1>28 DEF SwitchRoute
  <2>2. RequestsSound'
    BY <1>28 DEF SwitchRoute
  <2>3. LedgerSound'
    BY <1>28 DEF SwitchRoute
  <2> QED
    BY <2>1, <2>2, <2>3
<1>29. CASE UNCHANGED vars
  BY <1>29 DEF vars
<1> HIDE SettlementAssumption
         DEF Shape, TypeOK, BookTypeOK, RequestsSound, Sound, LedgerSound, Requests,
             PCs, PayPCs, Idle, At, PayStatus, Verdicts, Payments, ledger, world,
             others
<1>30. ASSUME NEW k \in Calls, Begin(k)
      PROVE  Shape'
  BY <1>30, <1>2, <1>6, <1>10, <1>12, <1>14, <1>16, <1>18 DEF Begin
<1>31. ASSUME NEW k \in Calls, Progress(k)
      PROVE  Shape'
  BY <1>31, <1>4, <1>5, <1>7, <1>8, <1>11, <1>13, <1>34, <1>15, <1>17, <1>20,
     <1>21, <1>22, <1>23, <1>24, <1>25 DEF Progress
<1>32. CASE Outside
  BY <1>32, <1>1, <1>9, <1>19, <1>28 DEF Outside
<1> QED
  BY <1>3, <1>26, <1>27, <1>29, <1>30, <1>31, <1>32 DEF Next

(* Every variable keeps its kind in every behaviour, whatever requests race:
   in particular no stock is ever negative and no payment is marked with a
   status or verdict the code does not know. *)
THEOREM TypesHold == Spec => []TypeOK
<1>1. Shape => TypeOK
  BY DEF Shape
<1> QED
  BY <1>1, ShapeInit, ShapeStep, PTL DEF Spec
-----------------------------------------------------------------------------
(* Calm behaviours: the requests in progress know only what stays true. *)
Calm(r) ==
  /\ r.pc \in {"query", "write"} => Fits(r.mark, payOrder[r.on])
  /\ r.pc = "reread" => order[payOrder[r.on]] # "PENDING"
  /\ r.pc = "verdict" =>
       /\ r.want # "PENDING" /\ order[payOrder[r.on]] # "PENDING"
       /\ r.want = "CANCELLED" => order[payOrder[r.on]] = "CANCELLED"

RequestsCalm == \A k \in Calls : Calm(call[k])

(* The inductive invariant of calm behaviours *)
CalmInv == Shape /\ VerdictMatchesOrder /\ RequestsCalm

(* A conditional cancellation is Cancel, or nothing when the claim fails. *)
LEMMA CancelFromBook ==
  ASSUME NEW o \in Orders, NEW S \in SUBSET Cancellable, CancelFrom(o, S)
  PROVE  Cancel(o) \/ UNCHANGED book
BY DEF CancelFrom, Cancel, book

(* Every calm step is a step of the order book or leaves it alone. *)
LEMMA BookStep == Shape /\ [CalmNext]_vars => [BookNext]_book
<1> SUFFICES ASSUME Shape, [CalmNext]_vars PROVE [BookNext]_book
  OBVIOUS
<1> USE DEF Shape, RequestsSound, Sound, At
<1>1. ASSUME NEW o \in Orders, PlaceOrder(o) PROVE BookNext
  BY <1>1 DEF PlaceOrder, BookNext
<1>2. ASSUME NEW k \in Calls, EditStore(k), ~ Overtaken(k) PROVE [BookNext]_book
  <2>1. /\ call[k].on \in Orders
        /\ order[call[k].on] = call[k].seen /\ call[k].seen \in OrderStatus
    BY <1>2 DEF EditStore, Overtaken
  <2>2. CASE call[k].want = call[k].seen
    <3>1. order' = order
      BY <1>2, <2>1, <2>2 DEF EditStore, TypeOK, BookTypeOK
    <3> QED
      BY <1>2, <3>1 DEF EditStore, book
  <2>3. CASE call[k].want # call[k].seen
    <3>1. call[k].want \in Transitions[order[call[k].on]] /\ call[k].want \in OrderStatus
      BY <1>2, <2>1, <2>3 DEF EditStore
    <3>2. Advance(call[k].on, call[k].want)
      BY <1>2, <2>1, <3>1 DEF EditStore, Advance
    <3> QED
      BY <2>1, <3>1, <3>2 DEF BookNext
  <2> QED
    BY <2>2, <2>3
<1>3. ASSUME NEW k \in Calls, EditCancel(k) PROVE [BookNext]_book
  <2>1. call[k].on \in Orders
    BY <1>3 DEF EditCancel
  <2> QED
    BY <1>3, <2>1, CancelFromBook DEF EditCancel, BookNext
<1>4. ASSUME NEW k \in Calls, CancelPending(k) PROVE [BookNext]_book
  <2>1. payOrder[call[k].on] \in Orders
    BY <1>4 DEF CancelPending, PayPCs
  <2>2. {"PENDING"} \in SUBSET Cancellable
    BY DEF Cancellable, Transitions, OrderStatus
  <2> QED
    BY <1>4, <2>1, <2>2, CancelFromBook DEF CancelPending, BookNext
<1>5. ASSUME NEW k \in Calls, SettleClaim(k) PROVE BookNext
  <2>1. payOrder[call[k].on] \in Orders
    BY <1>5 DEF SettleClaim, Claims, PayPCs
  <2>2. Advance(payOrder[call[k].on], "CONFIRMED")
    BY <1>5 DEF SettleClaim, Settle, Advance, Transitions, OrderStatus
  <2> QED
    BY <2>1, <2>2 DEF BookNext, OrderStatus
<1>6. ASSUME NEW k \in Calls, Begin(k) PROVE UNCHANGED book
  BY <1>6 DEF Begin, EditRead, InitiateCheck, TransferCheck, VerifyRead,
              CallbackRead, SubmitCheck, ReviewApprove, book
<1>7. ASSUME NEW k \in Calls, Progress(k), ~ EditCancel(k), ~ CancelPending(k),
             ~ SettleClaim(k)
      PROVE  UNCHANGED book
  BY <1>7 DEF Progress, StkPush, RecordPush, VerifyQuery, WriteStatus,
              TransferLock, TransferCreate, SubmitStore, SettleRefuse, SettleMiss, SettleReread,
              SettleStore, Settle, Audit, book
<1>8. ASSUME NEW k \in Calls, Throws(k) \/ Drop(k) PROVE UNCHANGED book
  BY <1>8 DEF Throws, Drop, book
<1>9. CASE UNCHANGED vars
  BY <1>9 DEF vars, book
<1>10. CASE Outside
  BY <1>1, <1>10 DEF Outside, Resolve, ReviewReject, SwitchRoute, book
<1> QED
  BY <1>2, <1>3, <1>4, <1>5, <1>6, <1>7, <1>8, <1>9, <1>10 DEF CalmNext

(* In the book an order that left PENDING never returns, and a cancelled one
   stays cancelled. *)
LEMMA BookMonotone ==
  ASSUME BookTypeOK, [BookNext]_book, NEW o \in Orders, order[o] # "NONE"
  PROVE  /\ order[o] # "PENDING" => order'[o] # "PENDING"
         /\ order[o] = "CANCELLED" => order'[o] = "CANCELLED"
<1>1. CASE UNCHANGED book
  BY <1>1 DEF book
<1>2. ASSUME NEW p \in Orders, Place(p) \/ Cancel(p)
      PROVE  /\ order[o] # "PENDING" => order'[o] # "PENDING"
             /\ order[o] = "CANCELLED" => order'[o] = "CANCELLED"
  BY <1>2 DEF BookTypeOK, Place, Cancel
<1>3. ASSUME NEW p \in Orders, NEW s \in OrderStatus, Advance(p, s)
      PROVE  /\ order[o] # "PENDING" => order'[o] # "PENDING"
             /\ order[o] = "CANCELLED" => order'[o] = "CANCELLED"
  BY <1>3 DEF BookTypeOK, Advance, Transitions, OrderStatus
<1> QED
  BY <1>1, <1>2, <1>3 DEF BookNext

(* CalmInv is preserved: again one step per action. *)
LEMMA CalmStep == CalmInv /\ [CalmNext]_vars => CalmInv'
<1> SUFFICES ASSUME CalmInv, [CalmNext]_vars PROVE CalmInv'
  OBVIOUS
<1>a. [Next]_vars
  BY DEF CalmNext, Next
<1>b. Shape /\ Shape'
  BY <1>a, ShapeStep DEF CalmInv
<1>c. \A o \in Orders : order[o] # "NONE" =>
        /\ order[o] # "PENDING" => order'[o] # "PENDING"
        /\ order[o] = "CANCELLED" => order'[o] = "CANCELLED"
  BY <1>b, BookStep, BookMonotone DEF Shape, TypeOK
<1> SUFFICES VerdictMatchesOrder' /\ RequestsCalm'
  BY <1>b DEF CalmInv
<1> USE <1>b, <1>c, SettlementAssumption
    DEF CalmInv, Shape, TypeOK, RequestsSound, Sound, LedgerSound, Requests,
        VerdictMatchesOrder, RequestsCalm, Calm, Fits, PayPCs, Idle, At, Payments,
        ledger, world, others

<1>1. ASSUME NEW o \in Orders, PlaceOrder(o)
      PROVE  VerdictMatchesOrder' /\ RequestsCalm'
  <2>1. VerdictMatchesOrder'
    BY <1>1 DEF PlaceOrder, Place
  <2>2. RequestsCalm'
    BY <1>1 DEF PlaceOrder, Place
  <2> QED
    BY <2>1, <2>2
<1>2. ASSUME NEW k \in Calls, NEW o \in Orders, NEW s \in OrderStatus,
             EditRead(k, o, s)
      PROVE  VerdictMatchesOrder' /\ RequestsCalm'
  <2>1. VerdictMatchesOrder'
    BY <1>2 DEF EditRead, Goes
  <2>2. RequestsCalm'
    BY <1>2 DEF EditRead, Goes
  <2> QED
    BY <2>1, <2>2
<1>3. ASSUME NEW k \in Calls, EditStore(k)
      PROVE  VerdictMatchesOrder' /\ RequestsCalm'
  <2>1. VerdictMatchesOrder'
    BY <1>3 DEF EditStore, Ends, Overtaken
  <2>2. RequestsCalm'
    BY <1>3 DEF EditStore, Ends, Overtaken
  <2> QED
    BY <2>1, <2>2
<1>4. ASSUME NEW k \in Calls, EditCancel(k)
      PROVE  VerdictMatchesOrder' /\ RequestsCalm'
  <2>1. VerdictMatchesOrder'
    BY <1>4 DEF EditCancel, CancelFrom, Ends
  <2>2. RequestsCalm'
    BY <1>4 DEF EditCancel, CancelFrom, Ends
  <2> QED
    BY <2>1, <2>2
<1>5. ASSUME NEW k \in Calls, CancelPending(k)
      PROVE  VerdictMatchesOrder' /\ RequestsCalm'
  <2>1. VerdictMatchesOrder'
    BY <1>5 DEF CancelPending, CancelFrom, Answers, Ends
  <2>2. RequestsCalm'
    BY <1>5 DEF CancelPending, CancelFrom, Answers, Ends
  <2> QED
    BY <2>1, <2>2
<1>6. ASSUME NEW k \in Calls, NEW o \in Orders, InitiateCheck(k, o)
      PROVE  VerdictMatchesOrder' /\ RequestsCalm'
  <2>1. VerdictMatchesOrder'
    BY <1>6 DEF InitiateCheck, Payable, Goes
  <2>2. RequestsCalm'
    BY <1>6 DEF InitiateCheck, Payable, Goes
  <2> QED
    BY <2>1, <2>2
<1>7. ASSUME NEW k \in Calls, NEW c \in Pushes, NEW a \in {"PROMPTED", "REJECTED"},
             StkPush(k, c, a)
      PROVE  VerdictMatchesOrder' /\ RequestsCalm'
  <2>1. VerdictMatchesOrder'
    BY <1>7 DEF StkPush, Goes
  <2>2. RequestsCalm'
    BY <1>7 DEF StkPush, Goes
  <2> QED
    BY <2>1, <2>2
<1>8. ASSUME NEW k \in Calls, RecordPush(k)
      PROVE  VerdictMatchesOrder' /\ RequestsCalm'
  <2>1. VerdictMatchesOrder'
    BY <1>8 DEF RecordPush, Ends
  <2>2. RequestsCalm'
    BY <1>8 DEF RecordPush, Ends
  <2> QED
    BY <2>1, <2>2
<1>9. ASSUME NEW c \in Pushes, NEW a \in {"PAID", "DECLINED"}, Resolve(c, a)
      PROVE  VerdictMatchesOrder' /\ RequestsCalm'
  <2>1. VerdictMatchesOrder'
    BY <1>9 DEF Resolve
  <2>2. RequestsCalm'
    BY <1>9 DEF Resolve
  <2> QED
    BY <2>1, <2>2
<1>10. ASSUME NEW k \in Calls, NEW o \in Orders, VerifyRead(k, o)
      PROVE  VerdictMatchesOrder' /\ RequestsCalm'
  <2>1. VerdictMatchesOrder'
    BY <1>10 DEF VerifyRead, Goes
  <2>2. RequestsCalm'
    BY <1>10 DEF VerifyRead, Goes
  <2> QED
    BY <2>1, <2>2
<1>11. ASSUME NEW k \in Calls, VerifyQuery(k)
      PROVE  VerdictMatchesOrder' /\ RequestsCalm'
  <2>1. VerdictMatchesOrder'
    BY <1>11 DEF VerifyQuery, Queried, Goes
  <2>2. RequestsCalm'
    BY <1>11 DEF VerifyQuery, Queried, Goes
  <2> QED
    BY <2>1, <2>2
<1>12. ASSUME NEW k \in Calls, NEW c \in Pushes, CallbackRead(k, c)
      PROVE  VerdictMatchesOrder' /\ RequestsCalm'
  <2>1. VerdictMatchesOrder'
    BY <1>12 DEF CallbackRead, Goes
  <2>2. RequestsCalm'
    BY <1>12 DEF CallbackRead, Goes
  <2> QED
    BY <2>1, <2>2
<1>13. ASSUME NEW k \in Calls, WriteStatus(k)
      PROVE  VerdictMatchesOrder' /\ RequestsCalm'
  <2>1. VerdictMatchesOrder'
    BY <1>13 DEF WriteStatus, Goes, Ends
  <2>2. RequestsCalm'
    BY <1>13 DEF WriteStatus, Goes, Ends
  <2> QED
    BY <2>1, <2>2
<1>14. ASSUME NEW k \in Calls, NEW o \in Orders, TransferCheck(k, o)
      PROVE  VerdictMatchesOrder' /\ RequestsCalm'
  <2>1. VerdictMatchesOrder'
    BY <1>14 DEF TransferCheck, Payable, Goes
  <2>2. RequestsCalm'
    BY <1>14 DEF TransferCheck, Payable, Goes
  <2> QED
    BY <2>1, <2>2
<1>34. ASSUME NEW k \in Calls, TransferLock(k)
      PROVE  VerdictMatchesOrder' /\ RequestsCalm'
  <2>1. VerdictMatchesOrder'
    BY <1>34 DEF TransferLock, Payable, Goes, Ends
  <2>2. RequestsCalm'
    BY <1>34 DEF TransferLock, Payable, Goes, Ends
  <2> QED
    BY <2>1, <2>2
<1>15. ASSUME NEW k \in Calls, TransferCreate(k)
      PROVE  VerdictMatchesOrder' /\ RequestsCalm'
  <2>1. VerdictMatchesOrder'
    BY <1>15 DEF TransferCreate, Ends
  <2>2. RequestsCalm'
    BY <1>15 DEF TransferCreate, Ends
  <2> QED
    BY <2>1, <2>2
<1>16. ASSUME NEW k \in Calls, NEW t \in Transfers, SubmitCheck(k, t)
      PROVE  VerdictMatchesOrder' /\ RequestsCalm'
  <2>1. VerdictMatchesOrder'
    BY <1>16 DEF SubmitCheck, Payable, Goes
  <2>2. RequestsCalm'
    BY <1>16 DEF SubmitCheck, Payable, Goes
  <2> QED
    BY <2>1, <2>2
<1>17. ASSUME NEW k \in Calls, SubmitStore(k)
      PROVE  VerdictMatchesOrder' /\ RequestsCalm'
  <2>1. VerdictMatchesOrder'
    BY <1>17 DEF SubmitStore, Ends
  <2>2. RequestsCalm'
    BY <1>17 DEF SubmitStore, Ends
  <2> QED
    BY <2>1, <2>2
<1>18. ASSUME NEW k \in Calls, NEW t \in Transfers, ReviewApprove(k, t)
      PROVE  VerdictMatchesOrder' /\ RequestsCalm'
  <2>1. VerdictMatchesOrder'
    BY <1>18 DEF ReviewApprove, Goes
  <2>2. RequestsCalm'
    BY <1>18 DEF ReviewApprove, Goes
  <2> QED
    BY <2>1, <2>2
<1>19. ASSUME NEW t \in Transfers, ReviewReject(t)
      PROVE  VerdictMatchesOrder' /\ RequestsCalm'
  <2>1. VerdictMatchesOrder'
    BY <1>19 DEF ReviewReject
  <2>2. RequestsCalm'
    BY <1>19 DEF ReviewReject
  <2> QED
    BY <2>1, <2>2
<1>20. ASSUME NEW k \in Calls, SettleRefuse(k)
      PROVE  VerdictMatchesOrder' /\ RequestsCalm'
  <2>1. VerdictMatchesOrder'
    BY <1>20 DEF SettleRefuse, Ends
  <2>2. RequestsCalm'
    BY <1>20 DEF SettleRefuse, Ends
  <2> QED
    BY <2>1, <2>2
<1>21. ASSUME NEW k \in Calls, SettleClaim(k)
      PROVE  VerdictMatchesOrder' /\ RequestsCalm'
  <2>1. VerdictMatchesOrder'
    <3>1. UNCHANGED payOrder /\ call[k].on \in Payments
          /\ payOrder[call[k].on] \in Orders
      BY <1>21 DEF SettleClaim, Claims, Settle
    <3>2. verdict'[call[k].on] = "ORDER_CONFIRMED"
          /\ order'[payOrder[call[k].on]] = "CONFIRMED"
      BY <1>21, <3>1 DEF SettleClaim, Settle, BookTypeOK
    <3>3. \A p \in Payments : p # call[k].on => verdict'[p] = verdict[p]
      BY <1>21 DEF SettleClaim, Settle
    <3>4. ASSUME NEW p \in Payments PROVE Fits(verdict[p], payOrder[p])'
      BY <3>1, <3>2, <3>3
    <3> QED
      BY <3>4
  <2>2. RequestsCalm'
    BY <1>21 DEF SettleClaim, Claims, Settle, Answers, Ends, Goes
  <2> QED
    BY <2>1, <2>2
<1>22. ASSUME NEW k \in Calls, SettleMiss(k)
      PROVE  VerdictMatchesOrder' /\ RequestsCalm'
  <2>1. VerdictMatchesOrder'
    BY <1>22 DEF SettleMiss, Claims, Goes
  <2>2. RequestsCalm'
    BY <1>22 DEF SettleMiss, Claims, Goes
  <2> QED
    BY <2>1, <2>2
<1>23. ASSUME NEW k \in Calls, SettleReread(k)
      PROVE  VerdictMatchesOrder' /\ RequestsCalm'
  <2>1. VerdictMatchesOrder'
    BY <1>23 DEF SettleReread, Goes
  <2>2. RequestsCalm'
    BY <1>23 DEF SettleReread, Goes
  <2> QED
    BY <2>1, <2>2
<1>24. ASSUME NEW k \in Calls, SettleStore(k)
      PROVE  VerdictMatchesOrder' /\ RequestsCalm'
  <2>1. VerdictMatchesOrder'
    BY <1>24 DEF SettleStore, VerdictFor, Settle, Answers, Ends, Goes
  <2>2. RequestsCalm'
    BY <1>24 DEF SettleStore, VerdictFor, Settle, Answers, Ends, Goes
  <2> QED
    BY <2>1, <2>2
<1>25. ASSUME NEW k \in Calls, Audit(k)
      PROVE  VerdictMatchesOrder' /\ RequestsCalm'
  <2>1. VerdictMatchesOrder'
    BY <1>25 DEF Audit, Answers, Ends
  <2>2. RequestsCalm'
    BY <1>25 DEF Audit, Answers, Ends
  <2> QED
    BY <2>1, <2>2
<1>26. ASSUME NEW k \in Calls, Throws(k)
      PROVE  VerdictMatchesOrder' /\ RequestsCalm'
  <2>1. VerdictMatchesOrder'
    BY <1>26 DEF Throws, Ends
  <2>2. RequestsCalm'
    BY <1>26 DEF Throws, Ends
  <2> QED
    BY <2>1, <2>2
<1>27. ASSUME NEW k \in Calls, Drop(k)
      PROVE  VerdictMatchesOrder' /\ RequestsCalm'
  <2>1. VerdictMatchesOrder'
    BY <1>27 DEF Drop, Ends
  <2>2. RequestsCalm'
    BY <1>27 DEF Drop, Ends
  <2> QED
    BY <2>1, <2>2
<1>28. ASSUME SwitchRoute
      PROVE  VerdictMatchesOrder' /\ RequestsCalm'
  <2>1. VerdictMatchesOrder'
    BY <1>28 DEF SwitchRoute
  <2>2. RequestsCalm'
    BY <1>28 DEF SwitchRoute
  <2> QED
    BY <2>1, <2>2
<1>29. CASE UNCHANGED vars
  BY <1>29 DEF vars
<1> HIDE <1>b, <1>c, SettlementAssumption
         DEF CalmInv, Shape, TypeOK, RequestsSound, Sound, LedgerSound, Requests,
             VerdictMatchesOrder, RequestsCalm, Calm, Fits, PayPCs, Idle, At,
             Payments, ledger, world, others
<1>30. ASSUME NEW k \in Calls, Begin(k)
      PROVE  VerdictMatchesOrder' /\ RequestsCalm'
  BY <1>30, <1>2, <1>6, <1>10, <1>12, <1>14, <1>16, <1>18 DEF Begin
<1>31. ASSUME NEW k \in Calls, Progress(k)
      PROVE  VerdictMatchesOrder' /\ RequestsCalm'
  BY <1>31, <1>4, <1>5, <1>7, <1>8, <1>11, <1>13, <1>34, <1>15, <1>17, <1>20,
     <1>21, <1>22, <1>23, <1>24, <1>25 DEF Progress
<1>32. CASE Outside
  BY <1>32, <1>1, <1>9, <1>19, <1>28 DEF Outside
<1> QED
  BY <1>3, <1>26, <1>27, <1>29, <1>30, <1>31, <1>32 DEF CalmNext

(* No payment has a verdict at first. *)
LEMMA CalmInit == Init => CalmInv
<1> SUFFICES ASSUME Init PROVE CalmInv
  OBVIOUS
<1>1. VerdictMatchesOrder
  BY DEF Init, VerdictMatchesOrder, Fits
<1>2. RequestsCalm
  BY DEF Init, RequestsCalm, Calm, Idle
<1> QED
  BY <1>1, <1>2, ShapeInit DEF CalmInv

(* As long as no edit is stored over another request's change, what
   finalizePendingOrderPayment and reviewManualShopperReceipt wrote beside a
   payment stays true of its order. *)
THEOREM VerdictsHold == CalmSpec => []VerdictMatchesOrder
<1>1. CalmInv => VerdictMatchesOrder
  BY DEF CalmInv
<1> QED
  BY <1>1, CalmInit, CalmStep, PTL DEF CalmSpec

(* In calm behaviours the requests of Settlement, statement by statement,
   implement the atomic order book: createOrder, updateOrderStatus and both
   cancellations look like Place, Advance and Cancel. *)
THEOREM ImplementsBook == CalmSpec => BookSpec
<1>1. Init => BookInit
  BY DEF Init
<1>2. CalmInv /\ [CalmNext]_vars => [BookNext]_book
  BY BookStep DEF CalmInv
<1> QED
  BY <1>1, <1>2, CalmInit, CalmStep, PTL DEF CalmSpec, BookSpec

(* ... and so, under the same condition, cancellations by merchants and by
   failed prompts together neither lose stock nor sell a unit twice. *)
THEOREM StockHolds == CalmSpec => [](StockConserved /\ NoOversell)
BY ImplementsBook, BookCorrect, PTL
=============================================================================

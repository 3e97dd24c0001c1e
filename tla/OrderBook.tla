------------------------------ MODULE OrderBook -----------------------------
(***************************************************************************)
(* What the shop promises about orders and stock, whatever requests race:  *)
(* an order takes its units off the shelf when it is placed, moves along   *)
(* ORDER_STATUS_TRANSITIONS, and gives its units back exactly when it is   *)
(* cancelled.  Every action is atomic here; Settlement has the requests    *)
(* that carry them out statement by statement.                             *)
(***************************************************************************)
EXTENDS Integers, FiniteSets

CONSTANTS
  Orders,       \* shopper orders that may be placed
  Rows,         \* stock-keeping rows: a product, or a variant of one
  Qty,          \* Qty[o][r]: units of row r that order o takes
  Supply        \* Supply[r]: units of row r before any order

ASSUME BookAssumption ==
  /\ Qty \in [Orders -> [Rows -> Nat]]
  /\ Supply \in [Rows -> Nat]

VARIABLES
  order,     \* status of each order, "NONE" before it is placed
  stock      \* units of each row on the shelf

book == << order, stock >>

OrderStatus == { "PENDING", "CONFIRMED", "PROCESSING", "SHIPPED",
                 "OUT_FOR_DELIVERY", "DELIVERED", "CANCELLED" }

(* ORDER_STATUS_TRANSITIONS *)
Transitions ==
  [ s \in OrderStatus |->
      CASE s = "PENDING"          -> {"CONFIRMED", "CANCELLED"}
        [] s = "CONFIRMED"        -> {"PROCESSING", "CANCELLED"}
        [] s = "PROCESSING"       -> {"SHIPPED", "CANCELLED"}
        [] s = "SHIPPED"          -> {"OUT_FOR_DELIVERY", "DELIVERED"}
        [] s = "OUT_FOR_DELIVERY" -> {"DELIVERED"}
        [] OTHER                  -> {} ]

Cancellable == { s \in OrderStatus : "CANCELLED" \in Transitions[s] }

BookInit ==
  /\ order = [o \in Orders |-> "NONE"]
  /\ stock = Supply

Reserved(o) == [r \in Rows |-> stock[r] - Qty[o][r]]
Restored(o) == [r \in Rows |-> stock[r] + Qty[o][r]]

(* createOrder commits: every conditional decrement found enough stock. *)
Place(o) ==
  /\ order[o] = "NONE"
  /\ \A r \in Rows : stock[r] >= Qty[o][r]
  /\ order' = [order EXCEPT ![o] = "PENDING"]
  /\ stock' = Reserved(o)

Advance(o, s) ==
  /\ order[o] \in OrderStatus
  /\ s \in Transitions[order[o]] \ {"CANCELLED"}
  /\ order' = [order EXCEPT ![o] = s]
  /\ UNCHANGED stock

Cancel(o) ==
  /\ order[o] \in Cancellable
  /\ order' = [order EXCEPT ![o] = "CANCELLED"]
  /\ stock' = Restored(o)

BookNext ==
  \E o \in Orders : \/ Place(o) \/ Cancel(o)
                    \/ \E s \in OrderStatus : Advance(o, s)

BookSpec == BookInit /\ [][BookNext]_book
-----------------------------------------------------------------------------
BookTypeOK ==
  /\ order \in [Orders -> OrderStatus \cup {"NONE"}]
  /\ stock \in [Rows -> Nat]

(* The units an order takes off a row, and those all live orders hold *)
Units(o, r) == {o} \X (1 .. Qty[o][r])

UnitsOf(S, r) == UNION { Units(o, r) : o \in S }

Live == { o \in Orders : order[o] \notin {"NONE", "CANCELLED"} }

Held(r) == UnitsOf(Live, r)

(* The shelf and the live orders together hold what there was at first: no
   unit is sold twice and none is given back twice or lost (the decrements of
   createOrder, the increments of both cancellations). *)
StockConserved == \A r \in Rows : stock[r] + Cardinality(Held(r)) = Supply[r]

(* "Decrement stock atomically so concurrent checkouts cannot oversell"
   (order.service.ts): live orders never hold more than there was. *)
NoOversell == \A r \in Rows : Cardinality(Held(r)) <= Supply[r]
=============================================================================

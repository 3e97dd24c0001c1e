---------------------------- MODULE MCSettlement ----------------------------
(* Small instances of Settlement and its reports for TLC. *)
EXTENDS Analytics, TLC

CONSTANTS o1, o2, c1, c2, t1, t2, k1, k2, shelf, rack

TwoOrders == {o1, o2}
OneOrder == {o1}

(* Two units of every row: o1 takes both of them, another order one *)
QtyTwo == [ o \in Orders |-> [ r \in Rows |-> IF o = o1 THEN 2 ELSE 1 ] ]
SupplyTwo == [ r \in Rows |-> 2 ]

(* One unit of every row, and every order wants it *)
QtyOne == [ o \in Orders |-> [ r \in Rows |-> 1 ] ]
SupplyOne == [ r \in Rows |-> 1 ]

(* Reports of the last four instants, at 9.  o1 is placed as they begin, o2
   just before; a guest placed o2, to an address without a county. *)
PlacedAt == [ o \in Orders |-> IF o = o1 THEN 5 ELSE 4 ]
Totals == [ o \in Orders |-> IF o = o1 THEN 30 ELSE 7 ]
Prices == [ r \in Rows |-> IF r = shelf THEN 9 ELSE 5 ]
Products == [ r \in Rows |-> IF r = shelf THEN "phone" ELSE "case" ]
Categories == [ d \in { Products[r] : r \in Rows } |-> IF d = "phone" THEN "phones" ELSE "cases" ]
Counties == [ o \in Orders |-> IF o = o1 THEN "Nairobi" ELSE None ]
Buyers == [ o \in Orders |-> IF o = o1 THEN "wanjiku" ELSE None ]

Symmetric == Permutations(Calls) \cup Permutations(Transfers) \cup Permutations(Pushes)
=============================================================================

------------------------------ MODULE MCCheckout ----------------------------
(* A small instance of Checkout for TLC: a1 is sent again as a2; a3 and a4
   come without a key.  The shirt's variants are listed in opposite orders. *)
EXTENDS Checkout, TLC

CONSTANTS a1, a2, a3, a4, c1, c2, key, mug, red, large

Line(rows, units) == [rows |-> rows, units |-> units]

(* The first cart lists the shirt before the mug, and the mug twice. *)
ShirtThenMugs == << Line(<<red, large>>, 1), Line(<<mug>>, 1), Line(<<mug>>, 1) >>
LargeShirt == << Line(<<large, red>>, 1) >>
JustMug == << Line(<<mug>>, 1) >>

SmallCarts == [ a \in Attempts |->
  CASE a \in {a1, a2} -> ShirtThenMugs
    [] a = a3         -> JustMug
    [] OTHER          -> LargeShirt ]

SmallKeys == [ a \in Attempts |-> IF a \in {a1, a2} THEN key ELSE None ]

(* The mugs last for one of the carts that name them. *)
SmallSupply == [ r \in Rows |-> 2 ]

(* One shirt, for which the carts of a1 and a4 lock the variants in opposite
   orders *)
OneShirt == [ r \in Rows |-> IF r = mug THEN 2 ELSE 1 ]

Symmetric == Permutations(Cancels)
=============================================================================

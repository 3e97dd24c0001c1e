----------------------------- MODULE MCBilling -----------------------------
(* Billing with model values, for TLC *)
EXTENDS Billing, TLC

CONSTANTS k1, k2

OneCall  == {k1}
TwoCalls == {k1, k2}

Symmetry == Permutations(Calls)
=============================================================================

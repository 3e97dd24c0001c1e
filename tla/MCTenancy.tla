----------------------------- MODULE MCTenancy -----------------------------
(* Tenancy with model values, for TLC *)
EXTENDS Tenancy, TLC

CONSTANTS w1, w2, k1, k2

OneRun   == {w1}
TwoRuns  == {w1, w2}
NoCall   == {}
OneCall  == {k1}
TwoCalls == {k1, k2}

Symmetry == Permutations(Workers) \cup Permutations(Calls)
=============================================================================

--------------------------- MODULE MCVerification ---------------------------
(* Verification with model values, for TLC *)
EXTENDS Verification, TLC

CONSTANTS k1, k2, f1, f2, p1, p2, d1, d2

(* Two sets of details that differ in the phone; both call for an identity
   document, the second for the registration of the business as well *)
PhoneOf == f1 :> p1 @@ f2 :> p2
NeedsOf == f1 :> {"id"} @@ f2 :> {"id", "registration"}
OneType == d1 :> "id"
TwoTypes == d1 :> "id" @@ d2 :> "registration"

Symmetry == Permutations(Calls)
=============================================================================

---------------------------- MODULE MCCatalogue -----------------------------
(* Catalogue with model values, for TLC: one product with a variant, whose name
   is written in two ways, and beside it none, or another one of the same
   category or, with a variant, of another one *)
EXTENDS Catalogue, TLC

CONSTANTS p1, p2, v1, v2, l1, l2, k1, k2, colour, plain, red, RED

OneProduct == { p1 }
OneVariant == p1 :> {v1}
OneCategory == p1 :> "phones"
OneMeaning == p1 :> [ t \in Texts |-> IF t = plain THEN {} ELSE {v1} ]
OneOption == [ v \in Variants |-> colour ]

OtherRow(units, c) ==
  [ stock |-> IF units = << >> THEN 1 ELSE 0, variants |-> units, category |-> c ]
OtherRows == { OtherRow(<< >>, "phones"), OtherRow(v2 :> 1, "phones"),
               OtherRow(v2 :> 1, "cases") }
NoneOrOther == { << >> } \cup { p2 :> row : row \in OtherRows }

Symmetry == Permutations(Calls) \cup Permutations(Lines)
            \cup Permutations(Texts \ {plain})
=============================================================================

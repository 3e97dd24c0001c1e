----------------------------- MODULE Inventory -----------------------------
(***************************************************************************)
(* What a store's stock means to those who look at it: the variants a       *)
(* shopper may select, the merchant's inventory reports, and the products   *)
(* that the catalogue and the recommendations show.                         *)
(*                                                                         *)
(* A catalogue is a function from products to their rows; a row has its own *)
(* stock, the stock of each of its variants, and its category.  A report    *)
(* names an item: a product with None, or a product with one variant.       *)
(* Names, images and prices are left out of the reports.                    *)
(***************************************************************************)
EXTENDS Integers, FiniteSetsExt

CONSTANTS
  Variants,  \* variants of all products
  Option,    \* the option each variant is a value of, a colour or a size
  Low,       \* stock at or under which the merchant is warned, 10
  Window,    \* days of sales that reordering looks at, 30
  None

ASSUME InventoryAssumption ==
  /\ None \notin Variants
  /\ Low \in Nat \ {0} /\ Window \in Nat \ {0}

(* What every row of a catalogue is: stock is counted *)
IsRow(row) ==
  row.stock \in Nat /\ \A v \in DOMAIN row.variants : row.variants[v] \in Nat

HasVariants(row) == DOMAIN row.variants # {}
-----------------------------------------------------------------------------
(* What a shopper selects: resolveVariantSelection *)

(* Every one selected is there, and no option is selected twice *)
Valid(row, sel) ==
  /\ sel \subseteq DOMAIN row.variants
  /\ \A v, w \in sel : v # w => Option[v] # Option[w]

(* Nothing selected means the product's own stock, variants or not *)
MaxStock(row, sel) ==
  IF sel = {} THEN row.stock ELSE Min({ row.variants[v] : v \in sel })

Stocked(row, sel, n) == Valid(row, sel) /\ n <= MaxStock(row, sel)
-----------------------------------------------------------------------------
(* The merchant's reports *)

IsLow(n) == 0 < n /\ n <= Low

(* getInventoryOverview counts these three *)
InStock(cat) ==
  { p \in DOMAIN cat : IF HasVariants(cat[p])
      THEN \E v \in DOMAIN cat[p].variants : cat[p].variants[v] > 0
      ELSE cat[p].stock > 0 }

LowInStock(cat) ==
  { p \in DOMAIN cat : IF HasVariants(cat[p])
      THEN \E v \in DOMAIN cat[p].variants : IsLow(cat[p].variants[v])
      ELSE IsLow(cat[p].stock) }

SoldOut(cat) ==
  { p \in DOMAIN cat : IF HasVariants(cat[p])
      THEN \A v \in DOMAIN cat[p].variants : cat[p].variants[v] = 0
      ELSE cat[p].stock = 0 }

(* The two lists read a product with those of its variants that match, and take
   one without such a variant for one that has no variants *)
ListOf(cat, quantities) ==
  UNION { LET found == { v \in DOMAIN cat[p].variants : cat[p].variants[v] \in quantities }
          IN  IF found # {} THEN {p} \X found
              ELSE IF cat[p].stock \in quantities THEN { << p, None >> } ELSE {} : p \in DOMAIN cat }

LowStockList(cat) == ListOf(cat, 1..Low)
OutOfStockList(cat) == ListOf(cat, {0})

(* The items with stock of their own: a product, or else its variants *)
Items(cat) ==
  { << p, None >> : p \in { q \in DOMAIN cat : ~HasVariants(cat[q]) } }
    \cup UNION { {p} \X (DOMAIN cat[p].variants) : p \in DOMAIN cat }

StockOf(cat, i) == IF i[2] = None THEN cat[i[1]].stock ELSE cat[i[1]].variants[i[2]]

(* Faulty: a product with variants is warned of like one without *)
AlertsOfAll(cat) ==
  { [ on |-> i, critical |-> StockOf(cat, i) = 0 ] :
      i \in { j \in Items(cat) \cup { << p, None >> : p \in DOMAIN cat } :
             StockOf(cat, j) <= Low } }

(* getStockAlerts *)
Alerts(cat) ==
  { [ on |-> i, critical |-> StockOf(cat, i) = 0 ] :
      i \in { j \in Items(cat) : StockOf(cat, j) <= Low } }

(* Reordering: units sold in the Window give the days that the stock lasts *)
CeilDiv(a, b) == (a + b - 1) \div b

LastsUnder(n, units, days) == units > 0 /\ n * Window < days * units

Runs(n, units) == n <= Low \/ LastsUnder(n, units, 14)

Largest(a, b) == IF a > b THEN a ELSE b

(* Faulty: the buffer alone *)
QuantityOfBuffer(n, units) == Low - n + 10

(* Thirty days of sales, or a buffer over the warning *)
Quantity(n, units) == Largest(CeilDiv(units * 30, Window), Low - n + 10)

Priority(n, units) ==
  CASE n = 0 \/ LastsUnder(n, units, 7) -> "HIGH"
    [] n # 0 /\ LastsUnder(n, units, 14) /\ ~LastsUnder(n, units, 7) -> "MEDIUM"
    [] OTHER -> "LOW"

(* getReorderSuggestions *)
Reorder(cat, sold) ==
  { [ on |-> i, quantity |-> Quantity(StockOf(cat, i), sold[i]),
      priority |-> Priority(StockOf(cat, i), sold[i]) ] :
      i \in { j \in Items(cat) : Runs(StockOf(cat, j), sold[j]) } }
-----------------------------------------------------------------------------
(* What shoppers are shown *)

(* The catalogue's filter "in stock" *)
Listed(cat, hidden) ==
  { p \in DOMAIN cat :
      /\ cat[p].category \notin hidden
      /\ cat[p].stock > 0 \/ \E v \in DOMAIN cat[p].variants : cat[p].variants[v] > 0 }

(* Faulty: the product's own stock counts beside its variants' *)
AvailableByStock(row) ==
  row.stock > 0 \/ \E v \in DOMAIN row.variants : row.variants[v] > 0

(* availableProductWhere *)
Available(row) ==
  \/ ~HasVariants(row) /\ row.stock > 0
  \/ \E v \in DOMAIN row.variants : row.variants[v] > 0

(* Featured products, new arrivals and deals are those marked as such *)
Promoted(cat, hidden, marked) ==
  { p \in DOMAIN cat \cap marked : Available(cat[p]) /\ cat[p].category \notin hidden }

(* The `limit' best sold of the categories shown, a tie broken in some way, and
   of these the available ones; without sales, products like the promoted *)
BestSold(cat, hidden, units, limit) ==
  LET sold == { p \in DOMAIN cat : units[p] > 0 /\ cat[p].category \notin hidden }
  IN  { best \in SUBSET sold :
          /\ Cardinality(best) = Min({ limit, Cardinality(sold) })
          /\ \A p \in best, q \in sold \ best : units[p] >= units[q] }

Trending(cat, hidden, units, limit) ==
  { IF best = {} THEN Promoted(cat, hidden, DOMAIN cat)
                 ELSE { p \in best : Available(cat[p]) } :
      best \in BestSold(cat, hidden, units, limit) }

(* Those of the same category; the price has to be near as well *)
Similar(cat, p) ==
  { q \in DOMAIN cat \ {p} : Available(cat[q]) /\ cat[q].category = cat[p].category }

(* Personal recommendations come from what the shopper viewed, bought and
   wished for, and from the categories of what was bought *)
Recommended(cat, viewed, bought, wished) ==
  LET mine == { p \in DOMAIN cat \cap (viewed \cup bought \cup wished) : Available(cat[p]) }
      liked == { cat[p].category : p \in mine \cap bought }
  IN  mine \cup { p \in DOMAIN cat : Available(cat[p]) /\ cat[p].category \in liked }
=============================================================================

--------------------------- MODULE CatalogueProofs --------------------------
(***************************************************************************)
(* Proofs about the modules Inventory and Catalogue, for any catalogue, any *)
(* number of requests and rows: the type of the state, one row of the cart  *)
(* for a selection, a cart within the stock; and, of every state reached,   *)
(* that the merchant's reports agree, that a reordered item is not reordered*)
(* again, and that what shoppers are shown can be ordered.                  *)
(***************************************************************************)
EXTENDS Catalogue, FiniteSetTheorems, TLAPS

-----------------------------------------------------------------------------
(* About Inventory's operators *)

(* A set of naturals that is not empty has a least element, and it is Min.  The
   library's induction over naturals takes an operator; that the proper subset
   is well-founded on finite sets does not: of the intervals under the elements
   the smallest is the one under the least. *)
LEMMA Least ==
  ASSUME NEW S \in SUBSET Nat, S # {}
  PROVE  Min(S) \in S /\ \A n \in S : Min(S) <= n
<1> DEFINE Below == { 0 .. n - 1 : n \in S }
<1>1. Below \subseteq FiniteSubsetsOf(Nat) /\ Below # {}
  <2>1. ASSUME NEW n \in S  PROVE  0 .. n - 1 \in FiniteSubsetsOf(Nat)
    <3>1. n - 1 \in Int /\ 0 \in Int
      OBVIOUS
    <3>2. IsFiniteSet(0 .. n - 1)
      BY <3>1, FS_Interval
    <3> QED BY <3>1, <3>2 DEF FiniteSubsetsOf
  <2> QED BY <2>1
<1>2. IsWellFoundedOn(StrictSubsetOrdering(Nat), FiniteSubsetsOf(Nat))
  BY FS_StrictSubsetOrderingWellFounded
<1>3. PICK X \in Below : \A Y \in Below : << Y, X >> \notin StrictSubsetOrdering(Nat)
  <2> HIDE DEF Below
  <2> QED BY <1>1, <1>2, WFMin
<1>4. PICK m \in S : X = 0 .. m - 1
  OBVIOUS
<1>5. ASSUME NEW n \in S  PROVE  m <= n
  <2> SUFFICES ASSUME n < m  PROVE  FALSE
    OBVIOUS
  <2>1. 0 .. n - 1 \subseteq 0 .. m - 1 /\ n \in 0 .. m - 1 /\ n \notin 0 .. n - 1
    OBVIOUS
  <2>2. << 0 .. n - 1, 0 .. m - 1 >> \in StrictSubsetOrdering(Nat)
    <3> HIDE DEF Below
    <3>1. 0 .. n - 1 \in SUBSET Nat /\ 0 .. m - 1 \in SUBSET Nat
      OBVIOUS
    <3> QED BY <2>1, <3>1 DEF StrictSubsetOrdering
  <2> QED BY <1>3, <1>4, <2>2
<1> QED BY <1>5 DEF Min

(* A selection is stocked when every variant of it is, or the product's own
   stock for none. *)
LEMMA StockedIs ==
  ASSUME NEW row, IsRow(row), NEW sel, NEW n \in Nat
  PROVE  Stocked(row, sel, n) <=>
           Valid(row, sel) /\ IF sel = {} THEN n <= row.stock
                                         ELSE \A v \in sel : n <= row.variants[v]
<1>1. CASE sel = {}
  BY <1>1 DEF Stocked, MaxStock
<1>2. CASE sel # {} /\ ~Valid(row, sel)
  BY <1>2 DEF Stocked
<1>3. CASE sel # {} /\ Valid(row, sel)
  <2> DEFINE S == { row.variants[v] : v \in sel }
  <2>1. S \in SUBSET Nat /\ S # {}
    BY <1>3 DEF IsRow, Valid
  <2> PICK least : least = Min(S)
    OBVIOUS
  <2>2. least \in S /\ \A m \in S : least <= m
    <3> HIDE DEF S
    <3> QED BY <2>1, Least
  <2>3. MaxStock(row, sel) = least
    BY <1>3 DEF MaxStock
  <2>4. Stocked(row, sel, n) <=> n <= least
    BY <1>3, <2>3 DEF Stocked
  <2>5. ASSUME n <= least, NEW v \in sel  PROVE  n <= row.variants[v]
    <3>1. row.variants[v] \in S
      OBVIOUS
    <3>2. least <= row.variants[v] /\ row.variants[v] \in Nat /\ least \in Nat
      BY <2>1, <2>2, <3>1
    <3> HIDE DEF S
    <3> QED BY <2>5, <3>2
  <2>6. ASSUME \A v \in sel : n <= row.variants[v]  PROVE  n <= least
    BY <2>2, <2>6
  <2> HIDE DEF S
  <2> QED BY <1>3, <2>4, <2>5, <2>6
<1> QED BY <1>1, <1>2, <1>3

(* The most that a valid selection can be asked for is stocked. *)
LEMMA MaxIsStocked ==
  ASSUME NEW row, IsRow(row), NEW sel, Valid(row, sel)
  PROVE  MaxStock(row, sel) \in Nat /\ Stocked(row, sel, MaxStock(row, sel))
<1>1. CASE sel = {}
  BY <1>1 DEF Stocked, MaxStock, IsRow
<1>2. CASE sel # {}
  <2> DEFINE S == { row.variants[v] : v \in sel }
  <2>1. S \in SUBSET Nat /\ S # {}
    BY <1>2 DEF IsRow, Valid
  <2>2. Min(S) \in Nat
    <3> HIDE DEF S
    <3> QED BY <2>1, Least
  <2>3. MaxStock(row, sel) = Min(S)
    BY <1>2 DEF MaxStock
  <2> HIDE DEF S
  <2> QED BY <2>2, <2>3 DEF Stocked
<1> QED BY <1>1, <1>2

(* Less than what is stocked is stocked, and more stock serves it as well. *)
LEMMA StockedIsKept ==
  ASSUME NEW row, IsRow(row), NEW more, IsRow(more), NEW sel,
         NEW n \in Nat, NEW m \in Nat, m <= n,
         DOMAIN more.variants = DOMAIN row.variants,
         row.stock <= more.stock,
         \A v \in DOMAIN row.variants : row.variants[v] <= more.variants[v],
         Stocked(row, sel, n)
  PROVE  Stocked(more, sel, m)
<1>1. Valid(row, sel) /\ IF sel = {} THEN n <= row.stock
                                     ELSE \A v \in sel : n <= row.variants[v]
  BY StockedIs
<1>2. Valid(more, sel)
  BY <1>1 DEF Valid
<1>3. CASE sel = {}
  <2>1. m <= more.stock
    BY <1>1, <1>3 DEF IsRow
  <2> QED BY <1>2, <1>3, <2>1, StockedIs
<1>4. CASE sel # {}
  <2>1. ASSUME NEW v \in sel  PROVE  m <= more.variants[v]
    BY <1>1, <1>2, <1>4 DEF IsRow, Valid
  <2> QED BY <1>2, <1>4, <2>1, StockedIs
<1> QED BY <1>3, <1>4
-----------------------------------------------------------------------------
(* The type of the state *)

(* What the shop is, beside the requests and the cart, said of each product. *)
RowOK(p, row) ==
  /\ row \in ProductRow
  /\ row.category = Category[p] /\ DOMAIN row.variants \subseteq VariantsOf[p]

LEMMA ShopIs ==
  ShopOK <=>
    /\ DOMAIN cat \subseteq Products /\ cat = [p \in DOMAIN cat |-> cat[p]]
    /\ \A p \in DOMAIN cat : RowOK(p, cat[p])
    /\ ordered \subseteq DOMAIN cat /\ hidden \subseteq Categories /\ lowered \in BOOLEAN
<1>1. ASSUME ShopOK
      PROVE  /\ DOMAIN cat \subseteq Products /\ cat = [p \in DOMAIN cat |-> cat[p]]
             /\ \A p \in DOMAIN cat : cat[p] \in ProductRow
  <2>1. PICK ps \in SUBSET Products : cat \in [ps -> ProductRow]
    BY <1>1 DEF ShopOK
  <2> QED BY <2>1
<1>2. ASSUME DOMAIN cat \subseteq Products, cat = [p \in DOMAIN cat |-> cat[p]],
             \A p \in DOMAIN cat : RowOK(p, cat[p])
      PROVE  cat \in UNION { [ps -> ProductRow] : ps \in SUBSET Products }
  <2>1. cat \in [DOMAIN cat -> ProductRow]
    BY <1>2 DEF RowOK
  <2> QED BY <1>2, <2>1
<1> QED BY <1>1, <1>2 DEF ShopOK, RowOK

(* The stock by variant of a row, as a function with some domain. *)
LEMMA UnitsAre ==
  ASSUME NEW units
  PROVE  units \in StockByVariant <=>
           /\ DOMAIN units \subseteq Variants /\ units = [v \in DOMAIN units |-> units[v]]
           /\ \A v \in DOMAIN units : units[v] \in 0 .. MaxUnits
<1>1. ASSUME units \in StockByVariant
      PROVE  /\ DOMAIN units \subseteq Variants /\ units = [v \in DOMAIN units |-> units[v]]
             /\ \A v \in DOMAIN units : units[v] \in 0 .. MaxUnits
  <2>1. PICK vs \in SUBSET Variants : units \in [vs -> 0 .. MaxUnits]
    BY <1>1 DEF StockByVariant
  <2> QED BY <2>1
<1>2. ASSUME DOMAIN units \subseteq Variants, units = [v \in DOMAIN units |-> units[v]],
             \A v \in DOMAIN units : units[v] \in 0 .. MaxUnits
      PROVE  units \in StockByVariant
  <2>1. units \in [DOMAIN units -> 0 .. MaxUnits]
    BY <1>2
  <2> QED BY <1>2, <2>1 DEF StockByVariant
<1> QED BY <1>1, <1>2

(* The rows of the catalogue count their stock, under the bound. *)
LEMMA RowsCount ==
  ASSUME ShopOK, NEW p \in DOMAIN cat
  PROVE  /\ p \in Products /\ IsRow(cat[p]) /\ cat[p].stock \in 0 .. MaxUnits
         /\ \A v \in DOMAIN cat[p].variants :
              v \in Variants /\ cat[p].variants[v] \in 0 .. MaxUnits
<1>1. RowOK(p, cat[p]) /\ p \in Products
  BY ShopIs
<1>2. cat[p].variants \in StockByVariant /\ cat[p].stock \in 0 .. MaxUnits
  BY <1>1 DEF RowOK, ProductRow
<1>3. \A v \in DOMAIN cat[p].variants : v \in Variants /\ cat[p].variants[v] \in 0 .. MaxUnits
  BY <1>2, UnitsAre
<1> QED BY <1>1, <1>2, <1>3 DEF IsRow

(* What a selection of a product there is can be asked for at most. *)
LEMMA StockIsBounded ==
  ASSUME ShopOK, NEW p \in DOMAIN cat, NEW sel, Valid(cat[p], sel)
  PROVE  /\ MaxStock(cat[p], sel) \in 0 .. MaxUnits
         /\ Stocked(cat[p], sel, MaxStock(cat[p], sel))
         /\ sel \in SUBSET Variants
<1> DEFINE max == MaxStock(cat[p], sel)
<1>1. max \in Nat /\ Stocked(cat[p], sel, max)
  BY RowsCount, MaxIsStocked
<1>2. sel \subseteq DOMAIN cat[p].variants
  BY DEF Valid
<1>3. MaxUnits \in Nat
  BY CatalogueAssumption
<1> HIDE DEF max
<1>4. CASE sel = {}
  <2>1. max <= cat[p].stock
    BY <1>1, <1>4, RowsCount, StockedIs
  <2> QED BY <1>1, <1>2, <1>3, <1>4, <2>1, RowsCount DEF max
<1>5. CASE sel # {}
  <2>1. PICK v \in sel : max <= cat[p].variants[v]
    BY <1>1, <1>5, RowsCount, StockedIs
  <2> QED BY <1>1, <1>2, <1>3, <2>1, RowsCount DEF max
<1> QED BY <1>4, <1>5

-----------------------------------------------------------------------------
(* What a request holds on to as it proceeds. *)
CallOK(c) ==
  /\ c \in CallState
  /\ c.pc \in { "lock", "find", "write" } => c.of \in Products /\ c.text \in Texts
  /\ c.pc \in { "lock", "find" } => c.line = None
  /\ c.pc = "set" => c.line \in Lines
  /\ c.pc # "idle" => c.units >= 1

Typed == TypeOK /\ \A k \in Calls : CallOK(call[k])

LEMMA IdleIsOK == CallOK(Idle)
BY CatalogueAssumption DEF CallOK, CallState, Idle

LEMMA Bounds == 0 \in 0 .. MaxUnits /\ MaxUnits \in Nat
BY CatalogueAssumption

LEMMA TypedInit == Init => Typed
<1> SUFFICES ASSUME Init  PROVE  Typed
  OBVIOUS
<1>1. cat = << >> /\ DOMAIN cat = {}
  BY DEF Init
<1>2. cat = [p \in DOMAIN cat |-> cat[p]]
  BY <1>1
<1>3. ShopOK
  BY <1>1, <1>2, ShopIs DEF Init
<1>4. cart \in [Lines -> CartRow \cup {None}]
  BY DEF Init
<1>5. call \in [Calls -> CallState] /\ \A k \in Calls : CallOK(call[k])
  BY IdleIsOK DEF Init, CallOK
<1> QED BY <1>3, <1>4, <1>5 DEF Typed, TypeOK

(* A request proceeds, with the cart written or not. *)
LEMMA CallTyped ==
  ASSUME Typed, NEW k \in Calls, NEW c, CallOK(c),
         call' = [call EXCEPT ![k] = c], UNCHANGED shop,
         cart' \in [Lines -> CartRow \cup {None}]
  PROVE  Typed'
<1>1. ShopOK'
  BY DEF Typed, TypeOK, ShopOK, ProductRow, StockByVariant, Categories, shop
<1>2. CartRow' = CartRow
  BY DEF CartRow, shop
<1>3. call' \in [Calls -> CallState] /\ \A j \in Calls : CallOK(call'[j])
  BY DEF Typed, TypeOK, CallOK
<1>4. (\A j \in Calls : CallOK(call[j]))'
  BY <1>3 DEF CallOK, CallState
<1> QED BY <1>1, <1>2, <1>3, <1>4 DEF Typed, TypeOK, CallState

(* A request writes the units of a row, or a row of its own. *)
LEMMA RowTyped ==
  ASSUME Typed, NEW l \in Lines, NEW r, r \in CartRow \cup {None}
  PROVE  [cart EXCEPT ![l] = r] \in [Lines -> CartRow \cup {None}]
BY DEF Typed, TypeOK

LEMMA UnitsTyped ==
  ASSUME Typed, NEW l \in Rows, NEW n \in 1 .. MaxUnits
  PROVE  [cart EXCEPT ![l].units = n] \in [Lines -> CartRow \cup {None}]
<1>1. l \in Lines /\ cart[l] \in CartRow
  BY DEF Typed, TypeOK, Rows
<1>2. [cart[l] EXCEPT !.units = n] \in CartRow
  BY <1>1 DEF CartRow
<1> QED BY <1>1, <1>2 DEF Typed, TypeOK

(* The shop changes, and no row of the cart is left without its product. *)
LEMMA ShopTyped ==
  ASSUME Typed, ShopOK', UNCHANGED << cart, call >>,
         \A l \in Rows : cart[l].of \in DOMAIN cat'
  PROVE  Typed'
<1>1. ASSUME NEW l \in Lines  PROVE  cart[l] \in CartRow' \cup {None}
  <2>1. CASE cart[l] # None
    <3>1. cart[l] \in CartRow /\ cart[l].of \in DOMAIN cat'
      BY <2>1 DEF Typed, TypeOK, Rows
    <3> QED BY <3>1 DEF CartRow
  <2> QED BY <2>1
<1>2. cart' \in [Lines -> (CartRow \cup {None})']
  BY <1>1 DEF Typed, TypeOK
<1>3. (\A j \in Calls : CallOK(call[j]))'
  BY DEF Typed, CallOK, CallState
<1>4. (call \in [Calls -> CallState])'
  BY DEF Typed, TypeOK, CallState
<1> QED BY <1>2, <1>3, <1>4 DEF Typed, TypeOK

(* One product's row changes, or comes to be. *)
LEMMA ProductTyped ==
  ASSUME Typed, NEW p \in Products, NEW r, RowOK(p, r),
         DOMAIN cat' = DOMAIN cat \cup {p}, cat' = [q \in DOMAIN cat' |-> cat'[q]],
         cat'[p] = r, \A q \in DOMAIN cat \ {p} : cat'[q] = cat[q],
         ordered' \subseteq DOMAIN cat', UNCHANGED hidden, lowered' \in BOOLEAN,
         UNCHANGED << cart, call >>
  PROVE  Typed'
<1>1. /\ DOMAIN cat \subseteq Products /\ hidden \subseteq Categories
      /\ \A q \in DOMAIN cat : RowOK(q, cat[q])
  BY ShopIs DEF Typed, TypeOK
<1>2. \A q \in DOMAIN cat' : RowOK(q, cat'[q])
  BY <1>1
<1>3. DOMAIN cat' \subseteq Products
  BY <1>1
<1>4. cat' \in [DOMAIN cat' -> ProductRow]
  BY <1>2 DEF RowOK
<1>5. cat' \in UNION { [ps -> ProductRow] : ps \in SUBSET Products }
  BY <1>3, <1>4
<1>6. ShopOK'
  BY <1>1, <1>2, <1>5 DEF ShopOK, RowOK, ProductRow, StockByVariant, Categories
<1>7. \A l \in Rows : cart[l].of \in DOMAIN cat'
  BY DEF Typed, TypeOK, Rows, CartRow
<1> QED BY <1>6, <1>7, ShopTyped

-----------------------------------------------------------------------------
LEMMA LockTyped ==
  ASSUME Typed, NEW k \in Calls, Lock(k)
  PROVE  Typed'
<1> DEFINE c == [call[k] EXCEPT !.pc = "find"]
<1>1. call[k] \in CallState /\ CallOK(call[k]) /\ call \in [Calls -> CallState]
  BY DEF Typed, TypeOK
<1>2. CallOK(c)
  BY <1>1 DEF Lock, At, CallOK, CallState
<1>3. call' = [call EXCEPT ![k] = c]
  BY <1>1 DEF Lock
<1>4. cart' \in [Lines -> CartRow \cup {None}]
  BY DEF Typed, TypeOK, Lock
<1> HIDE DEF c
<1> QED BY <1>2, <1>3, <1>4, CallTyped DEF Lock

(* A request that finds a row asks for its own units and the row's. *)
LEMMA FindTyped ==
  ASSUME Typed, NEW k \in Calls, Find(k)
  PROVE  Typed'
<1>1. /\ call[k] \in CallState /\ CallOK(call[k]) /\ call \in [Calls -> CallState]
      /\ At(k, "find") /\ call[k].pc = "find"
  BY DEF Typed, TypeOK, Find, At
<1>2. cart' \in [Lines -> CartRow \cup {None}] /\ UNCHANGED shop
  BY DEF Typed, TypeOK, Find
<1>3. CASE call' = [call EXCEPT ![k].pc = "write", ![k].max = 0]
  <2> DEFINE c == [call[k] EXCEPT !.pc = "write", !.max = 0]
  <2>1. /\ c \in CallState /\ c.pc = "write" /\ c.of = call[k].of
        /\ c.text = call[k].text /\ c.units = call[k].units
    BY <1>1, Bounds DEF CallState
  <2>2. CallOK(c)
    <3> HIDE DEF c
    <3> QED BY <1>1, <2>1 DEF CallOK
  <2>3. call' = [call EXCEPT ![k] = c]
    BY <1>1, <1>3
  <2> HIDE DEF c
  <2> QED BY <1>2, <2>2, <2>3, CallTyped
<1>4. ASSUME NEW l \in Mine(k), call[k].units + cart[l].units <= call[k].max,
             call' = [call EXCEPT ![k].pc = "write", ![k].max = 0, ![k].line = l,
                                  ![k].units = @ + cart[l].units]
      PROVE  Typed'
  <2> DEFINE c == [call[k] EXCEPT !.pc = "write", !.max = 0, !.line = l,
                                  !.units = @ + cart[l].units]
  <2>1. l \in Lines /\ cart[l].units \in 1 .. MaxUnits
    BY DEF Mine, Rows, Typed, TypeOK, CartRow
  <2>2. CallOK(c)
    BY <1>1, <1>4, <2>1, CatalogueAssumption DEF CallOK, CallState
  <2>3. call' = [call EXCEPT ![k] = c]
    BY <1>1, <1>4
  <2> HIDE DEF c
  <2> QED BY <1>2, <2>2, <2>3, CallTyped
<1>5. CASE Ends(k)
  BY <1>2, <1>5, IdleIsOK, CallTyped DEF Ends
<1> QED BY <1>3, <1>4, <1>5 DEF Find

LEMMA WriteTyped ==
  ASSUME Typed, NEW k \in Calls, Write(k)
  PROVE  Typed'
<1> PICK c : c = call[k]
  OBVIOUS
<1>1. c \in CallState /\ CallOK(c) /\ c.pc = "write"
  BY DEF Typed, TypeOK, Write, At
<1>2. call' = [call EXCEPT ![k] = Idle] /\ UNCHANGED shop
  BY DEF Write, Ends
<1>3. c.units \in 1 .. MaxUnits
  BY <1>1, CatalogueAssumption DEF CallOK, CallState
<1>4. CASE c.line \in Rows /\ cart' = [cart EXCEPT ![c.line].units = c.units]
  BY <1>2, <1>3, <1>4, UnitsTyped, IdleIsOK, CallTyped
<1>5. CASE /\ c.line = None /\ c.of \in DOMAIN cat
           /\ \E l \in { m \in Lines : Fresh(m) } :
                cart' = [cart EXCEPT ![l] = Row(c.of, c.text, c.custom, c.units)]
  <2>1. PICK l \in Lines : cart' = [cart EXCEPT ![l] = Row(c.of, c.text, c.custom, c.units)]
    BY <1>5
  <2>2. Row(c.of, c.text, c.custom, c.units) \in CartRow
    BY <1>1, <1>3, <1>5 DEF Row, CartRow, CallOK, CallState
  <2>3. cart' \in [Lines -> CartRow \cup {None}]
    BY <2>1, <2>2, RowTyped
  <2> QED BY <1>2, <2>3, IdleIsOK, CallTyped
<1>6. CASE UNCHANGED cart
  <2>1. cart' \in [Lines -> CartRow \cup {None}]
    BY <1>6 DEF Typed, TypeOK
  <2> QED BY <1>2, <2>1, IdleIsOK, CallTyped
<1> QED BY <1>4, <1>5, <1>6 DEF Write

LEMMA SetTyped ==
  ASSUME Typed, NEW k \in Calls, Set(k)
  PROVE  Typed'
<1>1. call' = [call EXCEPT ![k] = Idle] /\ UNCHANGED shop
  BY DEF Set, Ends
<1>2. call[k].units \in 1 .. MaxUnits
  BY CatalogueAssumption DEF Typed, CallOK, CallState, Set, At
<1>3. CASE call[k].line \in Rows /\ cart' = [cart EXCEPT ![call[k].line].units = call[k].units]
  BY <1>1, <1>2, <1>3, UnitsTyped, IdleIsOK, CallTyped
<1>4. CASE UNCHANGED cart
  <2>1. cart' \in [Lines -> CartRow \cup {None}]
    BY <1>4 DEF Typed, TypeOK
  <2> QED BY <1>1, <2>1, IdleIsOK, CallTyped
<1> QED BY <1>3, <1>4 DEF Set

(* What a request begins with, and that it knows the stock it read. *)
LEMMA AddTyped ==
  ASSUME Typed, NEW k \in Calls, NEW p, NEW text \in Texts, NEW custom \in BOOLEAN,
         NEW n \in Nat, Add(k, p, text, custom, n)
  PROVE  Typed'
<1> PICK sel : sel = Selects[p][text]
  OBVIOUS
<1> DEFINE c == [ Idle EXCEPT !.pc = "lock", !.of = p, !.text = text, !.custom = custom,
                    !.units = n, !.max = MaxStock(cat[p], sel) ]
<1>1. ShopOK /\ p \in DOMAIN cat /\ n >= 1 /\ Valid(cat[p], sel) /\ n <= MaxStock(cat[p], sel)
  BY DEF Typed, TypeOK, Add, Stocked
<1>2. MaxStock(cat[p], sel) \in 0 .. MaxUnits /\ sel \in SUBSET Variants /\ p \in Products
  BY <1>1, StockIsBounded, RowsCount
<1>3. Idle \in CallState /\ Idle.line = None /\ n \in 0 .. MaxUnits
  BY <1>1, <1>2, IdleIsOK, Bounds DEF Idle, CallOK
<1>4. CallOK(c)
  <2>1. /\ c \in CallState /\ c.pc = "lock" /\ c.of = p /\ c.text = text
        /\ c.units = n /\ c.line = None
    BY <1>2, <1>3 DEF CallState
  <2> HIDE DEF c
  <2> QED BY <1>1, <1>2, <2>1 DEF CallOK
<1>5. call' = [call EXCEPT ![k] = c] /\ UNCHANGED << shop, cart >>
  BY DEF Add, Begins
<1>6. cart' \in [Lines -> CartRow \cup {None}]
  BY <1>5 DEF Typed, TypeOK
<1> HIDE DEF c
<1> QED BY <1>4, <1>5, <1>6, CallTyped

LEMMA ChangeTyped ==
  ASSUME Typed, NEW k \in Calls, NEW l \in Lines, NEW n \in Nat, Change(k, l, n)
  PROVE  Typed'
<1> DEFINE c == [ Idle EXCEPT !.pc = "set", !.line = l, !.units = n ]
<1>1. l \in Rows /\ cart[l].of \in DOMAIN cat /\ ShopOK /\ n >= 1
      /\ Valid(cat[cart[l].of], Selection(cart[l]))
      /\ n <= MaxStock(cat[cart[l].of], Selection(cart[l]))
  BY DEF Typed, TypeOK, CartRow, Change, Rows, Stocked
<1>2. MaxStock(cat[cart[l].of], Selection(cart[l])) \in 0 .. MaxUnits
  BY <1>1, StockIsBounded
<1>3. Idle \in CallState /\ n \in 0 .. MaxUnits
  BY <1>1, <1>2, IdleIsOK, Bounds DEF CallOK
<1>4. CallOK(c)
  <2>1. c \in CallState /\ c.pc = "set" /\ c.units = n /\ c.line = l
    BY <1>3 DEF CallState
  <2> HIDE DEF c
  <2> QED BY <1>1, <2>1 DEF CallOK
<1>5. call' = [call EXCEPT ![k] = c] /\ UNCHANGED << shop, cart >>
  BY DEF Change, Begins
<1>6. cart' \in [Lines -> CartRow \cup {None}]
  BY <1>5 DEF Typed, TypeOK
<1> HIDE DEF c
<1> QED BY <1>4, <1>5, <1>6, CallTyped

LEMMA RemovalTyped ==
  ASSUME Typed, (\E l \in Lines : Remove(l)) \/ Clear
  PROVE  Typed'
<1>1. UNCHANGED << shop, call >> /\ cart' \in [Lines -> CartRow \cup {None}]
  BY DEF Remove, Clear, Typed, TypeOK
<1>2. CartRow' = CartRow
  BY <1>1 DEF CartRow, shop
<1>3. ShopOK'
  BY <1>1 DEF Typed, TypeOK, ShopOK, ProductRow, StockByVariant, Categories, shop
<1>4. (\A k \in Calls : CallOK(call[k]))'
  BY <1>1 DEF Typed, CallOK, CallState
<1> QED BY <1>1, <1>2, <1>3, <1>4 DEF Typed, TypeOK, CallState

-----------------------------------------------------------------------------
(* The stock of one product, or of its variants, is written. *)
LEMMA EditTyped ==
  ASSUME Typed, NEW p \in DOMAIN cat, NEW n \in 0 .. MaxUnits, NEW units \in StockByVariant,
         DOMAIN units = DOMAIN cat[p].variants,
         cat' = [cat EXCEPT ![p] = [ @ EXCEPT !.stock = n, !.variants = units ]],
         ordered' \subseteq DOMAIN cat, UNCHANGED hidden, lowered' \in BOOLEAN,
         UNCHANGED << cart, call >>
  PROVE  Typed'
<1> DEFINE r == [ cat[p] EXCEPT !.stock = n, !.variants = units ]
<1>1. RowOK(p, cat[p]) /\ p \in Products /\ cat = [q \in DOMAIN cat |-> cat[q]]
  BY ShopIs DEF Typed, TypeOK
<1>2. r \in ProductRow /\ r.category = cat[p].category /\ r.variants = units
  BY <1>1 DEF RowOK, ProductRow
<1>3. RowOK(p, r)
  <2> HIDE DEF r
  <2> QED BY <1>1, <1>2 DEF RowOK
<1>4. cat' = [cat EXCEPT ![p] = r]
  BY <1>1
<1> HIDE DEF r
<1>5. /\ DOMAIN cat' = DOMAIN cat \cup {p} /\ cat' = [q \in DOMAIN cat' |-> cat'[q]]
      /\ cat'[p] = r /\ \A q \in DOMAIN cat \ {p} : cat'[q] = cat[q]
  BY <1>1, <1>4
<1> QED BY <1>1, <1>3, <1>5, ProductTyped

LEMMA EditStockIs ==
  ASSUME Typed, NEW p \in Products, NEW n \in 0 .. MaxUnits, EditStock(p, n)
  PROVE  Typed'
<1>1. p \in DOMAIN cat /\ RowOK(p, cat[p]) /\ ordered \subseteq DOMAIN cat
      /\ cat = [q \in DOMAIN cat |-> cat[q]]
  BY ShopIs DEF Typed, TypeOK, EditStock
<1>2. cat[p].variants \in StockByVariant
  BY <1>1 DEF RowOK, ProductRow
<1>3. [cat[p] EXCEPT !.stock = n] = [cat[p] EXCEPT !.stock = n, !.variants = cat[p].variants]
  BY <1>1 DEF RowOK, ProductRow
<1>4. cat' = [cat EXCEPT ![p] = [ @ EXCEPT !.stock = n ]]
  BY <1>1 DEF EditStock
<1>5. cat' = [cat EXCEPT ![p] = [ @ EXCEPT !.stock = n, !.variants = cat[p].variants ]]
  BY <1>3, <1>4
<1> QED BY <1>1, <1>2, <1>5, EditTyped DEF EditStock

LEMMA EditVariantIs ==
  ASSUME Typed, NEW p \in Products, NEW v, NEW n \in 0 .. MaxUnits, EditVariant(p, v, n)
  PROVE  Typed'
<1> DEFINE units == [cat[p].variants EXCEPT ![v] = n]
<1>1. p \in DOMAIN cat /\ RowOK(p, cat[p]) /\ ordered \subseteq DOMAIN cat
      /\ cat = [q \in DOMAIN cat |-> cat[q]] /\ v \in DOMAIN cat[p].variants
  BY ShopIs DEF Typed, TypeOK, EditVariant
<1>2. cat[p].variants \in StockByVariant /\ cat[p].stock \in 0 .. MaxUnits
  BY <1>1 DEF RowOK, ProductRow
<1>3. units \in StockByVariant /\ DOMAIN units = DOMAIN cat[p].variants
  <2>1. /\ DOMAIN cat[p].variants \subseteq Variants
        /\ \A w \in DOMAIN cat[p].variants : cat[p].variants[w] \in 0 .. MaxUnits
    BY <1>2, UnitsAre
  <2>2. DOMAIN units \subseteq Variants /\ units = [w \in DOMAIN units |-> units[w]]
        /\ DOMAIN units = DOMAIN cat[p].variants
    BY <2>1
  <2>3. \A w \in DOMAIN units : units[w] \in 0 .. MaxUnits
    BY <1>1, <2>1
  <2> HIDE DEF units
  <2> QED BY <2>2, <2>3, UnitsAre
<1>4. cat' = [cat EXCEPT ![p] = [ @ EXCEPT !.variants = units ]]
  BY <1>1 DEF EditVariant, RowOK, ProductRow
<1> HIDE DEF units
<1>5. [cat[p] EXCEPT !.variants = units] = [cat[p] EXCEPT !.stock = cat[p].stock, !.variants = units]
  BY <1>1 DEF RowOK, ProductRow
<1>6. cat' = [cat EXCEPT ![p] = [ @ EXCEPT !.stock = cat[p].stock, !.variants = units ]]
  BY <1>4, <1>5
<1> QED BY <1>1, <1>2, <1>3, <1>6, EditTyped DEF EditVariant

(* An order takes no more than there is. *)
LEMMA OrderIs ==
  ASSUME Typed, NEW p \in Products, NEW sel, NEW n \in Nat, Order(p, sel, n)
  PROVE  Typed'
<1> DEFINE left == [ v \in DOMAIN cat[p].variants |->
                       cat[p].variants[v] - (IF v \in sel THEN n ELSE 0) ]
           rest == IF sel = {} THEN cat[p].stock - n ELSE cat[p].stock
<1>1. p \in DOMAIN cat /\ RowOK(p, cat[p]) /\ ordered \subseteq DOMAIN cat
      /\ cat = [q \in DOMAIN cat |-> cat[q]] /\ Stocked(cat[p], sel, n)
  BY ShopIs DEF Typed, TypeOK, Order, Accepts
<1>2. /\ IsRow(cat[p]) /\ cat[p].stock \in 0 .. MaxUnits
      /\ \A v \in DOMAIN cat[p].variants : v \in Variants /\ cat[p].variants[v] \in 0 .. MaxUnits
  BY <1>1, RowsCount DEF Typed, TypeOK
<1>3. IF sel = {} THEN n <= cat[p].stock ELSE \A v \in sel : n <= cat[p].variants[v]
  BY <1>1, <1>2, StockedIs
<1>4. left \in StockByVariant /\ DOMAIN left = DOMAIN cat[p].variants
  <2>1. DOMAIN left \subseteq Variants /\ left = [w \in DOMAIN left |-> left[w]]
    BY <1>2
  <2>2. ASSUME NEW v \in DOMAIN left  PROVE  left[v] \in 0 .. MaxUnits
    BY <1>2, <1>3, Bounds
  <2>3. DOMAIN left = DOMAIN cat[p].variants
    OBVIOUS
  <2> HIDE DEF left
  <2> QED BY <2>1, <2>2, <2>3, UnitsAre
<1>5. rest \in 0 .. MaxUnits
  BY <1>2, <1>3, Bounds
<1>6. cat' = [cat EXCEPT ![p] = [ @ EXCEPT !.stock = rest, !.variants = left ]]
  <2>1. cat' = [cat EXCEPT ![p].stock = IF sel = {} THEN @ - n ELSE @, ![p].variants = left]
    BY DEF Order
  <2> HIDE DEF left
  <2> QED BY <1>1, <2>1 DEF RowOK, ProductRow
<1> HIDE DEF left, rest
<1>7. ordered' \subseteq DOMAIN cat /\ UNCHANGED << hidden, cart, call >> /\ lowered' \in BOOLEAN
  BY <1>1 DEF Order
<1> QED BY <1>1, <1>4, <1>5, <1>6, <1>7, EditTyped

LEMMA CreateIs ==
  ASSUME Typed, NEW p \in Products, NEW n \in 0 .. MaxUnits, NEW vs \in SUBSET VariantsOf[p],
         NEW units \in [vs -> 0 .. MaxUnits], Create(p, n, units)
  PROVE  Typed'
<1> DEFINE r == [ stock |-> n, variants |-> units, category |-> Category[p] ]
<1>1. vs \subseteq Variants
  BY CatalogueAssumption
<1>2. units \in StockByVariant
  BY <1>1 DEF StockByVariant
<1>3. RowOK(p, r)
  BY <1>2 DEF RowOK, ProductRow, Categories
<1> HIDE DEF r
<1>4. cat' = [ q \in DOMAIN cat \cup {p} |-> IF q # p THEN cat[q] ELSE r ]
  BY DEF Create, r
<1>5. /\ DOMAIN cat' = DOMAIN cat \cup {p} /\ cat' = [q \in DOMAIN cat' |-> cat'[q]]
      /\ cat'[p] = r /\ \A q \in DOMAIN cat \ {p} : cat'[q] = cat[q]
  BY <1>4
<1>6. ordered' \subseteq DOMAIN cat' /\ UNCHANGED << hidden, cart, call >> /\ lowered' \in BOOLEAN
  BY <1>5 DEF Create, Typed, TypeOK, ShopOK
<1> QED BY <1>3, <1>5, <1>6, ProductTyped

(* The foreign keys keep what the cart and the orders name. *)
LEMMA DeleteIs ==
  ASSUME Typed, NEW p \in Products, Delete(p)
  PROVE  Typed'
<1>1. /\ DOMAIN cat \subseteq Products /\ ordered \subseteq DOMAIN cat
      /\ hidden \subseteq Categories /\ \A q \in DOMAIN cat : RowOK(q, cat[q])
      /\ lowered \in BOOLEAN
  BY ShopIs DEF Typed, TypeOK
<1>2. cat' = [q \in DOMAIN cat \ {p} |-> cat[q]] /\ UNCHANGED << ordered, hidden, lowered >>
      /\ UNCHANGED << cart, call >>
  BY DEF Delete, Restrict
<1>3. cat' \in [DOMAIN cat' -> ProductRow] /\ DOMAIN cat' = DOMAIN cat \ {p}
      /\ \A q \in DOMAIN cat' : RowOK(q, cat'[q])
  BY <1>1, <1>2 DEF RowOK
<1>4. cat' \in UNION { [ps -> ProductRow] : ps \in SUBSET Products }
  BY <1>1, <1>3
<1>5. ordered \subseteq DOMAIN cat'
  BY <1>1, <1>3 DEF Delete
<1>6. ShopOK'
  BY <1>1, <1>2, <1>3, <1>4, <1>5 DEF ShopOK, RowOK, ProductRow, StockByVariant, Categories
<1>7. \A l \in Rows : cart[l].of \in DOMAIN cat'
  BY <1>3 DEF Typed, TypeOK, Rows, CartRow, Delete
<1> QED BY <1>2, <1>6, <1>7, ShopTyped

LEMMA OfferIs ==
  ASSUME Typed, NEW c \in Categories, Offer(c)
  PROVE  Typed'
<1>1. ShopOK'
  BY DEF Typed, TypeOK, ShopOK, ProductRow, StockByVariant, Categories, Offer
<1>2. \A l \in Rows : cart[l].of \in DOMAIN cat'
  BY DEF Typed, TypeOK, Rows, CartRow, Offer
<1> QED BY <1>1, <1>2, ShopTyped DEF Offer

-----------------------------------------------------------------------------
LEMMA TypedStep == Typed /\ [Next]_vars => Typed'
<1> SUFFICES ASSUME Typed, [Next]_vars  PROVE  Typed'
  OBVIOUS
<1>1. ASSUME NEW k \in Calls, Lock(k) \/ Find(k) \/ Write(k) \/ Set(k)  PROVE  Typed'
  BY <1>1, LockTyped, FindTyped, WriteTyped, SetTyped
<1>2. ASSUME NEW k \in Calls, NEW p \in Products, NEW custom \in BOOLEAN, NEW n \in 1 .. MaxAsk,
             NEW text \in Texts, Add(k, p, text, custom, n)
      PROVE  Typed'
  BY <1>2, CatalogueAssumption, AddTyped
<1>3. ASSUME NEW k \in Calls, NEW l \in Lines, NEW n \in 1 .. MaxAsk, Change(k, l, n)
      PROVE  Typed'
  BY <1>3, CatalogueAssumption, ChangeTyped
<1>4. CASE (\E l \in Lines : Remove(l)) \/ Clear
  BY <1>4, RemovalTyped
<1>5. ASSUME NEW p \in Products, NEW n \in 0 .. MaxUnits, EditStock(p, n)  PROVE  Typed'
  BY <1>5, EditStockIs
<1>6. ASSUME NEW p \in Products, NEW n \in 0 .. MaxUnits, NEW v \in VariantsOf[p],
             EditVariant(p, v, n)
      PROVE  Typed'
  BY <1>6, EditVariantIs
<1>7. ASSUME NEW p \in Products, NEW n \in 0 .. MaxUnits, NEW vs \in SUBSET VariantsOf[p],
             NEW units \in [vs -> 0 .. MaxUnits], Create(p, n, units)
      PROVE  Typed'
  BY <1>7, CreateIs
<1>8. ASSUME NEW p \in Products, NEW n \in 0 .. MaxUnits, NEW sel \in Selections(p),
             Order(p, sel, n)
      PROVE  Typed'
  BY <1>8, Bounds, OrderIs
<1>9. ASSUME NEW p \in Products, Delete(p)  PROVE  Typed'
  BY <1>9, DeleteIs
<1>10. ASSUME NEW c \in Categories, Offer(c)  PROVE  Typed'
  BY <1>10, OfferIs
<1>11. CASE UNCHANGED vars
  <2>1. ShopOK' /\ CartRow' = CartRow
    BY <1>11 DEF Typed, TypeOK, ShopOK, CartRow, ProductRow, StockByVariant, Categories, vars
  <2>2. (\A k \in Calls : CallOK(call[k]))'
    BY <1>11 DEF Typed, CallOK, CallState, vars
  <2> QED BY <1>11, <2>1, <2>2 DEF Typed, TypeOK, CallState, vars
<1> QED BY <1>1, <1>2, <1>3, <1>4, <1>5, <1>6, <1>7, <1>8, <1>9, <1>10, <1>11 DEF Next

(* Whatever requests race each other and the merchant, the state keeps its type:
   a row of the cart is for a product that exists, at least one of it and never
   more than the bound on stock, for the stock a request read is what it adds up
   to at most. *)
THEOREM CatalogueTyped == Spec => []TypeOK
<1>1. Init => Typed
  BY TypedInit
<1>2. Typed /\ [Next]_vars => Typed'
  BY TypedStep
<1>3. Typed => TypeOK
  BY DEF Typed
<1> QED BY <1>1, <1>2, <1>3, PTL DEF Spec
-----------------------------------------------------------------------------
(* One row for a selection *)

(* The lock is held by one request, through the search and the write. *)
OneHolder ==
  \A j, k \in Calls :
    j # k /\ call[j].pc \in { "find", "write" } /\ call[k].pc \in { "find", "write" }
      => ~SameKey(j, k)

(* A request that is to write a row of its own found no other, and none came. *)
Alone ==
  \A k \in Calls, l \in Rows :
    call[k].pc = "write" /\ call[k].line = None /\ ~call[k].custom /\ ~cart[l].custom
      => << cart[l].of, cart[l].text >> # << call[k].of, call[k].text >>

Single == Typed /\ OneHolder /\ Alone /\ CartLineOnce

(* What a row is for: its product, the text of its selection, and whether it is
   customized *)
SameFor(r, s) == r.of = s.of /\ r.text = s.text /\ r.custom = s.custom

(* Rows are removed, or ask for more or less of the same. *)
RowsKept == \A l \in Rows' : l \in Rows /\ SameFor(cart'[l], cart[l])

LEMMA RowsKeptIsSingle ==
  ASSUME CartLineOnce, RowsKept
  PROVE  CartLineOnce'
BY DEF CartLineOnce, RowsKept, SameFor

(* A call that ends, or begins, is at neither place. *)
LEMMA OneCallApart ==
  ASSUME Typed, OneHolder, Alone, RowsKept, NEW k \in Calls, NEW c,
         call' = [call EXCEPT ![k] = c], c.pc \notin { "find", "write" }
  PROVE  OneHolder' /\ Alone'
<1>1. call'[k] = c /\ \A j \in Calls \ {k} : call'[j] = call[j]
  BY DEF Typed, TypeOK
<1>2. \A j \in Calls : call'[j].pc \in { "find", "write" } => j # k /\ call'[j] = call[j]
  BY <1>1
<1>3. OneHolder'
  BY <1>2 DEF OneHolder, SameKey
<1>4. Alone'
  BY <1>2 DEF Alone, RowsKept, SameFor
<1> QED BY <1>3, <1>4

LEMMA UnitsKeepRows ==
  ASSUME Typed, NEW l \in Rows, NEW n, cart' = [cart EXCEPT ![l].units = n]
  PROVE  RowsKept
<1>1. l \in Lines /\ cart[l] \in CartRow /\ cart \in [Lines -> CartRow \cup {None}]
  BY DEF Typed, TypeOK, Rows
<1>2. SameFor(cart'[l], cart[l])
  BY <1>1 DEF SameFor, CartRow
<1>3. \A m \in Lines \ {l} : cart'[m] = cart[m]
  BY <1>1
<1> QED BY <1>2, <1>3 DEF RowsKept, Rows, SameFor

LEMMA SameRows ==
  ASSUME cart' = cart
  PROVE  RowsKept
BY DEF RowsKept, Rows, SameFor

LEMMA LockSingle ==
  ASSUME Single, NEW k \in Calls, Lock(k)
  PROVE  OneHolder' /\ Alone' /\ CartLineOnce'
<1>1. call[k] \in CallState /\ call \in [Calls -> CallState] /\ cart' = cart
      /\ RowsKept
  BY SameRows DEF Single, Typed, TypeOK, Lock
<1>2. /\ call'[k].pc = "find" /\ call'[k].of = call[k].of /\ call'[k].text = call[k].text
      /\ call'[k].custom = call[k].custom
      /\ \A j \in Calls \ {k} : call'[j] = call[j]
  BY <1>1 DEF Lock, CallState
<1>3. \A j \in Calls : call[j].pc \in { "find", "write" } => ~SameKey(j, k)
  BY DEF Lock, At
<1>4. OneHolder'
  BY <1>2, <1>3 DEF Single, OneHolder, SameKey
<1>5. Alone'
  BY <1>1, <1>2 DEF Single, Alone, Rows
<1> QED BY <1>1, <1>4, <1>5, RowsKeptIsSingle DEF Single

LEMMA FindSingle ==
  ASSUME Single, NEW k \in Calls, Find(k)
  PROVE  OneHolder' /\ Alone' /\ CartLineOnce'
<1>1. call[k] \in CallState /\ call \in [Calls -> CallState] /\ cart' = cart
      /\ RowsKept /\ call[k].pc = "find"
  BY SameRows DEF Single, Typed, TypeOK, Find, At
<1>2. CASE Ends(k)
  <2>1. Idle.pc \notin { "find", "write" }
    BY DEF Idle
  <2> QED BY <1>1, <1>2, <2>1, OneCallApart, RowsKeptIsSingle DEF Single, Ends
<1>3. ASSUME NEW c \in CallState, c.pc = "write", c.of = call[k].of, c.text = call[k].text,
             c.custom = call[k].custom, c.line # None \/ Mine(k) = {},
             call' = [call EXCEPT ![k] = c]
      PROVE  OneHolder' /\ Alone' /\ CartLineOnce'
  <2>1. call'[k] = c /\ \A j \in Calls \ {k} : call'[j] = call[j]
    BY <1>1, <1>3
  <2>2. OneHolder'
    BY <1>1, <1>3, <2>1 DEF Single, OneHolder, SameKey
  <2>3. ASSUME NEW l \in Rows, c.line = None, ~c.custom, ~cart[l].custom
        PROVE  << cart[l].of, cart[l].text >> # << c.of, c.text >>
    BY <1>3, <2>3 DEF Mine
  <2>4. Alone'
    BY <1>1, <2>1, <2>3 DEF Single, Alone, Rows
  <2> QED BY <1>1, <2>2, <2>4, RowsKeptIsSingle DEF Single
<1>4. CASE Mine(k) = {} /\ call' = [call EXCEPT ![k].pc = "write", ![k].max = 0]
  <2> DEFINE c == [call[k] EXCEPT !.pc = "write", !.max = 0]
  <2>1. c \in CallState /\ c.pc = "write" /\ c.of = call[k].of /\ c.text = call[k].text
        /\ c.custom = call[k].custom
    BY <1>1, Bounds DEF CallState
  <2>2. call' = [call EXCEPT ![k] = c]
    BY <1>1, <1>4
  <2> HIDE DEF c
  <2> QED BY <1>3, <1>4, <2>1, <2>2
<1>5. ASSUME NEW l \in Mine(k), call[k].units + cart[l].units <= call[k].max,
             call' = [call EXCEPT ![k].pc = "write", ![k].max = 0, ![k].line = l,
                                  ![k].units = @ + cart[l].units]
      PROVE  OneHolder' /\ Alone' /\ CartLineOnce'
  <2> DEFINE c == [call[k] EXCEPT !.pc = "write", !.max = 0, !.line = l,
                                  !.units = @ + cart[l].units]
  <2>1. l \in Lines /\ cart[l].units \in 1 .. MaxUnits /\ l # None
    BY CatalogueAssumption DEF Mine, Rows, Single, Typed, TypeOK, CartRow
  <2>2. call[k].units + cart[l].units \in 0 .. MaxUnits
    BY <1>1, <1>5, <2>1, Bounds DEF CallState
  <2>3. c \in CallState /\ c.pc = "write" /\ c.of = call[k].of /\ c.text = call[k].text
        /\ c.custom = call[k].custom /\ c.line = l
    BY <1>1, <2>1, <2>2, Bounds DEF CallState
  <2>4. call' = [call EXCEPT ![k] = c]
    BY <1>1, <1>5
  <2> HIDE DEF c
  <2> QED BY <1>3, <2>1, <2>3, <2>4
<1> QED BY <1>2, <1>4, <1>5 DEF Find

-----------------------------------------------------------------------------
(* A row of its own is written while no other request may write the same. *)
LEMMA NewRowSingle ==
  ASSUME Single, NEW k \in Calls, NEW l \in Lines, Fresh(l),
         call[k].pc = "write", call[k].line = None,
         cart' = [cart EXCEPT ![l] =
                    Row(call[k].of, call[k].text, call[k].custom, call[k].units)],
         call' = [call EXCEPT ![k] = Idle]
  PROVE  OneHolder' /\ Alone' /\ CartLineOnce'
<1> DEFINE r == Row(call[k].of, call[k].text, call[k].custom, call[k].units)
<1>1. r.of = call[k].of /\ r.text = call[k].text /\ r.custom = call[k].custom
  BY DEF Row
<1>2. cart' = [cart EXCEPT ![l] = r]
  OBVIOUS
<1> HIDE DEF r
<1>3. cart'[l] = r /\ \A m \in Lines \ {l} : cart'[m] = cart[m]
  BY <1>2 DEF Single, Typed, TypeOK
<1>4. call'[k] = Idle /\ \A j \in Calls \ {k} : call'[j] = call[j]
  BY DEF Single, Typed, TypeOK
<1>5. Idle.pc \notin { "find", "write" }
  BY DEF Idle
<1>6. \A j \in Calls : call'[j].pc \in { "find", "write" } => j # k /\ call'[j] = call[j]
  BY <1>4, <1>5
<1>7. OneHolder'
  BY <1>6 DEF Single, OneHolder, SameKey
<1>8. ASSUME NEW j \in Calls, NEW m \in Rows', call'[j].pc = "write", call'[j].line = None,
             ~call'[j].custom, ~cart'[m].custom
      PROVE  << cart'[m].of, cart'[m].text >> # << call'[j].of, call'[j].text >>
  <2>1. j # k /\ call'[j] = call[j]
    BY <1>6, <1>8
  <2>2. CASE m = l
    <3>1. ~SameKey(j, k)
      BY <1>8, <2>1 DEF Single, OneHolder
    <3>2. call[j].custom \in BOOLEAN /\ call[k].custom \in BOOLEAN
      BY DEF Single, Typed, CallOK, CallState
    <3>3. ~call[j].custom /\ ~call[k].custom
      BY <1>1, <1>3, <1>8, <2>1, <2>2
    <3> QED BY <1>1, <1>3, <2>1, <2>2, <3>1, <3>2, <3>3 DEF SameKey
  <2>3. CASE m # l
    <3>1. m \in Rows /\ cart'[m] = cart[m]
      BY <1>3, <2>3 DEF Rows
    <3> QED BY <1>8, <2>1, <3>1 DEF Single, Alone
  <2> QED BY <2>2, <2>3
<1>9. Alone'
  BY <1>8 DEF Alone
<1>10. ASSUME NEW m \in Rows', NEW o \in Rows', m # o, ~cart'[m].custom, ~cart'[o].custom
       PROVE  << cart'[m].of, cart'[m].text >> # << cart'[o].of, cart'[o].text >>
  <2>1. ASSUME NEW i \in Rows, ~cart[i].custom, ~r.custom
        PROVE  << cart[i].of, cart[i].text >> # << r.of, r.text >>
    BY <1>1, <2>1 DEF Single, Alone
  <2>2. \A i \in Rows' : i # l => i \in Rows /\ cart'[i] = cart[i]
    BY <1>3 DEF Rows
  <2>3. CASE m = l
    BY <1>3, <1>10, <2>1, <2>2, <2>3
  <2>4. CASE o = l
    BY <1>3, <1>10, <2>1, <2>2, <2>4
  <2>5. CASE m # l /\ o # l
    BY <1>10, <2>2, <2>5 DEF Single, CartLineOnce
  <2> QED BY <2>3, <2>4, <2>5
<1>11. CartLineOnce'
  BY <1>10 DEF CartLineOnce
<1> QED BY <1>7, <1>9, <1>11

LEMMA WriteSingle ==
  ASSUME Single, NEW k \in Calls, Write(k)
  PROVE  OneHolder' /\ Alone' /\ CartLineOnce'
<1>1. call[k].pc = "write" /\ call' = [call EXCEPT ![k] = Idle]
  BY DEF Write, At, Ends
<1>2. Idle.pc \notin { "find", "write" }
  BY DEF Idle
<1>3. CASE RowsKept
  BY <1>1, <1>2, <1>3, OneCallApart, RowsKeptIsSingle DEF Single
<1>4. CASE call[k].line \in Rows /\ cart' = [cart EXCEPT ![call[k].line].units = call[k].units]
  BY <1>3, <1>4, UnitsKeepRows DEF Single
<1>5. CASE UNCHANGED cart
  BY <1>3, <1>5, SameRows
<1>6. CASE /\ call[k].line = None
           /\ \E l \in { m \in Lines : Fresh(m) } :
                cart' = [cart EXCEPT ![l] =
                           Row(call[k].of, call[k].text, call[k].custom, call[k].units)]
  BY <1>1, <1>6, NewRowSingle
<1> QED BY <1>4, <1>5, <1>6 DEF Write

LEMMA SetSingle ==
  ASSUME Single, NEW k \in Calls, Set(k)
  PROVE  OneHolder' /\ Alone' /\ CartLineOnce'
<1>1. call' = [call EXCEPT ![k] = Idle] /\ Idle.pc \notin { "find", "write" }
  BY DEF Set, Ends, Idle
<1>2. RowsKept
  BY UnitsKeepRows, SameRows DEF Set, Single
<1> QED BY <1>1, <1>2, OneCallApart, RowsKeptIsSingle DEF Single

LEMMA BeginSingle ==
  ASSUME Single, NEW k \in Calls, NEW c, Begins(k, c), c.pc \notin { "find", "write" },
         UNCHANGED cart
  PROVE  OneHolder' /\ Alone' /\ CartLineOnce'
BY OneCallApart, SameRows, RowsKeptIsSingle DEF Single, Begins

LEMMA NoCallSingle ==
  ASSUME Single, UNCHANGED call, RowsKept
  PROVE  OneHolder' /\ Alone' /\ CartLineOnce'
<1>1. OneHolder'
  BY DEF Single, OneHolder, SameKey
<1>2. Alone'
  BY DEF Single, Alone, RowsKept, SameFor
<1> QED BY <1>1, <1>2, RowsKeptIsSingle DEF Single

LEMMA RemovalKeepsRows ==
  ASSUME Typed, (\E l \in Lines : Remove(l)) \/ Clear
  PROVE  RowsKept
<1>1. CASE Clear
  BY <1>1 DEF Clear, RowsKept, Rows
<1>2. ASSUME NEW l \in Lines, Remove(l)  PROVE  RowsKept
  <2>1. cart'[l] = None /\ \A m \in Lines \ {l} : cart'[m] = cart[m]
    BY <1>2 DEF Typed, TypeOK, Remove
  <2> QED BY <2>1 DEF RowsKept, Rows, SameFor
<1> QED BY <1>1, <1>2

LEMMA SingleStep == Single /\ [Next]_vars => Single'
<1> SUFFICES ASSUME Single, [Next]_vars  PROVE  Single'
  OBVIOUS
<1>1. Typed'
  BY TypedStep DEF Single
<1> SUFFICES OneHolder' /\ Alone' /\ CartLineOnce'
  BY <1>1 DEF Single
<1>2. ASSUME NEW k \in Calls, Lock(k) \/ Find(k) \/ Write(k) \/ Set(k)
      PROVE  OneHolder' /\ Alone' /\ CartLineOnce'
  BY <1>2, LockSingle, FindSingle, WriteSingle, SetSingle
<1>3. ASSUME NEW k \in Calls, NEW p, NEW text, NEW custom, NEW n, Add(k, p, text, custom, n)
      PROVE  OneHolder' /\ Alone' /\ CartLineOnce'
  <2> DEFINE c == [ Idle EXCEPT !.pc = "lock", !.of = p, !.text = text, !.custom = custom,
                      !.units = n, !.max = MaxStock(cat[p], Selects[p][text]) ]
  <2>1. c.pc = "lock"
    BY IdleIsOK DEF CallOK, CallState
  <2>2. Begins(k, c) /\ UNCHANGED cart
    BY <1>3 DEF Add
  <2> HIDE DEF c
  <2> QED BY <2>1, <2>2, BeginSingle
<1>4. ASSUME NEW k \in Calls, NEW l, NEW n, Change(k, l, n)
      PROVE  OneHolder' /\ Alone' /\ CartLineOnce'
  <2> DEFINE c == [ Idle EXCEPT !.pc = "set", !.line = l, !.units = n ]
  <2>1. c.pc = "set"
    BY IdleIsOK DEF CallOK, CallState
  <2>2. Begins(k, c) /\ UNCHANGED cart
    BY <1>4 DEF Change
  <2> HIDE DEF c
  <2> QED BY <2>1, <2>2, BeginSingle
<1>5. CASE (\E l \in Lines : Remove(l)) \/ Clear
  <2>1. RowsKept
    BY <1>5, RemovalKeepsRows DEF Single
  <2> QED BY <1>5, <2>1, NoCallSingle DEF Remove, Clear
<1>6. CASE UNCHANGED << cart, call >>
  BY <1>6, SameRows, NoCallSingle
<1>7. ASSUME NEW p, NEW n,
             \/ EditStock(p, n) \/ \E v \in VariantsOf[p] : EditVariant(p, v, n)
             \/ \E sel \in Selections(p) : Order(p, sel, n)
             \/ \E vs \in SUBSET VariantsOf[p] :
                  \E units \in [vs -> 0 .. MaxUnits] : Create(p, n, units)
             \/ Delete(p) \/ Offer(p)
      PROVE  UNCHANGED << cart, call >>
  BY <1>7 DEF EditStock, EditVariant, Order, Create, Delete, Offer
<1>8. CASE UNCHANGED vars
  BY <1>6, <1>8 DEF vars
<1> QED BY <1>2, <1>3, <1>4, <1>5, <1>6, <1>7, <1>8 DEF Next

(* However additions race each other, changes and removals, what is not
   customized has one row in the cart for each product and text of a selection:
   between the search of a request and its write no other one for the same key can
   write.  A selection written in two ways is two keys, and may have two rows. *)
THEOREM CartLinesAreOnce == Spec => []CartLineOnce
<1>1. Init => Single
  BY TypedInit DEF Single, Init, OneHolder, Alone, CartLineOnce, Rows, Idle
<1>2. Single /\ [Next]_vars => Single'
  BY SingleStep
<1>3. Single => CartLineOnce
  BY DEF Single
<1> QED BY <1>1, <1>2, <1>3, PTL DEF Spec
-----------------------------------------------------------------------------
(* A cart within the stock *)

Served(l) == Stocked(cat[cart[l].of], Selection(cart[l]), cart[l].units)

(* What a request has compared with the stock.  Before it writes, that is what
   it read; then what it is to write, in a row of its own or in the row found. *)
Promise(k) ==
  /\ (call[k].pc \in { "lock", "find" } /\ call[k].of \in DOMAIN cat)
       => Stocked(cat[call[k].of], Selection(call[k]), call[k].max)
  /\ (call[k].pc = "write" /\ call[k].line = None /\ call[k].of \in DOMAIN cat)
       => Stocked(cat[call[k].of], Selection(call[k]), call[k].units)
  /\ (call[k].pc \in { "write", "set" } /\ call[k].line \in Rows)
       => Stocked(cat[cart[call[k].line].of], Selection(cart[call[k].line]), call[k].units)

Within == ~lowered => (\A l \in Rows : Served(l)) /\ \A k \in Calls : Promise(k)

(* More stock serves every selection that the row served. *)
Grows(row, more) ==
  /\ DOMAIN more.variants = DOMAIN row.variants /\ row.stock <= more.stock
  /\ \A v \in DOMAIN row.variants : row.variants[v] <= more.variants[v]

(* While nothing is lowered the stock that was promised is there; and what is
   created is not what a request in progress is about. *)
LEMMA ShopWithin ==
  ASSUME Typed, Typed', Within, UNCHANGED << cart, call >>, ~lowered' => ~lowered,
         ~lowered' => \A p \in DOMAIN cat' :
           IF p \in DOMAIN cat THEN Grows(cat[p], cat'[p]) ELSE \A k \in Calls : call[k].of # p
  PROVE  Within'
<1> SUFFICES ASSUME ~lowered'  PROVE  (\A l \in Rows' : Served(l)') /\ \A k \in Calls : Promise(k)'
  BY DEF Within
<1>1. (\A l \in Rows : Served(l)) /\ \A k \in Calls : Promise(k)
  BY DEF Within
<1>2. ASSUME NEW p \in DOMAIN cat'  PROVE  IsRow(cat'[p])
  <2>1. ShopOK'
    BY DEF Typed, TypeOK
  <2>2. PICK ps \in SUBSET Products : cat' \in [ps -> ProductRow]
    BY <2>1 DEF ShopOK, ProductRow, StockByVariant, Categories
  <2>3. cat'[p] \in ProductRow
    BY <2>2
  <2> QED BY <2>3, UnitsAre DEF ProductRow, IsRow
<1>3. ASSUME NEW p \in DOMAIN cat, p \in DOMAIN cat', NEW sel, NEW n \in Nat, Stocked(cat[p], sel, n)
      PROVE  Stocked(cat'[p], sel, n)
  <2>1. Grows(cat[p], cat'[p]) /\ IsRow(cat[p]) /\ IsRow(cat'[p]) /\ n <= n
    BY <1>2, <1>3, RowsCount DEF Typed, TypeOK
  <2> QED BY <1>3, <2>1, StockedIsKept DEF Grows
<1>4. Rows' = Rows
  BY DEF Rows
<1>5. ASSUME NEW l \in Rows
      PROVE  cart[l].of \in DOMAIN cat /\ cart[l].of \in DOMAIN cat' /\ cart[l].units \in Nat
  <2>1. cart[l].of \in DOMAIN cat /\ cart[l].units \in Nat
    BY Bounds DEF Typed, TypeOK, CartRow, Rows
  <2>2. cart[l] \in CartRow'
    BY <1>4 DEF Typed, TypeOK, Rows
  <2> QED BY <2>1, <2>2 DEF CartRow
<1>6. ASSUME NEW l \in Rows  PROVE  Served(l)'
  <2>1. Stocked(cat[cart[l].of], Selection(cart[l]), cart[l].units)
    BY <1>1 DEF Served
  <2> QED BY <1>3, <1>5, <2>1 DEF Served
<1>7. ASSUME NEW k \in Calls  PROVE  Promise(k)'
  <2>1. Promise(k) /\ call[k].max \in Nat /\ call[k].units \in Nat
    BY <1>1, Bounds DEF Typed, CallOK, CallState
  <2>2. call[k].of \in DOMAIN cat' => call[k].of \in DOMAIN cat
    OBVIOUS
  <2> QED BY <1>3, <1>4, <1>5, <2>1, <2>2 DEF Promise
<1> QED BY <1>4, <1>6, <1>7

(* A request proceeds as it promised, and the rows that others found stay what
   they are for. *)
LEMMA CallWithin ==
  ASSUME Within, UNCHANGED shop, NEW k \in Calls,
         \A j \in Calls \ {k} : /\ call'[j] = call[j]
                                /\ call[j].line \in Rows' =>
                                     call[j].line \in Rows
                                     /\ SameFor(cart'[call[j].line], cart[call[j].line]),
         ~lowered => Promise(k)',
         ~lowered => \A l \in Rows' : Served(l)'
  PROVE  Within'
<1> SUFFICES ASSUME ~lowered'  PROVE  \A j \in Calls : Promise(j)'
  BY DEF Within, shop
<1>1. cat' = cat /\ lowered' = lowered /\ \A j \in Calls : Promise(j)
  BY DEF Within, shop
<1>2. ASSUME NEW j \in Calls \ {k}  PROVE  Promise(j)'
  <2>1. /\ call'[j] = call[j] /\ Promise(j)
        /\ call[j].line \in Rows' => call[j].line \in Rows
                                     /\ SameFor(cart'[call[j].line], cart[call[j].line])
    BY <1>1
  <2> QED BY <1>1, <2>1 DEF Promise, SameFor, Selection
<1> QED BY <1>1, <1>2

LEMMA SameServed ==
  ASSUME Within, UNCHANGED << shop, cart >>, ~lowered
  PROVE  \A l \in Rows' : Served(l)'
BY DEF Within, Served, Rows, shop

LEMMA LockWithin ==
  ASSUME Typed, Within, NEW k \in Calls, Lock(k)
  PROVE  Within'
<1>1. /\ call[k] \in CallState /\ call \in [Calls -> CallState] /\ call[k].pc = "lock"
      /\ UNCHANGED << shop, cart >> /\ RowsKept
  BY SameRows DEF Typed, TypeOK, Lock, At
<1>2. /\ call'[k].pc = "find" /\ call'[k].of = call[k].of /\ call'[k].text = call[k].text
      /\ call'[k].max = call[k].max
      /\ \A j \in Calls \ {k} : call'[j] = call[j]
  BY <1>1 DEF Lock, CallState
<1>3. ~lowered => Promise(k)'
  BY <1>1, <1>2 DEF Within, Promise, Selection, shop
<1> QED BY <1>1, <1>2, <1>3, SameServed, CallWithin DEF RowsKept

(* A request asks for its own units, or for its own and the row's, of what it
   read there is. *)
LEMMA FindWithin ==
  ASSUME Typed, Within, NEW k \in Calls, Find(k)
  PROVE  Within'
<1>1. /\ call[k] \in CallState /\ call \in [Calls -> CallState] /\ call[k].pc = "find"
      /\ call[k].line = None /\ UNCHANGED << shop, cart >> /\ RowsKept
  BY SameRows DEF Typed, TypeOK, CallOK, Find, At
<1>2. ASSUME NEW c, call' = [call EXCEPT ![k] = c], ~lowered => Promise(k)'
      PROVE  Within'
  <2>1. \A j \in Calls \ {k} : call'[j] = call[j]
    BY <1>1, <1>2
  <2> QED BY <1>1, <1>2, <2>1, SameServed, CallWithin DEF RowsKept
<1>3. CASE Ends(k)
  <2>1. call'[k] = Idle /\ Idle.pc = "idle"
    BY <1>1, <1>3 DEF Ends, Idle
  <2> QED BY <1>2, <1>3, <2>1 DEF Ends, Promise
<1>4. ASSUME NEW n \in Nat, n <= call[k].max, ~lowered, call[k].of \in DOMAIN cat
      PROVE  Stocked(cat[call[k].of], Selection(call[k]), n)
  <2>1. Stocked(cat[call[k].of], Selection(call[k]), call[k].max)
    BY <1>1, <1>4 DEF Within, Promise
  <2>2. IsRow(cat[call[k].of]) /\ call[k].max \in Nat
    BY <1>1, <1>4, RowsCount, Bounds DEF Typed, TypeOK, CallState
  <2>3. \A v \in DOMAIN cat[call[k].of].variants :
          cat[call[k].of].variants[v] <= cat[call[k].of].variants[v]
    BY <2>2 DEF IsRow
  <2>4. cat[call[k].of].stock <= cat[call[k].of].stock
    BY <2>2 DEF IsRow
  <2> QED BY <1>4, <2>1, <2>2, <2>3, <2>4, StockedIsKept
<1>5. CASE /\ Mine(k) = {} /\ call[k].units <= call[k].max
           /\ call' = [call EXCEPT ![k].pc = "write", ![k].max = 0]
  <2> DEFINE c == [call[k] EXCEPT !.pc = "write", !.max = 0]
  <2>1. c.pc = "write" /\ c.of = call[k].of /\ c.text = call[k].text
        /\ c.units = call[k].units /\ c.line = call[k].line
    BY <1>1 DEF CallState
  <2>2. call' = [call EXCEPT ![k] = c]
    BY <1>1, <1>5
  <2> HIDE DEF c
  <2>3. call'[k] = c /\ call[k].units \in Nat /\ None \notin Rows'
    BY <1>1, <2>2, CatalogueAssumption DEF CallState, Rows
  <2>4. ~lowered => Promise(k)'
    BY <1>1, <1>4, <1>5, <2>1, <2>3 DEF Promise, Selection, shop
  <2> QED BY <1>2, <2>2, <2>4
<1>6. ASSUME NEW l \in Mine(k), call[k].units + cart[l].units <= call[k].max,
             call' = [call EXCEPT ![k].pc = "write", ![k].max = 0, ![k].line = l,
                                  ![k].units = @ + cart[l].units]
      PROVE  Within'
  <2> DEFINE c == [call[k] EXCEPT !.pc = "write", !.max = 0, !.line = l,
                                  !.units = @ + cart[l].units]
  <2>1. l \in Rows /\ cart[l].of = call[k].of /\ cart[l].text = call[k].text
    BY DEF Mine
  <2>2. cart[l].of \in DOMAIN cat /\ cart[l].units \in 1 .. MaxUnits /\ l # None
    BY <2>1, CatalogueAssumption DEF Rows, Typed, TypeOK, CartRow
  <2>3. call[k].units + cart[l].units \in Nat
    BY <1>1, <2>2, Bounds DEF CallState
  <2>4. c.pc = "write" /\ c.line = l /\ c.units = call[k].units + cart[l].units
    BY <1>1 DEF CallState
  <2>5. call' = [call EXCEPT ![k] = c]
    BY <1>1, <1>6
  <2> HIDE DEF c
  <2>6. call'[k] = c
    BY <1>1, <2>5
  <2>7. ~lowered => Stocked(cat[cart[l].of], Selection(cart[l]), c.units)
    BY <1>4, <1>6, <2>1, <2>2, <2>3, <2>4 DEF Selection
  <2>8. ~lowered => Promise(k)'
    BY <1>1, <2>2, <2>4, <2>6, <2>7 DEF Promise, shop
  <2> QED BY <1>2, <2>5, <2>8
<1> QED BY <1>3, <1>5, <1>6 DEF Find

-----------------------------------------------------------------------------
(* The units that a request writes are those it promised for that row. *)
LEMMA UnitsWithin ==
  ASSUME Typed, Within, NEW k \in Calls, NEW l \in Rows, call[k].line = l,
         call[k].pc \in { "write", "set" }, UNCHANGED shop,
         cart' = [cart EXCEPT ![l].units = call[k].units],
         call' = [call EXCEPT ![k] = Idle]
  PROVE  Within'
<1>1. l \in Lines /\ cart[l] \in CartRow /\ cart \in [Lines -> CartRow \cup {None}]
  BY DEF Typed, TypeOK, Rows
<1>2. cart'[l].of = cart[l].of /\ cart'[l].text = cart[l].text /\ cart'[l].units = call[k].units
  BY <1>1 DEF CartRow
<1>3. \A m \in Lines \ {l} : cart'[m] = cart[m]
  BY <1>1
<1>4. RowsKept
  BY UnitsKeepRows
<1>5. call'[k] = Idle /\ \A j \in Calls \ {k} : call'[j] = call[j]
  BY DEF Typed, TypeOK
<1>6. Promise(k)'
  BY <1>5 DEF Promise, Idle
<1>7. ASSUME ~lowered, NEW m \in Rows'  PROVE  Served(m)'
  <2>1. CASE m = l
    BY <1>2, <1>7, <2>1 DEF Within, Promise, Served, Selection, shop
  <2>2. CASE m # l
    <3>1. m \in Rows /\ cart'[m] = cart[m]
      BY <1>3, <2>2 DEF Rows
    <3> QED BY <1>7, <3>1 DEF Within, Served, shop
  <2> QED BY <2>1, <2>2
<1> QED BY <1>4, <1>5, <1>6, <1>7, CallWithin DEF RowsKept

LEMMA EndWithin ==
  ASSUME Typed, Within, NEW k \in Calls, UNCHANGED << shop, cart >>,
         call' = [call EXCEPT ![k] = Idle]
  PROVE  Within'
<1>1. call'[k] = Idle /\ \A j \in Calls \ {k} : call'[j] = call[j]
  BY DEF Typed, TypeOK
<1>2. Promise(k)'
  BY <1>1 DEF Promise, Idle
<1> QED BY <1>1, <1>2, SameRows, SameServed, CallWithin DEF RowsKept

LEMMA WriteWithin ==
  ASSUME Typed, Within, NEW k \in Calls, Write(k)
  PROVE  Within'
<1>1. call[k].pc = "write" /\ call' = [call EXCEPT ![k] = Idle] /\ UNCHANGED shop
  BY DEF Write, At, Ends
<1>2. CASE call[k].line \in Rows /\ cart' = [cart EXCEPT ![call[k].line].units = call[k].units]
  BY <1>1, <1>2, UnitsWithin
<1>3. CASE UNCHANGED cart
  BY <1>1, <1>3, EndWithin
<1>4. ASSUME call[k].line = None, call[k].of \in DOMAIN cat, NEW l \in Lines, Fresh(l),
             cart' = [cart EXCEPT ![l] =
                        Row(call[k].of, call[k].text, call[k].custom, call[k].units)]
      PROVE  Within'
  <2> DEFINE r == Row(call[k].of, call[k].text, call[k].custom, call[k].units)
  <2>1. r.of = call[k].of /\ r.text = call[k].text /\ r.units = call[k].units
    BY DEF Row
  <2>2. cart' = [cart EXCEPT ![l] = r]
    BY <1>4
  <2> HIDE DEF r
  <2>3. cart'[l] = r /\ \A m \in Lines \ {l} : cart'[m] = cart[m]
    BY <2>2 DEF Typed, TypeOK
  <2>4. call'[k] = Idle /\ \A j \in Calls \ {k} : call'[j] = call[j]
    BY <1>1 DEF Typed, TypeOK
  <2>5. Promise(k)'
    BY <2>4 DEF Promise, Idle
  <2>6. ASSUME NEW j \in Calls \ {k}, call[j].line \in Rows'
        PROVE  call[j].line \in Rows /\ SameFor(cart'[call[j].line], cart[call[j].line])
    <3>1. call[j].line # l /\ call[j].line \in Lines
      BY <1>4, <2>6 DEF Fresh, Rows
    <3>2. cart'[call[j].line] = cart[call[j].line]
      BY <2>3, <3>1
    <3> QED BY <2>6, <3>1, <3>2 DEF Rows, SameFor
  <2>7. ASSUME ~lowered, NEW m \in Rows'  PROVE  Served(m)'
    <3>1. CASE m = l
      <4>1. Stocked(cat[call[k].of], Selection(call[k]), call[k].units)
        BY <1>1, <1>4, <2>7 DEF Within, Promise
      <4> QED BY <1>1, <2>1, <2>3, <3>1, <4>1 DEF Served, Selection, shop
    <3>2. CASE m # l
      <4>1. m \in Rows /\ cart'[m] = cart[m]
        BY <2>3, <3>2 DEF Rows
      <4> QED BY <1>1, <2>7, <4>1 DEF Within, Served, shop
    <3> QED BY <3>1, <3>2
  <2> QED BY <1>1, <2>4, <2>5, <2>6, <2>7, CallWithin
<1> QED BY <1>2, <1>3, <1>4 DEF Write

LEMMA SetWithin ==
  ASSUME Typed, Within, NEW k \in Calls, Set(k)
  PROVE  Within'
<1>1. call[k].pc = "set" /\ call' = [call EXCEPT ![k] = Idle] /\ UNCHANGED shop
  BY DEF Set, At, Ends
<1>2. CASE call[k].line \in Rows /\ cart' = [cart EXCEPT ![call[k].line].units = call[k].units]
  BY <1>1, <1>2, UnitsWithin
<1>3. CASE UNCHANGED cart
  BY <1>1, <1>3, EndWithin
<1> QED BY <1>2, <1>3 DEF Set

(* A request promises what it has just compared with the stock. *)
LEMMA AddWithin ==
  ASSUME Typed, Within, NEW k \in Calls, NEW p, NEW text, NEW custom, NEW n,
         Add(k, p, text, custom, n)
  PROVE  Within'
<1> PICK sel : sel = Selects[p][text]
  OBVIOUS
<1> DEFINE c == [ Idle EXCEPT !.pc = "lock", !.of = p, !.text = text, !.custom = custom,
                    !.units = n, !.max = MaxStock(cat[p], sel) ]
<1>1. p \in DOMAIN cat /\ ShopOK /\ Valid(cat[p], sel) /\ UNCHANGED << shop, cart >>
  BY DEF Add, Stocked, Typed, TypeOK
<1>2. Stocked(cat[p], sel, MaxStock(cat[p], sel))
  BY <1>1, StockIsBounded
<1>3. Idle \in CallState
  BY IdleIsOK DEF CallOK
<1>4. c.pc = "lock" /\ c.of = p /\ c.text = text /\ c.max = MaxStock(cat[p], sel)
  BY <1>3 DEF CallState
<1>5. call' = [call EXCEPT ![k] = c]
  BY DEF Add, Begins
<1> HIDE DEF c
<1>6. call'[k] = c /\ \A j \in Calls \ {k} : call'[j] = call[j]
  BY <1>5 DEF Typed, TypeOK
<1>7. Promise(k)'
  BY <1>1, <1>2, <1>4, <1>6 DEF Promise, Selection, shop
<1> QED BY <1>1, <1>6, <1>7, SameRows, SameServed, CallWithin DEF RowsKept

LEMMA ChangeWithin ==
  ASSUME Typed, Within, NEW k \in Calls, NEW l, NEW n, Change(k, l, n)
  PROVE  Within'
<1> DEFINE c == [ Idle EXCEPT !.pc = "set", !.line = l, !.units = n ]
<1>1. l \in Rows /\ Stocked(cat[cart[l].of], Selection(cart[l]), n) /\ UNCHANGED << shop, cart >>
  BY DEF Change
<1>2. Idle \in CallState
  BY IdleIsOK DEF CallOK
<1>3. c.pc = "set" /\ c.line = l /\ c.units = n
  BY <1>2 DEF CallState
<1>4. call' = [call EXCEPT ![k] = c]
  BY DEF Change, Begins
<1> HIDE DEF c
<1>5. call'[k] = c /\ \A j \in Calls \ {k} : call'[j] = call[j]
  BY <1>4 DEF Typed, TypeOK
<1>6. Promise(k)'
  BY <1>1, <1>3, <1>5 DEF Promise, shop
<1> QED BY <1>1, <1>5, <1>6, SameRows, SameServed, CallWithin DEF RowsKept

LEMMA RemovalWithin ==
  ASSUME Typed, Within, (\E l \in Lines : Remove(l)) \/ Clear
  PROVE  Within'
<1>1. UNCHANGED << shop, call >>
  BY DEF Remove, Clear
<1>2. \A l \in Rows' : l \in Rows /\ cart'[l] = cart[l]
  <2>1. CASE Clear
    BY <2>1 DEF Clear, Rows
  <2>2. ASSUME NEW l \in Lines, Remove(l)  PROVE  \A m \in Rows' : m \in Rows /\ cart'[m] = cart[m]
    <3>1. cart'[l] = None /\ \A m \in Lines \ {l} : cart'[m] = cart[m]
      BY <2>2 DEF Typed, TypeOK, Remove
    <3> QED BY <3>1 DEF Rows
  <2> QED BY <2>1, <2>2
<1>3. ASSUME ~lowered, NEW l \in Rows'  PROVE  Served(l)'
  BY <1>1, <1>2, <1>3 DEF Within, Served, shop
<1>4. ASSUME ~lowered, NEW k \in Calls  PROVE  Promise(k)'
  <2>1. Promise(k)
    BY <1>4 DEF Within
  <2> QED BY <1>1, <1>2, <2>1 DEF Promise, shop
<1> QED BY <1>1, <1>3, <1>4 DEF Within, shop

(* The merchant and the orders: what they write is more, or was lowered. *)
LEMMA MerchantWithin ==
  ASSUME Typed, Typed', Within, NEW p \in Products, NEW n \in Nat,
         \/ EditStock(p, n) \/ \E v : EditVariant(p, v, n) \/ \E units : Create(p, n, units)
         \/ \E sel : Order(p, sel, n) \/ Delete(p)
  PROVE  Within'
<1>1. UNCHANGED << cart, call >>
  BY DEF EditStock, EditVariant, Create, Order, Delete
<1>2. lowered \in BOOLEAN /\ (~lowered' => ~lowered)
  BY DEF Typed, TypeOK, ShopOK, EditStock, EditVariant, Create, Order, Delete
<1>3. ASSUME NEW q \in DOMAIN cat
      PROVE  Grows(cat[q], cat[q]) /\ cat[q] \in ProductRow /\ IsRow(cat[q])
  BY <1>3, RowsCount, ShopIs DEF Typed, TypeOK, RowOK, Grows, IsRow
<1>4. ASSUME ~lowered', NEW q \in DOMAIN cat'
      PROVE  IF q \in DOMAIN cat THEN Grows(cat[q], cat'[q]) ELSE \A k \in Calls : call[k].of # q
  <2>1. CASE EditStock(p, n)
    <3>1. p \in DOMAIN cat /\ cat' = [cat EXCEPT ![p].stock = n] /\ cat[p].stock <= n
      <4>1. p \in DOMAIN cat /\ cat' = [cat EXCEPT ![p].stock = n] /\ ~(n < cat[p].stock)
        BY Zenon, <1>4, <2>1 DEF EditStock
      <4>2. cat[p].stock \in Nat
        BY <1>3, <4>1 DEF IsRow
      <4> QED BY <4>1, <4>2
    <3>2. q \in DOMAIN cat /\ (q # p => cat'[q] = cat[q])
      BY <3>1
    <3>3. cat'[p].stock = n /\ cat'[p].variants = cat[p].variants
      BY <1>3, <3>1 DEF ProductRow
    <3> QED BY <1>3, <3>1, <3>2, <3>3 DEF Grows
  <2>2. ASSUME NEW v, EditVariant(p, v, n)
        PROVE  q \in DOMAIN cat /\ Grows(cat[q], cat'[q])
    <3>1. p \in DOMAIN cat /\ v \in DOMAIN cat[p].variants
          /\ cat' = [cat EXCEPT ![p].variants[v] = n] /\ cat[p].variants[v] <= n
      <4>1. p \in DOMAIN cat /\ v \in DOMAIN cat[p].variants
            /\ cat' = [cat EXCEPT ![p].variants[v] = n] /\ ~(n < cat[p].variants[v])
        BY Zenon, <1>4, <2>2 DEF EditVariant
      <4>2. cat[p].variants[v] \in Nat
        BY <1>3, <4>1 DEF IsRow
      <4> QED BY <4>1, <4>2
    <3>2. q \in DOMAIN cat /\ (q # p => cat'[q] = cat[q])
      BY <3>1
    <3>3. cat'[p].stock = cat[p].stock /\ cat'[p].variants = [cat[p].variants EXCEPT ![v] = n]
      BY <1>3, <3>1 DEF ProductRow
    <3>4. /\ DOMAIN cat'[p].variants = DOMAIN cat[p].variants
          /\ \A w \in DOMAIN cat[p].variants : cat[p].variants[w] <= cat'[p].variants[w]
      BY <1>3, <3>1, <3>3 DEF IsRow
    <3> QED BY <1>3, <3>1, <3>2, <3>3, <3>4 DEF Grows
  <2>3. ASSUME NEW units, Create(p, n, units)
        PROVE  IF q \in DOMAIN cat THEN Grows(cat[q], cat'[q]) ELSE \A k \in Calls : call[k].of # q
    BY <1>3, <2>3 DEF Create
  <2>4. ASSUME NEW sel, Order(p, sel, n)  PROVE  FALSE
    BY <1>4, <2>4 DEF Order
  <2>5. CASE Delete(p)
    BY <1>3, <2>5 DEF Delete, Restrict
  <2>6. \/ EditStock(p, n) \/ \E v : EditVariant(p, v, n) \/ \E units : Create(p, n, units)
        \/ \E sel : Order(p, sel, n) \/ Delete(p)
    OBVIOUS
  <2> QED BY <2>1, <2>2, <2>3, <2>4, <2>5, <2>6
<1> QED BY <1>1, <1>2, <1>4, ShopWithin

LEMMA WithinStep == Typed /\ Within /\ [Next]_vars => Within'
<1> SUFFICES ASSUME Typed, Within, [Next]_vars  PROVE  Within'
  OBVIOUS
<1>1. Typed'
  BY TypedStep
<1>2. ASSUME NEW k \in Calls, Lock(k) \/ Find(k) \/ Write(k) \/ Set(k)  PROVE  Within'
  BY <1>2, LockWithin, FindWithin, WriteWithin, SetWithin
<1>3. ASSUME NEW k \in Calls, NEW p, NEW text, NEW custom, NEW n, Add(k, p, text, custom, n)
      PROVE  Within'
  BY <1>3, AddWithin
<1>4. ASSUME NEW k \in Calls, NEW l, NEW n, Change(k, l, n)  PROVE  Within'
  BY <1>4, ChangeWithin
<1>5. CASE (\E l \in Lines : Remove(l)) \/ Clear
  BY <1>5, RemovalWithin
<1>6. ASSUME NEW p \in Products, NEW n \in 0 .. MaxUnits,
             \/ EditStock(p, n) \/ \E v : EditVariant(p, v, n)
             \/ \E units : Create(p, n, units) \/ \E sel : Order(p, sel, n)
      PROVE  Within'
  BY <1>1, <1>6, Bounds, MerchantWithin
<1>7. ASSUME NEW p \in Products, Delete(p)  PROVE  Within'
  <2>1. 0 \in Nat
    OBVIOUS
  <2> QED BY <1>1, <1>7, <2>1, MerchantWithin
<1>8. CASE UNCHANGED << cat, cart, call, lowered >>
  BY <1>8 DEF Within, Served, Promise, Rows
<1>9. (\E c \in Categories : Offer(c)) \/ UNCHANGED vars
        => UNCHANGED << cat, cart, call, lowered >>
  BY DEF Offer, vars
<1> QED BY <1>2, <1>3, <1>4, <1>5, <1>6, <1>7, <1>8, <1>9 DEF Next

(* Additions and changes that each looked at the stock before the others wrote do
   not together ask for more than there is, however many they are, until stock is
   lowered: what a request stores is the number of units of the whole row, and
   that is what it compared with the stock it read. *)
THEOREM CartsAreWithinStock == Spec => []CartWithinStock
<1>1. Init => Typed /\ Within
  BY TypedInit DEF Init, Within, Rows, Promise, Idle
<1>2. Typed /\ Within /\ [Next]_vars => Typed' /\ Within'
  BY TypedStep, WithinStep
<1>3. Within => CartWithinStock
  BY DEF Within, CartWithinStock, Served
<1> QED BY <1>1, <1>2, <1>3, PTL DEF Spec
-----------------------------------------------------------------------------
(* Reordering *)

(* A quotient that is rounded up is enough. *)
LEMMA RoundedUp ==
  ASSUME NEW a \in Nat, NEW b \in Nat \ {0}
  PROVE  CeilDiv(a, b) \in Nat /\ CeilDiv(a, b) * b >= a
BY DEF CeilDiv

(* The stock of an item of the reports. *)
LEMMA ItemsCount ==
  ASSUME ShopOK, NEW i \in Items(cat)
  PROVE  StockOf(cat, i) \in Nat
<1>1. CASE \E p \in DOMAIN cat : ~HasVariants(cat[p]) /\ i = << p, None >>
  BY <1>1, RowsCount DEF StockOf, IsRow
<1>2. CASE \E p \in DOMAIN cat : \E v \in DOMAIN cat[p].variants : i = << p, v >>
  <2>1. PICK p \in DOMAIN cat : \E v \in DOMAIN cat[p].variants : i = << p, v >>
    BY <1>2
  <2>2. PICK v \in DOMAIN cat[p].variants : i = << p, v >>
    BY <2>1
  <2> QED BY <2>2, RowsCount, InventoryAssumption DEF StockOf, IsRow
<1> QED BY <1>1, <1>2 DEF Items

LEMMA QuantitySettles ==
  ASSUME NEW n \in Nat, NEW units \in Nat
  PROVE  ~Runs(n + Quantity(n, units), units)
<1> DEFINE sales == CeilDiv(units * 30, Window)
           buffer == Low - n + 10
           q == Quantity(n, units)
<1>1. Low \in Nat \ {0} /\ Window \in Nat \ {0}
  BY InventoryAssumption
<1>2. sales \in Nat /\ sales * Window >= units * 30
  BY <1>1, RoundedUp
<1>3. buffer \in Int
  BY <1>1
<1> HIDE DEF sales
<1>4. q \in Int /\ q >= sales /\ q >= buffer
  <2>1. q = Largest(sales, buffer)
    BY DEF Quantity, sales
  <2> HIDE DEF q, buffer
  <2> QED BY <1>2, <1>3, <2>1 DEF Largest
<1> HIDE DEF q
<1>5. n + q > Low
  BY <1>1, <1>4
<1> HIDE DEF buffer
<1>6. (n + q) * Window >= units * 30
  <2>1. n + q >= sales
    BY <1>2, <1>4
  <2>2. (n + q) * Window >= sales * Window
    BY <1>1, <1>2, <1>4, <2>1
  <2>3. sales * Window \in Int /\ (n + q) * Window \in Int
    BY <1>1, <1>2, <1>4
  <2> QED BY <1>2, <2>2, <2>3
<1>7. ~LastsUnder(n + q, units, 14)
  <2> SUFFICES ASSUME units > 0, (n + q) * Window < 14 * units  PROVE  FALSE
    BY DEF LastsUnder
  <2>1. (n + q) * Window \in Int
    BY <1>1, <1>4
  <2> QED BY <1>6, <2>1
<1>8. ~Runs(n + q, units)
  BY <1>1, <1>4, <1>5, <1>7 DEF Runs
<1> QED BY <1>8 DEF q

(* Once what is suggested has arrived the item is not suggested any more, at the
   same sales, whatever they and the stock are: thirty days of sales in units
   rounded up last longer than the fortnight, and the buffer is over the
   warning. *)
THEOREM ReorderingSettles == Spec => []ReorderSettles
<1>1. TypeOK => ReorderSettles
  <2> SUFFICES ASSUME TypeOK, NEW sold \in [Items(cat) -> Sales], NEW r \in Reorder(cat, sold)
               PROVE  ~Runs(StockOf(cat, r.on) + r.quantity, sold[r.on])
    BY DEF ReorderSettles
  <2>1. PICK i \in Items(cat) : r = [ on |-> i, quantity |-> Quantity(StockOf(cat, i), sold[i]),
                                      priority |-> Priority(StockOf(cat, i), sold[i]) ]
    BY DEF Reorder
  <2>2. r.on = i /\ r.quantity = Quantity(StockOf(cat, i), sold[i])
    BY <2>1
  <2>3. StockOf(cat, i) \in Nat
    BY ItemsCount DEF TypeOK
  <2>4. sold[i] \in Nat
    BY CatalogueAssumption
  <2> QED BY <2>2, <2>3, <2>4, QuantitySettles
<1>2. Spec => []TypeOK
  BY CatalogueTyped
<1> QED BY <1>1, <1>2, PTL
-----------------------------------------------------------------------------
(* The reports *)

(* The items the merchant is warned of: those that are sold out, or still there. *)
Warned(out) == { i \in Items(cat) : StockOf(cat, i) <= Low /\ (StockOf(cat, i) = 0) = out }

LEMMA WarnedIs ==
  ASSUME NEW out \in BOOLEAN
  PROVE  { a.on : a \in { b \in Alerts(cat) : b.critical = out } } = Warned(out)
<1>1. ASSUME NEW a \in Alerts(cat), a.critical = out  PROVE  a.on \in Warned(out)
  <2>1. PICK i \in Items(cat) : StockOf(cat, i) <= Low
                               /\ a = [ on |-> i, critical |-> StockOf(cat, i) = 0 ]
    BY DEF Alerts
  <2>2. a.on = i /\ a.critical = (StockOf(cat, i) = 0)
    BY <2>1
  <2> QED BY <1>1, <2>1, <2>2 DEF Warned
<1>2. ASSUME NEW i \in Warned(out)
      PROVE  \E a \in Alerts(cat) : a.critical = out /\ a.on = i
  <2> DEFINE a == [ on |-> i, critical |-> StockOf(cat, i) = 0 ]
  <2>1. a \in Alerts(cat)
    BY DEF Alerts, Warned
  <2>2. a.critical = out /\ a.on = i
    BY DEF Warned
  <2> QED BY <2>1, <2>2
<1> QED BY <1>1, <1>2

(* An item is a product without variants, or one variant of a product. *)
LEMMA ItemsAre ==
  ASSUME ShopOK
  PROVE  /\ \A i \in Items(cat) :
              /\ i[1] \in DOMAIN cat
              /\ \/ /\ ~HasVariants(cat[i[1]]) /\ i = << i[1], None >>
                    /\ StockOf(cat, i) = cat[i[1]].stock
                 \/ /\ HasVariants(cat[i[1]]) /\ i = << i[1], i[2] >>
                    /\ i[2] \in DOMAIN cat[i[1]].variants
                    /\ StockOf(cat, i) = cat[i[1]].variants[i[2]]
         /\ \A p \in DOMAIN cat : ~HasVariants(cat[p]) =>
              << p, None >> \in Items(cat) /\ StockOf(cat, << p, None >>) = cat[p].stock
         /\ \A p \in DOMAIN cat : \A v \in DOMAIN cat[p].variants :
              << p, v >> \in Items(cat) /\ StockOf(cat, << p, v >>) = cat[p].variants[v]
<1>1. ASSUME NEW p \in DOMAIN cat, NEW v \in DOMAIN cat[p].variants
      PROVE  << p, v >> \in Items(cat) /\ StockOf(cat, << p, v >>) = cat[p].variants[v]
  <2>1. v # None
    BY RowsCount, InventoryAssumption
  <2> QED BY <2>1 DEF Items, StockOf
<1>2. ASSUME NEW p \in DOMAIN cat, ~HasVariants(cat[p])
      PROVE  << p, None >> \in Items(cat) /\ StockOf(cat, << p, None >>) = cat[p].stock
  BY <1>2 DEF Items, StockOf
<1>3. ASSUME NEW i \in Items(cat)
      PROVE  /\ i[1] \in DOMAIN cat
             /\ \/ /\ ~HasVariants(cat[i[1]]) /\ i = << i[1], None >>
                   /\ StockOf(cat, i) = cat[i[1]].stock
                \/ /\ HasVariants(cat[i[1]]) /\ i = << i[1], i[2] >>
                   /\ i[2] \in DOMAIN cat[i[1]].variants
                   /\ StockOf(cat, i) = cat[i[1]].variants[i[2]]
  <2>1. CASE \E p \in DOMAIN cat : ~HasVariants(cat[p]) /\ i = << p, None >>
    BY <1>2, <2>1
  <2>2. CASE \E p \in DOMAIN cat : \E v \in DOMAIN cat[p].variants : i = << p, v >>
    <3>1. PICK p \in DOMAIN cat : \E v \in DOMAIN cat[p].variants : i = << p, v >>
      BY <2>2
    <3>2. PICK v \in DOMAIN cat[p].variants : i = << p, v >>
      BY <3>1
    <3>3. HasVariants(cat[p])
      BY DEF HasVariants
    <3> QED BY <1>1, <3>2, <3>3
  <2> QED BY <2>1, <2>2 DEF Items
<1> QED BY <1>1, <1>2, <1>3

-----------------------------------------------------------------------------
LEMMA LowIsWarned ==
  ASSUME ShopOK
  PROVE  LowInStock(cat) = { i[1] : i \in Warned(FALSE) }
<1>1. ASSUME NEW p \in LowInStock(cat)  PROVE  \E i \in Warned(FALSE) : i[1] = p
  <2>1. CASE HasVariants(cat[p])
    <3>1. PICK v \in DOMAIN cat[p].variants : IsLow(cat[p].variants[v])
      BY <2>1 DEF LowInStock
    <3>2. << p, v >> \in Items(cat) /\ StockOf(cat, << p, v >>) = cat[p].variants[v]
      BY ItemsAre DEF LowInStock
    <3>3. << p, v >> \in Warned(FALSE)
      BY <3>1, <3>2 DEF Warned, IsLow
    <3> QED BY <3>3
  <2>2. CASE ~HasVariants(cat[p])
    <3>1. << p, None >> \in Items(cat) /\ StockOf(cat, << p, None >>) = cat[p].stock
      BY <2>2, ItemsAre DEF LowInStock
    <3>2. << p, None >> \in Warned(FALSE)
      BY <2>2, <3>1 DEF Warned, IsLow, LowInStock
    <3> QED BY <3>2
  <2> QED BY <2>1, <2>2
<1>2. ASSUME NEW i \in Warned(FALSE)  PROVE  i[1] \in LowInStock(cat)
  <2>1. i \in Items(cat) /\ StockOf(cat, i) <= Low /\ StockOf(cat, i) # 0
        /\ StockOf(cat, i) \in Nat
    BY ItemsCount DEF Warned
  <2>2. IsLow(StockOf(cat, i))
    BY <2>1 DEF IsLow
  <2> QED BY <2>1, <2>2, ItemsAre DEF LowInStock
<1> QED BY <1>1, <1>2

LEMMA SoldOutIsWarned ==
  ASSUME ShopOK
  PROVE  SoldOut(cat) = { p \in DOMAIN cat : \A i \in Items(cat) : i[1] = p => i \in Warned(TRUE) }
<1>1. Low \in Nat
  BY InventoryAssumption
<1>2. ASSUME NEW p \in SoldOut(cat), NEW i \in Items(cat), i[1] = p
      PROVE  i \in Warned(TRUE)
  <2>1. StockOf(cat, i) = 0
    BY <1>2, ItemsAre DEF SoldOut
  <2> QED BY <1>1, <2>1 DEF Warned
<1>3. ASSUME NEW p \in DOMAIN cat, \A i \in Items(cat) : i[1] = p => i \in Warned(TRUE)
      PROVE  p \in SoldOut(cat)
  <2>1. CASE HasVariants(cat[p])
    <3>1. ASSUME NEW v \in DOMAIN cat[p].variants  PROVE  cat[p].variants[v] = 0
      <4>1. << p, v >> \in Items(cat) /\ StockOf(cat, << p, v >>) = cat[p].variants[v]
        BY ItemsAre
      <4>2. << p, v >> \in Warned(TRUE)
        BY <1>3, <4>1
      <4> QED BY <4>1, <4>2 DEF Warned
    <3> QED BY <2>1, <3>1 DEF SoldOut
  <2>2. CASE ~HasVariants(cat[p])
    <3>1. << p, None >> \in Items(cat) /\ StockOf(cat, << p, None >>) = cat[p].stock
      BY <2>2, ItemsAre
    <3>2. << p, None >> \in Warned(TRUE)
      BY <1>3, <3>1
    <3> QED BY <2>2, <3>1, <3>2 DEF SoldOut, Warned
  <2> QED BY <2>1, <2>2
<1>4. SoldOut(cat) \subseteq DOMAIN cat
  BY DEF SoldOut
<1> QED BY <1>2, <1>3, <1>4

LEMMA InStockIsTheRest ==
  ASSUME ShopOK
  PROVE  InStock(cat) = DOMAIN cat \ SoldOut(cat)
<1>1. ASSUME NEW p \in DOMAIN cat  PROVE  p \in InStock(cat) <=> p \notin SoldOut(cat)
  <2>1. cat[p].stock > 0 <=> cat[p].stock # 0
    BY RowsCount
  <2>2. \A v \in DOMAIN cat[p].variants : cat[p].variants[v] > 0 <=> cat[p].variants[v] # 0
    BY RowsCount
  <2> QED BY <2>1, <2>2 DEF InStock, SoldOut
<1> QED BY <1>1 DEF InStock, SoldOut

(* An item is on the list of the stocks its own is among. *)
LEMMA IsListed ==
  ASSUME ShopOK, NEW quantities, NEW i \in Items(cat), StockOf(cat, i) \in quantities
  PROVE  i \in ListOf(cat, quantities)
<1> PICK p : p = i[1]
  OBVIOUS
<1> DEFINE found == { v \in DOMAIN cat[p].variants : cat[p].variants[v] \in quantities }
           listed == IF found # {} THEN {p} \X found
                     ELSE IF cat[p].stock \in quantities THEN { << p, None >> } ELSE {}
<1>1. p \in DOMAIN cat /\ listed \subseteq ListOf(cat, quantities)
  BY ItemsAre DEF ListOf
<1>2. CASE ~HasVariants(cat[p]) /\ i = << p, None >> /\ StockOf(cat, i) = cat[p].stock
  <2>1. found = {}
    BY <1>2 DEF HasVariants
  <2> HIDE DEF found
  <2>2. i \in listed
    BY <1>2, <2>1
  <2> QED BY <1>1, <2>2
<1>3. CASE i = << p, i[2] >> /\ i[2] \in DOMAIN cat[p].variants
           /\ StockOf(cat, i) = cat[p].variants[i[2]]
  <2>1. i[2] \in found
    BY <1>3
  <2> HIDE DEF found
  <2>2. i \in listed
    BY <1>3, <2>1
  <2> QED BY <1>1, <2>2
<1> QED BY <1>2, <1>3, ItemsAre

LEMMA WarnedIsReordered ==
  ASSUME ShopOK, NEW sold \in [Items(cat) -> Sales]
  PROVE  /\ Warned(FALSE) \cup Warned(TRUE) \subseteq { r.on : r \in Reorder(cat, sold) }
         /\ \A r \in Reorder(cat, sold) : r.on \in Warned(TRUE) => r.priority = "HIGH"
<1>1. ASSUME NEW i \in Warned(FALSE) \cup Warned(TRUE)
      PROVE  \E r \in Reorder(cat, sold) : r.on = i
  <2> DEFINE r == [ on |-> i, quantity |-> Quantity(StockOf(cat, i), sold[i]),
                    priority |-> Priority(StockOf(cat, i), sold[i]) ]
  <2>1. i \in Items(cat) /\ Runs(StockOf(cat, i), sold[i])
    BY DEF Warned, Runs
  <2>2. r \in Reorder(cat, sold) /\ r.on = i
    BY <2>1 DEF Reorder
  <2> QED BY <2>2
<1>2. ASSUME NEW r \in Reorder(cat, sold), r.on \in Warned(TRUE)
      PROVE  r.priority = "HIGH"
  <2>1. PICK i \in Items(cat) : r = [ on |-> i, quantity |-> Quantity(StockOf(cat, i), sold[i]),
                                      priority |-> Priority(StockOf(cat, i), sold[i]) ]
    BY DEF Reorder
  <2>2. StockOf(cat, i) = 0 /\ r.priority = Priority(StockOf(cat, i), sold[i])
    BY <1>2, <2>1 DEF Warned
  <2>3. Priority(0, sold[i]) = "HIGH"
    BY DEF Priority
  <2> QED BY <2>2, <2>3
<1> QED BY <1>1, <1>2

(* What the merchant's reports say of any catalogue agrees: the overview, the
   alerts, the two lists and the suggestions each read the stock in a way of
   their own, and a product with variants has no stock beside theirs in any. *)
THEOREM ReportsDoAgree == Spec => []ReportsAgree
<1>1. TypeOK => ReportsAgree
  <2> SUFFICES ASSUME TypeOK  PROVE  ReportsAgree
    OBVIOUS
  <2>1. ShopOK
    BY DEF TypeOK
  <2> DEFINE warned(c) == { a.on : a \in { b \in Alerts(cat) : b.critical = c } }
  <2>2. warned(FALSE) = Warned(FALSE) /\ warned(TRUE) = Warned(TRUE)
    BY WarnedIs
  <2>3. ASSUME NEW i \in Warned(FALSE)  PROVE  i \in LowStockList(cat)
    <3>1. i \in Items(cat) /\ StockOf(cat, i) \in 1 .. Low
      BY <2>1, ItemsCount, InventoryAssumption DEF Warned
    <3> QED BY <2>1, <3>1, IsListed DEF LowStockList
  <2>4. ASSUME NEW i \in Warned(TRUE)  PROVE  i \in OutOfStockList(cat)
    <3>1. i \in Items(cat) /\ StockOf(cat, i) \in {0}
      BY DEF Warned
    <3> QED BY <2>1, <3>1, IsListed DEF OutOfStockList
  <2>5. LowInStock(cat) = { i[1] : i \in warned(FALSE) }
    BY <2>1, <2>2, LowIsWarned
  <2>6. SoldOut(cat) = { p \in DOMAIN cat : \A i \in Items(cat) : i[1] = p => i \in warned(TRUE) }
    BY <2>1, <2>2, SoldOutIsWarned
  <2>7. InStock(cat) = DOMAIN cat \ SoldOut(cat)
    BY <2>1, InStockIsTheRest
  <2>8. warned(FALSE) \subseteq LowStockList(cat) /\ warned(TRUE) \subseteq OutOfStockList(cat)
    BY <2>2, <2>3, <2>4
  <2>9. \A sold \in [Items(cat) -> Sales] :
          /\ warned(FALSE) \cup warned(TRUE) \subseteq { r.on : r \in Reorder(cat, sold) }
          /\ \A r \in Reorder(cat, sold) : r.on \in warned(TRUE) => r.priority = "HIGH"
    BY <2>1, <2>2, WarnedIsReordered
  <2> HIDE DEF warned
  <2>10. /\ LowInStock(cat) = { i[1] : i \in warned(FALSE) }
         /\ SoldOut(cat) = { p \in DOMAIN cat : \A i \in Items(cat) : i[1] = p => i \in warned(TRUE) }
         /\ InStock(cat) = DOMAIN cat \ SoldOut(cat)
         /\ warned(FALSE) \subseteq LowStockList(cat) /\ warned(TRUE) \subseteq OutOfStockList(cat)
         /\ \A sold \in [Items(cat) -> Sales] :
              /\ warned(FALSE) \cup warned(TRUE) \subseteq { r.on : r \in Reorder(cat, sold) }
              /\ \A r \in Reorder(cat, sold) : r.on \in warned(TRUE) => r.priority = "HIGH"
    BY <2>5, <2>6, <2>7, <2>8, <2>9
  <2> QED BY <2>10 DEF ReportsAgree, warned
<1>2. Spec => []TypeOK
  BY CatalogueTyped
<1> QED BY <1>1, <1>2, PTL
-----------------------------------------------------------------------------
(* What shoppers are shown *)

(* A product whose stock is counted has one to sell with some selection exactly
   if it, or a variant, is in stock. *)
LEMMA OneIsStocked ==
  ASSUME NEW row, IsRow(row)
  PROVE  (\E sel \in SUBSET DOMAIN row.variants : Stocked(row, sel, 1)) <=>
           row.stock > 0 \/ \E v \in DOMAIN row.variants : row.variants[v] > 0
<1>1. ASSUME NEW sel \in SUBSET DOMAIN row.variants, Stocked(row, sel, 1)
      PROVE  row.stock > 0 \/ \E v \in DOMAIN row.variants : row.variants[v] > 0
  <2>1. IF sel = {} THEN 1 <= row.stock ELSE \A v \in sel : 1 <= row.variants[v]
    BY <1>1, StockedIs
  <2>2. \A v \in sel : row.variants[v] \in Nat
    BY DEF IsRow
  <2> QED BY <2>1, <2>2 DEF IsRow
<1>2. ASSUME row.stock > 0  PROVE  Stocked(row, {}, 1)
  <2>1. Valid(row, {}) /\ 1 <= row.stock
    BY <1>2 DEF Valid, IsRow
  <2> QED BY <2>1, StockedIs
<1>3. ASSUME NEW v \in DOMAIN row.variants, row.variants[v] > 0
      PROVE  Stocked(row, {v}, 1) /\ {v} \in SUBSET DOMAIN row.variants
  <2>1. Valid(row, {v})
    BY DEF Valid
  <2>2. \A w \in {v} : 1 <= row.variants[w]
    BY <1>3 DEF IsRow
  <2> QED BY <2>1, <2>2, StockedIs
<1> QED BY <1>1, <1>2, <1>3

(* An available product has one to sell to who selects a variant where there
   are any. *)
LEMMA AvailableIsStocked ==
  ASSUME NEW row, IsRow(row), Available(row)
  PROVE  \E sel \in SUBSET DOMAIN row.variants :
           (sel # {}) = HasVariants(row) /\ Stocked(row, sel, 1)
<1>1. CASE ~HasVariants(row) /\ row.stock > 0
  <2>1. Valid(row, {}) /\ 1 <= row.stock
    BY <1>1 DEF Valid, IsRow
  <2>2. Stocked(row, {}, 1)
    BY <2>1, StockedIs
  <2> QED BY <1>1, <2>2 DEF HasVariants
<1>2. CASE \E v \in DOMAIN row.variants : row.variants[v] > 0
  <2>1. PICK v \in DOMAIN row.variants : row.variants[v] > 0
    BY <1>2
  <2>2. Valid(row, {v}) /\ HasVariants(row)
    BY DEF Valid, HasVariants
  <2>3. \A w \in {v} : 1 <= row.variants[w]
    BY <2>1 DEF IsRow
  <2>4. Stocked(row, {v}, 1)
    BY <2>2, <2>3, StockedIs
  <2> QED BY <2>2, <2>4
<1> QED BY <1>1, <1>2 DEF Available

Named(c, p) == { sel \in SUBSET DOMAIN c[p].variants : (sel # {}) = HasVariants(c[p]) }

(* Of any catalogue that counts its stock, whatever is shown can be ordered. *)
LEMMA ShownOf ==
  ASSUME NEW c, \A p \in DOMAIN c : IsRow(c[p])
  PROVE  /\ Listed(c, hidden) =
              { p \in DOMAIN c : \E sel \in SUBSET DOMAIN c[p].variants : Accepts(c, p, sel, 1) }
         /\ \A p \in Promoted(c, hidden, DOMAIN c) : \E sel \in Named(c, p) : Accepts(c, p, sel, 1)
         /\ \A units, limit : \A best \in Trending(c, hidden, units, limit) :
              \A p \in best : \E sel \in Named(c, p) : Accepts(c, p, sel, 1)
         /\ \A p \in DOMAIN c : \A q \in Similar(c, p) : \E sel \in Named(c, q) : Stocked(c[q], sel, 1)
         /\ \A bought : \A p \in Recommended(c, {}, bought, {}) :
              \E sel \in Named(c, p) : Stocked(c[p], sel, 1)
<1>1. Listed(c, hidden) =
        { p \in DOMAIN c : \E sel \in SUBSET DOMAIN c[p].variants : Accepts(c, p, sel, 1) }
  BY OneIsStocked DEF Listed, Accepts
<1>2. ASSUME NEW p \in DOMAIN c, Available(c[p])
      PROVE  \E sel \in Named(c, p) : Stocked(c[p], sel, 1)
  BY <1>2, AvailableIsStocked DEF Named
<1>3. ASSUME NEW p \in DOMAIN c, Available(c[p]), c[p].category \notin hidden
      PROVE  \E sel \in Named(c, p) : Accepts(c, p, sel, 1)
  BY <1>2, <1>3 DEF Accepts
<1>4. \A p \in Promoted(c, hidden, DOMAIN c) : \E sel \in Named(c, p) : Accepts(c, p, sel, 1)
  BY <1>3 DEF Promoted
<1>5. ASSUME NEW units, NEW limit, NEW shown \in Trending(c, hidden, units, limit), NEW p \in shown
      PROVE  \E sel \in Named(c, p) : Accepts(c, p, sel, 1)
  <2>1. PICK best \in BestSold(c, hidden, units, limit) :
          shown = IF best = {} THEN Promoted(c, hidden, DOMAIN c)
                               ELSE { q \in best : Available(c[q]) }
    BY DEF Trending
  <2>2. \A q \in best : q \in DOMAIN c /\ c[q].category \notin hidden
    BY DEF BestSold
  <2>3. CASE best = {}
    BY <1>4, <1>5, <2>1, <2>3
  <2>4. CASE best # {}
    BY <1>3, <1>5, <2>1, <2>2, <2>4
  <2> QED BY <2>3, <2>4
<1>6. \A p \in DOMAIN c : \A q \in Similar(c, p) : \E sel \in Named(c, q) : Stocked(c[q], sel, 1)
  BY <1>2 DEF Similar
<1>7. \A bought : \A p \in Recommended(c, {}, bought, {}) :
        \E sel \in Named(c, p) : Stocked(c[p], sel, 1)
  BY <1>2 DEF Recommended
<1> QED BY <1>1, <1>4, <1>5, <1>6, <1>7

(* What shoppers are shown they can order, of this store and beside any other
   products: the filter of the catalogue, the promoted, the trending, the similar
   and the recommended ask about variants in different words, and none shows a
   product for a stock that its variants do not have.  It is so while requests
   are under way, too. *)
THEOREM ShownAreOrderable == Spec => []ShownIsOrderable /\ []AllShownCanBeOrdered
<1>1. TypeOK => AllShownCanBeOrdered
  <2> SUFFICES ASSUME TypeOK, NEW other \in Others
               PROVE  ShownCanBeOrdered(Beside(cat, other))
    BY DEF AllShownCanBeOrdered
  <2>1. ASSUME NEW p \in DOMAIN Beside(cat, other)
        PROVE  IsRow(Beside(cat, other)[p])
    <3>1. p \in DOMAIN cat => IsRow(cat[p])
      BY RowsCount DEF TypeOK
    <3>2. p \in DOMAIN other => IsRow(other[p])
      BY CatalogueAssumption
    <3>3. /\ p \in DOMAIN cat \cup DOMAIN other
          /\ Beside(cat, other)[p] = IF p \in DOMAIN cat THEN cat[p] ELSE other[p]
      BY DEF Beside
    <3> QED BY <3>1, <3>2, <3>3
  <2>2. ASSUME NEW c, \A p \in DOMAIN c : IsRow(c[p])
        PROVE  ShownCanBeOrdered(c)
    BY <2>2, ShownOf DEF ShownCanBeOrdered, Named
  <2> QED BY <2>1, <2>2
<1>2. Spec => []TypeOK
  BY CatalogueTyped
<1>3. AllShownCanBeOrdered => ShownIsOrderable
  BY DEF ShownIsOrderable
<1> QED BY <1>1, <1>2, <1>3, PTL
=============================================================================

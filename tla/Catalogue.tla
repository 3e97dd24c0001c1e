----------------------------- MODULE Catalogue ------------------------------
(***************************************************************************)
(* The catalogue of one store and the cart that one signed-in shopper keeps *)
(* with it, while the merchant edits the stock and orders take it.          *)
(*                                                                         *)
(* An addition to the cart reads the stock, then runs a transaction under an*)
(* advisory lock on what it adds; a change of a quantity reads and writes   *)
(* without it.  An order is one step here: the module Checkout has the      *)
(* statements of its transaction.                                           *)
(***************************************************************************)
EXTENDS Inventory

CONSTANTS
  Products, Category, \* products the store may offer, the category of each
  VariantsOf,         \* and the variants each may have
  Texts,              \* what shoppers send as the selection, trimmed
  Selects,            \* the variants of a product that each names, if any
  Lines,              \* rows of the cart (a bound)
  Calls,              \* requests in progress at one time
  MaxUnits,           \* bound on stock
  MaxAsk,             \* bound on what one request puts in the cart
  Sales,              \* units sold that the properties look at
  Others              \* further products that the shop may have beside: catalogues

ASSUME CatalogueAssumption ==
  /\ None \notin Products \cup Lines
  /\ VariantsOf \in [Products -> SUBSET Variants]
  /\ \A p, q \in Products : p # q => VariantsOf[p] \cap VariantsOf[q] = {}
  /\ None \notin Texts /\ Selects \in [Products -> [Texts -> SUBSET Variants]]
  /\ {MaxUnits, MaxAsk} \subseteq Nat /\ Sales \subseteq Nat
  /\ \A c \in Others : DOMAIN c \cap Products = {} /\ \A p \in DOMAIN c : IsRow(c[p])

VARIABLES
  cat,     \* the catalogue, a function from the products there are
  ordered, \* products with order history
  hidden,  \* categories the store does not offer at present
  cart,    \* what each row asks for, None where there is no row
  call,
  lowered  \* history: the stock of something was lowered

vars == << cat, ordered, hidden, cart, call, lowered >>

shop == << cat, ordered, hidden, lowered >>
-----------------------------------------------------------------------------
Categories == { Category[p] : p \in Products }

Idle == [ pc |-> "idle", of |-> None, text |-> None, custom |-> FALSE,
          units |-> 0, max |-> 0, line |-> None ]

At(k, pc) == call[k].pc = pc
Ends(k) == call' = [call EXCEPT ![k] = Idle]
Begins(k, c) == At(k, "idle") /\ call' = [call EXCEPT ![k] = c]

Row(p, text, custom, n) == [ of |-> p, text |-> text, custom |-> custom, units |-> n ]

(* resolveVariantSelection: a selection can be written in several ways, as its
   variants are found in any order and in upper or lower case.  A row keeps the
   text and is resolved when it is needed. *)
Selection(r) == Selects[r.of][r.text]

Rows == { l \in Lines : cart[l] # None }

(* The identifier of a row or of a product is never used again *)
Fresh(l) == l \notin Rows /\ \A k \in Calls : call[k].line # l

Init ==
  /\ cat = << >> /\ ordered = {} /\ hidden = {}
  /\ cart = [l \in Lines |-> None]
  /\ call = [k \in Calls |-> Idle]
  /\ lowered = FALSE
-----------------------------------------------------------------------------
(* The shopper's cart: addCartItem, updateCartItem, removeCartItem, clearCart *)

(* The stock is read before the transaction *)
Add(k, p, text, custom, n) ==
  LET sel == Selects[p][text] IN
  /\ p \in DOMAIN cat /\ n >= 1 /\ Stocked(cat[p], sel, n)
  /\ Begins(k, [ Idle EXCEPT !.pc = "lock", !.of = p, !.text = text,
                   !.custom = custom, !.units = n, !.max = MaxStock(cat[p], sel) ])
  /\ UNCHANGED << shop, cart >>

(* The key of the lock: product, text of the selection and customizations *)
SameKey(j, k) ==
  /\ call[j].of = call[k].of /\ call[j].text = call[k].text
  /\ call[j].custom = call[k].custom

(* Faulty: no lock *)
LockNothing(k) ==
  /\ At(k, "lock")
  /\ call' = [call EXCEPT ![k].pc = "find"]
  /\ UNCHANGED << shop, cart >>

Lock(k) ==
  /\ At(k, "lock")
  /\ \A j \in Calls : (At(j, "find") \/ At(j, "write")) => ~SameKey(j, k)
  /\ call' = [call EXCEPT ![k].pc = "find"]
  /\ UNCHANGED << shop, cart >>

(* What is customized never joins a row that is there *)
Mine(k) ==
  { l \in Rows : ~call[k].custom /\ ~cart[l].custom
                 /\ cart[l].of = call[k].of /\ cart[l].text = call[k].text }

(* Faulty: only what is added is compared with the stock *)
FindUnits(k) ==
  /\ At(k, "find")
  /\ \/ /\ Mine(k) = {}
        /\ call' = [call EXCEPT ![k].pc = "write", ![k].max = 0]
     \/ \E l \in Mine(k) :
          call' = [call EXCEPT ![k].pc = "write", ![k].max = 0, ![k].line = l,
                               ![k].units = @ + cart[l].units]
  /\ UNCHANGED << shop, cart >>

Find(k) ==
  /\ At(k, "find")
  /\ \/ /\ Mine(k) = {} /\ call[k].units <= call[k].max
        /\ call' = [call EXCEPT ![k].pc = "write", ![k].max = 0]
     \/ \E l \in Mine(k) :
          IF call[k].units + cart[l].units <= call[k].max
          THEN call' = [call EXCEPT ![k].pc = "write", ![k].max = 0, ![k].line = l,
                                    ![k].units = @ + cart[l].units]
          ELSE Ends(k)
  /\ UNCHANGED << shop, cart >>

(* The row found may be gone, and so may the product *)
Write(k) ==
  /\ At(k, "write")
  /\ LET c == call[k] IN
     \/ /\ c.line \in Rows
        /\ cart' = [cart EXCEPT ![c.line].units = c.units]
     \/ /\ c.line = None /\ c.of \in DOMAIN cat
        /\ \E l \in { m \in Lines : Fresh(m) } :
             cart' = [cart EXCEPT ![l] = Row(c.of, c.text, c.custom, c.units)]
     \/ /\ \/ c.line \notin Rows \cup {None}
           \/ c.line = None /\ (c.of \notin DOMAIN cat \/ \A m \in Lines : ~Fresh(m))
        /\ UNCHANGED cart
  /\ Ends(k)
  /\ UNCHANGED shop

(* A new quantity is compared with the stock that is read, then stored *)
Change(k, l, n) ==
  /\ l \in Rows /\ n >= 1 /\ Stocked(cat[cart[l].of], Selection(cart[l]), n)
  /\ Begins(k, [ Idle EXCEPT !.pc = "set", !.line = l, !.units = n ])
  /\ UNCHANGED << shop, cart >>

Set(k) ==
  /\ At(k, "set")
  /\ IF call[k].line \in Rows
     THEN cart' = [cart EXCEPT ![call[k].line].units = call[k].units]
     ELSE UNCHANGED cart
  /\ Ends(k)
  /\ UNCHANGED shop

Remove(l) ==
  /\ l \in Rows
  /\ cart' = [cart EXCEPT ![l] = None]
  /\ UNCHANGED << shop, call >>

Clear ==
  /\ cart' = [l \in Lines |-> None]
  /\ UNCHANGED << shop, call >>
-----------------------------------------------------------------------------
(* The merchant *)

(* createProduct *)
Create(p, n, units) ==
  /\ p \notin DOMAIN cat
  /\ \A k \in Calls : call[k].of # p
  /\ cat' = [ q \in DOMAIN cat \cup {p} |-> IF q # p THEN cat[q] ELSE
                [ stock |-> n, variants |-> units, category |-> Category[p] ] ]
  /\ UNCHANGED << ordered, hidden, cart, call, lowered >>

(* Faulty: what is in a cart is deleted *)
DeleteAlways(p) ==
  /\ p \in DOMAIN cat \ ordered
  /\ cat' = Restrict(cat, DOMAIN cat \ {p})
  /\ UNCHANGED << ordered, hidden, cart, call, lowered >>

(* A product with order history stays, by deleteProduct or by the foreign key;
   one that is in a cart stays by the foreign key alone *)
Delete(p) ==
  /\ p \in DOMAIN cat \ ordered /\ \A l \in Rows : cart[l].of # p
  /\ cat' = Restrict(cat, DOMAIN cat \ {p})
  /\ UNCHANGED << ordered, hidden, cart, call, lowered >>

(* updateProductStock, and the edits of a product and the imports that set its
   stock: an absolute number *)
EditStock(p, n) ==
  /\ p \in DOMAIN cat
  /\ cat' = [cat EXCEPT ![p].stock = n]
  /\ lowered' = (lowered \/ n < cat[p].stock)
  /\ UNCHANGED << ordered, hidden, cart, call >>

(* updateVariantStock *)
EditVariant(p, v, n) ==
  /\ p \in DOMAIN cat /\ v \in DOMAIN cat[p].variants
  /\ cat' = [cat EXCEPT ![p].variants[v] = n]
  /\ lowered' = (lowered \/ n < cat[p].variants[v])
  /\ UNCHANGED << ordered, hidden, cart, call >>

(* The store settings hide a category or show it again *)
Offer(c) ==
  /\ hidden' = IF c \in hidden THEN hidden \ {c} ELSE hidden \cup {c}
  /\ UNCHANGED << cat, ordered, cart, call, lowered >>
-----------------------------------------------------------------------------
(* What createOrder asks of one item, and what it takes *)
Accepts(c, p, sel, n) ==
  /\ p \in DOMAIN c /\ c[p].category \notin hidden
  /\ Stocked(c[p], sel, n)

Order(p, sel, n) ==
  /\ Accepts(cat, p, sel, n)
  /\ LET left == [ v \in DOMAIN cat[p].variants |->
                     cat[p].variants[v] - (IF v \in sel THEN n ELSE 0) ]
     IN  cat' = [cat EXCEPT ![p].stock = IF sel = {} THEN @ - n ELSE @,
                            ![p].variants = left]
  /\ ordered' = ordered \cup {p}
  /\ lowered' = TRUE
  /\ UNCHANGED << hidden, cart, call >>
-----------------------------------------------------------------------------
Selections(p) == SUBSET VariantsOf[p]

Next ==
  \/ \E k \in Calls : Lock(k) \/ Find(k) \/ Write(k) \/ Set(k)
  \/ \E k \in Calls, p \in Products, custom \in BOOLEAN, n \in 1 .. MaxAsk :
       \E text \in Texts : Add(k, p, text, custom, n)
  \/ \E k \in Calls, l \in Lines, n \in 1 .. MaxAsk : Change(k, l, n)
  \/ \E l \in Lines : Remove(l)
  \/ Clear
  \/ \E p \in Products, n \in 0 .. MaxUnits :
       \/ EditStock(p, n)
       \/ \E v \in VariantsOf[p] : EditVariant(p, v, n)
       \/ \E vs \in SUBSET VariantsOf[p] : \E units \in [vs -> 0 .. MaxUnits] : Create(p, n, units)
       \/ \E sel \in Selections(p) : n >= 1 /\ Order(p, sel, n)
  \/ \E p \in Products : Delete(p)
  \/ \E c \in Categories : Offer(c)

Spec == Init /\ [][Next]_vars
-----------------------------------------------------------------------------
StockByVariant == UNION { [vs -> 0 .. MaxUnits] : vs \in SUBSET Variants }

ProductRow == [ stock : 0 .. MaxUnits, variants : StockByVariant, category : Categories ]

CartRow == [ of : DOMAIN cat, text : Texts, custom : BOOLEAN, units : 1 .. MaxUnits ]

CallState == [ pc : { "idle", "lock", "find", "write", "set" },
               of : Products \cup {None}, text : Texts \cup {None}, custom : BOOLEAN,
               units : 0 .. MaxUnits, max : 0 .. MaxUnits, line : Lines \cup {None} ]

ShopOK ==
  /\ cat \in UNION { [ps -> ProductRow] : ps \in SUBSET Products }
  /\ \A p \in DOMAIN cat :
       cat[p].category = Category[p] /\ DOMAIN cat[p].variants \subseteq VariantsOf[p]
  /\ ordered \subseteq DOMAIN cat /\ hidden \subseteq Categories /\ lowered \in BOOLEAN

(* The type of the state; and a row of the cart is for a product that exists,
   although products are deleted while additions go on. *)
TypeOK ==
  /\ ShopOK
  /\ cart \in [Lines -> CartRow \cup {None}]
  /\ call \in [Calls -> CallState]

(* "Serialize the logical cart key": however additions race each other, changes
   and removals, what is not customized has one row for each product and text
   of a selection, which is the key.  A selection that is written in another way
   has another row. *)
CartLineOnce ==
  \A l, m \in Rows :
    (l # m /\ ~cart[l].custom /\ ~cart[m].custom)
      => << cart[l].of, cart[l].text >> # << cart[m].of, cart[m].text >>

(* Additions and changes that each looked at the stock before the others wrote
   do not together ask for more than there is: a row asks for more only after
   the stock was lowered. *)
CartWithinStock ==
  ~lowered => \A l \in Rows : Stocked(cat[cart[l].of], Selection(cart[l]), cart[l].units)

(* What the merchant's reports say of one catalogue agrees: an item is warned of
   in the alerts exactly where the overview counts its product, it is on the
   lists of low and of sold-out stock, it is suggested for reordering, and a
   critical one at once. *)
ReportsAgree ==
  LET warned(c) == { a.on : a \in { b \in Alerts(cat) : b.critical = c } } IN
  /\ LowInStock(cat) = { i[1] : i \in warned(FALSE) }
  /\ SoldOut(cat) = { p \in DOMAIN cat : \A i \in Items(cat) : i[1] = p => i \in warned(TRUE) }
  /\ InStock(cat) = DOMAIN cat \ SoldOut(cat)
  /\ warned(FALSE) \subseteq LowStockList(cat) /\ warned(TRUE) \subseteq OutOfStockList(cat)
  /\ \A sold \in [Items(cat) -> Sales] :
       /\ warned(FALSE) \cup warned(TRUE) \subseteq { r.on : r \in Reorder(cat, sold) }
       /\ \A r \in Reorder(cat, sold) : r.on \in warned(TRUE) => r.priority = "HIGH"

(* Once what is suggested has arrived nothing is suggested any more, at the same
   sales: the quantity lasts the fortnight and lifts the stock over the warning. *)
ReorderSettles ==
  \A sold \in [Items(cat) -> Sales] : \A r \in Reorder(cat, sold) :
    ~Runs(StockOf(cat, r.on) + r.quantity, sold[r.on])

(* What a store sells beside the products of the model *)
Beside(c, d) ==
  [ p \in DOMAIN c \cup DOMAIN d |-> IF p \in DOMAIN c THEN c[p] ELSE d[p] ]

(* What is shown of a catalogue can be ordered *)
ShownCanBeOrdered(c) ==
  LET named(p) == { sel \in SUBSET DOMAIN c[p].variants : (sel # {}) = HasVariants(c[p]) }
      accepted(p) == \E sel \in named(p) : Accepts(c, p, sel, 1)
      stocked(p) == \E sel \in named(p) : Stocked(c[p], sel, 1)
  IN
  /\ Listed(c, hidden) =
       { p \in DOMAIN c : \E sel \in SUBSET DOMAIN c[p].variants : Accepts(c, p, sel, 1) }
  /\ \A p \in Promoted(c, hidden, DOMAIN c) : accepted(p)
  /\ \A units \in [DOMAIN c -> {0, 1}], limit \in 1 .. 2 :
       \A best \in Trending(c, hidden, units, limit) : \A p \in best : accepted(p)
  /\ \A p \in DOMAIN c : \A q \in Similar(c, p) : stocked(q)
  /\ \A bought \in SUBSET DOMAIN c : \A p \in Recommended(c, {}, bought, {}) : stocked(p)

AllShownCanBeOrdered == \A other \in Others : ShownCanBeOrdered(Beside(cat, other))

(* What shoppers are shown they can order: what the catalogue lists as in stock
   with one selection or none; what is promoted or trending, where it has
   variants, with a variant.  Similar and personal recommendations are in stock
   so as well, although their category may be hidden.  It is so whatever else
   the store sells.  The lists do not read what requests on the cart do, and are
   looked at whenever there is none. *)
ShownIsOrderable == (\A k \in Calls : At(k, "idle")) => AllShownCanBeOrdered
=============================================================================

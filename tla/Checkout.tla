------------------------------ MODULE Checkout ------------------------------
(***************************************************************************)
(* The checkout transaction, statement by statement, against retries of    *)
(* the same checkout, other checkouts and cancellations.                   *)
(*                                                                         *)
(* Postgres runs these transactions at READ COMMITTED: a read sees what is *)
(* committed, a write locks its row (or its key of a unique index) until   *)
(* the transaction ends, and one that waited for a lock looks at the row   *)
(* again.  So order, stock and used are the committed values, `holder'     *)
(* says which open transaction has written a row or key, and a transaction *)
(* takes effect when it commits.  OrderBook has the same shop with every   *)
(* transaction in one step.                                                *)
(***************************************************************************)
EXTENDS Integers, Sequences, SequencesExt, FiniteSets, FiniteSetsExt

CONSTANTS
  Attempts,   \* checkout requests; one that succeeds creates an order
  Cancels,    \* cancellations in progress at one time
  Products,   \* stock rows of products
  Variants,   \* stock rows of product variants
  Keys,       \* idempotency keys: digests of the shopper and the whole checkout
  Cart,       \* Cart[a]: lines [rows, units] of the request
  Key,        \* Key[a]: the key the request came with, or None
  Discounted, \* requests with the coupon's code
  Supply,     \* units of each row before any order
  UsageLimit, \* usageLimit of the coupon
  Coupon,     \* the row of the coupon
  None

Rows == Products \cup Variants

(* The rows a cart names, line by line; a line of a product with variants
   names the selected ones instead of the product. *)
Mentioned ==
  [a \in Attempts |-> FoldLeft(LAMBDA rows, line : rows \o line.rows, << >>, Cart[a])]

(* The keys of a Map that is filled in the order of s: the rows of T, each
   where it comes first *)
Distinct(s, T) ==
  FoldLeft(LAMBDA keys, r : IF r \in T /\ ~Contains(keys, r) THEN Append(keys, r) ELSE keys,
           << >>, s)

(* requestedQuantities, then requestedVariantQuantities, in insertion order *)
TakeOrder ==
  [a \in Attempts |-> Distinct(Mentioned[a], Products) \o Distinct(Mentioned[a], Variants)]

(* ... and the quantity they hold for each row *)
Requested ==
  [a \in Attempts |-> [r \in Rows |->
     SumFunction([i \in DOMAIN Cart[a] |->
       IF Contains(Cart[a][i].rows, r) THEN Cart[a][i].units ELSE 0])]]

Actors == Attempts \cup Cancels

(* What a transaction can lock: stock rows, the coupon, index keys and the
   rows of committed orders. *)
Resources == Rows \cup {Coupon} \cup Keys \cup Attempts

ASSUME CheckoutAssumption ==
  /\ Attempts \cap Cancels = {} /\ Products \cap Variants = {}
  /\ IsFiniteSet(Attempts)
  /\ None \notin Actors \cup Resources
  /\ Key \in [Attempts -> Keys \cup {None}]
  /\ Discounted \subseteq Attempts
  /\ Supply \in [Rows -> Nat] /\ UsageLimit \in Nat

(* The same digest is the same checkout. *)
ASSUME SameKeySameCheckout ==
  \A a, b \in Attempts :
    Key[a] = Key[b] /\ Key[a] # None =>
      Cart[a] = Cart[b] /\ (a \in Discounted <=> b \in Discounted)

(* A cart has lines, and each of them names rows. *)
ASSUME CartAssumption ==
  Cart \in [Attempts -> Seq([ rows : Seq(Rows) \ {<< >>}, units : Nat ]) \ {<< >>}]
-----------------------------------------------------------------------------
VARIABLES
  order,   \* status of the order of each attempt, "NONE" before it commits
  stock,   \* units of each row on the shelf
  used,    \* usedCount of the coupon
  answer,  \* the order each attempt was answered with, None for an error
  pc,      \* the statement each actor runs next
  at,      \* the cart line, row or piece it is at
  seen,    \* the usedCount a checkout has read
  aim,     \* the order a cancellation has read, and the status it had
  holder   \* the open transaction that has written each row or key

vars == << order, stock, used, answer, pc, at, seen, aim, holder >>

Book == INSTANCE OrderBook WITH Orders <- Attempts, Qty <- Requested

Init ==
  /\ order = [a \in Attempts |-> "NONE"]
  /\ stock = Supply
  /\ used = 0
  /\ answer = [a \in Attempts |-> None]
  /\ pc = [x \in Actors |-> "idle"]
  /\ at = [x \in Actors |-> 1]
  /\ seen = [a \in Attempts |-> 0]
  /\ aim = [c \in Cancels |-> [on |-> None, status |-> "NONE"]]
  /\ holder = [r \in Resources |-> None]
-----------------------------------------------------------------------------
(* Transactions and locks *)

(* What the next statement of x writes *)
Target(x) ==
  CASE pc[x] = "insert" -> Key[x]
    [] pc[x] = "redeem" -> Coupon
    [] pc[x] = "take"   -> TakeOrder[x][at[x]]
    [] pc[x] = "claim"  -> aim[x].on
    [] pc[x] = "give"   -> Mentioned[aim[x].on][at[x]]
    [] OTHER            -> None

Blocker(x) == IF Target(x) = None THEN None ELSE holder[Target(x)]

(* The next statement need not wait for another transaction. *)
Ready(x, statement) == pc[x] = statement /\ Blocker(x) \in {None, x}

Locks(x) ==
  holder' = [r \in Resources |-> IF r = Target(x) THEN x ELSE holder[r]]

Releases(x) ==
  holder' = [r \in Resources |-> IF holder[r] = x THEN None ELSE holder[r]]

Goes(x, statement, i) ==
  /\ pc' = [pc EXCEPT ![x] = statement]
  /\ at' = [at EXCEPT ![x] = i]

(* An attempt is answered; a cancellation's slot serves another one. *)
Ends(x) ==
  /\ Goes(x, IF x \in Attempts THEN "done" ELSE "idle", 1)
  /\ aim' = [c \in Cancels |-> IF c = x THEN [on |-> None, status |-> "NONE"]
                               ELSE aim[c]]

Running(x) == pc[x] \notin {"idle", "done"}

(* The transaction ends without effect: an error, or nothing to do. *)
RollsBack(x) ==
  /\ Ends(x)
  /\ Releases(x)
  /\ UNCHANGED << order, stock, used, answer, seen >>
-----------------------------------------------------------------------------
(* createOrder *)

Placed == { a \in Attempts : order[a] # "NONE" }

SameKey(a) == { b \in Placed : Key[a] # None /\ Key[b] = Key[a] }

(* A checkout that was already placed is answered with its order. *)
Begin(a) ==
  /\ pc[a] = "idle"
  /\ IF SameKey(a) # {}
     THEN /\ \E b \in SameKey(a) : answer' = [answer EXCEPT ![a] = b]
          /\ Goes(a, "done", 1)
     ELSE Goes(a, "lines", 1) /\ UNCHANGED answer
  /\ UNCHANGED << order, stock, used, seen, aim, holder >>

LineFits(a, line) ==
  \A r \in Rows : Contains(line.rows, r) => stock[r] >= line.units

(* The stock of a line is read and compared with that line alone. *)
ReadLine(a) ==
  /\ pc[a] = "lines"
  /\ IF LineFits(a, Cart[a][at[a]])
     THEN /\ IF at[a] < Len(Cart[a]) THEN Goes(a, "lines", at[a] + 1)
             ELSE Goes(a, IF a \in Discounted THEN "coupon" ELSE "insert", 1)
          /\ UNCHANGED << order, stock, used, answer, seen, aim, holder >>
     ELSE RollsBack(a)

ReadCoupon(a) ==
  /\ pc[a] = "coupon"
  /\ IF used < UsageLimit
     THEN /\ seen' = [seen EXCEPT ![a] = used]
          /\ Goes(a, "insert", 1)
          /\ UNCHANGED << order, stock, used, answer, aim, holder >>
     ELSE RollsBack(a)

(* Faulty: the database has no unique key on the order's idempotency key. *)
InsertAnyway(a) ==
  /\ pc[a] = "insert"
  /\ Goes(a, IF a \in Discounted THEN "redeem" ELSE "take", 1)
  /\ UNCHANGED << order, stock, used, answer, seen, aim, holder >>

(* The insertion waits for another one with the same key, and is refused when
   that one commits. *)
Insert(a) ==
  /\ Ready(a, "insert")
  /\ IF SameKey(a) = {}
     THEN /\ Locks(a)
          /\ Goes(a, IF a \in Discounted THEN "redeem" ELSE "take", 1)
          /\ UNCHANGED << order, stock, used, answer, seen, aim >>
     ELSE RollsBack(a)

(* Faulty: the count that was read is not a condition of the update. *)
RedeemUnread(a) ==
  /\ Ready(a, "redeem")
  /\ Locks(a)
  /\ Goes(a, "take", 1)
  /\ UNCHANGED << order, stock, used, answer, seen, aim >>

(* The redemption is counted unless the count has moved since it was read. *)
Redeem(a) ==
  /\ Ready(a, "redeem")
  /\ IF used = seen[a]
     THEN /\ Locks(a)
          /\ Goes(a, "take", 1)
          /\ UNCHANGED << order, stock, used, answer, seen, aim >>
     ELSE RollsBack(a)

(* The row that a takes has been written, and a goes on with the next one. *)
Takes(a) ==
  /\ Locks(a)
  /\ IF at[a] < Len(TakeOrder[a]) THEN Goes(a, "take", at[a] + 1)
     ELSE Goes(a, "commit", 1)
  /\ UNCHANGED << order, stock, used, answer, seen, aim >>

(* Faulty: the decrement relies on the stock that the lines were read with. *)
TakeUnread(a) == Ready(a, "take") /\ Takes(a)

(* Faulty: a transaction waits inside for stock to come back. *)
TakeOrWait(a) ==
  /\ Ready(a, "take")
  /\ stock[Target(a)] >= Requested[a][Target(a)]
  /\ Takes(a)

(* The decrement of a row is conditional on all units the cart wants of it. *)
Take(a) ==
  /\ Ready(a, "take")
  /\ IF stock[Target(a)] >= Requested[a][Target(a)] THEN Takes(a) ELSE RollsBack(a)

Commit(a) ==
  /\ pc[a] = "commit"
  /\ order' = [order EXCEPT ![a] = "PENDING"]
  /\ stock' = [r \in Rows |-> stock[r] - Requested[a][r]]
  /\ used' = IF a \in Discounted THEN used + 1 ELSE used
  /\ answer' = [answer EXCEPT ![a] = a]
  /\ Ends(a)
  /\ Releases(a)
  /\ UNCHANGED seen
-----------------------------------------------------------------------------
(* Cancellations: cancelOrderAndRestoreInventory and, for orders that are
   still pending, cancelPendingOrder *)

CancelRead(c, a) ==
  /\ pc[c] = "idle"
  /\ order[a] \in Book!Cancellable
  /\ aim' = [aim EXCEPT ![c] = [on |-> a, status |-> order[a]]]
  /\ Goes(c, "claim", 1)
  /\ UNCHANGED << order, stock, used, answer, seen, holder >>

(* The claim fails when the order has moved since it was read. *)
Claim(c) ==
  /\ Ready(c, "claim")
  /\ IF order[aim[c].on] = aim[c].status
     THEN /\ Locks(c)
          /\ Goes(c, "give", 1)
          /\ UNCHANGED << order, stock, used, answer, seen, aim >>
     ELSE RollsBack(c)

(* The units go back line by line, in the order of the cart. *)
Give(c) ==
  /\ Ready(c, "give")
  /\ Locks(c)
  /\ IF at[c] < Len(Mentioned[aim[c].on]) THEN Goes(c, "give", at[c] + 1)
     ELSE Goes(c, "finish", 1)
  /\ UNCHANGED << order, stock, used, answer, seen, aim >>

(* Faulty: every line gives back what the checkout took for its row, all lines
   of that row together. *)
FinishByLine(c) ==
  /\ pc[c] = "finish"
  /\ LET a == aim[c].on
         Lines(r) == { i \in DOMAIN Cart[a] : Contains(Cart[a][i].rows, r) }
     IN  /\ order' = [order EXCEPT ![a] = "CANCELLED"]
         /\ stock' = [r \in Rows |-> stock[r] + Requested[a][r] * Cardinality(Lines(r))]
  /\ Ends(c)
  /\ Releases(c)
  /\ UNCHANGED << used, answer, seen >>

Finish(c) ==
  /\ pc[c] = "finish"
  /\ order' = [order EXCEPT ![aim[c].on] = "CANCELLED"]
  /\ stock' = [r \in Rows |-> stock[r] + Requested[aim[c].on][r]]
  /\ Ends(c)
  /\ Releases(c)
  /\ UNCHANGED << used, answer, seen >>
-----------------------------------------------------------------------------
(* A settlement confirms a pending order; Settlement says when. *)
Confirm(a) ==
  /\ order[a] = "PENDING"
  /\ holder[a] = None
  /\ order' = [order EXCEPT ![a] = "CONFIRMED"]
  /\ UNCHANGED << stock, used, answer, pc, at, seen, aim, holder >>

(* The transaction times out, its process dies or the connection breaks. *)
Fail(x) == Running(x) /\ RollsBack(x)

(* Postgres finds a cycle of waiting transactions and aborts one of them. *)
Deadlocked(S) ==
  /\ \A x \in S : Running(x) /\ Blocker(x) \in S \ {x}
  /\ \A x \in S : \E y \in S : Blocker(y) = x

Victim(x) ==
  /\ \E S \in SUBSET Actors : x \in S /\ Deadlocked(S)
  /\ RollsBack(x)

Step(x) ==
  \/ /\ x \in Attempts
     /\ ReadLine(x) \/ ReadCoupon(x) \/ Insert(x) \/ Redeem(x) \/ Take(x) \/ Commit(x)
  \/ /\ x \in Cancels
     /\ Claim(x) \/ Give(x) \/ Finish(x)

Next ==
  \/ \E a \in Attempts : Begin(a) \/ Confirm(a)
  \/ \E c \in Cancels, a \in Attempts : CancelRead(c, a)
  \/ \E x \in Actors : Step(x) \/ Fail(x) \/ Victim(x)

Spec == Init /\ [][Next]_vars

(* The server runs the statements of a transaction; a row lock is granted to
   those that wait for it in turn, so a wait for a lock that is released again
   and again ends; the database looks for deadlocks. *)
Fairness ==
  /\ \A x \in Actors : SF_vars(Step(x))
  /\ WF_vars(\E x \in Actors : Victim(x))

FairSpec == Spec /\ Fairness
-----------------------------------------------------------------------------
(* Every variable holds a value of its kind; stock is never negative. *)
TypeOK ==
  /\ order \in [Attempts -> Book!OrderStatus \cup {"NONE"}]
  /\ stock \in [Rows -> Nat]
  /\ used \in Nat
  /\ answer \in [Attempts -> Attempts \cup {None}]
  /\ pc \in [Actors -> {"idle", "done", "lines", "coupon", "insert", "redeem",
                        "take", "commit", "claim", "give", "finish"}]
  /\ at \in [Actors -> Nat \ {0}]
  /\ seen \in [Attempts -> Nat]
  /\ aim \in [Cancels -> [on : Attempts \cup {None},
                          status : Book!OrderStatus \cup {"NONE"}]]
  /\ holder \in [Resources -> Actors \cup {None}]

(* The transactions implement the order book: each takes effect in one step
   that finds all its units on the shelf, although it read and locked its rows
   one by one ("Decrement stock atomically so concurrent checkouts cannot
   oversell", order.service.ts). *)
ImplementsBook == Book!BookSpec

(* The coupon counts exactly the orders that were placed with it, and never
   more than its usage limit, whatever checkouts read the same count. *)
CouponExact ==
  /\ used = Cardinality(Placed \cap Discounted)
  /\ used <= UsageLimit

(* A checkout is placed once however often it is sent, and every answer to it
   that is not an error names that order. *)
OneOrderPerKey ==
  /\ \A a, b \in Placed : Key[a] # None /\ Key[a] = Key[b] => a = b
  /\ \A a \in Attempts : answer[a] # None =>
       answer[a] \in Placed /\ (answer[a] = a \/ answer[a] \in SameKey(a))

(* No transaction waits for ever: a checkout is answered and a cancellation
   ends, although they lock rows in orders of their own. *)
TransactionsEnd == \A x \in Actors : Running(x) ~> ~ Running(x)
=============================================================================

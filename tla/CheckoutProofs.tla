--------------------------- MODULE CheckoutProofs ---------------------------
(***************************************************************************)
(* Proofs about Checkout, for any carts, keys and numbers of requests: its *)
(* types, that it implements the order book, that a keyed checkout is      *)
(* placed once and that the coupon counts the orders placed with it.  What *)
(* a cart asks for is computed by folds: the first section proves what the *)
(* steps rely on, that it takes every row one of its lines wants.          *)
(***************************************************************************)
EXTENDS Checkout, FoldFacts, FiniteSetTheorems, SequenceTheorems, TLAPS

-----------------------------------------------------------------------------
(* Carts *)

(* The last position of a part of a sequence is one of it. *)
LEMMA MaxIn ==
  ASSUME NEW n \in Nat, NEW T \in SUBSET (1 .. n), T # {}
  PROVE  Max(T) \in T
<1> DEFINE id == [ i \in T |-> i ]
<1>1. IsFiniteSet(T) /\ Summable(id, T)
  <2>1. IsFiniteSet(1 .. n)
    BY FS_Interval
  <2>2. IsFiniteSet(T)
    BY <2>1, FS_Subset
  <2>3. \A i \in T : id[i] \in Nat
    OBVIOUS
  <2> QED BY <2>2, <2>3 DEF Summable
<1>2. Cardinality(T) \in Nat /\ Cardinality(T) # 0
  BY <1>1, FS_CardinalityType, FS_EmptySet
<1>3. PICK best \in SUBSET T :
        Cardinality(best) = 1 /\ \A x \in best, y \in T \ best : id[x] >= id[y]
  <2> HIDE DEF id
  <2> QED BY <1>1, <1>2, BestExist
<1>4. PICK x : best = {x}
  <2>1. IsFiniteSet(best)
    BY <1>1, FS_Subset
  <2> QED BY <1>3, <2>1, FS_Singleton
<1>5. x \in T /\ \A y \in T : x >= y
  BY <1>3, <1>4
<1> QED BY <1>5 DEF Max

(* it folds a sequence from the left: what it makes of some positions is what it
   makes of all but the last of them, and the element there. *)
Through(it, s, V, step) ==
  /\ it \in [SUBSET DOMAIN s -> V] /\ it[{}] = << >>
  /\ \A T \in SUBSET DOMAIN s : T # {} =>
       /\ Max(T) \in T
       /\ it[T] = step[<< Max(T), it[T \ {Max(T)}] >>]

(* Any sequence is folded, once a step is known for each of its positions. *)
LEMMA ThroughExists ==
  ASSUME NEW R, NEW s \in Seq(R), NEW V, << >> \in V, NEW step \in [(DOMAIN s) \X V -> V]
  PROVE  \E it : Through(it, s, V, step)
<1> DEFINE S == DOMAIN s
           pick == [ T \in SUBSET S |-> Max(T) ]
<1>1. Len(s) \in Nat /\ S = 1 .. Len(s)
  BY LenProperties
<1>2. IsFiniteSet(S)
  <2>1. IsFiniteSet(1 .. Len(s))
    BY <1>1, FS_Interval
  <2> QED BY <1>1, <2>1
<1>3. \A T \in SUBSET S : T # {} => Max(T) \in T
  BY <1>1, MaxIn
<1>4. \A T \in SUBSET S : T # {} => pick[T] \in T
  BY <1>3
<1>5. PICK it \in [SUBSET S -> V] : Folds(it, S, << >>, step, pick)
  <2>1. step \in [S \X V -> V]
    OBVIOUS
  <2> HIDE DEF S, pick
  <2> QED BY <1>2, <1>4, <2>1, FoldExists
<1>6. \A T \in SUBSET S : pick[T] = Max(T)
  OBVIOUS
<1> HIDE DEF pick
<1>7. it[{}] = << >>
  <2>1. {} \in SUBSET S
    OBVIOUS
  <2> QED BY <1>5, <2>1 DEF Folds
<1>8. ASSUME NEW T \in SUBSET S, T # {}
      PROVE  it[T] = step[<< Max(T), it[T \ {Max(T)}] >>]
  BY <1>5, <1>6, <1>8 DEF Folds
<1> QED BY <1>3, <1>5, <1>7, <1>8 DEF Through

(* What is in one of two sequences is in both together. *)
LEMMA ConcatContains ==
  ASSUME NEW R, NEW p \in Seq(R), NEW q \in Seq(R), NEW r,
         Contains(p, r) \/ Contains(q, r)
  PROVE  Contains(p \o q, r)
<1>1. /\ Len(p) \in Nat /\ Len(q) \in Nat /\ Len(p \o q) = Len(p) + Len(q)
      /\ \A i \in 1 .. Len(p) + Len(q) :
           (p \o q)[i] = IF i <= Len(p) THEN p[i] ELSE q[i - Len(p)]
  BY LenProperties, ConcatProperties
<1>2. CASE Contains(p, r)
  <2>1. PICK i \in 1 .. Len(p) : p[i] = r
    BY <1>2 DEF Contains
  <2>2. i \in 1 .. Len(p) + Len(q) /\ (p \o q)[i] = r
    BY <1>1, <2>1
  <2> QED BY <1>1, <2>2 DEF Contains
<1>3. CASE Contains(q, r)
  <2>1. PICK i \in 1 .. Len(q) : q[i] = r
    BY <1>3 DEF Contains
  <2>2. /\ Len(p) + i \in 1 .. Len(p) + Len(q)
        /\ ~(Len(p) + i <= Len(p)) /\ Len(p) + i - Len(p) = i
    BY <1>1
  <2>3. (p \o q)[Len(p) + i] = r
    BY <1>1, <2>1, <2>2
  <2> QED BY <1>1, <2>2, <2>3 DEF Contains
<1> QED BY <1>2, <1>3

(* What is appended is there, beside what was. *)
LEMMA AppendContains ==
  ASSUME NEW R, NEW p \in Seq(R), NEW e \in R, NEW r, r = e \/ Contains(p, r)
  PROVE  Contains(Append(p, e), r)
<1>1. /\ Len(p) \in Nat /\ Len(Append(p, e)) = Len(p) + 1
      /\ Append(p, e)[Len(p) + 1] = e
      /\ \A i \in 1 .. Len(p) : Append(p, e)[i] = p[i]
  OBVIOUS
<1>2. CASE r = e
  <2>1. Len(p) + 1 \in 1 .. Len(Append(p, e))
    BY <1>1
  <2> QED BY <1>1, <1>2, <2>1 DEF Contains
<1>3. CASE Contains(p, r)
  <2>1. PICK i \in 1 .. Len(p) : p[i] = r
    BY <1>3 DEF Contains
  <2>2. i \in 1 .. Len(Append(p, e)) /\ Append(p, e)[i] = r
    BY <1>1, <2>1
  <2> QED BY <2>2 DEF Contains
<1> QED BY <1>2, <1>3

(* The recursions of the two folds: the rows of the lines, and the keys met *)
AllRows(it, s) ==
  it = [ T \in SUBSET DOMAIN s |->
           IF T = {} THEN << >> ELSE it[T \ {Max(T)}] \o s[Max(T)].rows ]

AllKeys(it, s, W) ==
  it = [ T \in SUBSET DOMAIN s |->
           IF T = {} THEN << >>
           ELSE IF s[Max(T)] \in W /\ ~Contains(it[T \ {Max(T)}], s[Max(T)])
                THEN Append(it[T \ {Max(T)}], s[Max(T)]) ELSE it[T \ {Max(T)}] ]

(* The rows of all lines are what their recursion chooses. *)
LEMMA FoldRows ==
  ASSUME NEW s
  PROVE  FoldLeft(LAMBDA rows, line : rows \o line.rows, << >>, s)
           = (CHOOSE it : AllRows(it, s))[DOMAIN s]
BY DEF FoldLeft, MapThenFoldSet, AllRows

(* So are the keys of a Map. *)
LEMMA FoldKeys ==
  ASSUME NEW s, NEW W
  PROVE  Distinct(s, W) = (CHOOSE it : AllKeys(it, s, W))[DOMAIN s]
BY DEF Distinct, FoldLeft, MapThenFoldSet, AllKeys

(* The lines a cart may have *)
Line == [ rows : Seq(Rows) \ {<< >>}, units : Nat ]

(* The rows a cart mentions are rows, and those of each of its lines. *)
LEMMA MentionedIs ==
  ASSUME NEW a \in Attempts
  PROVE  /\ Mentioned[a] \in Seq(Rows) \ {<< >>}
         /\ \A i \in DOMAIN Cart[a] : \A r \in Rows :
              Contains(Cart[a][i].rows, r) => Contains(Mentioned[a], r)
<1> DEFINE s == Cart[a]
           V == Seq(Rows)
           step == [ p \in (DOMAIN s) \X V |-> p[2] \o s[p[1]].rows ]
<1>1. s \in Seq(Line) \ {<< >>}
  BY CartAssumption DEF Line
<1>2. \A i \in DOMAIN s : s[i].rows \in V \ {<< >>}
  <2> HIDE DEF s
  <2>1. \A i \in DOMAIN s : s[i] \in Line
    BY <1>1, LenProperties, ElementOfSeq
  <2> QED BY <2>1 DEF Line
<1>3. step \in [(DOMAIN s) \X V -> V] /\ << >> \in V
  BY <1>2
<1>4. PICK it : Through(it, s, V, step)
  <2> HIDE DEF step, s, V
  <2> QED BY <1>1, <1>3, ThroughExists
<1>5. AllRows(it, s)
  <2>1. ASSUME NEW T \in SUBSET DOMAIN s
        PROVE  it[T] = IF T = {} THEN << >> ELSE it[T \ {Max(T)}] \o s[Max(T)].rows
    <3>1. CASE T = {}
      BY <1>4, <3>1 DEF Through
    <3>2. CASE T # {}
      <4>1. it[T] = step[<< Max(T), it[T \ {Max(T)}] >>] /\ Max(T) \in DOMAIN s
        BY <1>4, <3>2 DEF Through
      <4>2. it[T \ {Max(T)}] \in V
        BY <1>4 DEF Through
      <4> QED BY <3>2, <4>1, <4>2
    <3> QED BY <3>1, <3>2
  <2>2. it = [ T \in SUBSET DOMAIN s |-> it[T] ]
    BY <1>4 DEF Through
  <2> QED BY <2>1, <2>2 DEF AllRows
<1> HIDE DEF step
<1> DEFINE all == CHOOSE f : AllRows(f, s)
<1>6. AllRows(all, s)
  BY <1>5
<1>7. Mentioned[a] = all[DOMAIN s]
  <2>1. Mentioned[a] = FoldLeft(LAMBDA rows, line : rows \o line.rows, << >>, s)
    BY DEF Mentioned
  <2> QED BY <2>1, FoldRows
<1> HIDE DEF all, s
<1> DEFINE F == { T \in SUBSET DOMAIN s :
                    /\ all[T] \in V
                    /\ T # {} => all[T] # << >>
                    /\ \A i \in T : \A r \in Rows :
                         Contains(s[i].rows, r) => Contains(all[T], r) }
<1>8. ASSUME NEW T \in SUBSET DOMAIN s, \A U \in SUBSET T : U # T => U \in F
      PROVE  T \in F
  <2>1. CASE T = {}
    BY <1>6, <2>1, <1>3 DEF AllRows
  <2>2. CASE T # {}
    <3> PICK m : m = Max(T)
      OBVIOUS
    <3>1. m \in T
      BY <1>4, <2>2 DEF Through
    <3> PICK U : U = T \ {m}
      OBVIOUS
    <3>2. U \in F
      BY <1>8, <3>1
    <3>3. all[T] = all[U] \o s[m].rows
      BY <1>6, <2>2 DEF AllRows
    <3>4. s[m].rows \in V /\ s[m].rows # << >> /\ all[U] \in V
      BY <1>2, <3>1, <3>2
    <3>5. all[T] \in V /\ all[T] # << >>
      BY <3>3, <3>4
    <3>6. ASSUME NEW r \in Rows, Contains(all[U], r) \/ Contains(s[m].rows, r)
          PROVE  Contains(all[T], r)
      <4> HIDE DEF V
      <4>1. all[U] \in Seq(Rows) /\ s[m].rows \in Seq(Rows)
        BY <3>4 DEF V
      <4> QED BY <3>3, <3>6, <4>1, ConcatContains
    <3>7. ASSUME NEW i \in T, NEW r \in Rows, Contains(s[i].rows, r)
          PROVE  Contains(all[T], r)
      <4>1. CASE i = m
        BY <3>6, <3>7, <4>1
      <4>2. CASE i # m
        BY <3>2, <3>6, <3>7, <4>2
      <4> QED BY <4>1, <4>2
    <3> QED BY <3>5, <3>7
  <2> QED BY <2>1, <2>2
<1>9. DOMAIN s \in F
  <2>1. IsFiniteSet(DOMAIN s)
    <3>1. Len(s) \in Nat /\ DOMAIN s = 1 .. Len(s)
      BY <1>1, LenProperties
    <3> QED BY <3>1, FS_Interval
  <2>2. SUBSET DOMAIN s \subseteq F
    <3> HIDE DEF F
    <3> QED BY <1>8, <2>1, SubsetInduction
  <2> QED BY <2>2
<1>10. DOMAIN s # {}
  <2>1. Len(s) \in Nat \ {0} /\ DOMAIN s = 1 .. Len(s)
    BY <1>1, LenProperties, EmptySeq
  <2> QED BY <2>1
<1> QED BY <1>7, <1>9, <1>10 DEF s

(* The keys of a Map are of the rows asked for, and of all of them that are met. *)
LEMMA DistinctIs ==
  ASSUME NEW R, NEW s \in Seq(R), NEW W
  PROVE  /\ Distinct(s, W) \in Seq(W)
         /\ \A i \in DOMAIN s : s[i] \in W => Contains(Distinct(s, W), s[i])
<1> DEFINE V == Seq(W)
           add(p) == IF s[p[1]] \in W /\ ~Contains(p[2], s[p[1]])
                     THEN Append(p[2], s[p[1]]) ELSE p[2]
           step == [ p \in (DOMAIN s) \X V |-> add(p) ]
<1>1. step \in [(DOMAIN s) \X V -> V] /\ << >> \in V
  <2>1. ASSUME NEW p \in (DOMAIN s) \X V  PROVE  add(p) \in V
    <3>1. p[2] \in V
      OBVIOUS
    <3>2. s[p[1]] \in W => Append(p[2], s[p[1]]) \in V
      BY <3>1
    <3> HIDE DEF V
    <3> QED BY <3>1, <3>2
  <2>2. << >> \in V
    OBVIOUS
  <2> HIDE DEF V, add
  <2> QED BY <2>1, <2>2
<1>2. PICK it : Through(it, s, V, step)
  <2> HIDE DEF step, V
  <2> QED BY <1>1, ThroughExists
<1>3. AllKeys(it, s, W)
  <2>1. ASSUME NEW T \in SUBSET DOMAIN s
        PROVE  it[T] = IF T = {} THEN << >>
                       ELSE IF s[Max(T)] \in W /\ ~Contains(it[T \ {Max(T)}], s[Max(T)])
                            THEN Append(it[T \ {Max(T)}], s[Max(T)]) ELSE it[T \ {Max(T)}]
    <3>1. CASE T = {}
      BY <1>2, <3>1 DEF Through
    <3>2. CASE T # {}
      <4>1. it[T] = step[<< Max(T), it[T \ {Max(T)}] >>] /\ Max(T) \in DOMAIN s
        BY <1>2, <3>2 DEF Through
      <4>2. it[T \ {Max(T)}] \in V
        BY <1>2 DEF Through
      <4>3. << Max(T), it[T \ {Max(T)}] >> \in (DOMAIN s) \X V
        BY <4>1, <4>2
      <4>4. it[T] = add(<< Max(T), it[T \ {Max(T)}] >>)
        <5> HIDE DEF add, V
        <5> QED BY <4>1, <4>3
      <4> QED BY <3>2, <4>4
    <3> QED BY <3>1, <3>2
  <2>2. it = [ T \in SUBSET DOMAIN s |-> it[T] ]
    BY <1>2 DEF Through
  <2> QED BY <2>1, <2>2 DEF AllKeys
<1> HIDE DEF step
<1> DEFINE all == CHOOSE f : AllKeys(f, s, W)
<1>4. AllKeys(all, s, W)
  BY <1>3
<1>5. Distinct(s, W) = all[DOMAIN s]
  BY FoldKeys
<1> HIDE DEF all
<1> DEFINE F == { T \in SUBSET DOMAIN s :
                    /\ all[T] \in V
                    /\ \A i \in T : s[i] \in W => Contains(all[T], s[i]) }
<1>6. ASSUME NEW T \in SUBSET DOMAIN s, \A U \in SUBSET T : U # T => U \in F
      PROVE  T \in F
  <2>1. CASE T = {}
    BY <1>1, <1>4, <2>1 DEF AllKeys
  <2>2. CASE T # {}
    <3> PICK m : m = Max(T)
      OBVIOUS
    <3>1. m \in T
      BY <1>2, <2>2 DEF Through
    <3> PICK U : U = T \ {m}
      OBVIOUS
    <3>2. U \in F
      BY <1>6, <3>1
    <3>3. all[T] = IF s[m] \in W /\ ~Contains(all[U], s[m])
                   THEN Append(all[U], s[m]) ELSE all[U]
      BY <1>4, <2>2 DEF AllKeys
    <3>4. all[U] \in Seq(W) /\ \A i \in U : s[i] \in W => Contains(all[U], s[i])
      BY <3>2
    <3>5. CASE s[m] \in W /\ ~Contains(all[U], s[m])
      <4>1. all[T] = Append(all[U], s[m]) /\ all[T] \in V
        BY <3>3, <3>4, <3>5
      <4>2. ASSUME NEW i \in T, s[i] \in W  PROVE  Contains(all[T], s[i])
        <5>1. s[i] = s[m] \/ Contains(all[U], s[i])
          BY <3>4, <4>2
        <5> QED BY <3>4, <3>5, <4>1, <5>1, AppendContains
      <4> QED BY <4>1, <4>2
    <3>6. CASE ~(s[m] \in W /\ ~Contains(all[U], s[m]))
      <4>1. all[T] = all[U]
        BY <3>3, <3>6
      <4>2. ASSUME NEW i \in T, s[i] \in W  PROVE  Contains(all[T], s[i])
        BY <3>4, <3>6, <4>1, <4>2
      <4> QED BY <3>4, <4>1, <4>2
    <3> QED BY <3>5, <3>6
  <2> QED BY <2>1, <2>2
<1>7. DOMAIN s \in F
  <2>1. IsFiniteSet(DOMAIN s)
    <3>1. Len(s) \in Nat /\ DOMAIN s = 1 .. Len(s)
      BY LenProperties
    <3> QED BY <3>1, FS_Interval
  <2>2. SUBSET DOMAIN s \subseteq F
    <3> HIDE DEF F
    <3> QED BY <1>6, <2>1, SubsetInduction
  <2> QED BY <2>2
<1> QED BY <1>5, <1>7

(* What a checkout takes: rows, at least one, and all that its cart wants. *)
THEOREM CartIsTaken ==
  /\ Requested \in [Attempts -> [Rows -> Nat]]
  /\ \A a \in Attempts :
       /\ Cart[a] # << >>
       /\ TakeOrder[a] \in Seq(Rows) /\ TakeOrder[a] # << >>
       /\ Mentioned[a] \in Seq(Rows) /\ Mentioned[a] # << >>
       /\ \A r \in Rows : Requested[a][r] > 0 =>
            \E i \in DOMAIN TakeOrder[a] : TakeOrder[a][i] = r
<1>1. ASSUME NEW a \in Attempts
      PROVE  /\ Cart[a] \in Seq(Line) \ {<< >>} /\ IsFiniteSet(DOMAIN Cart[a])
             /\ \A i \in DOMAIN Cart[a] : Cart[a][i].units \in Nat
  <2> PICK s : s = Cart[a]
    OBVIOUS
  <2>1. s \in Seq(Line) \ {<< >>}
    BY CartAssumption DEF Line
  <2>2. Len(s) \in Nat /\ DOMAIN s = 1 .. Len(s)
    BY <2>1, LenProperties
  <2>3. IsFiniteSet(DOMAIN s)
    BY <2>2, FS_Interval
  <2>4. \A i \in DOMAIN s : s[i] \in Line
    BY <2>1, <2>2, ElementOfSeq
  <2> QED BY <2>1, <2>3, <2>4 DEF Line
<1>2. ASSUME NEW a \in Attempts, NEW r \in Rows
      PROVE  /\ Requested[a][r] \in Nat
             /\ Requested[a][r] > 0 =>
                  \E i \in DOMAIN Cart[a] : Contains(Cart[a][i].rows, r)
  <2> DEFINE f == [ i \in DOMAIN Cart[a] |->
                      IF Contains(Cart[a][i].rows, r) THEN Cart[a][i].units ELSE 0 ]
  <2>1. Requested[a][r] = SumFunctionOnSet(f, DOMAIN Cart[a])
    BY DEF Requested, SumFunction
  <2>2. Summable(f, DOMAIN Cart[a])
    BY <1>1 DEF Summable
  <2>3. ASSUME \A i \in DOMAIN Cart[a] : ~Contains(Cart[a][i].rows, r)
        PROVE  SumFunctionOnSet(f, DOMAIN Cart[a]) = 0
    <3>1. \A i \in (DOMAIN Cart[a]) \ {} : f[i] = 0
      BY <2>3
    <3>2. SumFunctionOnSet(f, {}) = SumFunctionOnSet(f, DOMAIN Cart[a])
      <4> HIDE DEF f
      <4> QED BY <2>2, <3>1, SumPart
    <3> QED BY <3>2, SumEmpty
  <2> HIDE DEF f
  <2>4. SumFunctionOnSet(f, DOMAIN Cart[a]) \in Nat
    BY <2>2, SumType
  <2> QED BY <2>1, <2>3, <2>4
<1>3. ASSUME NEW a \in Attempts
      PROVE  /\ TakeOrder[a] \in Seq(Rows) /\ TakeOrder[a] # << >>
             /\ \A r \in Rows : Contains(Mentioned[a], r) => Contains(TakeOrder[a], r)
  <2> PICK m : m = Mentioned[a]
    OBVIOUS
  <2> PICK p : p = Distinct(m, Products)
    OBVIOUS
  <2> PICK v : v = Distinct(m, Variants)
    OBVIOUS
  <2>1. m \in Seq(Rows) \ {<< >>}
    BY MentionedIs
  <2>2. TakeOrder[a] = p \o v
    BY DEF TakeOrder
  <2>3. p \in Seq(Products) /\ \A i \in DOMAIN m : m[i] \in Products => Contains(p, m[i])
    BY <2>1, DistinctIs
  <2>4. v \in Seq(Variants) /\ \A i \in DOMAIN m : m[i] \in Variants => Contains(v, m[i])
    BY <2>1, DistinctIs
  <2>5. p \in Seq(Rows) /\ v \in Seq(Rows)
    BY <2>3, <2>4, SeqMonotonic DEF Rows
  <2>6. p \o v \in Seq(Rows)
    BY <2>5, ConcatProperties
  <2>7. Len(m) \in Nat \ {0} /\ DOMAIN m = 1 .. Len(m)
    BY <2>1, LenProperties, EmptySeq
  <2>8. ASSUME NEW r \in Rows, Contains(m, r)  PROVE  Contains(p \o v, r)
    <3>1. PICK i \in 1 .. Len(m) : m[i] = r
      BY <2>8 DEF Contains
    <3>2. Contains(p, r) \/ Contains(v, r)
      BY <2>3, <2>4, <2>7, <3>1 DEF Rows
    <3> QED BY <2>5, <3>2, ConcatContains
  <2>9. p \o v # << >>
    <3>1. 1 \in 1 .. Len(m) /\ m[1] \in Rows
      BY <2>1, <2>7, ElementOfSeq
    <3>2. Contains(m, m[1])
      BY <3>1 DEF Contains
    <3>3. PICK i \in 1 .. Len(p \o v) : TRUE
      BY <2>8, <3>1, <3>2 DEF Contains
    <3>4. Len(<< >>) = 0
      OBVIOUS
    <3> QED BY <3>3, <3>4
  <2> QED BY <2>2, <2>6, <2>8, <2>9
<1>4. ASSUME NEW a \in Attempts, NEW r \in Rows, Requested[a][r] > 0
      PROVE  \E i \in DOMAIN TakeOrder[a] : TakeOrder[a][i] = r
  <2>1. Contains(TakeOrder[a], r)
    BY <1>2, <1>3, <1>4, MentionedIs
  <2>2. DOMAIN TakeOrder[a] = 1 .. Len(TakeOrder[a])
    BY <1>3, LenProperties
  <2> QED BY <2>1, <2>2 DEF Contains
<1>5. Requested \in [Attempts -> [Rows -> Nat]]
  <2>1. ASSUME NEW a \in Attempts  PROVE  Requested[a] \in [Rows -> Nat]
    <3>1. Requested[a] = [ r \in Rows |-> Requested[a][r] ]
      BY DEF Requested
    <3> QED BY <1>2, <3>1
  <2>2. Requested = [ a \in Attempts |-> Requested[a] ]
    BY DEF Requested
  <2> QED BY <2>1, <2>2
<1> QED BY <1>1, <1>3, <1>4, <1>5, MentionedIs

-----------------------------------------------------------------------------
(* The checkout *)

AttemptPCs == { "idle", "done", "lines", "coupon", "insert", "redeem", "take",
                "commit" }

CancelPCs == { "idle", "claim", "give", "finish" }

(* The rows that attempt a has decremented so far *)
Taken(a, i) ==
  /\ i \in 1 .. Len(TakeOrder[a])
  /\ pc[a] = "commit" \/ (pc[a] = "take" /\ i < at[a])

(* What an open checkout has written is locked and cannot move under it. *)
AttemptSound(a) ==
  /\ pc[a] \in AttemptPCs
  /\ pc[a] # "done" => order[a] = "NONE"
  /\ pc[a] = "take" => at[a] \in 1 .. Len(TakeOrder[a])
  /\ \A i : Taken(a, i) =>
       /\ holder[TakeOrder[a][i]] = a
       /\ stock[TakeOrder[a][i]] >= Requested[a][TakeOrder[a][i]]
  /\ pc[a] \in {"redeem", "take", "commit"} /\ Key[a] # None =>
       holder[Key[a]] = a /\ SameKey(a) = {}
  /\ a \in Discounted /\ pc[a] \in {"insert", "redeem", "take", "commit"} =>
       seen[a] < UsageLimit
  /\ a \in Discounted /\ pc[a] \in {"take", "commit"} =>
       holder[Coupon] = a /\ used = seen[a]

(* A cancellation that has claimed its order holds it as it was read. *)
CancelSound(c) ==
  /\ pc[c] \in CancelPCs
  /\ pc[c] # "idle" => /\ aim[c].on \in Attempts
                       /\ aim[c].status \in Book!Cancellable
  /\ pc[c] = "give" => at[c] \in 1 .. Len(Mentioned[aim[c].on])
  /\ pc[c] \in {"give", "finish"} =>
       /\ holder[aim[c].on] = c
       /\ order[aim[c].on] = aim[c].status

AttemptsSound == \A a \in Attempts : AttemptSound(a)
CancelsSound  == \A c \in Cancels : CancelSound(c)

(* The inductive invariant *)
IInv == TypeOK /\ AttemptsSound /\ CancelsSound /\ CouponExact /\ OneOrderPerKey

(* Actors of one kind are not of the other. *)
LEMMA Kinds ==
  /\ \A a \in Attempts : a \in Actors /\ a \notin Cancels /\ a # None
  /\ \A c \in Cancels : c \in Actors /\ c \notin Attempts /\ c # None
  /\ Attempts \subseteq Resources /\ Rows \subseteq Resources
  /\ Keys \subseteq Resources /\ Coupon \in Resources
  /\ None \notin Resources
BY CheckoutAssumption DEF Actors, Resources

(* Nothing is in progress at first. *)
LEMMA InvInit == Init => IInv
<1> SUFFICES ASSUME Init PROVE IInv
  OBVIOUS
<1>1. TypeOK
  BY CheckoutAssumption, Kinds DEF Init, TypeOK, Book!OrderStatus
<1>2. AttemptsSound
  BY Kinds DEF Init, AttemptsSound, AttemptSound, AttemptPCs, Taken
<1>3. CancelsSound
  BY Kinds DEF Init, CancelsSound, CancelSound, CancelPCs
<1>4. Placed = {}
  BY DEF Init, Placed
<1>5. CouponExact
  <2>1. Placed \cap Discounted = {}
    BY <1>4
  <2>2. Cardinality(Placed \cap Discounted) = 0
    BY <2>1, FS_EmptySet
  <2>3. UsageLimit \in Nat
    BY CheckoutAssumption
  <2> QED
    BY <2>2, <2>3 DEF Init, CouponExact
<1>6. OneOrderPerKey
  BY <1>4 DEF Init, OneOrderPerKey
<1> QED
  BY <1>1, <1>2, <1>3, <1>5, <1>6 DEF IInv

(* A statement of x that only locks its free target, or gives all locks back,
   disturbs no other transaction. *)
LEMMA OthersKeep ==
  ASSUME TypeOK, AttemptsSound, CancelsSound, NEW x \in Actors,
         UNCHANGED << order, stock, used >>,
         \A y \in Actors \ {x} : pc'[y] = pc[y] /\ at'[y] = at[y],
         \A a \in Attempts \ {x} : seen'[a] = seen[a],
         \A c \in Cancels \ {x} : aim'[c] = aim[c],
         \A r \in Resources : holder[r] \notin {None, x} => holder'[r] = holder[r]
  PROVE  /\ \A a \in Attempts \ {x} : AttemptSound(a)'
         /\ \A c \in Cancels \ {x} : CancelSound(c)'
<1>1. ASSUME NEW a \in Attempts \ {x} PROVE AttemptSound(a)'
  <2>0. AttemptSound(a) /\ a \in Actors \ {x} /\ a # None
    BY Kinds DEF AttemptsSound
  <2>1. \A i : Taken(a, i)' <=> Taken(a, i)
    BY <2>0 DEF Taken
  <2>2. \A i : Taken(a, i) => TakeOrder[a][i] \in Resources
    BY CartIsTaken, Kinds DEF Taken
  <2>3. SameKey(a)' = SameKey(a)
    BY DEF SameKey, Placed
  <2>4. \A i : Taken(a, i)' =>
          /\ holder'[TakeOrder[a][i]] = a
          /\ stock'[TakeOrder[a][i]] >= Requested[a][TakeOrder[a][i]]
    BY <2>0, <2>1, <2>2 DEF AttemptSound
  <2>5. pc[a] \in {"redeem", "take", "commit"} /\ Key[a] # None =>
          holder'[Key[a]] = a
    BY <2>0, Kinds, CheckoutAssumption DEF AttemptSound
  <2>6. a \in Discounted /\ pc[a] \in {"take", "commit"} => holder'[Coupon] = a
    BY <2>0, Kinds DEF AttemptSound
  <2> QED
    BY <2>0, <2>3, <2>4, <2>5, <2>6 DEF AttemptSound
<1>2. ASSUME NEW c \in Cancels \ {x} PROVE CancelSound(c)'
  <2>0. CancelSound(c) /\ c \in Actors \ {x} /\ c # None
    BY Kinds DEF CancelsSound
  <2>1. pc[c] \in {"give", "finish"} => holder'[aim[c].on] = c
    BY <2>0, Kinds DEF CancelSound
  <2> QED
    BY <2>0, <2>1 DEF CancelSound
<1> QED
  BY <1>1, <1>2

(* Statements that commit nothing keep what is said of committed orders. *)
LEMMA QuietKeeps ==
  ASSUME CouponExact, OneOrderPerKey, UNCHANGED << order, used, answer >>
  PROVE  CouponExact' /\ OneOrderPerKey'
BY DEF CouponExact, OneOrderPerKey, Placed, SameKey

(* A lock is taken only when nobody else has it. *)
LEMMA LockKeeps ==
  ASSUME TypeOK, NEW x \in Actors, Blocker(x) \in {None, x}, Locks(x)
  PROVE  /\ holder' \in [Resources -> Actors \cup {None}]
         /\ \A r \in Resources : holder[r] \notin {None, x} => holder'[r] = holder[r]
         /\ \A r \in Resources : holder[r] = x => holder'[r] = x
         /\ Target(x) \in Resources => holder'[Target(x)] = x
BY Kinds DEF TypeOK, Locks, Blocker

(* A transaction that ends gives back its own locks. *)
LEMMA ReleaseKeeps ==
  ASSUME TypeOK, NEW x \in Actors, Releases(x)
  PROVE  /\ holder' \in [Resources -> Actors \cup {None}]
         /\ \A r \in Resources : holder[r] # x => holder'[r] = holder[r]
BY DEF TypeOK, Releases

(* Where an actor goes *)
LEMMA GoesTo ==
  ASSUME TypeOK, NEW x \in Actors, NEW s, NEW i, Goes(x, s, i)
  PROVE  /\ pc'[x] = s /\ at'[x] = i
         /\ \A y \in Actors \ {x} : pc'[y] = pc[y] /\ at'[y] = at[y]
         /\ s \in AttemptPCs \cup CancelPCs => pc' \in [Actors -> AttemptPCs \cup CancelPCs]
         /\ i \in Nat \ {0} => at' \in [Actors -> Nat \ {0}]
BY DEF TypeOK, Goes, AttemptPCs, CancelPCs

(* An actor whose transaction has ended holds nothing it could rely on. *)
LEMMA EndKeeps ==
  ASSUME TypeOK, NEW x \in Actors, Running(x), Ends(x)
  PROVE  /\ pc' \in [Actors -> AttemptPCs \cup CancelPCs]
         /\ at' \in [Actors -> Nat \ {0}]
         /\ aim' \in [Cancels -> [on : Attempts \cup {None},
                                  status : Book!OrderStatus \cup {"NONE"}]]
         /\ pc'[x] = IF x \in Attempts THEN "done" ELSE "idle"
         /\ \A y \in Actors \ {x} : pc'[y] = pc[y] /\ at'[y] = at[y]
         /\ \A c \in Cancels \ {x} : aim'[c] = aim[c]
<1> DEFINE s == IF x \in Attempts THEN "done" ELSE "idle"
<1>1. Goes(x, s, 1)
  BY DEF Ends
<1>2. s \in AttemptPCs \cup CancelPCs
  BY DEF AttemptPCs, CancelPCs
<1>3. /\ pc'[x] = s
      /\ \A y \in Actors \ {x} : pc'[y] = pc[y] /\ at'[y] = at[y]
      /\ pc' \in [Actors -> AttemptPCs \cup CancelPCs]
      /\ at' \in [Actors -> Nat \ {0}]
  BY <1>1, <1>2, GoesTo
<1>4. /\ aim' \in [Cancels -> [on : Attempts \cup {None},
                              status : Book!OrderStatus \cup {"NONE"}]]
      /\ \A c \in Cancels \ {x} : aim'[c] = aim[c]
  BY DEF Ends, TypeOK
<1> QED
  BY <1>3, <1>4

(* The statements of both kinds of actor. *)
LEMMA TypePCs ==
  AttemptPCs \cup CancelPCs =
    {"idle", "done", "lines", "coupon", "insert", "redeem", "take", "commit",
     "claim", "give", "finish"}
BY DEF AttemptPCs, CancelPCs

(* A rollback leaves everything committed as it was. *)
LEMMA RollbackKeeps ==
  ASSUME IInv, NEW x \in Actors, Running(x), RollsBack(x)
  PROVE  IInv'
<1> USE DEF IInv
<1>0. TypeOK /\ Ends(x) /\ Releases(x) /\ UNCHANGED << order, stock, used, answer, seen >>
  BY DEF RollsBack
<1>1. /\ pc' \in [Actors -> AttemptPCs \cup CancelPCs]
      /\ at' \in [Actors -> Nat \ {0}]
      /\ aim' \in [Cancels -> [on : Attempts \cup {None},
                               status : Book!OrderStatus \cup {"NONE"}]]
      /\ pc'[x] = IF x \in Attempts THEN "done" ELSE "idle"
      /\ \A y \in Actors \ {x} : pc'[y] = pc[y] /\ at'[y] = at[y]
      /\ \A c \in Cancels \ {x} : aim'[c] = aim[c]
  BY <1>0, EndKeeps
<1>2. /\ holder' \in [Resources -> Actors \cup {None}]
      /\ \A r \in Resources : holder[r] # x => holder'[r] = holder[r]
  BY <1>0, ReleaseKeeps
<1>3. TypeOK'
  BY <1>0, <1>1, <1>2, TypePCs DEF TypeOK
<1>4. /\ \A a \in Attempts \ {x} : AttemptSound(a)'
      /\ \A c \in Cancels \ {x} : CancelSound(c)'
  BY <1>0, <1>1, <1>2, OthersKeep
<1>5. x \in Attempts => AttemptSound(x)'
  BY <1>1 DEF AttemptSound, AttemptPCs, Taken
<1>6. x \in Cancels => CancelSound(x)'
  BY <1>1, Kinds DEF CancelSound, CancelPCs
<1>7. CouponExact' /\ OneOrderPerKey'
  BY <1>0, QuietKeeps
<1> QED
  BY <1>3, <1>4, <1>5, <1>6, <1>7 DEF AttemptsSound, CancelsSound

(* A statement of an open transaction that commits nothing keeps the invariant
   if its own actor is left in a sound state. *)
LEMMA StatementKeeps ==
  ASSUME IInv, NEW x \in Actors,
         NEW s \in AttemptPCs \cup CancelPCs, NEW i \in Nat \ {0}, Goes(x, s, i),
         UNCHANGED << order, stock, used, answer >>,
         seen' \in [Attempts -> Nat],
         \A a \in Attempts \ {x} : seen'[a] = seen[a],
         aim' \in [Cancels -> [on : Attempts \cup {None},
                              status : Book!OrderStatus \cup {"NONE"}]],
         \A c \in Cancels \ {x} : aim'[c] = aim[c],
         holder' \in [Resources -> Actors \cup {None}],
         \A r \in Resources : holder[r] \notin {None, x} => holder'[r] = holder[r],
         x \in Attempts => AttemptSound(x)',
         x \in Cancels => CancelSound(x)'
  PROVE  IInv'
<1> USE DEF IInv
<1>1. /\ \A y \in Actors \ {x} : pc'[y] = pc[y] /\ at'[y] = at[y]
      /\ pc' \in [Actors -> AttemptPCs \cup CancelPCs]
      /\ at' \in [Actors -> Nat \ {0}]
  BY GoesTo
<1>2. TypeOK'
  BY <1>1, TypePCs DEF TypeOK
<1>3. /\ \A a \in Attempts \ {x} : AttemptSound(a)'
      /\ \A c \in Cancels \ {x} : CancelSound(c)'
  BY <1>1, OthersKeep
<1>4. CouponExact' /\ OneOrderPerKey'
  BY QuietKeeps
<1> QED
  BY <1>2, <1>3, <1>4 DEF AttemptsSound, CancelsSound

(* The look-up of the idempotency key. *)
LEMMA BeginKeeps ==
  ASSUME IInv, NEW a \in Attempts, Begin(a)
  PROVE  IInv'
<1> USE DEF IInv
<1>1. CASE SameKey(a) = {}
  <2>1. Goes(a, "lines", 1) /\ UNCHANGED << order, stock, used, answer, seen, aim, holder >>
    BY <1>1 DEF Begin
  <2>2. pc'[a] = "lines"
    BY <2>1, Kinds, GoesTo
  <2>3. AttemptSound(a)'
    BY <2>1, <2>2, Kinds DEF AttemptsSound, AttemptSound, AttemptPCs, Taken, Begin
  <2>4. "lines" \in AttemptPCs \cup CancelPCs
    BY DEF AttemptPCs
  <2> QED
    BY <2>1, <2>3, <2>4, Kinds, StatementKeeps DEF TypeOK
<1>2. CASE SameKey(a) # {}
  <2>1. PICK b \in SameKey(a) : answer' = [answer EXCEPT ![a] = b]
    BY <1>2 DEF Begin
  <2>2. Goes(a, "done", 1) /\ UNCHANGED << order, stock, used, seen, aim, holder >>
    BY <1>2 DEF Begin
  <2>3. b \in Placed /\ b \in Attempts
    BY <2>1 DEF SameKey, Placed
  <2>4. "done" \in AttemptPCs \cup CancelPCs
    BY DEF AttemptPCs
  <2>5. /\ pc'[a] = "done"
        /\ \A y \in Actors \ {a} : pc'[y] = pc[y] /\ at'[y] = at[y]
        /\ pc' \in [Actors -> AttemptPCs \cup CancelPCs]
        /\ at' \in [Actors -> Nat \ {0}]
    BY <2>2, <2>4, Kinds, GoesTo
  <2>6. TypeOK'
    BY <2>1, <2>2, <2>3, <2>5, TypePCs DEF TypeOK
  <2>7. AttemptSound(a)'
    BY <2>2, <2>5 DEF AttemptSound, AttemptPCs, Taken
  <2>8. /\ \A d \in Attempts \ {a} : AttemptSound(d)'
        /\ \A c \in Cancels \ {a} : CancelSound(c)'
    BY <2>2, <2>5, Kinds, OthersKeep
  <2>9. AttemptsSound' /\ CancelsSound'
    BY <2>7, <2>8, Kinds DEF AttemptsSound, CancelsSound
  <2>10. CouponExact'
    BY <2>2 DEF CouponExact, Placed
  <2>11. OneOrderPerKey'
    BY <2>1, <2>2, <2>3 DEF OneOrderPerKey, SameKey, Placed, TypeOK
  <2> QED
    BY <2>6, <2>9, <2>10, <2>11
<1> QED
  BY <1>1, <1>2

(* The reads of the stock and of the coupon. *)
LEMMA ReadKeeps ==
  ASSUME IInv, NEW a \in Attempts, ReadLine(a) \/ ReadCoupon(a)
  PROVE  IInv'
<1> USE DEF IInv
<1>0. Running(a) /\ a \in Actors /\ order[a] = "NONE"
  BY Kinds DEF ReadLine, ReadCoupon, Running, AttemptsSound, AttemptSound
<1>1. CASE RollsBack(a)
  BY <1>0, <1>1, RollbackKeeps
<1>2. CASE ReadLine(a) /\ ~ RollsBack(a)
  <2>1. /\ UNCHANGED << order, stock, used, answer, seen, aim, holder >>
        /\ \/ Goes(a, "lines", at[a] + 1)
           \/ Goes(a, IF a \in Discounted THEN "coupon" ELSE "insert", 1)
    BY <1>2 DEF ReadLine
  <2>2. PICK s \in {"lines", "coupon", "insert"}, i \in Nat \ {0} :
          Goes(a, s, i) /\ (s = "insert" => a \notin Discounted)
    <3>1. at[a] + 1 \in Nat \ {0}
      BY <1>0 DEF TypeOK
    <3> QED
      BY <2>1, <3>1
  <2>3. pc'[a] = s
    BY <1>0, <2>2, GoesTo
  <2>4. AttemptSound(a)'
    BY <1>0, <2>1, <2>2, <2>3 DEF AttemptSound, AttemptPCs, Taken
  <2>5. s \in AttemptPCs \cup CancelPCs
    BY DEF AttemptPCs
  <2> QED
    BY <1>0, <2>1, <2>2, <2>4, <2>5, Kinds, StatementKeeps DEF TypeOK
<1>3. CASE ReadCoupon(a) /\ ~ RollsBack(a)
  <2>1. /\ UNCHANGED << order, stock, used, answer, aim, holder >>
        /\ seen' = [seen EXCEPT ![a] = used]
        /\ Goes(a, "insert", 1)
        /\ used < UsageLimit
    BY <1>3 DEF ReadCoupon
  <2>2. pc'[a] = "insert"
    BY <1>0, <2>1, GoesTo
  <2>3. /\ seen' \in [Attempts -> Nat] /\ seen'[a] = used
        /\ \A b \in Attempts \ {a} : seen'[b] = seen[b]
    BY <2>1 DEF TypeOK
  <2>4. AttemptSound(a)'
    BY <1>0, <2>1, <2>2, <2>3 DEF AttemptSound, AttemptPCs, Taken
  <2>5. "insert" \in AttemptPCs \cup CancelPCs
    BY DEF AttemptPCs
  <2> QED
    BY <1>0, <2>1, <2>3, <2>4, <2>5, Kinds, StatementKeeps DEF TypeOK
<1> QED
  BY <1>1, <1>2, <1>3

(* A write of an open checkout: its target is locked, and the next statement
   is s at i. *)
LEMMA WriteKeeps ==
  ASSUME IInv, NEW a \in Attempts, Running(a), Blocker(a) \in {None, a},
         Locks(a), NEW s \in AttemptPCs, NEW i \in Nat \ {0}, Goes(a, s, i),
         UNCHANGED << order, stock, used, answer, seen, aim >>, AttemptSound(a)'
  PROVE  IInv'
<1> USE DEF IInv
<1>1. a \in Actors /\ a \notin Cancels
  BY Kinds
<1>2. /\ holder' \in [Resources -> Actors \cup {None}]
      /\ \A r \in Resources : holder[r] \notin {None, a} => holder'[r] = holder[r]
  BY <1>1, LockKeeps
<1>3. /\ seen' \in [Attempts -> Nat]
      /\ aim' \in [Cancels -> [on : Attempts \cup {None},
                               status : Book!OrderStatus \cup {"NONE"}]]
  BY DEF TypeOK
<1> QED
  BY <1>1, <1>2, <1>3, StatementKeeps

(* The insertion of the order under its unique key. *)
LEMMA InsertKeeps ==
  ASSUME IInv, NEW a \in Attempts, Insert(a)
  PROVE  IInv'
<1> USE DEF IInv
<1>0. Running(a) /\ a \in Actors /\ pc[a] = "insert" /\ Blocker(a) \in {None, a}
  BY Kinds DEF Insert, Ready, Running
<1>1. CASE SameKey(a) # {}
  BY <1>0, <1>1, RollbackKeeps DEF Insert
<1>2. CASE SameKey(a) = {}
  <2> DEFINE s == IF a \in Discounted THEN "redeem" ELSE "take"
  <2>1. Locks(a) /\ Goes(a, s, 1) /\ UNCHANGED << order, stock, used, answer, seen, aim >>
    BY <1>2 DEF Insert
  <2>2. /\ pc'[a] = s /\ at'[a] = 1
    BY <1>0, <2>1, GoesTo
  <2>3. Key[a] # None => holder'[Key[a]] = a
    <3>1. Target(a) = Key[a]
      BY <1>0 DEF Target
    <3> QED
      BY <1>0, <2>1, <3>1, LockKeeps, CheckoutAssumption, Kinds
  <2>4. ~ \E i : Taken(a, i)'
    BY <2>2 DEF Taken
  <2>5. 1 \in 1 .. Len(TakeOrder[a])
    <3>1. TakeOrder[a] \in Seq(Rows) /\ TakeOrder[a] # << >>
      BY CartIsTaken
    <3> QED
      BY <3>1
  <2>6. SameKey(a)' = {}
    BY <1>2, <2>1 DEF SameKey, Placed
  <2>7. AttemptSound(a)
    BY DEF AttemptsSound
  <2>8. AttemptSound(a)'
    BY <1>0, <2>1, <2>2, <2>3, <2>4, <2>5, <2>6, <2>7 DEF AttemptSound, AttemptPCs
  <2>9. s \in AttemptPCs
    BY DEF AttemptPCs
  <2> QED
    BY <1>0, <2>1, <2>8, <2>9, WriteKeeps
<1> QED
  BY <1>1, <1>2

(* The conditional redemption of the coupon. *)
LEMMA RedeemKeeps ==
  ASSUME IInv, NEW a \in Attempts, Redeem(a)
  PROVE  IInv'
<1> USE DEF IInv
<1>0. Running(a) /\ a \in Actors /\ pc[a] = "redeem" /\ Blocker(a) \in {None, a}
  BY Kinds DEF Redeem, Ready, Running
<1>1. CASE used # seen[a]
  BY <1>0, <1>1, RollbackKeeps DEF Redeem
<1>2. CASE used = seen[a]
  <2>1. Locks(a) /\ Goes(a, "take", 1) /\ UNCHANGED << order, stock, used, answer, seen, aim >>
    BY <1>2 DEF Redeem
  <2>2. pc'[a] = "take" /\ at'[a] = 1
    BY <1>0, <2>1, GoesTo
  <2>3. holder'[Coupon] = a
    <3>1. Target(a) = Coupon
      BY <1>0 DEF Target
    <3> QED
      BY <1>0, <2>1, <3>1, LockKeeps, Kinds
  <2>4. ~ \E i : Taken(a, i)'
    BY <2>2 DEF Taken
  <2>5. 1 \in 1 .. Len(TakeOrder[a])
    <3>1. TakeOrder[a] \in Seq(Rows) /\ TakeOrder[a] # << >>
      BY CartIsTaken
    <3> QED
      BY <3>1
  <2>6. SameKey(a)' = SameKey(a)
    BY <2>1 DEF SameKey, Placed
  <2>7. AttemptSound(a)
    BY DEF AttemptsSound
  <2>8. Key[a] # None => holder'[Key[a]] = a
    <3>1. Key[a] # None => Key[a] \in Resources /\ holder[Key[a]] = a
      BY <1>0, <2>7, Kinds, CheckoutAssumption DEF AttemptSound
    <3> QED
      BY <1>0, <2>1, <3>1, LockKeeps
  <2>9. AttemptSound(a)'
    BY <1>0, <1>2, <2>1, <2>2, <2>3, <2>4, <2>5, <2>6, <2>7, <2>8 DEF AttemptSound, AttemptPCs
  <2>10. "take" \in AttemptPCs
    BY DEF AttemptPCs
  <2> QED
    BY <1>0, <2>1, <2>9, <2>10, WriteKeeps
<1> QED
  BY <1>1, <1>2

(* The conditional decrement of one row. *)
LEMMA TakeKeeps ==
  ASSUME IInv, NEW a \in Attempts, Take(a)
  PROVE  IInv'
<1> USE DEF IInv
<1>0. Running(a) /\ a \in Actors /\ pc[a] = "take" /\ Blocker(a) \in {None, a}
  BY Kinds DEF Take, Ready, Running
<1> DEFINE n == at[a]
           r == TakeOrder[a][n]
<1>1. AttemptSound(a) /\ n \in 1 .. Len(TakeOrder[a])
  BY <1>0 DEF AttemptsSound, AttemptSound
<1>2. TakeOrder[a] \in Seq(Rows) /\ r \in Rows /\ Len(TakeOrder[a]) \in Nat
  BY <1>1, CartIsTaken
<1>3. Target(a) = r
  BY <1>0 DEF Target
<1>4. CASE ~ stock[r] >= Requested[a][r]
  BY <1>0, <1>3, <1>4, RollbackKeeps DEF Take
<1>5. CASE stock[r] >= Requested[a][r]
  <2>1. Locks(a) /\ UNCHANGED << order, stock, used, answer, seen, aim >>
    BY <1>3, <1>5 DEF Take, Takes
  <2>2. \/ n < Len(TakeOrder[a]) /\ Goes(a, "take", n + 1)
        \/ n = Len(TakeOrder[a]) /\ Goes(a, "commit", 1)
    BY <1>1, <1>2, <1>3, <1>5 DEF Take, Takes
  <2>3. PICK s \in {"take", "commit"}, i \in Nat \ {0} :
          /\ Goes(a, s, i)
          /\ s = "take" => i = n + 1 /\ n < Len(TakeOrder[a])
          /\ s = "commit" => n = Len(TakeOrder[a])
    <3>1. n + 1 \in Nat \ {0} /\ 1 \in Nat \ {0}
      BY <1>1
    <3> QED
      BY <2>2, <3>1
  <2>4. pc'[a] = s /\ at'[a] = i
    BY <1>0, <2>3, GoesTo
  <2>5. /\ holder'[r] = a
        /\ \A q \in Resources : holder[q] = a => holder'[q] = a
    BY <1>0, <1>2, <1>3, <2>1, LockKeeps, Kinds
  <2>6. \A j : Taken(a, j)' => Taken(a, j) \/ j = n
    BY <1>0, <1>1, <1>2, <2>3, <2>4 DEF Taken
  <2>7. \A j : Taken(a, j)' =>
          /\ holder'[TakeOrder[a][j]] = a
          /\ stock'[TakeOrder[a][j]] >= Requested[a][TakeOrder[a][j]]
    <3>1. ASSUME NEW j, Taken(a, j)
          PROVE  TakeOrder[a][j] \in Resources
      BY <1>2, <3>1, Kinds DEF Taken
    <3> QED
      BY <1>1, <1>5, <2>1, <2>5, <2>6, <3>1 DEF AttemptSound
  <2>8. Key[a] # None => holder'[Key[a]] = a /\ SameKey(a)' = {}
    BY <1>0, <1>1, <2>1, <2>5, Kinds, CheckoutAssumption
       DEF AttemptSound, SameKey, Placed
  <2>9. a \in Discounted => holder'[Coupon] = a /\ used' = seen'[a]
    BY <1>0, <1>1, <2>1, <2>5, Kinds DEF AttemptSound
  <2>10. s = "take" => i \in 1 .. Len(TakeOrder[a])
    BY <1>1, <1>2, <2>3
  <2>11. s \in AttemptPCs
    BY DEF AttemptPCs
  <2>12. AttemptSound(a)'
    BY <1>0, <1>1, <2>1, <2>4, <2>7, <2>8, <2>9, <2>10, <2>11 DEF AttemptSound
  <2> QED
    BY <1>0, <2>1, <2>3, <2>11, <2>12, WriteKeeps
<1> QED
  BY <1>4, <1>5

(* When a checkout commits, all its units are on the shelf. *)
LEMMA CommitFinds ==
  ASSUME IInv, NEW a \in Attempts, Commit(a)
  PROVE  /\ order[a] = "NONE"
         /\ \A r \in Rows : Requested[a][r] > 0 => holder[r] = a
         /\ \A r \in Rows : stock[r] >= Requested[a][r]
<1> USE DEF IInv
<1>1. AttemptSound(a) /\ pc[a] = "commit"
  BY DEF AttemptsSound, Commit
<1>2. ASSUME NEW r \in Rows, Requested[a][r] > 0
      PROVE  holder[r] = a /\ stock[r] >= Requested[a][r]
  <2>1. PICK i \in DOMAIN TakeOrder[a] : TakeOrder[a][i] = r
    BY <1>2, CartIsTaken
  <2>2. Taken(a, i)
    <3>1. TakeOrder[a] \in Seq(Rows)
      BY CartIsTaken
    <3> QED
      BY <1>1, <2>1, <3>1 DEF Taken
  <2> QED
    BY <1>1, <2>1, <2>2 DEF AttemptSound
<1>3. ASSUME NEW r \in Rows, ~ (Requested[a][r] > 0)
      PROVE  stock[r] >= Requested[a][r]
  <2>1. stock[r] \in Nat /\ Requested[a][r] \in Nat
    BY CartIsTaken DEF TypeOK
  <2> QED
    BY <1>3, <2>1
<1> QED
  BY <1>1, <1>2, <1>3 DEF AttemptSound

(* The commit: what other transactions hold is out of its reach. *)
LEMMA CommitKeeps ==
  ASSUME IInv, NEW a \in Attempts, Commit(a)
  PROVE  IInv'
<1> USE DEF IInv
<1>0. /\ Running(a) /\ a \in Actors /\ pc[a] = "commit" /\ AttemptSound(a)
      /\ Ends(a) /\ Releases(a)
      /\ order' = [order EXCEPT ![a] = "PENDING"]
  BY Kinds DEF Commit, Running, AttemptsSound
<1>1. /\ pc' \in [Actors -> AttemptPCs \cup CancelPCs]
      /\ at' \in [Actors -> Nat \ {0}]
      /\ aim' \in [Cancels -> [on : Attempts \cup {None},
                               status : Book!OrderStatus \cup {"NONE"}]]
      /\ pc'[a] = "done"
      /\ \A y \in Actors \ {a} : pc'[y] = pc[y] /\ at'[y] = at[y]
      /\ \A c \in Cancels \ {a} : aim'[c] = aim[c]
  BY <1>0, EndKeeps
<1>2. /\ holder' \in [Resources -> Actors \cup {None}]
      /\ \A r \in Resources : holder[r] # a => holder'[r] = holder[r]
  BY <1>0, ReleaseKeeps
<1>3. /\ order[a] = "NONE"
      /\ \A r \in Rows : Requested[a][r] > 0 => holder[r] = a
      /\ \A r \in Rows : stock[r] >= Requested[a][r]
  BY CommitFinds
<1>4. TypeOK'
  <2>1. order' \in [Attempts -> Book!OrderStatus \cup {"NONE"}]
    BY <1>0 DEF TypeOK, Book!OrderStatus
  <2>2. ASSUME NEW r \in Rows PROVE stock[r] - Requested[a][r] \in Nat
    <3>1. stock[r] \in Nat
      BY DEF TypeOK
    <3>2. Requested[a][r] \in Nat
      BY CartIsTaken
    <3>3. stock[r] >= Requested[a][r]
      BY <1>3
    <3> QED
      BY <3>1, <3>2, <3>3
  <2>3. stock' \in [Rows -> Nat]
    BY <2>2 DEF Commit
  <2>4. used' \in Nat
    BY DEF Commit, TypeOK
  <2>5. answer' \in [Attempts -> Attempts \cup {None}]
    BY DEF Commit, TypeOK
  <2>6. seen' \in [Attempts -> Nat]
    BY DEF Commit, TypeOK
  <2> QED
    BY <1>1, <1>2, <2>1, <2>3, <2>4, <2>5, <2>6, TypePCs DEF TypeOK
<1>5. Placed' = Placed \cup {a} /\ a \notin Placed
  BY <1>0, <1>3 DEF Placed, TypeOK
<1>6. ASSUME NEW b \in Attempts \ {a} PROVE AttemptSound(b)'
  <2>0. AttemptSound(b) /\ b \in Actors \ {a}
    BY Kinds DEF AttemptsSound
  <2>1. order'[b] = order[b] /\ seen'[b] = seen[b]
    BY <1>0 DEF Commit, TypeOK
  <2>2. \A i : Taken(b, i)' <=> Taken(b, i)
    BY <1>1, <2>0 DEF Taken
  <2>3. ASSUME NEW i, Taken(b, i)
        PROVE  /\ holder'[TakeOrder[b][i]] = b
               /\ stock'[TakeOrder[b][i]] >= Requested[b][TakeOrder[b][i]]
    <3> DEFINE r == TakeOrder[b][i]
    <3>1. r \in Rows /\ r \in Resources
      BY <2>3, CartIsTaken, Kinds DEF Taken
    <3>2. holder[r] = b /\ stock[r] >= Requested[b][r]
      BY <2>0, <2>3 DEF AttemptSound
    <3>3. ~ (Requested[a][r] > 0)
      BY <1>3, <3>1, <3>2
    <3>4. Requested[a][r] = 0 /\ stock[r] \in Nat
      BY <3>1, <3>3, CartIsTaken DEF TypeOK
    <3>5. stock'[r] = stock[r] - Requested[a][r]
      BY <3>1 DEF Commit
    <3>6. stock'[r] = stock[r]
      BY <3>4, <3>5
    <3> QED
      BY <1>2, <3>1, <3>2, <3>6
  <2>4. pc[b] \in {"redeem", "take", "commit"} /\ Key[b] # None =>
          holder'[Key[b]] = b /\ SameKey(b)' = {}
    <3> SUFFICES ASSUME pc[b] \in {"redeem", "take", "commit"}, Key[b] # None
                 PROVE  holder'[Key[b]] = b /\ SameKey(b)' = {}
      OBVIOUS
    <3>1. holder[Key[b]] = b /\ SameKey(b) = {} /\ Key[b] \in Resources
      BY <2>0, Kinds, CheckoutAssumption DEF AttemptSound
    <3>2. Key[a] # Key[b]
      BY <1>0, <3>1 DEF AttemptSound
    <3> QED
      BY <1>2, <1>5, <3>1, <3>2 DEF SameKey
  <2>5. b \in Discounted /\ pc[b] \in {"take", "commit"} =>
          holder'[Coupon] = b /\ used' = seen'[b]
    <3> SUFFICES ASSUME b \in Discounted, pc[b] \in {"take", "commit"}
                 PROVE  holder'[Coupon] = b /\ used' = seen'[b]
      OBVIOUS
    <3>1. holder[Coupon] = b /\ used = seen[b]
      BY <2>0 DEF AttemptSound
    <3>2. a \notin Discounted
      BY <1>0, <3>1 DEF AttemptSound
    <3> QED
      BY <1>2, <2>1, <3>1, <3>2, Kinds DEF Commit
  <2> QED
    BY <1>1, <2>0, <2>1, <2>2, <2>3, <2>4, <2>5 DEF AttemptSound
<1>7. AttemptSound(a)'
  BY <1>1 DEF AttemptSound, AttemptPCs, Taken
<1>8. ASSUME NEW c \in Cancels PROVE CancelSound(c)'
  <2>0. CancelSound(c) /\ c \in Actors \ {a} /\ c \in Cancels \ {a}
    BY Kinds DEF CancelsSound
  <2>1. pc[c] \in {"give", "finish"} =>
          holder'[aim[c].on] = c /\ order'[aim[c].on] = order[aim[c].on]
    <3> SUFFICES ASSUME pc[c] \in {"give", "finish"}
                 PROVE  holder'[aim[c].on] = c /\ order'[aim[c].on] = order[aim[c].on]
      OBVIOUS
    <3>1. /\ aim[c].on \in Attempts /\ holder[aim[c].on] = c
          /\ order[aim[c].on] \in Book!Cancellable
      BY <2>0 DEF CancelSound
    <3>2. aim[c].on # a
      BY <1>3, <3>1 DEF Book!Cancellable, Book!OrderStatus
    <3> QED
      BY <1>0, <1>2, <2>0, <3>1, <3>2, Kinds DEF TypeOK
  <2> QED
    BY <1>1, <2>0, <2>1 DEF CancelSound
<1>9. CouponExact'
  <2>1. CASE a \notin Discounted
    <3>1. (Placed \cap Discounted)' = Placed \cap Discounted
      BY <1>5, <2>1
    <3> QED
      BY <2>1, <3>1 DEF CouponExact, Commit
  <2>2. CASE a \in Discounted
    <3>1. (Placed \cap Discounted)' = (Placed \cap Discounted) \cup {a}
      BY <1>5, <2>2
    <3>2. IsFiniteSet(Placed \cap Discounted)
      <4>1. Placed \cap Discounted \subseteq Attempts
        BY DEF Placed
      <4> QED
        BY <4>1, CheckoutAssumption, FS_Subset
    <3>3. Cardinality((Placed \cap Discounted) \cup {a})
            = Cardinality(Placed \cap Discounted) + 1
      BY <1>5, <3>2, FS_AddElement
    <3>4. used < UsageLimit /\ used \in Nat /\ UsageLimit \in Nat
      BY <1>0, <2>2, CheckoutAssumption DEF AttemptSound, TypeOK
    <3>5. used' = used + 1
      BY <2>2 DEF Commit
    <3> QED
      BY <3>1, <3>3, <3>4, <3>5 DEF CouponExact
  <2> QED
    BY <2>1, <2>2
<1>10. OneOrderPerKey'
  <2>1. ASSUME NEW b \in Placed, Key[b] # None PROVE Key[b] # Key[a]
    BY <1>0, <2>1 DEF AttemptSound, SameKey
  <2>2. answer' = [answer EXCEPT ![a] = a]
    BY DEF Commit
  <2>3. \A b, c \in Placed' : Key[b] # None /\ Key[b] = Key[c] => b = c
    BY <1>5, <2>1 DEF OneOrderPerKey
  <2>4. ASSUME NEW b \in Attempts, answer'[b] # None
        PROVE  answer'[b] \in Placed' /\ (answer'[b] = b \/ answer'[b] \in SameKey(b)')
    BY <1>5, <2>2, <2>4 DEF OneOrderPerKey, SameKey, TypeOK
  <2> QED
    BY <2>3, <2>4 DEF OneOrderPerKey
<1> QED
  BY <1>4, <1>6, <1>7, <1>8, <1>9, <1>10 DEF AttemptsSound, CancelsSound

(* The read of a cancellation. *)
LEMMA CancelKeeps ==
  ASSUME IInv, NEW c \in Cancels, NEW a \in Attempts, CancelRead(c, a)
  PROVE  IInv'
<1> USE DEF IInv
<1>1. /\ Goes(c, "claim", 1) /\ c \in Actors /\ c \notin Attempts
      /\ UNCHANGED << order, stock, used, answer, seen, holder >>
      /\ aim' = [aim EXCEPT ![c] = [on |-> a, status |-> order[a]]]
      /\ order[a] \in Book!Cancellable
  BY Kinds DEF CancelRead
<1>2. pc'[c] = "claim"
  BY <1>1, GoesTo
<1>3. /\ aim' \in [Cancels -> [on : Attempts \cup {None},
                               status : Book!OrderStatus \cup {"NONE"}]]
      /\ aim'[c] = [on |-> a, status |-> order[a]]
      /\ \A d \in Cancels \ {c} : aim'[d] = aim[d]
  BY <1>1 DEF TypeOK
<1>4. CancelSound(c)'
  BY <1>1, <1>2, <1>3 DEF CancelSound, CancelPCs
<1>5. "claim" \in AttemptPCs \cup CancelPCs
  BY DEF CancelPCs
<1> QED
  BY <1>1, <1>3, <1>4, <1>5, StatementKeeps DEF TypeOK

(* The conditional claim of the order to cancel. *)
LEMMA ClaimKeeps ==
  ASSUME IInv, NEW c \in Cancels, Claim(c)
  PROVE  IInv'
<1> USE DEF IInv
<1>0. /\ Running(c) /\ c \in Actors /\ c \notin Attempts /\ pc[c] = "claim"
      /\ Blocker(c) \in {None, c} /\ CancelSound(c)
  BY Kinds DEF Claim, Ready, Running, CancelsSound
<1>1. CASE order[aim[c].on] # aim[c].status
  BY <1>0, <1>1, RollbackKeeps DEF Claim
<1>2. CASE order[aim[c].on] = aim[c].status
  <2>1. Locks(c) /\ Goes(c, "give", 1) /\ UNCHANGED << order, stock, used, answer, seen, aim >>
    BY <1>2 DEF Claim
  <2>2. pc'[c] = "give" /\ at'[c] = 1
    BY <1>0, <2>1, GoesTo
  <2>3. aim[c].on \in Attempts /\ Target(c) = aim[c].on
    BY <1>0 DEF CancelSound, Target
  <2>4. /\ holder' \in [Resources -> Actors \cup {None}]
        /\ \A r \in Resources : holder[r] \notin {None, c} => holder'[r] = holder[r]
        /\ holder'[aim[c].on] = c
    BY <1>0, <2>1, <2>3, LockKeeps, Kinds
  <2>5. 1 \in 1 .. Len(Mentioned[aim[c].on])
    <3>1. Mentioned[aim[c].on] \in Seq(Rows) /\ Mentioned[aim[c].on] # << >>
      BY <2>3, CartIsTaken
    <3> QED
      BY <3>1
  <2>6. CancelSound(c)'
    BY <1>0, <1>2, <2>1, <2>2, <2>4, <2>5 DEF CancelSound, CancelPCs
  <2>7. "give" \in AttemptPCs \cup CancelPCs
    BY DEF CancelPCs
  <2> QED
    BY <1>0, <2>1, <2>4, <2>6, <2>7, StatementKeeps DEF TypeOK
<1> QED
  BY <1>1, <1>2

(* The units given back to one row. *)
LEMMA GiveKeeps ==
  ASSUME IInv, NEW c \in Cancels, Give(c)
  PROVE  IInv'
<1> USE DEF IInv
<1>0. /\ Running(c) /\ c \in Actors /\ c \notin Attempts /\ pc[c] = "give"
      /\ Blocker(c) \in {None, c} /\ CancelSound(c)
      /\ Locks(c) /\ UNCHANGED << order, stock, used, answer, seen, aim >>
  BY Kinds DEF Give, Ready, Running, CancelsSound
<1> DEFINE m == Len(Mentioned[aim[c].on])
<1>1. /\ aim[c].on \in Attempts /\ aim[c].on \in Resources
      /\ at[c] \in 1 .. m /\ m \in Nat
  BY <1>0, CartIsTaken, Kinds DEF CancelSound
<1>2. PICK s \in {"give", "finish"}, i \in Nat \ {0} :
        Goes(c, s, i) /\ (s = "give" => i \in 1 .. m)
  <2>1. CASE at[c] < m
    BY <1>1, <2>1 DEF Give
  <2>2. CASE ~ at[c] < m
    BY <1>1, <2>2 DEF Give
  <2> QED
    BY <2>1, <2>2
<1>3. pc'[c] = s /\ at'[c] = i
  BY <1>0, <1>2, GoesTo
<1>4. /\ holder' \in [Resources -> Actors \cup {None}]
      /\ \A r \in Resources : holder[r] \notin {None, c} => holder'[r] = holder[r]
      /\ \A r \in Resources : holder[r] = c => holder'[r] = c
  BY <1>0, LockKeeps
<1>5. CancelSound(c)'
  BY <1>0, <1>1, <1>2, <1>3, <1>4 DEF CancelSound, CancelPCs
<1>6. s \in AttemptPCs \cup CancelPCs
  BY DEF CancelPCs
<1> QED
  BY <1>0, <1>2, <1>4, <1>5, <1>6, StatementKeeps DEF TypeOK

(* What a status change of one placed order leaves alone *)
LEMMA StatusKeeps ==
  ASSUME IInv, NEW a \in Attempts, NEW s \in Book!OrderStatus, order[a] # "NONE",
         order' = [order EXCEPT ![a] = s], UNCHANGED << used, answer, seen >>
  PROVE  /\ order' \in [Attempts -> Book!OrderStatus \cup {"NONE"}]
         /\ Placed' = Placed
         /\ \A b \in Attempts : order[b] = "NONE" => order'[b] = "NONE"
         /\ CouponExact' /\ OneOrderPerKey'
<1>1. /\ order' \in [Attempts -> Book!OrderStatus \cup {"NONE"}]
      /\ \A b \in Attempts : order[b] = "NONE" <=> order'[b] = "NONE"
  BY DEF IInv, TypeOK, Book!OrderStatus
<1>2. Placed' = Placed
  BY <1>1 DEF Placed
<1>3. CouponExact' /\ OneOrderPerKey'
  BY <1>2 DEF IInv, CouponExact, OneOrderPerKey, SameKey
<1> QED
  BY <1>1, <1>2, <1>3

(* The commit of a cancellation only adds to the shelf. *)
LEMMA FinishKeeps ==
  ASSUME IInv, NEW c \in Cancels, Finish(c)
  PROVE  IInv'
<1> USE DEF IInv
<1> DEFINE a == aim[c].on
<1>0. /\ Running(c) /\ c \in Actors /\ c \notin Attempts /\ pc[c] = "finish"
      /\ Ends(c) /\ Releases(c) /\ UNCHANGED << used, answer, seen >>
      /\ CancelSound(c)
  BY Kinds DEF Finish, Running, CancelsSound
<1>1. /\ a \in Attempts /\ a \in Resources /\ holder[a] = c
      /\ order[a] \in Book!Cancellable
  BY <1>0, Kinds DEF CancelSound
<1>2. /\ pc' \in [Actors -> AttemptPCs \cup CancelPCs]
      /\ at' \in [Actors -> Nat \ {0}]
      /\ aim' \in [Cancels -> [on : Attempts \cup {None},
                               status : Book!OrderStatus \cup {"NONE"}]]
      /\ pc'[c] = "idle"
      /\ \A y \in Actors \ {c} : pc'[y] = pc[y] /\ at'[y] = at[y]
      /\ \A d \in Cancels \ {c} : aim'[d] = aim[d]
  BY <1>0, EndKeeps
<1>3. /\ holder' \in [Resources -> Actors \cup {None}]
      /\ \A r \in Resources : holder[r] # c => holder'[r] = holder[r]
  BY <1>0, ReleaseKeeps
<1>4. /\ order' = [order EXCEPT ![a] = "CANCELLED"]
      /\ order[a] # "NONE" /\ "CANCELLED" \in Book!OrderStatus
  BY <1>1 DEF Finish, Book!Cancellable, Book!OrderStatus
<1>5. /\ order' \in [Attempts -> Book!OrderStatus \cup {"NONE"}]
      /\ Placed' = Placed
      /\ \A b \in Attempts : order[b] = "NONE" => order'[b] = "NONE"
      /\ CouponExact' /\ OneOrderPerKey'
  BY <1>0, <1>1, <1>4, StatusKeeps
<1>6. /\ stock' \in [Rows -> Nat]
      /\ \A r \in Rows : stock'[r] >= stock[r]
  <2>1. ASSUME NEW r \in Rows
        PROVE  stock[r] + Requested[a][r] \in Nat /\ stock[r] + Requested[a][r] >= stock[r]
    <3>1. stock[r] \in Nat /\ Requested[a][r] \in Nat
      BY <1>1, CartIsTaken DEF TypeOK
    <3> QED
      BY <3>1
  <2> QED
    BY <2>1 DEF Finish
<1>7. TypeOK'
  BY <1>0, <1>2, <1>3, <1>5, <1>6, TypePCs DEF TypeOK
<1>8. ASSUME NEW b \in Attempts PROVE AttemptSound(b)'
  <2>0. AttemptSound(b) /\ b \in Actors \ {c} /\ b # c
    BY Kinds DEF AttemptsSound
  <2>1. \A i : Taken(b, i)' <=> Taken(b, i)
    BY <1>2, <2>0 DEF Taken
  <2>2. ASSUME NEW i, Taken(b, i)
        PROVE  /\ holder'[TakeOrder[b][i]] = b
               /\ stock'[TakeOrder[b][i]] >= Requested[b][TakeOrder[b][i]]
    <3> DEFINE r == TakeOrder[b][i]
    <3>1. r \in Rows /\ r \in Resources
      BY <2>2, CartIsTaken, Kinds DEF Taken
    <3>2. holder[r] = b /\ stock[r] >= Requested[b][r]
      BY <2>0, <2>2 DEF AttemptSound
    <3>3. stock[r] \in Nat /\ stock'[r] \in Nat /\ Requested[b][r] \in Nat
      BY <1>6, <3>1, CartIsTaken DEF TypeOK
    <3>4. stock'[r] >= stock[r]
      BY <1>6, <3>1
    <3> QED
      BY <1>3, <2>0, <3>1, <3>2, <3>3, <3>4
  <2>3. pc[b] \in {"redeem", "take", "commit"} /\ Key[b] # None =>
          holder'[Key[b]] = b /\ SameKey(b)' = {}
    BY <1>3, <1>5, <2>0, Kinds, CheckoutAssumption DEF AttemptSound, SameKey
  <2>4. b \in Discounted /\ pc[b] \in {"take", "commit"} =>
          holder'[Coupon] = b /\ used' = seen'[b]
    BY <1>0, <1>3, <2>0, Kinds DEF AttemptSound
  <2> QED
    BY <1>0, <1>2, <1>5, <2>0, <2>1, <2>2, <2>3, <2>4 DEF AttemptSound
<1>9. ASSUME NEW d \in Cancels \ {c} PROVE CancelSound(d)'
  <2>0. CancelSound(d) /\ d \in Actors \ {c}
    BY Kinds DEF CancelsSound
  <2>1. pc[d] \in {"give", "finish"} =>
          holder'[aim[d].on] = d /\ order'[aim[d].on] = order[aim[d].on]
    BY <1>1, <1>3, <1>4, <2>0, Kinds DEF CancelSound, TypeOK
  <2> QED
    BY <1>2, <2>0, <2>1 DEF CancelSound
<1>10. CancelSound(c)'
  BY <1>2 DEF CancelSound, CancelPCs
<1> QED
  BY <1>5, <1>7, <1>8, <1>9, <1>10 DEF AttemptsSound, CancelsSound

(* A settlement confirms an order that no cancellation holds. *)
LEMMA ConfirmKeeps ==
  ASSUME IInv, NEW a \in Attempts, Confirm(a)
  PROVE  IInv'
<1> USE DEF IInv
<1>1. /\ order' = [order EXCEPT ![a] = "CONFIRMED"] /\ order[a] = "PENDING"
      /\ holder[a] = None
      /\ UNCHANGED << stock, used, answer, pc, at, seen, aim, holder >>
  BY DEF Confirm
<1>2. /\ order' \in [Attempts -> Book!OrderStatus \cup {"NONE"}]
      /\ Placed' = Placed
      /\ \A b \in Attempts : order[b] = "NONE" => order'[b] = "NONE"
      /\ CouponExact' /\ OneOrderPerKey'
  <2>1. order[a] # "NONE" /\ "CONFIRMED" \in Book!OrderStatus
    BY <1>1 DEF Book!OrderStatus
  <2> QED
    BY <1>1, <2>1, StatusKeeps
<1>3. TypeOK'
  BY <1>1, <1>2 DEF TypeOK
<1>4. ASSUME NEW b \in Attempts PROVE AttemptSound(b)'
  <2>1. AttemptSound(b)
    BY DEF AttemptsSound
  <2>2. \A i : Taken(b, i)' <=> Taken(b, i)
    BY <1>1 DEF Taken
  <2>3. SameKey(b)' = SameKey(b)
    BY <1>2 DEF SameKey
  <2> QED
    BY <1>1, <1>2, <2>1, <2>2, <2>3 DEF AttemptSound
<1>5. ASSUME NEW c \in Cancels PROVE CancelSound(c)'
  <2>1. CancelSound(c)
    BY DEF CancelsSound
  <2>2. pc[c] \in {"give", "finish"} => aim[c].on \in Attempts /\ aim[c].on # a
    BY <1>1, <2>1, Kinds DEF CancelSound
  <2> QED
    BY <1>1, <2>1, <2>2 DEF CancelSound, TypeOK
<1> QED
  BY <1>2, <1>3, <1>4, <1>5 DEF AttemptsSound, CancelsSound

(* One step per action *)
LEMMA InvStep == IInv /\ [Next]_vars => IInv'
<1> SUFFICES ASSUME IInv, [Next]_vars PROVE IInv'
  OBVIOUS
<1>1. ASSUME NEW a \in Attempts, Begin(a) PROVE IInv'
  BY <1>1, BeginKeeps
<1>2. ASSUME NEW a \in Attempts, Confirm(a) PROVE IInv'
  BY <1>2, ConfirmKeeps
<1>3. ASSUME NEW c \in Cancels, NEW a \in Attempts, CancelRead(c, a) PROVE IInv'
  BY <1>3, CancelKeeps
<1>4. ASSUME NEW a \in Attempts, ReadLine(a) \/ ReadCoupon(a) PROVE IInv'
  BY <1>4, ReadKeeps
<1>5. ASSUME NEW a \in Attempts, Insert(a) PROVE IInv'
  BY <1>5, InsertKeeps
<1>6. ASSUME NEW a \in Attempts, Redeem(a) PROVE IInv'
  BY <1>6, RedeemKeeps
<1>7. ASSUME NEW a \in Attempts, Take(a) PROVE IInv'
  BY <1>7, TakeKeeps
<1>8. ASSUME NEW a \in Attempts, Commit(a) PROVE IInv'
  BY <1>8, CommitKeeps
<1>9. ASSUME NEW c \in Cancels, Claim(c) PROVE IInv'
  BY <1>9, ClaimKeeps
<1>10. ASSUME NEW c \in Cancels, Give(c) PROVE IInv'
  BY <1>10, GiveKeeps
<1>11. ASSUME NEW c \in Cancels, Finish(c) PROVE IInv'
  BY <1>11, FinishKeeps
<1>12. ASSUME NEW x \in Actors, Fail(x) PROVE IInv'
  BY <1>12, RollbackKeeps DEF Fail
<1>13. ASSUME NEW x \in Actors, Victim(x) PROVE IInv'
  BY <1>13, RollbackKeeps DEF Victim, Deadlocked
<1>14. CASE UNCHANGED vars
  BY <1>14 DEF vars, IInv, TypeOK, AttemptsSound, AttemptSound, CancelsSound,
     CancelSound, CouponExact, OneOrderPerKey, Taken, SameKey, Placed
<1> QED
  BY <1>1, <1>2, <1>3, <1>4, <1>5, <1>6, <1>7, <1>8, <1>9, <1>10, <1>11, <1>12,
     <1>13, <1>14 DEF Next, Step

(* The inductive invariant holds in every reachable state. *)
LEMMA InvHolds == Spec => []IInv
<1> QED
  BY InvInit, InvStep, PTL DEF Spec

(* Every variable keeps its type, and no decrement makes a stock negative. *)
THEOREM TypesHold == Spec => []TypeOK
<1>1. IInv => TypeOK
  BY DEF IInv
<1> QED
  BY <1>1, InvHolds, PTL

(* The coupon counts exactly the orders placed with it, within its limit: the
   conditional update of usedCount suffices without a condition on the limit. *)
THEOREM CouponHolds == Spec => []CouponExact
<1>1. IInv => CouponExact
  BY DEF IInv
<1> QED
  BY <1>1, InvHolds, PTL

(* A keyed checkout is placed once, and its answers name the order: the look-up
   alone would not do, the unique key does. *)
THEOREM KeysHold == Spec => []OneOrderPerKey
<1>1. IInv => OneOrderPerKey
  BY DEF IInv
<1> QED
  BY <1>1, InvHolds, PTL

(* An empty shop is an empty book. *)
LEMMA BookStarts == Init => Book!BookInit
BY DEF Init, Book!BookInit

(* A commit places an order, the end of a cancellation cancels one, a
   settlement advances one; every other statement is invisible. *)
LEMMA BookMoves == IInv /\ [Next]_vars => [Book!BookNext]_(Book!book)
<1> SUFFICES ASSUME IInv, [Next]_vars PROVE [Book!BookNext]_(Book!book)
  OBVIOUS
<1> USE DEF Book!book
<1>1. ASSUME NEW a \in Attempts, Commit(a) PROVE Book!BookNext
  <2>1. Book!Place(a)
    BY <1>1, CommitFinds DEF Commit, Book!Place, Book!Reserved
  <2> QED
    BY <2>1 DEF Book!BookNext
<1>2. ASSUME NEW c \in Cancels, Finish(c) PROVE Book!BookNext
  <2>1. CancelSound(c) /\ pc[c] = "finish"
    BY <1>2 DEF IInv, CancelsSound, Finish
  <2>2. aim[c].on \in Attempts /\ order[aim[c].on] \in Book!Cancellable
    BY <2>1 DEF CancelSound
  <2>3. Book!Cancel(aim[c].on)
    BY <1>2, <2>2 DEF Finish, Book!Cancel, Book!Restored
  <2> QED
    BY <2>2, <2>3 DEF Book!BookNext
<1>3. ASSUME NEW a \in Attempts, Confirm(a) PROVE Book!BookNext
  <2>1. Book!Advance(a, "CONFIRMED")
    BY <1>3 DEF Confirm, Book!Advance, Book!Transitions, Book!OrderStatus
  <2> QED
    BY <2>1 DEF Book!BookNext, Book!OrderStatus
<1>4. ASSUME NEW a \in Attempts,
             \/ Begin(a) \/ ReadLine(a) \/ ReadCoupon(a) \/ Insert(a)
             \/ Redeem(a) \/ Take(a)
      PROVE  UNCHANGED << order, stock >>
  BY <1>4 DEF Begin, ReadLine, ReadCoupon, Insert, Redeem, Take, Takes, RollsBack
<1>5. ASSUME NEW c \in Cancels, Claim(c) \/ Give(c) PROVE UNCHANGED << order, stock >>
  BY <1>5 DEF Claim, Give, RollsBack
<1>6. ASSUME NEW c \in Cancels, NEW a \in Attempts, CancelRead(c, a)
      PROVE  UNCHANGED << order, stock >>
  BY <1>6 DEF CancelRead
<1>7. ASSUME NEW x \in Actors, Fail(x) \/ Victim(x) PROVE UNCHANGED << order, stock >>
  BY <1>7 DEF Fail, Victim, RollsBack
<1>8. CASE UNCHANGED vars
  BY <1>8 DEF vars
<1> QED
  BY <1>1, <1>2, <1>3, <1>4, <1>5, <1>6, <1>7, <1>8 DEF Next, Step

(* The statement-level transactions implement the atomic order book, for any
   carts: locks taken row by row, in orders that may even deadlock, still make
   each checkout and each cancellation one step of the book. *)
THEOREM CheckoutsImplementBook == Spec => ImplementsBook
<1> QED
  BY BookStarts, BookMoves, InvHolds, PTL DEF Spec, ImplementsBook, Book!BookSpec
=============================================================================

------------------------------ MODULE FoldFacts -----------------------------
(***************************************************************************)
(* Facts about folds over finite sets, by induction over their subsets: a  *)
(* fold is what its recursion says; for the sums that reports are made of, *)
(* the order of the terms does not matter, sums over groups add up, and    *)
(* counting is adding ones; and of a finite set the best can be taken.     *)
(***************************************************************************)
EXTENDS Integers, FiniteSets, Functions, FiniteSetTheorems, WellFoundedInduction,
        TLAPS

(* The library's induction over finite sets takes an operator.  That the proper
   subset is well-founded on them does not: a family of subsets that holds each
   subset all of whose proper subsets it holds, holds every one. *)
LEMMA SubsetInduction ==
  ASSUME NEW S, IsFiniteSet(S), NEW F,
         \A T \in SUBSET S :
           (\A U \in SUBSET T : U # T => U \in F) => T \in F
  PROVE  SUBSET S \subseteq F
<1> DEFINE Bad == { T \in SUBSET S : T \notin F }
<1> SUFFICES ASSUME Bad # {}  PROVE  FALSE
  OBVIOUS
<1>1. IsWellFoundedOn(StrictSubsetOrdering(S), FiniteSubsetsOf(S))
  BY FS_StrictSubsetOrderingWellFounded
<1>2. FiniteSubsetsOf(S) = SUBSET S
  BY FS_FiniteSubsetsOfFinite
<1>3. PICK T \in Bad : \A U \in Bad : << U, T >> \notin StrictSubsetOrdering(S)
  <2>1. Bad \subseteq SUBSET S
    OBVIOUS
  <2> HIDE DEF Bad
  <2> QED BY <1>1, <1>2, <2>1, WFMin
<1>4. ASSUME NEW U \in SUBSET T, U # T  PROVE  U \in F
  <2>1. U \in SUBSET S /\ T \in SUBSET S /\ U \subseteq T
    OBVIOUS
  <2>2. << U, T >> \in StrictSubsetOrdering(S)
    BY <1>4, <2>1 DEF StrictSubsetOrdering
  <2> QED BY <1>3, <2>1, <2>2
<1> QED BY <1>3, <1>4

-----------------------------------------------------------------------------
(* Folds *)

(* it folds each subset of S: it takes the element that pick says last. *)
Folds(it, S, base, step, pick) ==
  \A T \in SUBSET S :
    it[T] = IF T = {} THEN base ELSE step[<< pick[T], it[T \ {pick[T]}] >>]

(* A finite set is folded in a way that each of its subsets is. *)
LEMMA FoldExists ==
  ASSUME NEW S, IsFiniteSet(S), NEW V, NEW base \in V,
         NEW step \in [S \X V -> V],
         NEW pick, \A T \in SUBSET S : T # {} => pick[T] \in T
  PROVE  \E it \in [SUBSET S -> V] : Folds(it, S, base, step, pick)
<1> DEFINE Way(it, T) == it \in [SUBSET T -> V] /\ Folds(it, T, base, step, pick)
           F == { T \in SUBSET S : \E it : Way(it, T) }
           Of(T) == CHOOSE it : Way(it, T)
           G == { T \in SUBSET S : \A A, B, a, b :
                    Way(a, A) /\ Way(b, B) /\ T \subseteq A \cap B => a[T] = b[T] }
<1>1. ASSUME NEW T \in SUBSET S, \A U \in SUBSET T : U # T => U \in G,
             NEW A, NEW B, NEW a, NEW b, Way(a, A), Way(b, B), T \subseteq A \cap B
      PROVE  a[T] = b[T]
  <2>1. /\ a[T] = IF T = {} THEN base ELSE step[<< pick[T], a[T \ {pick[T]}] >>]
        /\ b[T] = IF T = {} THEN base ELSE step[<< pick[T], b[T \ {pick[T]}] >>]
    BY <1>1 DEF Folds
  <2>2. CASE T = {}
    BY <2>1, <2>2
  <2>3. CASE T # {}
    <3> DEFINE U == T \ {pick[T]}
    <3>1. U \in SUBSET T /\ U # T
      BY <2>3
    <3>2. U \in G
      <4> HIDE DEF G, U
      <4> QED BY <1>1, <3>1
    <3>3. a[U] = b[U]
      <4>1. U \subseteq A \cap B
        BY <1>1
      <4> HIDE DEF U, Way
      <4> QED BY <1>1, <3>2, <4>1
    <3> QED BY <2>1, <2>3, <3>3
  <2> QED BY <2>2, <2>3
<1>2. SUBSET S \subseteq G
  <2>1. ASSUME NEW T \in SUBSET S, \A U \in SUBSET T : U # T => U \in G
        PROVE  T \in G
    <3>1. ASSUME NEW A, NEW B, NEW a, NEW b, Way(a, A), Way(b, B), T \subseteq A \cap B
          PROVE  a[T] = b[T]
      <4> HIDE DEF Way, G
      <4> QED BY <1>1, <2>1, <3>1
    <3> HIDE DEF Way
    <3> QED BY <3>1
  <2> HIDE DEF G
  <2> QED BY <2>1, SubsetInduction
<1>3. ASSUME NEW T \in SUBSET S, \A U \in SUBSET T : U # T => U \in F
      PROVE  T \in F
  <2>0. ASSUME NEW U \in SUBSET T, U # T  PROVE  Way(Of(U), U)
    <3> HIDE DEF Way
    <3> QED BY <1>3, <2>0
  <2> HIDE DEF Of
  <2> DEFINE rest == T \ {pick[T]}
             it == [ U \in SUBSET T |->
                      IF U # T THEN Of(U)[U]
                      ELSE IF T = {} THEN base ELSE step[<< pick[T], Of(rest)[rest] >>] ]
  <2>1. ASSUME NEW U \in SUBSET T, U # {}
        PROVE  /\ U \ {pick[U]} \in SUBSET U /\ U \ {pick[U]} # U
               /\ U \ {pick[U]} \in SUBSET T /\ U \ {pick[U]} # T
    BY <2>1
  <2>2. ASSUME NEW U \in SUBSET T, U # T  PROVE  it[U] = Of(U)[U] /\ it[U] \in V
    <3>1. Of(U) \in [SUBSET U -> V] /\ U \in SUBSET U
      BY <2>0, <2>2
    <3> QED BY <2>2, <3>1
  <2>3. ASSUME T # {}  PROVE  it[rest] \in V /\ it[T] = step[<< pick[T], it[rest] >>]
    <3>1. it[rest] = Of(rest)[rest] /\ it[rest] \in V
      BY <2>1, <2>2, <2>3
    <3> QED BY <2>3, <3>1
  <2>4. it \in [SUBSET T -> V]
    <3>1. it[T] \in V
      <4>1. CASE T = {}
        BY <4>1
      <4>2. CASE T # {}
        <5>1. pick[T] \in S
          BY <4>2
        <5> HIDE DEF it
        <5> QED BY <2>3, <4>2, <5>1
      <4> QED BY <4>1, <4>2
    <3>2. \A U \in SUBSET T : it[U] \in V
      <4> HIDE DEF it
      <4> QED BY <2>2, <3>1
    <3>3. it = [ U \in SUBSET T |-> it[U] ]
      OBVIOUS
    <3> HIDE DEF it
    <3> QED BY <3>2, <3>3
  <2>5. ASSUME NEW U \in SUBSET T
        PROVE  it[U] = IF U = {} THEN base ELSE step[<< pick[U], it[U \ {pick[U]}] >>]
    <3>1. CASE U = T
      <4>1. T = {} => it[T] = base
        OBVIOUS
      <4> HIDE DEF it
      <4> QED BY <2>3, <3>1, <4>1
    <3>2. CASE U # T
      <4>1. Of(U)[U] = IF U = {} THEN base ELSE step[<< pick[U], Of(U)[U \ {pick[U]}] >>]
        BY <2>0, <3>2 DEF Folds
      <4>2. ASSUME U # {}  PROVE  Of(U)[U \ {pick[U]}] = it[U \ {pick[U]}]
        <5> DEFINE u == U \ {pick[U]}
        <5>1. u \in SUBSET U /\ u \in SUBSET T /\ u # T /\ u \in SUBSET S
          BY <2>1, <4>2
        <5>2. Way(Of(u), u) /\ Way(Of(U), U)
          <6> HIDE DEF u, Way
          <6> QED BY <2>0, <3>2, <5>1
        <5>3. Of(U)[u] = Of(u)[u]
          <6>1. u \subseteq U \cap u /\ u \in G
            <7> HIDE DEF u, G
            <7> QED BY <1>2, <5>1
          <6> HIDE DEF u, Way
          <6> QED BY <5>2, <6>1
        <5>4. it[u] = Of(u)[u]
          <6> HIDE DEF u, it
          <6> QED BY <2>2, <5>1
        <5> QED BY <5>3, <5>4
      <4> HIDE DEF it
      <4> QED BY <2>2, <3>2, <4>1, <4>2
    <3> QED BY <3>1, <3>2
  <2>6. Way(it, T)
    <3> HIDE DEF it
    <3> QED BY <2>4, <2>5 DEF Folds
  <2> HIDE DEF it, Way
  <2> QED BY <2>6
<1>4. SUBSET S \subseteq F
  <2> HIDE DEF F
  <2> QED BY <1>3, SubsetInduction
<1>5. \E it : Way(it, S)
  <2> HIDE DEF Way
  <2> QED BY <1>4
<1> QED BY <1>5

-----------------------------------------------------------------------------
(* The sum is what its recursion says *)

(* The element that a sum takes last *)
Chosen(S) == CHOOSE x \in S : TRUE

(* f is a natural on every element of the finite set S. *)
Summable(f, S) == IsFiniteSet(S) /\ \A x \in S : f[x] \in Nat

(* What can be summed can be summed over less. *)
LEMMA SummablePart ==
  ASSUME NEW f, NEW S, Summable(f, S), NEW T \in SUBSET S
  PROVE  Summable(f, T)
BY FS_Subset DEF Summable

(* it gives the sum of each subset of S *)
Sums(it, f, S) ==
  it = [ s \in SUBSET S |-> IF s = {} THEN 0 ELSE f[Chosen(s)] + it[s \ {Chosen(s)}] ]

(* The element that is picked of a set is one of it. *)
LEMMA ChosenIn == ASSUME NEW S, S # {}  PROVE Chosen(S) \in S
BY DEF Chosen

(* The sums of the subsets of T are among those of the subsets of S. *)
LEMMA SumsRestrict ==
  ASSUME NEW S, NEW T \in SUBSET S, NEW f, NEW it, Sums(it, f, S)
  PROVE  Sums([ s \in SUBSET T |-> it[s] ], f, T)
<1> DEFINE part == [ s \in SUBSET T |-> it[s] ]
<1>1. ASSUME NEW s \in SUBSET T
      PROVE  part[s] = IF s = {} THEN 0 ELSE f[Chosen(s)] + part[s \ {Chosen(s)}]
  <2>1. s \in SUBSET S /\ s \ {Chosen(s)} \in SUBSET T
    OBVIOUS
  <2>2. it[s] = IF s = {} THEN 0 ELSE f[Chosen(s)] + it[s \ {Chosen(s)}]
    BY <2>1 DEF Sums
  <2>3. part[s] = it[s] /\ part[s \ {Chosen(s)}] = it[s \ {Chosen(s)}]
    BY <2>1
  <2> QED BY <2>2, <2>3
<1>2. part = [ s \in SUBSET T |-> part[s] ]
  OBVIOUS
<1> HIDE DEF part
<1>3. part = [ s \in SUBSET T |->
                 IF s = {} THEN 0 ELSE f[Chosen(s)] + part[s \ {Chosen(s)}] ]
  BY <1>1, <1>2
<1>4. Sums(part, f, T)
  BY <1>3 DEF Sums
<1> QED BY <1>4 DEF part

(* A set has its sums in one way. *)
LEMMA SumsUnique ==
  ASSUME NEW S, IsFiniteSet(S), NEW f, NEW a, NEW b, Sums(a, f, S), Sums(b, f, S)
  PROVE  \A s \in SUBSET S : a[s] = b[s]
<1> DEFINE F == { s \in SUBSET S : a[s] = b[s] }
<1>1. ASSUME NEW T \in SUBSET S, \A U \in SUBSET T : U # T => U \in F
      PROVE  T \in F
  <2>1. /\ a[T] = IF T = {} THEN 0 ELSE f[Chosen(T)] + a[T \ {Chosen(T)}]
        /\ b[T] = IF T = {} THEN 0 ELSE f[Chosen(T)] + b[T \ {Chosen(T)}]
    BY DEF Sums
  <2>2. CASE T = {}
    BY <2>1, <2>2
  <2>3. CASE T # {}
    <3>1. T \ {Chosen(T)} \in SUBSET T /\ T \ {Chosen(T)} # T
      BY <2>3, ChosenIn
    <3>2. a[T \ {Chosen(T)}] = b[T \ {Chosen(T)}]
      BY <1>1, <3>1
    <3> QED BY <2>1, <2>3, <3>2
  <2> QED BY <2>2, <2>3
<1>2. SUBSET S \subseteq F
  <2> HIDE DEF F
  <2> QED BY <1>1, SubsetInduction
<1> QED BY <1>2

(* What can be summed has its sums. *)
LEMMA SumsExist ==
  ASSUME NEW S, NEW f, Summable(f, S)
  PROVE  \E it : Sums(it, f, S)
<1> DEFINE step == [ p \in S \X Nat |-> f[p[1]] + p[2] ]
           pick == [ T \in SUBSET S |-> Chosen(T) ]
<1>1. IsFiniteSet(S) /\ 0 \in Nat /\ step \in [S \X Nat -> Nat]
  BY DEF Summable
<1>2. \A T \in SUBSET S : T # {} => pick[T] \in T
  BY ChosenIn
<1>3. PICK it \in [SUBSET S -> Nat] : Folds(it, S, 0, step, pick)
  <2> HIDE DEF step, pick
  <2> QED BY <1>1, <1>2, FoldExists
<1>4. ASSUME NEW T \in SUBSET S
      PROVE  it[T] = IF T = {} THEN 0 ELSE f[Chosen(T)] + it[T \ {Chosen(T)}]
  <2>1. it[T] = IF T = {} THEN 0 ELSE step[<< pick[T], it[T \ {pick[T]}] >>]
    BY <1>3 DEF Folds
  <2>2. ASSUME T # {}
        PROVE  step[<< pick[T], it[T \ {pick[T]}] >>] = f[Chosen(T)] + it[T \ {Chosen(T)}]
    <3>1. pick[T] = Chosen(T) /\ pick[T] \in S /\ it[T \ {pick[T]}] \in Nat
      BY <1>2, <2>2
    <3> QED BY <3>1
  <2> QED BY <2>1, <2>2
<1>5. it = [ T \in SUBSET S |-> it[T] ]
  OBVIOUS
<1>6. it = [ T \in SUBSET S |-> IF T = {} THEN 0 ELSE f[Chosen(T)] + it[T \ {Chosen(T)}] ]
  BY <1>4, <1>5
<1> QED BY <1>6 DEF Sums

(* The sum over a set that is not empty is that of some element and of the rest. *)
LEMMA SumIs ==
  ASSUME NEW S, NEW f, Summable(f, S)
  PROVE  SumFunctionOnSet(f, S) =
           IF S = {} THEN 0
           ELSE f[Chosen(S)] + SumFunctionOnSet(f, S \ {Chosen(S)})
<1> DEFINE Of(T) == CHOOSE it : Sums(it, f, T)
<1>1. ASSUME NEW T  PROVE  SumFunctionOnSet(f, T) = Of(T)[T]
  BY DEF SumFunctionOnSet, FoldFunctionOnSet, MapThenFoldSet, Sums, Chosen
<1>2. ASSUME NEW T \in SUBSET S  PROVE  Sums(Of(T), f, T)
  <2>1. \E it : Sums(it, f, T)
    BY SummablePart, SumsExist
  <2> QED BY <2>1
<1> HIDE DEF Of
<1>3. Of(S)[S] = IF S = {} THEN 0 ELSE f[Chosen(S)] + Of(S)[S \ {Chosen(S)}]
  BY <1>2 DEF Sums
<1> DEFINE u == S \ {Chosen(S)}
           part == [ v \in SUBSET u |-> Of(S)[v] ]
<1> HIDE DEF part
<1>4. part[u] = Of(u)[u]
  <2>1. IsFiniteSet(u)
    BY FS_Subset DEF Summable
  <2>2. Sums(part, f, u)
    <3>1. u \in SUBSET S /\ Sums(Of(S), f, S)
      BY <1>2
    <3> HIDE DEF u
    <3> QED BY <3>1, SumsRestrict DEF part
  <2>3. Sums(Of(u), f, u)
    BY <1>2
  <2>4. \A v \in SUBSET u : part[v] = Of(u)[v]
    <3> HIDE DEF u
    <3> QED BY <2>1, <2>2, <2>3, SumsUnique
  <2> QED BY <2>4
<1>5. Of(S)[u] = Of(u)[u]
  BY <1>4 DEF part
<1> QED BY <1>1, <1>3, <1>5

-----------------------------------------------------------------------------
(* What sums of naturals are *)

(* A sum of naturals is one. *)
LEMMA SumType ==
  ASSUME NEW f, NEW S, Summable(f, S)
  PROVE  SumFunctionOnSet(f, S) \in Nat
<1> DEFINE F == { T \in SUBSET S : SumFunctionOnSet(f, T) \in Nat }
<1>1. ASSUME NEW T \in SUBSET S, \A U \in SUBSET T : U # T => U \in F
      PROVE  T \in F
  <2>1. Summable(f, T)
    BY SummablePart
  <2>2. SumFunctionOnSet(f, T) =
          IF T = {} THEN 0 ELSE f[Chosen(T)] + SumFunctionOnSet(f, T \ {Chosen(T)})
    BY <2>1, SumIs
  <2>3. CASE T = {}
    BY <2>2, <2>3
  <2>4. CASE T # {}
    <3>1. Chosen(T) \in T
      BY <2>4, ChosenIn
    <3>2. T \ {Chosen(T)} \in F /\ f[Chosen(T)] \in Nat
      BY <1>1, <3>1 DEF Summable
    <3> QED BY <2>2, <2>4, <3>2
  <2> QED BY <2>3, <2>4
<1>2. SUBSET S \subseteq F
  <2>1. IsFiniteSet(S)
    BY DEF Summable
  <2> HIDE DEF F
  <2> QED BY <1>1, <2>1, SubsetInduction
<1> QED BY <1>2

(* There is nothing to add up in the empty set ... *)
LEMMA SumEmpty ==
  ASSUME NEW f
  PROVE  SumFunctionOnSet(f, {}) = 0
<1>1. Summable(f, {})
  BY FS_EmptySet DEF Summable
<1> QED BY <1>1, SumIs

(* ... and any element of another can be added last. *)
LEMMA SumRemove ==
  ASSUME NEW f, NEW S, Summable(f, S), NEW x \in S
  PROVE  SumFunctionOnSet(f, S) = f[x] + SumFunctionOnSet(f, S \ {x})
<1> DEFINE sum(T) == SumFunctionOnSet(f, T)
           F == { T \in SUBSET S : \A y \in T : sum(T) = f[y] + sum(T \ {y}) }
<1>1. ASSUME NEW T \in SUBSET S, \A U \in SUBSET T : U # T => U \in F,
             NEW y \in T
      PROVE  sum(T) = f[y] + sum(T \ {y})
  <2>1. PICK z : z = Chosen(T)
    OBVIOUS
  <2>2. z \in T
    BY <2>1, ChosenIn
  <2>3. Summable(f, T)
    BY SummablePart
  <2>4. sum(T) = f[z] + sum(T \ {z})
    BY <2>1, <2>2, <2>3, SumIs
  <2>5. CASE y = z
    BY <2>4, <2>5
  <2>6. CASE y # z
    <3>1. T \ {z} \in F /\ T \ {y} \in F
      BY <1>1, <2>2
    <3>2. sum(T \ {z}) = f[y] + sum((T \ {z}) \ {y})
      BY <2>6, <3>1
    <3>3. sum(T \ {y}) = f[z] + sum((T \ {y}) \ {z})
      BY <2>2, <2>6, <3>1
    <3>4. (T \ {z}) \ {y} = (T \ {y}) \ {z}
      OBVIOUS
    <3>5. sum((T \ {z}) \ {y}) \in Nat
      <4>1. (T \ {z}) \ {y} \in SUBSET S
        OBVIOUS
      <4>2. Summable(f, (T \ {z}) \ {y})
        BY <4>1, SummablePart
      <4> QED BY <4>2, SumType
    <3>6. f[y] \in Nat /\ f[z] \in Nat
      BY <2>2 DEF Summable
    <3>7. sum((T \ {z}) \ {y}) = sum((T \ {y}) \ {z})
      BY <3>4
    <3> HIDE DEF sum
    <3> QED BY <2>4, <3>2, <3>3, <3>5, <3>6, <3>7
  <2> QED BY <2>5, <2>6
<1>2. ASSUME NEW T \in SUBSET S, \A U \in SUBSET T : U # T => U \in F
      PROVE  T \in F
  BY <1>1, <1>2
<1>3. SUBSET S \subseteq F
  <2>1. IsFiniteSet(S)
    BY DEF Summable
  <2> HIDE DEF F
  <2> QED BY <1>2, <2>1, SubsetInduction
<1>4. S \in SUBSET S
  OBVIOUS
<1> QED BY <1>3, <1>4

(* Functions that agree on a set have one sum over it. *)
LEMMA SumSame ==
  ASSUME NEW f, NEW g, NEW S, Summable(f, S), \A x \in S : f[x] = g[x]
  PROVE  SumFunctionOnSet(f, S) = SumFunctionOnSet(g, S)
<1> DEFINE F == { T \in SUBSET S : SumFunctionOnSet(f, T) = SumFunctionOnSet(g, T) }
<1>1. ASSUME NEW T \in SUBSET S, \A U \in SUBSET T : U # T => U \in F
      PROVE  T \in F
  <2>1. Summable(f, T) /\ Summable(g, T)
    <3>1. Summable(g, S)
      BY DEF Summable
    <3> QED BY <3>1, SummablePart
  <2>2. CASE T = {}
    BY <2>2, SumEmpty
  <2>3. CASE T # {}
    <3>1. Chosen(T) \in T
      BY <2>3, ChosenIn
    <3>2. T \ {Chosen(T)} \in F /\ f[Chosen(T)] = g[Chosen(T)]
      BY <1>1, <3>1
    <3>3. SumFunctionOnSet(f, T) = f[Chosen(T)] + SumFunctionOnSet(f, T \ {Chosen(T)})
      BY <2>1, <2>3, SumIs
    <3>4. SumFunctionOnSet(g, T) = g[Chosen(T)] + SumFunctionOnSet(g, T \ {Chosen(T)})
      BY <2>1, <2>3, SumIs
    <3> QED BY <3>2, <3>3, <3>4
  <2> QED BY <2>2, <2>3
<1>2. SUBSET S \subseteq F
  <2>1. IsFiniteSet(S)
    BY DEF Summable
  <2> HIDE DEF F
  <2> QED BY <1>1, <2>1, SubsetInduction
<1> QED BY <1>2

(* The sum over two sets apart is the sum of their sums. *)
LEMMA SumUnion ==
  ASSUME NEW f, NEW A, NEW B, Summable(f, A), Summable(f, B), A \cap B = {}
  PROVE  SumFunctionOnSet(f, A \cup B)
           = SumFunctionOnSet(f, A) + SumFunctionOnSet(f, B)
<1> DEFINE sum(T) == SumFunctionOnSet(f, T)
           F == { T \in SUBSET A : sum(T \cup B) = sum(T) + sum(B) }
<1>0. Summable(f, A \cup B)
  <2>1. IsFiniteSet(A \cup B)
    BY FS_Union DEF Summable
  <2> QED BY <2>1 DEF Summable
<1>1. ASSUME NEW T \in SUBSET A, \A U \in SUBSET T : U # T => U \in F
      PROVE  T \in F
  <2>1. CASE T = {}
    <3>1. T \cup B = B /\ sum(T) = 0 /\ sum(B) \in Nat
      BY <2>1, SumEmpty, SumType
    <3>2. sum(T \cup B) = sum(B)
      BY <3>1
    <3>3. sum(T \cup B) = sum(T) + sum(B)
      <4> HIDE DEF sum
      <4> QED BY <3>1, <3>2
    <3> QED BY <3>3
  <2>2. CASE T # {}
    <3>1. PICK x : x \in T
      BY <2>2
    <3> DEFINE u == T \ {x}
    <3>2. sum(u \cup B) = sum(u) + sum(B)
      BY <1>1, <3>1
    <3>3. /\ Summable(f, T) /\ Summable(f, T \cup B) /\ Summable(f, u)
          /\ f[x] \in Nat
      <4>1. T \cup B \in SUBSET (A \cup B) /\ u \in SUBSET A
        OBVIOUS
      <4>2. Summable(f, T) /\ Summable(f, T \cup B) /\ Summable(f, u)
        BY <1>0, <4>1, SummablePart
      <4>3. f[x] \in Nat
        BY <3>1 DEF Summable
      <4> QED BY <4>2, <4>3
    <3>4. sum(T) = f[x] + sum(u)
      BY <3>1, <3>3, SumRemove
    <3>5. (T \cup B) \ {x} = u \cup B
      BY <3>1
    <3>6. sum(T \cup B) = f[x] + sum((T \cup B) \ {x})
      BY <3>1, <3>3, SumRemove
    <3>7. sum(T \cup B) = f[x] + sum(u \cup B)
      BY <3>5, <3>6
    <3>8. sum(u) \in Nat /\ sum(B) \in Nat
      BY <3>3, SumType
    <3>9. sum(T \cup B) = sum(T) + sum(B)
      <4> HIDE DEF sum, u
      <4> QED BY <3>2, <3>3, <3>4, <3>7, <3>8
    <3> QED BY <3>9
  <2> QED BY <2>1, <2>2
<1>2. SUBSET A \subseteq F
  <2>1. IsFiniteSet(A)
    BY DEF Summable
  <2> HIDE DEF F
  <2> QED BY <1>1, <2>1, SubsetInduction
<1>3. A \in SUBSET A
  OBVIOUS
<1> QED BY <1>2, <1>3

(* What is summed over a part is no more than over the whole, and as much when
   the rest is nothing. *)
LEMMA SumPart ==
  ASSUME NEW f, NEW S, Summable(f, S), NEW T \in SUBSET S
  PROVE  /\ SumFunctionOnSet(f, T) <= SumFunctionOnSet(f, S)
         /\ (\A x \in S \ T : f[x] = 0) =>
              SumFunctionOnSet(f, T) = SumFunctionOnSet(f, S)
<1> DEFINE sum(U) == SumFunctionOnSet(f, U)
           rest == S \ T
<1>1. Summable(f, T) /\ Summable(f, rest)
  BY SummablePart
<1>2. T \cup rest = S
  OBVIOUS
<1>3. sum(T \cup rest) = sum(T) + sum(rest)
  BY <1>1, SumUnion
<1>4. sum(T) \in Nat /\ sum(rest) \in Nat
  BY <1>1, SumType
<1>5. ASSUME \A x \in rest : f[x] = 0  PROVE  sum(rest) = 0
  <2> DEFINE F == { U \in SUBSET rest : sum(U) = 0 }
  <2>1. ASSUME NEW U \in SUBSET rest, \A V \in SUBSET U : V # U => V \in F
        PROVE  U \in F
    <3>1. CASE U = {}
      BY <3>1, SumEmpty
    <3>2. CASE U # {}
      <4>1. PICK x : x \in U
        BY <3>2
      <4>2. Summable(f, U)
        BY <1>1, SummablePart
      <4>3. sum(U) = f[x] + sum(U \ {x})
        BY <4>1, <4>2, SumRemove
      <4>4. sum(U \ {x}) = 0 /\ f[x] = 0
        BY <1>5, <2>1, <4>1
      <4> QED BY <4>3, <4>4
    <3> QED BY <3>1, <3>2
  <2>2. SUBSET rest \subseteq F
    <3>1. IsFiniteSet(rest)
      BY <1>1 DEF Summable
    <3> HIDE DEF F, rest
    <3> QED BY <2>1, <3>1, SubsetInduction
  <2>3. rest \in SUBSET rest
    OBVIOUS
  <2> HIDE DEF rest
  <2> QED BY <2>2, <2>3
<1>6. sum(S) = sum(T) + sum(rest)
  BY <1>2, <1>3
<1> HIDE DEF sum
<1> QED BY <1>4, <1>5, <1>6 DEF sum

(* A sum of naturals that comes to nothing is of nothing but zeros. *)
LEMMA SumZero ==
  ASSUME NEW f, NEW S, Summable(f, S), SumFunctionOnSet(f, S) = 0, NEW x \in S
  PROVE  f[x] = 0
<1>1. SumFunctionOnSet(f, S) = f[x] + SumFunctionOnSet(f, S \ {x})
  BY SumRemove
<1>2. f[x] \in Nat /\ SumFunctionOnSet(f, S \ {x}) \in Nat
  BY SummablePart, SumType DEF Summable
<1> QED BY <1>1, <1>2

(* The sum over one element is its value. *)
LEMMA SumOne ==
  ASSUME NEW f, NEW x, f[x] \in Nat
  PROVE  SumFunctionOnSet(f, {x}) = f[x]
<1>1. Summable(f, {x})
  BY FS_Singleton DEF Summable
<1>2. SumFunctionOnSet(f, {x}) = f[x] + SumFunctionOnSet(f, {x} \ {x})
  BY <1>1, SumRemove
<1>3. {x} \ {x} = {}
  OBVIOUS
<1> QED BY <1>2, <1>3, SumEmpty

(* Counting is adding ones. *)
LEMMA CountIsSum ==
  ASSUME NEW S, IsFiniteSet(S), NEW f, \A x \in S : f[x] = 1
  PROVE  SumFunctionOnSet(f, S) = Cardinality(S)
<1> DEFINE F == { T \in SUBSET S : SumFunctionOnSet(f, T) = Cardinality(T) }
<1>1. ASSUME NEW T \in SUBSET S, \A U \in SUBSET T : U # T => U \in F
      PROVE  T \in F
  <2>1. IsFiniteSet(T)
    BY FS_Subset
  <2>2. CASE T = {}
    BY <2>2, SumEmpty, FS_EmptySet
  <2>3. CASE T # {}
    <3>1. PICK x : x \in T
      BY <2>3
    <3>2. SumFunctionOnSet(f, T) = f[x] + SumFunctionOnSet(f, T \ {x})
      <4>1. Summable(f, T)
        BY <2>1 DEF Summable
      <4> QED BY <3>1, <4>1, SumRemove
    <3>3. SumFunctionOnSet(f, T \ {x}) = Cardinality(T \ {x}) /\ f[x] = 1
      BY <1>1, <3>1
    <3>4. Cardinality(T \ {x}) = Cardinality(T) - 1 /\ Cardinality(T) \in Nat
      BY <2>1, <3>1, FS_RemoveElement, FS_CardinalityType
    <3> QED BY <3>2, <3>3, <3>4
  <2> QED BY <2>2, <2>3
<1>2. SUBSET S \subseteq F
  <2> HIDE DEF F
  <2> QED BY <1>1, SubsetInduction
<1> QED BY <1>2

-----------------------------------------------------------------------------
(* Sums over groups *)

Group(S, key, g) == { x \in S : key[x] = g }

(* What is summed group by group is summed over all: h gives each key the sum
   of the elements that have it. *)
THEOREM SumByKey ==
  ASSUME NEW f, NEW S, Summable(f, S), NEW key, NEW K, IsFiniteSet(K),
         \A x \in S : key[x] \in K,
         NEW h, \A g \in K : h[g] = SumFunctionOnSet(f, Group(S, key, g))
  PROVE  Summable(h, K) /\ SumFunctionOnSet(h, K) = SumFunctionOnSet(f, S)
<1> DEFINE of(L) == { x \in S : key[x] \in L }
           F == { L \in SUBSET K :
                    SumFunctionOnSet(h, L) = SumFunctionOnSet(f, of(L)) }
<1>1. ASSUME NEW T \in SUBSET S  PROVE Summable(f, T)
  BY <1>1, SummablePart
<1>2. Summable(h, K)
  <2>1. ASSUME NEW g \in K  PROVE  h[g] \in Nat
    <3>1. Summable(f, Group(S, key, g))
      BY <1>1 DEF Group
    <3> QED BY <3>1, SumType
  <2> QED BY <2>1 DEF Summable
<1>3. ASSUME NEW L \in SUBSET K, \A M \in SUBSET L : M # L => M \in F
      PROVE  L \in F
  <2>1. CASE L = {}
    <3>1. of(L) = {}
      BY <2>1
    <3> QED BY <2>1, <3>1, SumEmpty
  <2>2. CASE L # {}
    <3>1. PICK g : g \in L
      BY <2>2
    <3> DEFINE M == L \ {g}
    <3>2. SumFunctionOnSet(h, L) = h[g] + SumFunctionOnSet(h, M)
      <4>1. Summable(h, L)
        BY <1>2, SummablePart
      <4> QED BY <3>1, <4>1, SumRemove
    <3>3. SumFunctionOnSet(h, M) = SumFunctionOnSet(f, of(M))
      BY <1>3, <3>1
    <3>4. h[g] = SumFunctionOnSet(f, Group(S, key, g))
      BY <3>1
    <3>5. of(L) = Group(S, key, g) \cup of(M) /\ Group(S, key, g) \cap of(M) = {}
      BY <3>1 DEF Group
    <3>6. Summable(f, Group(S, key, g)) /\ Summable(f, of(M))
      BY <1>1 DEF Group
    <3>7. SumFunctionOnSet(f, of(L)) =
            SumFunctionOnSet(f, Group(S, key, g)) + SumFunctionOnSet(f, of(M))
      <4> HIDE DEF of, M
      <4> QED BY <3>5, <3>6, SumUnion
    <3> HIDE DEF of, M
    <3> QED BY <3>2, <3>3, <3>4, <3>7
  <2> QED BY <2>1, <2>2
<1>4. SUBSET K \subseteq F
  <2> HIDE DEF F
  <2> QED BY <1>3, SubsetInduction
<1>5. K \in SUBSET K /\ of(K) = S
  OBVIOUS
<1>6. SumFunctionOnSet(h, K) = SumFunctionOnSet(f, S)
  BY <1>4, <1>5
<1> QED BY <1>2, <1>6

(* When no two elements have one key, the keys carry the values of theirs. *)
LEMMA SumRenamed ==
  ASSUME NEW f, NEW S, Summable(f, S), NEW key, NEW K, IsFiniteSet(K),
         K = { key[x] : x \in S },
         \A x, y \in S : key[x] = key[y] => x = y,
         NEW h, \A x \in S : h[key[x]] = f[x]
  PROVE  Summable(h, K) /\ SumFunctionOnSet(h, K) = SumFunctionOnSet(f, S)
<1>1. ASSUME NEW g \in K  PROVE  h[g] = SumFunctionOnSet(f, Group(S, key, g))
  <2>1. PICK x \in S : key[x] = g
    OBVIOUS
  <2>2. Group(S, key, g) = {x}
    BY <2>1 DEF Group
  <2>3. SumFunctionOnSet(f, {x}) = f[x]
    BY SumOne DEF Summable
  <2> QED BY <2>1, <2>2, <2>3
<1>2. \A x \in S : key[x] \in K
  OBVIOUS
<1> QED BY <1>1, <1>2, SumByKey

-----------------------------------------------------------------------------
(* The best of a set *)

(* Of a finite set with natural values, any number of elements can be taken so
   that none of those left has more. *)
LEMMA BestExist ==
  ASSUME NEW S, NEW h, Summable(h, S), NEW n \in Nat, n <= Cardinality(S)
  PROVE  \E best \in SUBSET S :
           /\ Cardinality(best) = n
           /\ \A x \in best, y \in S \ best : h[x] >= h[y]
<1> DEFINE Best(T, k, best) == /\ Cardinality(best) = k
                               /\ \A x \in best, y \in T \ best : h[x] >= h[y]
           Worst(T, m) == \A x \in T : h[m] <= h[x]
           F == { T \in SUBSET S : T = {} \/ \E m \in T : Worst(T, m) }
           G == { T \in SUBSET S : \A k \in 0 .. Cardinality(T) :
                                     \E best \in SUBSET T : Best(T, k, best) }
<1>1. IsFiniteSet(S) /\ \A x \in S : h[x] \in Nat
  BY DEF Summable
<1>2. ASSUME NEW T \in SUBSET S, \A U \in SUBSET T : U # T => U \in F
      PROVE  T \in F
  <2>1. CASE T = {}
    BY <2>1
  <2>2. CASE T # {}
    <3>1. PICK a : a \in T
      BY <2>2
    <3>2. CASE T = {a}
      <4>1. Worst(T, a)
        BY <1>1, <3>1, <3>2
      <4> QED BY <3>1, <4>1
    <3>3. CASE T # {a}
      <4>1. T \ {a} \in F /\ T \ {a} # {}
        BY <1>2, <3>1, <3>3
      <4>2. PICK m \in T \ {a} : Worst(T \ {a}, m)
        BY <4>1
      <4>3. h[m] <= h[a] => Worst(T, m)
        BY <3>1, <4>2
      <4>4. h[a] < h[m] => Worst(T, a)
        <5> SUFFICES ASSUME h[a] < h[m], NEW x \in T  PROVE  h[a] <= h[x]
          OBVIOUS
        <5>1. h[a] \in Nat /\ h[m] \in Nat /\ h[x] \in Nat
          BY <1>1, <3>1, <4>2
        <5>2. x = a \/ h[m] <= h[x]
          BY <4>2
        <5> QED BY <5>1, <5>2
      <4>5. h[a] < h[m] \/ h[m] <= h[a]
        BY <1>1, <3>1, <4>2
      <4> HIDE DEF Worst
      <4> QED BY <3>1, <4>2, <4>3, <4>4, <4>5
    <3> QED BY <3>2, <3>3
  <2> QED BY <2>1, <2>2
<1>3. SUBSET S \subseteq F
  <2> HIDE DEF F
  <2> QED BY <1>1, <1>2, SubsetInduction
<1>4. ASSUME NEW T \in SUBSET S, \A U \in SUBSET T : U # T => U \in G,
             NEW k \in 0 .. Cardinality(T)
      PROVE  \E best \in SUBSET T : Best(T, k, best)
  <2>1. IsFiniteSet(T)
    BY <1>1, FS_Subset
  <2>2. Cardinality(T) \in Nat
    BY <2>1, FS_CardinalityType
  <2>3. CASE k = Cardinality(T)
    <3>1. Best(T, k, T)
      BY <2>3
    <3> QED BY <3>1
  <2>4. CASE k # Cardinality(T)
    <3>1. T # {}
      <4>1. Cardinality({}) = 0
        BY FS_EmptySet
      <4> QED BY <2>4, <4>1
    <3>2. PICK m \in T : Worst(T, m)
      BY <1>3, <3>1
    <3>3. Cardinality(T \ {m}) = Cardinality(T) - 1
      BY <2>1, FS_RemoveElement
    <3>4. k \in 0 .. Cardinality(T \ {m})
      BY <2>2, <2>4, <3>3
    <3>5. T \ {m} \in G
      BY <1>4
    <3>6. PICK best \in SUBSET (T \ {m}) : Best(T \ {m}, k, best)
      <4> HIDE DEF Best
      <4> QED BY <3>4, <3>5
    <3>7. ASSUME NEW x \in best, NEW y \in T \ best  PROVE  h[x] >= h[y]
      <4>1. CASE y = m
        <5>1. h[m] \in Nat /\ h[x] \in Nat /\ h[m] <= h[x]
          BY <1>1, <3>2
        <5> QED BY <4>1, <5>1
      <4>2. CASE y # m
        BY <3>6, <4>2
      <4> QED BY <4>1, <4>2
    <3>8. Best(T, k, best)
      BY <3>6, <3>7
    <3> QED BY <3>8
  <2> QED BY <2>3, <2>4
<1>5. SUBSET S \subseteq G
  <2>1. ASSUME NEW T \in SUBSET S, \A U \in SUBSET T : U # T => U \in G
        PROVE  T \in G
    <3> HIDE DEF Best
    <3> QED BY <1>4, <2>1
  <2> HIDE DEF G
  <2> QED BY <1>1, <2>1, SubsetInduction
<1>6. n \in 0 .. Cardinality(S) /\ S \in SUBSET S
  <2>1. Cardinality(S) \in Nat
    BY <1>1, FS_CardinalityType
  <2> QED BY <2>1
<1>7. \E best \in SUBSET S : Best(S, n, best)
  <2> HIDE DEF Best
  <2> QED BY <1>5, <1>6
<1> QED BY <1>7
=============================================================================

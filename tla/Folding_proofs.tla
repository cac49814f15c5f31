---------------------------- MODULE Folding_proofs ----------------------------
(***************************************************************************)
(* What the folds of the community modules compute.  A fold is a recursive *)
(* function on the subsets of a finite set; that such a function exists,   *)
(* and is the only one, is shown by looking at a smallest subset for which *)
(* it might not be so.                                                     *)
(***************************************************************************)
EXTENDS Integers, FiniteSets, Functions, FiniteSetTheorems, WellFoundedInduction, TLAPS

\* A set of naturals that holds 0 and the successor of each of its members is Nat.
LEMMA AllNaturals ==
    ASSUME NEW S, S \subseteq Nat, 0 \in S, \A n \in S : n + 1 \in S
    PROVE  S = Nat
<1> SUFFICES ASSUME Nat \ S # {} PROVE FALSE
  OBVIOUS
<1>1. PICK m \in Nat \ S : \A n \in Nat \ S : ~(<<n, m>> \in OpToRel(<, Nat))
  BY NatLessThanWellFounded, WFMin
<1>2. \A n \in Nat \ S : ~(n < m)
  BY <1>1 DEF OpToRel
<1>3. m \in Nat /\ m # 0 /\ m \notin S
  BY <1>1
<1>4. m - 1 \in Nat /\ m - 1 < m /\ (m - 1) + 1 = m
  BY <1>3
<1>5. m - 1 \in S
  BY <1>2, <1>4
<1> QED
  BY <1>3, <1>4, <1>5

\* Every non-empty set of subsets of a finite set has a smallest member.
LEMMA SmallestSubset ==
    ASSUME NEW S, IsFiniteSet(S), NEW F \in SUBSET SUBSET S, F # {}
    PROVE  \E T \in F : \A U \in F : U \subseteq T => U = T
<1>1. F \subseteq FiniteSubsetsOf(S)
  BY FS_Subset DEF FiniteSubsetsOf
<1>2. PICK T \in F : \A U \in F : ~(<<U, T>> \in StrictSubsetOrdering(S))
  BY <1>1, FS_StrictSubsetOrderingWellFounded, WFMin
<1> QED
  BY <1>2 DEF StrictSubsetOrdering

-----------------------------------------------------------------------------
\* g folds step over the subsets of S; each non-empty T gives up its choice[T].
FoldsOver(g, S, base, choice, step) ==
    \A T \in SUBSET S :
      g[T] = IF T = {} THEN base ELSE step[<<T, g[T \ {choice[T]}]>>]

\* Of the functions on the subsets of S those that do so, with values in V.
FoldsIn(S, V, base, choice, step) ==
    {g \in [SUBSET S -> V] : FoldsOver(g, S, base, choice, step)}

\* There is one at most.
LEMMA FoldUnique ==
    ASSUME NEW S, IsFiniteSet(S), NEW V, NEW base, NEW choice, NEW step,
           \A T \in SUBSET S : T # {} => choice[T] \in T,
           NEW g \in FoldsIn(S, V, base, choice, step), NEW h \in FoldsIn(S, V, base, choice, step)
    PROVE  g = h
<1> DEFINE Differ == {T \in SUBSET S : g[T] # h[T]}
<1> SUFFICES ASSUME Differ # {} PROVE FALSE
  BY DEF FoldsIn
<1>1. PICK T \in Differ : \A U \in Differ : U \subseteq T => U = T
  <2>1. Differ \in SUBSET SUBSET S
    OBVIOUS
  <2> HIDE DEF Differ
  <2> QED
    BY <2>1, SmallestSubset
<1>2. T # {}
  BY DEF FoldsIn, FoldsOver
<1>3. T \ {choice[T]} \in SUBSET S /\ T \ {choice[T]} \notin Differ
  BY <1>1, <1>2
<1> QED
  BY <1>2, <1>3 DEF FoldsIn, FoldsOver

\* What g does on the subsets of R.
Part(g, R) == [T \in SUBSET R |-> g[T]]

\* Restricted to the subsets of a subset it folds there.
LEMMA FoldRestricts ==
    ASSUME NEW S, NEW V, NEW base, NEW choice, NEW step, NEW R \in SUBSET S,
           NEW g \in FoldsIn(S, V, base, choice, step)
    PROVE  Part(g, R) \in FoldsIn(R, V, base, choice, step)
<1>1. \A T \in SUBSET R : T \in SUBSET S /\ T \ {choice[T]} \in SUBSET R
  OBVIOUS
<1> QED
  BY <1>1 DEF FoldsIn, FoldsOver, Part

\* There is one.
LEMMA FoldExists ==
    ASSUME NEW S, IsFiniteSet(S), NEW V, NEW base \in V, NEW choice,
           \A T \in SUBSET S : T # {} => choice[T] \in T,
           NEW step \in [(SUBSET S) \X V -> V]
    PROVE  FoldsIn(S, V, base, choice, step) # {}
<1> DEFINE Solutions(T) == FoldsIn(T, V, base, choice, step)
           Missing      == {T \in SUBSET S : Solutions(T) = {}}
<1> SUFFICES ASSUME Missing # {} PROVE FALSE
  OBVIOUS
<1>1. PICK T \in Missing : \A U \in Missing : U \subseteq T => U = T
  <2>1. Missing \in SUBSET SUBSET S
    OBVIOUS
  <2> HIDE DEF Missing
  <2> QED
    BY <2>1, SmallestSubset
<1> DEFINE part == [U \in SUBSET T |-> CHOOSE h : h \in Solutions(U)]
           g    == [U \in SUBSET T |->
                      IF U = {} THEN base ELSE step[<<U, part[U \ {choice[U]}][U \ {choice[U]}]>>]]
<1>2. ASSUME NEW U \in SUBSET T, U # T
      PROVE  part[U] \in Solutions(U)
  BY <1>1, <1>2
<1>3. ASSUME NEW U \in SUBSET T, U # T
      PROVE  g[U] = part[U][U]
  <2>1. CASE U = {}
    BY <1>2, <1>3, <2>1 DEF FoldsIn, FoldsOver
  <2>2. ASSUME U # {} PROVE g[U] = part[U][U]
    <3> DEFINE R == U \ {choice[U]}
    <3>1. R \in SUBSET U /\ R \in SUBSET T /\ R # T /\ choice[U] \in U
      BY <1>3, <2>2
    <3>2. part[R] \in Solutions(R) /\ part[U] \in Solutions(U)
      BY <1>2, <1>3, <3>1
    <3>3. Part(part[U], R) \in Solutions(R)
      <4> HIDE DEF part, R
      <4> QED
        BY <3>1, <3>2, FoldRestricts
    <3>4. IsFiniteSet(R) /\ \A X \in SUBSET R : X # {} => choice[X] \in X
      BY <3>1, FS_Subset
    <3>5. part[R] = Part(part[U], R)
      <4> HIDE DEF part, R
      <4> QED
        BY <3>2, <3>3, <3>4, FoldUnique
    <3>6. part[R][R] = part[U][R]
      BY <3>5 DEF Part
    <3>7. part[U][U] = step[<<U, part[U][R]>>]
      BY <2>2, <3>2 DEF FoldsIn, FoldsOver
    <3> QED
      BY <2>2, <3>6, <3>7
  <2> QED
    BY <2>1, <2>2
<1>4. ASSUME NEW U \in SUBSET T
      PROVE  /\ g[U] = (IF U = {} THEN base ELSE step[<<U, g[U \ {choice[U]}]>>])
             /\ g[U] \in V
  <2>1. ASSUME U = {} PROVE g[U] = base
    BY <2>1
  <2>2. ASSUME U # {}
        PROVE  g[U] = step[<<U, g[U \ {choice[U]}]>>] /\ g[U] \in V
    <3> DEFINE R == U \ {choice[U]}
    <3>1. R \in SUBSET T /\ R # T /\ U \in SUBSET S
      BY <2>2
    <3>2. part[R][R] \in V
      <4>1. part[R] \in Solutions(R)
        BY <1>2, <3>1
      <4>2. part[R] \in [SUBSET R -> V]
        BY <4>1 DEF FoldsIn
      <4> HIDE DEF part, R
      <4> QED
        BY <4>2
    <3>3. g[R] = part[R][R]
      BY <1>3, <3>1
    <3>4. g[U] = step[<<U, part[R][R]>>]
      BY <2>2
    <3>5. g[U] \in V
      BY <3>1, <3>2, <3>4
    <3> QED
      BY <3>3, <3>4, <3>5
  <2> QED
    <3> HIDE DEF g
    <3> QED
      BY <2>1, <2>2
<1>5. g \in Solutions(T)
  <2>1. g \in [SUBSET T -> V]
    BY <1>4
  <2>2. FoldsOver(g, T, base, choice, step)
    BY <1>4 DEF FoldsOver
  <2> QED
    BY <2>1, <2>2 DEF FoldsIn
<1> QED
  BY <1>1, <1>5

-----------------------------------------------------------------------------
(* Sums of functions into the numbers.                                     *)

\* The recursion equation of a sum over the subsets of S.
SumsOver(g, fun, S) ==
    \A T \in SUBSET S :
      g[T] = IF T = {} THEN 0
             ELSE fun[CHOOSE x \in T : TRUE] + g[T \ {CHOOSE x \in T : TRUE}]

\* There is a solution in the numbers.
LEMMA SumExists ==
    ASSUME NEW S, IsFiniteSet(S), NEW fun, \A x \in S : fun[x] \in Nat
    PROVE  \E g \in [SUBSET S -> Nat] : SumsOver(g, fun, S)
<1> DEFINE choice == [T \in SUBSET S |-> CHOOSE x \in T : TRUE]
           step   == [c \in (SUBSET S) \X Nat |->
                        IF c[1] = {} THEN 0 ELSE fun[choice[c[1]]] + c[2]]
<1>1. \A T \in SUBSET S : T # {} => choice[T] \in T
  OBVIOUS
<1>2. step \in [(SUBSET S) \X Nat -> Nat]
  BY <1>1
<1>3. PICK g \in FoldsIn(S, Nat, 0, choice, step) : TRUE
  <2> HIDE DEF choice, step
  <2> QED
    BY <1>1, <1>2, FoldExists
<1>4. g \in [SUBSET S -> Nat] /\ FoldsOver(g, S, 0, choice, step)
  BY <1>3 DEF FoldsIn
<1>5. ASSUME NEW T \in SUBSET S, T # {}
      PROVE  g[T] = fun[CHOOSE x \in T : TRUE] + g[T \ {CHOOSE x \in T : TRUE}]
  <2>1. g[T] = step[<<T, g[T \ {choice[T]}]>>]
    BY <1>4, <1>5 DEF FoldsOver
  <2>2. g[T \ {choice[T]}] \in Nat
    BY <1>4
  <2> QED
    BY <1>5, <2>1, <2>2
<1>6. SumsOver(g, fun, S)
  BY <1>4, <1>5 DEF SumsOver, FoldsOver
<1> QED
  BY <1>4, <1>6

\* It is the only one.
LEMMA SumUnique ==
    ASSUME NEW S, IsFiniteSet(S), NEW fun, NEW g, NEW h, SumsOver(g, fun, S), SumsOver(h, fun, S)
    PROVE  g[S] = h[S]
<1> DEFINE Differ == {T \in SUBSET S : g[T] # h[T]}
<1> SUFFICES ASSUME Differ # {} PROVE FALSE
  OBVIOUS
<1>1. PICK T \in Differ : \A U \in Differ : U \subseteq T => U = T
  <2>1. Differ \in SUBSET SUBSET S
    OBVIOUS
  <2> HIDE DEF Differ
  <2> QED
    BY <2>1, SmallestSubset
<1>2. T # {}
  BY DEF SumsOver
<1> DEFINE x == CHOOSE y \in T : TRUE
<1>3. T \ {x} \in SUBSET S /\ T \ {x} \notin Differ
  BY <1>1, <1>2
<1>4. g[T \ {x}] = h[T \ {x}]
  BY <1>3
<1> QED
  BY <1>2, <1>4 DEF SumsOver

\* It is what the library computes.
LEMMA SumIsFold ==
    ASSUME NEW S, IsFiniteSet(S), NEW fun, \A x \in S : fun[x] \in Nat
    PROVE  \E g \in [SUBSET S -> Nat] : SumsOver(g, fun, S) /\ SumFunctionOnSet(fun, S) = g[S]
<1> DEFINE Body(f) == [s \in SUBSET S |-> IF s = {} THEN 0
                         ELSE fun[CHOOSE x \in s : TRUE] + f[s \ {CHOOSE x \in s : TRUE}]]
           iter    == CHOOSE f : f = Body(f)
<1>1. SumFunctionOnSet(fun, S) = iter[S]
  BY DEF SumFunctionOnSet, FoldFunctionOnSet, MapThenFoldSet
<1>2. PICK g \in [SUBSET S -> Nat] : SumsOver(g, fun, S)
  BY SumExists
<1>3. g = Body(g)
  BY <1>2 DEF SumsOver
<1>4. iter = Body(iter)
  <2> HIDE DEF Body
  <2> QED
    BY <1>3
<1>5. SumsOver(iter, fun, S)
  <2> HIDE DEF iter
  <2> QED
    BY <1>4 DEF SumsOver
<1>6. iter[S] = g[S]
  <2> HIDE DEF iter
  <2> QED
    BY <1>2, <1>5, SumUnique
<1> QED
  BY <1>1, <1>2, <1>6

\* A sum of numbers is a number.
LEMMA SumIsNat ==
    ASSUME NEW S, IsFiniteSet(S), NEW fun \in [S -> Nat]
    PROVE  SumFunction(fun) \in Nat
<1>1. SumFunction(fun) = SumFunctionOnSet(fun, S)
  BY DEF SumFunction
<1>2. \A x \in S : fun[x] \in Nat
  OBVIOUS
<1>3. PICK g \in [SUBSET S -> Nat] : SumFunctionOnSet(fun, S) = g[S]
  BY <1>2, SumIsFold
<1> QED
  BY <1>1, <1>3

\* A sum of zeros.
LEMMA SumOfZeros ==
    ASSUME NEW S, IsFiniteSet(S), NEW fun \in [S -> Nat], \A x \in S : fun[x] = 0
    PROVE  SumFunction(fun) = 0
<1>1. SumFunction(fun) = SumFunctionOnSet(fun, S)
  BY DEF SumFunction
<1>2. PICK g \in [SUBSET S -> Nat] : SumsOver(g, fun, S) /\ SumFunctionOnSet(fun, S) = g[S]
  BY SumIsFold
<1>3. SumsOver([T \in SUBSET S |-> 0], fun, S)
  BY DEF SumsOver
<1>4. [T \in SUBSET S |-> 0][S] = g[S]
  BY <1>2, <1>3, SumUnique
<1> QED
  BY <1>1, <1>2, <1>4

\* A sum grows with each of its terms.
LEMMA SumGrows ==
    ASSUME NEW S, IsFiniteSet(S), NEW fun \in [S -> Nat], NEW more \in [S -> Nat],
           NEW x \in S, \A y \in S : more[y] = fun[y] + (IF y = x THEN 1 ELSE 0)
    PROVE  SumFunction(more) = SumFunction(fun) + 1
<1>1. SumFunction(fun) = SumFunctionOnSet(fun, S) /\ SumFunction(more) = SumFunctionOnSet(more, S)
  BY DEF SumFunction
<1>2. PICK g \in [SUBSET S -> Nat] : SumsOver(g, fun, S) /\ SumFunctionOnSet(fun, S) = g[S]
  BY SumIsFold
<1>3. PICK h \in [SUBSET S -> Nat] : SumsOver(h, more, S) /\ SumFunctionOnSet(more, S) = h[S]
  <2>1. \A y \in S : more[y] \in Nat
    OBVIOUS
  <2> QED
    BY ONLY IsFiniteSet(S), <2>1, SumIsFold
<1> DEFINE k == [T \in SUBSET S |-> g[T] + (IF x \in T THEN 1 ELSE 0)]
<1>4. SumsOver(k, more, S)
  <2> SUFFICES ASSUME NEW T \in SUBSET S
               PROVE  k[T] = IF T = {} THEN 0
                             ELSE more[CHOOSE y \in T : TRUE] + k[T \ {CHOOSE y \in T : TRUE}]
    BY DEF SumsOver
  <2>1. CASE T = {}
    BY <1>2, <2>1 DEF SumsOver
  <2>2. ASSUME T # {}
        PROVE  k[T] = more[CHOOSE y \in T : TRUE] + k[T \ {CHOOSE y \in T : TRUE}]
    <3> DEFINE c == CHOOSE y \in T : TRUE
    <3>1. c \in T /\ g[T] = fun[c] + g[T \ {c}]
      BY <1>2, <2>2 DEF SumsOver
    <3> HIDE DEF c
    <3>2. c \in S /\ fun[c] \in Nat /\ T \ {c} \in SUBSET S /\ g[T \ {c}] \in Nat
      BY <3>1
    <3>3. more[c] = fun[c] + (IF c = x THEN 1 ELSE 0)
      BY <3>1
    <3>4. k[T \ {c}] = g[T \ {c}] + (IF x \in T /\ x # c THEN 1 ELSE 0)
      BY <3>2
    <3> QED
      BY <3>1, <3>2, <3>3, <3>4 DEF c
  <2> QED
    BY <2>1, <2>2
<1>5. k[S] = h[S]
  <2> HIDE DEF k
  <2> QED
    BY <1>3, <1>4, SumUnique
<1> QED
  BY <1>1, <1>2, <1>3, <1>5
===============================================================================

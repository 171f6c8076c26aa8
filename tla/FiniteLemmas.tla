---------------------------- MODULE FiniteLemmas -----------------------------
(***************************************************************************)
(* Facts about finite sets that the proofs about the modules share: least  *)
(* and greatest elements, and what a sum over a finite set is.             *)
(*                                                                         *)
(* Induction is by least counterexample: a set of finite sets, or of       *)
(* numbers, that is not empty has a least element (WFMin).                 *)
(***************************************************************************)
EXTENDS Integers, FiniteSetTheorems, WellFoundedInduction, TLAPS

\* A non-empty family of finite sets has a member that contains no other.
LEMMA LeastSet ==
  ASSUME NEW S, NEW T, T \subseteq FiniteSubsetsOf(S), T # {}
  PROVE  \E x \in T : \A y \in T : y \subseteq x => y = x
<1>1. \E x \in T : \A y \in T : ~ (<<y, x>> \in StrictSubsetOrdering(S))
  BY FS_StrictSubsetOrderingWellFounded, WFMin
<1> QED BY <1>1 DEF StrictSubsetOrdering, FiniteSubsetsOf

\* A non-empty set of natural numbers has a least one.
LEMMA LeastNatural ==
  ASSUME NEW T, T \subseteq Nat, T # {}
  PROVE  \E x \in T : \A y \in T : x <= y
<1> DEFINE F == {0..(k - 1) : k \in T}
<1>1. F \subseteq FiniteSubsetsOf(Int)
  <2> SUFFICES ASSUME NEW k \in T PROVE 0..(k - 1) \in FiniteSubsetsOf(Int)
    OBVIOUS
  <2>1. IsFiniteSet(0..(k - 1))
    BY FS_Interval
  <2> QED BY <2>1 DEF FiniteSubsetsOf
<1>2. F # {}
  OBVIOUS
<1> HIDE DEF F
<1>3. PICK x \in F : \A y \in F : y \subseteq x => y = x
  BY <1>1, <1>2, LeastSet
<1>4. PICK m \in T : x = 0..(m - 1)
  BY <1>3 DEF F
<1>5. ASSUME NEW k \in T, k < m PROVE FALSE
  <2>1. 0..(k - 1) \in F
    BY DEF F
  <2>2. 0..(k - 1) \subseteq 0..(m - 1) /\ k \in 0..(m - 1) /\ k \notin 0..(k - 1)
    BY <1>5
  <2> QED BY <1>3, <1>4, <2>1, <2>2
<1> QED BY <1>4, <1>5

\* A finite non-empty set of natural numbers has a greatest one.
LEMMA GreatestNatural ==
  ASSUME NEW T, T \subseteq Nat, T # {}, IsFiniteSet(T)
  PROVE  \E x \in T : \A y \in T : y <= x
<1> DEFINE Above(k) == {y \in T : k < y}
           F == {Above(k) : k \in T}
<1>1. F \subseteq FiniteSubsetsOf(T)
  BY FS_Subset DEF FiniteSubsetsOf
<1>2. F # {}
  OBVIOUS
<1> HIDE DEF F
<1>3. PICK x \in F : \A y \in F : y \subseteq x => y = x
  BY <1>1, <1>2, LeastSet
<1>4. PICK m \in T : x = Above(m)
  BY <1>3 DEF F
<1>5. ASSUME NEW k \in T, m < k PROVE FALSE
  <2>1. Above(k) \in F
    BY DEF F
  <2>2. k \in Above(m)
    BY <1>5
  <2>3. k \notin Above(k)
    <3>1. k \in Nat
      OBVIOUS
    <3> QED BY <3>1
  <2>4. Above(k) \subseteq Above(m)
    <3>1. SUFFICES ASSUME NEW y \in T, k < y PROVE m < y
      OBVIOUS
    <3>2. k \in Nat /\ m \in Nat /\ y \in Nat
      OBVIOUS
    <3> QED BY <1>5, <3>1, <3>2
  <2> QED BY <1>3, <1>4, <2>1, <2>2, <2>3, <2>4
<1> QED BY <1>4, <1>5

-----------------------------------------------------------------------------
(***************************************************************************)
(* Sums.  Units(w, s) is a set with w[x] members for each x in s, so its   *)
(* cardinality is the sum of w over s.  It solves the recursion by which   *)
(* the folds of the community modules are defined, and nothing else does.  *)
(***************************************************************************)
Units(w, s) == {u \in s \X Nat : u[2] \in 1..w[u[1]]}

SumOf(w, s) == Cardinality(Units(w, s))

Some(s) == CHOOSE x \in s : TRUE

\* One element's units are as many as its weight.
LEMMA UnitsOfOne ==
  ASSUME NEW n \in Nat, NEW x
  PROVE  IsFiniteSet({x} \X (1..n)) /\ Cardinality({x} \X (1..n)) = n
<1> DEFINE f == [i \in 1..n |-> <<x, i>>]
<1>1. f \in Bijection(1..n, {x} \X (1..n))
  BY DEF Bijection, Injection, Surjection, IsInjective
<1>2. IsFiniteSet(1..n) /\ Cardinality(1..n) = n
  BY FS_Interval
<1> HIDE DEF f
<1> QED BY <1>1, <1>2, FS_Bijection DEF ExistsBijection

\* A finite set has finitely many units.
LEMMA UnitsFinite ==
  ASSUME NEW S, NEW w \in [S -> Nat], NEW s \in FiniteSubsetsOf(S)
  PROVE  IsFiniteSet(Units(w, s))
<1> DEFINE T == {t \in FiniteSubsetsOf(S) : ~IsFiniteSet(Units(w, t))}
<1> SUFFICES ASSUME T # {} PROVE FALSE
  OBVIOUS
<1>1. T \subseteq FiniteSubsetsOf(S)
  OBVIOUS
<1> HIDE DEF T
<1>2. PICK t \in T : \A u \in T : u \subseteq t => u = t
  BY <1>1, LeastSet
<1>3. t \in SUBSET S /\ IsFiniteSet(t) /\ ~IsFiniteSet(Units(w, t))
  BY <1>2 DEF T, FiniteSubsetsOf
<1>4. CASE t = {}
  <2>1. Units(w, t) = {}
    BY <1>4 DEF Units
  <2> QED BY <1>3, <2>1, FS_EmptySet
<1>5. ASSUME NEW x \in t PROVE FALSE
  <2>1. t \ {x} \in FiniteSubsetsOf(S)
    BY <1>3, FS_Subset DEF FiniteSubsetsOf
  <2>2. IsFiniteSet(Units(w, t \ {x}))
    BY <1>2, <2>1 DEF T
  <2>3. IsFiniteSet({x} \X (1..w[x]))
    BY <1>3, UnitsOfOne
  <2>4. Units(w, t) = Units(w, t \ {x}) \cup ({x} \X (1..w[x]))
    BY <1>3 DEF Units
  <2>5. IsFiniteSet(Units(w, t \ {x}) \cup ({x} \X (1..w[x])))
    BY <2>2, <2>3, FS_Union
  <2> QED BY <1>3, <2>4, <2>5
<1> QED BY <1>4, <1>5

\* The empty sum is 0; an element adds its weight to the sum of the others.
LEMMA SumAdd ==
  ASSUME NEW S, NEW w \in [S -> Nat], NEW s \in FiniteSubsetsOf(S)
  PROVE  /\ SumOf(w, s) \in Nat
         /\ s = {} => SumOf(w, s) = 0
         /\ \A x \in s : SumOf(w, s) = w[x] + SumOf(w, s \ {x})
<1>1. SumOf(w, s) \in Nat
  BY UnitsFinite, FS_CardinalityType DEF SumOf
<1>2. ASSUME s = {} PROVE SumOf(w, s) = 0
  <2>1. Units(w, s) = {}
    BY <1>2 DEF Units
  <2> QED BY <2>1, FS_EmptySet DEF SumOf
<1>3. ASSUME NEW x \in s PROVE SumOf(w, s) = w[x] + SumOf(w, s \ {x})
  <2>1. s \ {x} \in FiniteSubsetsOf(S) /\ x \in S /\ w[x] \in Nat
    BY FS_Subset DEF FiniteSubsetsOf
  <2> DEFINE A == Units(w, s \ {x})
             B == {x} \X (1..w[x])
  <2>2. IsFiniteSet(A) /\ Cardinality(A) \in Nat
    BY <2>1, UnitsFinite, FS_CardinalityType
  <2>3. IsFiniteSet(B) /\ Cardinality(B) = w[x]
    BY <2>1, UnitsOfOne
  <2>4. Units(w, s) = A \cup B /\ A \cap B = {}
    BY DEF Units
  <2> HIDE DEF A, B
  <2>5. Cardinality(A \cap B) = 0
    BY <2>4, FS_EmptySet
  <2>6. Cardinality(A \cup B) = Cardinality(A) + Cardinality(B) - Cardinality(A \cap B)
    BY <2>2, <2>3, FS_Union
  <2>7. Cardinality(A \cup B) = w[x] + Cardinality(A)
    BY <2>1, <2>2, <2>3, <2>5, <2>6
  <2> QED BY <2>4, <2>7 DEF SumOf, A
<1> QED BY <1>1, <1>2, <1>3

\* A part of a sum is not more than the sum.
LEMMA SumGrows ==
  ASSUME NEW S, NEW w \in [S -> Nat], NEW t \in FiniteSubsetsOf(S), NEW s \in SUBSET t
  PROVE  SumOf(w, s) \in Nat /\ SumOf(w, s) <= SumOf(w, t)
<1>1. s \in FiniteSubsetsOf(S)
  BY FS_Subset DEF FiniteSubsetsOf
<1>2. IsFiniteSet(Units(w, t)) /\ Units(w, s) \subseteq Units(w, t)
  BY UnitsFinite DEF Units
<1> QED BY <1>1, <1>2, SumAdd, FS_Subset DEF SumOf

\* The recursion that the folds of the community modules spell out.
SumsUp(f, w, S) ==
  f = [s \in SUBSET S |-> IF s = {} THEN 0 ELSE w[Some(s)] + f[s \ {Some(s)}]]

\* Whatever solves it is the sum.
LEMMA SumUnique ==
  ASSUME NEW D, NEW w \in [D -> Nat], NEW S \in FiniteSubsetsOf(D),
         NEW f, SumsUp(f, w, S)
  PROVE  f[S] = SumOf(w, S)
<1> DEFINE T == {s \in SUBSET S : f[s] # SumOf(w, s)}
<1> SUFFICES ASSUME T # {} PROVE FALSE
  OBVIOUS
<1>1. SUBSET S \subseteq FiniteSubsetsOf(D)
  BY FS_Subset DEF FiniteSubsetsOf
<1>2. T \subseteq FiniteSubsetsOf(D)
  BY <1>1
<1> HIDE DEF T
<1>3. PICK t \in T : \A u \in T : u \subseteq t => u = t
  BY <1>2, LeastSet
<1>4. t \in SUBSET S /\ t \in FiniteSubsetsOf(D) /\ f[t] # SumOf(w, t)
  BY <1>1, <1>3 DEF T
<1>5. CASE t = {}
  BY <1>4, <1>5, SumAdd DEF SumsUp
<1>6. CASE t # {}
  <2> DEFINE x == Some(t)
  <2>1. x \in t
    BY <1>6 DEF Some
  <2> HIDE DEF x
  <2>2. t \ {x} \in SUBSET S /\ t \ {x} # t
    BY <1>4, <2>1
  <2>3. f[t \ {x}] = SumOf(w, t \ {x})
    BY <1>3, <2>2 DEF T
  <2>4. f[t] = w[x] + f[t \ {x}]
    BY <1>4, <1>6 DEF SumsUp, x
  <2> QED BY <1>4, <2>1, <2>3, <2>4, SumAdd
<1> QED BY <1>5, <1>6

\* The sum does solve it, so the recursive definition defines something.
LEMMA SumExists ==
  ASSUME NEW D, NEW w \in [D -> Nat], NEW S \in FiniteSubsetsOf(D)
  PROVE  \E f : SumsUp(f, w, S)
<1> DEFINE f == [s \in SUBSET S |-> SumOf(w, s)]
<1>1. SUBSET S \subseteq FiniteSubsetsOf(D)
  BY FS_Subset DEF FiniteSubsetsOf
<1>2. ASSUME NEW s \in SUBSET S
      PROVE  f[s] = IF s = {} THEN 0 ELSE w[Some(s)] + f[s \ {Some(s)}]
  <2>1. CASE s = {}
    BY <1>1, <2>1, SumAdd
  <2>2. CASE s # {}
    <3>1. Some(s) \in s /\ s \ {Some(s)} \in SUBSET S
      BY <2>2 DEF Some
    <3>2. SumOf(w, s) = w[Some(s)] + SumOf(w, s \ {Some(s)})
      BY <1>1, <3>1, SumAdd
    <3> QED BY <2>2, <3>1, <3>2
  <2> QED BY <2>1, <2>2
<1>3. SumsUp(f, w, S)
  BY <1>2 DEF SumsUp
<1> QED BY <1>3
=============================================================================

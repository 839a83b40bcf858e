----------------------------- MODULE SumTheorems -----------------------------
(***************************************************************************)
(* What SumFunctionOnSet of the community modules computes on a finite set *)
(* of naturals or integers: SUM() in the API's SQL, and the totals that    *)
(* invariants speak of.  The induction is over the well-founded ordering   *)
(* of the subsets of a finite set, with the set of good subsets as a set,  *)
(* since no prover here takes an operator as an argument.                  *)
(***************************************************************************)
EXTENDS Integers, FiniteSets, Functions, FiniteSetTheorems, TLAPS

\* The element a fold takes out of s first.
Pick(s) == CHOOSE x \in s : TRUE

\* g is the table of partial sums the fold over S is defined by.
IsSumTable(g, f, S) ==
    g = [s \in SUBSET S |-> IF s = {} THEN 0 ELSE f[Pick(s)] + g[s \ {Pick(s)}]]

SumTable(f, S) == CHOOSE g : IsSumTable(g, f, S)

-----------------------------------------------------------------------------
\* Induction: what holds of a set whenever it holds of its strict subsets
\* holds of every subset of a finite set.
LEMMA SubsetInduction ==
  ASSUME NEW S, IsFiniteSet(S), NEW F,
         \A T \in SUBSET S : (\A U \in SUBSET T : U # T => U \in F) => T \in F
  PROVE  SUBSET S \subseteq F
<1> DEFINE B == (SUBSET S) \ F
<1> SUFFICES ASSUME B # {} PROVE FALSE
  OBVIOUS
<1>1. IsWellFoundedOn(StrictSubsetOrdering(S), SUBSET S)
  <2>1. FiniteSubsetsOf(S) = SUBSET S
    BY FS_FiniteSubsetsOfFinite
  <2>2. IsWellFoundedOn(StrictSubsetOrdering(S), FiniteSubsetsOf(S))
    BY FS_StrictSubsetOrderingWellFounded
  <2> QED
    BY <2>1, <2>2
<1>2. B \subseteq SUBSET S
  OBVIOUS
<1> HIDE DEF B
<1>3. PICK x \in B : \A y \in B : ~ (<<y, x>> \in StrictSubsetOrdering(S))
  BY <1>1, <1>2, WFMin
<1> USE DEF B
<1>4. \A U \in SUBSET x : U # x => U \in F
  BY <1>3 DEF StrictSubsetOrdering
<1> QED
  BY <1>4

\* The fold is the last entry of its table.
LEMMA SumIsTableEntry ==
  ASSUME NEW f, NEW S
  PROVE  SumFunctionOnSet(f, S) = SumTable(f, S)[S]
  BY Zenon DEF SumFunctionOnSet, FoldFunctionOnSet, MapThenFoldSet, SumTable, IsSumTable, Pick

\* A table's entry of the empty set.
LEMMA EmptyEntry ==
  ASSUME NEW f, NEW S, NEW g, IsSumTable(g, f, S)
  PROVE  g[{}] = 0
<1>1. g[{}] = IF {} = {} THEN 0 ELSE f[Pick({})] + g[{} \ {Pick({})}]
  BY Zenon DEF IsSumTable
<1> QED
  BY <1>1

\* ... and of a set with an element: what is picked first plus the rest.
LEMMA TableEntry ==
  ASSUME NEW f, NEW S, NEW g, IsSumTable(g, f, S), NEW T \in SUBSET S, T # {}
  PROVE  /\ Pick(T) \in T
         /\ g[T] = f[Pick(T)] + g[T \ {Pick(T)}]
<1>1. Pick(T) \in T
  BY DEF Pick
<1> HIDE DEF Pick
<1>2. g[T] = IF T = {} THEN 0 ELSE f[Pick(T)] + g[T \ {Pick(T)}]
  BY Zenon DEF IsSumTable
<1> QED
  BY <1>1, <1>2

\* All entries of a table at once.
HasEntries(g, f, S) ==
    \A T \in SUBSET S : T # {} =>
        Pick(T) \in T /\ g[T] = f[Pick(T)] + g[T \ {Pick(T)}]

\* A table has the entries its definition gives it.
LEMMA TableEntries ==
  ASSUME NEW f, NEW S, NEW g, IsSumTable(g, f, S)
  PROVE  HasEntries(g, f, S)
  BY TableEntry DEF HasEntries

\* Two tables agree wherever both are defined and the functions agree.
LEMMA TablesAgree ==
  ASSUME NEW f, NEW e, NEW S, NEW R, NEW h, NEW k, IsFiniteSet(S),
         R \subseteq S, IsSumTable(h, f, S), IsSumTable(k, e, R)
  PROVE  (\A x \in R : f[x] = e[x]) => \A T \in SUBSET R : h[T] = k[T]
<1>1. IsFiniteSet(R)
  BY FS_Subset
<1>2. HasEntries(h, f, S) /\ HasEntries(k, e, R)
  BY TableEntries
<1> HAVE \A x \in R : f[x] = e[x]
<1> DEFINE F == {T \in SUBSET R : h[T] = k[T]}
<1>3. ASSUME NEW T \in SUBSET R, \A U \in SUBSET T : U # T => U \in F
      PROVE  T \in F
  <2>1. T \in SUBSET S
    OBVIOUS
  <2>2. CASE T = {}
    BY <2>1, <2>2, EmptyEntry
  <2>3. CASE T # {}
    <3>1. Pick(T) \in T /\ h[T] = f[Pick(T)] + h[T \ {Pick(T)}]
      BY <2>1, <2>3, <1>2 DEF HasEntries
    <3>2. k[T] = e[Pick(T)] + k[T \ {Pick(T)}]
      BY <2>3, <1>2 DEF HasEntries
    <3>3. T \ {Pick(T)} \in F
      BY <1>3, <3>1
    <3> QED
      BY <3>1, <3>2, <3>3
  <2> QED
    BY <2>2, <2>3
<1> HIDE DEF F
<1>4. SUBSET R \subseteq F
  BY <1>1, <1>3, SubsetInduction
<1> QED
  BY <1>4 DEF F

\* Every finite set has a table.
LEMMA TableExists ==
  ASSUME NEW f, NEW S, IsFiniteSet(S)
  PROVE  \A T \in SUBSET S : IsSumTable(SumTable(f, T), f, T)
<1> DEFINE F == {T \in SUBSET S : IsSumTable(SumTable(f, T), f, T)}
<1>1. ASSUME NEW T \in SUBSET S, \A U \in SUBSET T : U # T => U \in F
      PROVE  T \in F
  <2> DEFINE part(s) == SumTable(f, s \ {Pick(s)})[s \ {Pick(s)}]
             h == [s \in SUBSET T |-> IF s = {} THEN 0 ELSE f[Pick(s)] + part(s)]
  <2>1. ASSUME NEW s \in SUBSET T, s # {}
        PROVE  part(s) = h[s \ {Pick(s)}]
    <3> DEFINE U == s \ {Pick(s)}
    <3>1. Pick(s) \in s
      BY <2>1 DEF Pick
    <3>2. U \in SUBSET T /\ U # T
      BY <3>1
    <3>3. IsSumTable(SumTable(f, U), f, U)
      BY <1>1, <3>2
    <3>4. CASE U = {}
      <4>1. h[U] = 0
        BY <3>2, <3>4
      <4>2. SumTable(f, U)[U] = 0
        <5> HIDE DEF U
        <5>1. U \in SUBSET U
          OBVIOUS
        <5> QED
          BY <3>3, <3>4, <5>1, EmptyEntry
      <4> QED
        BY <4>1, <4>2
    <3>5. CASE U # {}
      <4> DEFINE V == U \ {Pick(U)}
      <4>1. Pick(U) \in U /\ SumTable(f, U)[U] = f[Pick(U)] + SumTable(f, U)[V]
        <5> HIDE DEF U
        <5>1. U \in SUBSET U
          OBVIOUS
        <5> QED
          BY <3>3, <3>5, <5>1, TableEntry
      <4>2. V \in SUBSET T /\ V # T /\ V \subseteq U
        BY <3>2, <4>1
      <4>3. IsSumTable(SumTable(f, V), f, V)
        BY <1>1, <4>2
      <4>4. IsFiniteSet(U)
        BY <3>2, FS_Subset
      <4> HIDE DEF V, U
      <4>5. SumTable(f, U)[V] = SumTable(f, V)[V]
        BY <3>3, <4>2, <4>3, <4>4, TablesAgree
      <4> USE DEF V, U
      <4>6. h[U] = f[Pick(U)] + part(U)
        BY <3>2, <3>5, Zenon
      <4> QED
        BY <4>1, <4>5, <4>6, Zenon
    <3> QED
      BY <3>4, <3>5
  <2>2. IsSumTable(h, f, T)
    <3> DEFINE k == [s \in SUBSET T |-> IF s = {} THEN 0 ELSE f[Pick(s)] + h[s \ {Pick(s)}]]
    <3> HIDE DEF k
    <3>1. ASSUME NEW s \in SUBSET T PROVE h[s] = k[s]
      <4>1. CASE s = {}
        BY <4>1 DEF k
      <4>2. CASE s # {}
        <5>1. h[s] = f[Pick(s)] + part(s)
          BY <4>2, Zenon
        <5>2. k[s] = f[Pick(s)] + h[s \ {Pick(s)}]
          BY <4>2, Zenon DEF k
        <5> HIDE DEF part, h
        <5> QED
          BY <2>1, <4>2, <5>1, <5>2
      <4> QED
        BY <4>1, <4>2
    <3>2. h = k
      BY <3>1, Zenon DEF k
    <3> QED
      BY <3>2, Zenon DEF k, IsSumTable
  <2>3. IsSumTable(SumTable(f, T), f, T)
    <3> HIDE DEF h
    <3> QED
      BY <2>2, Zenon DEF SumTable
  <2> QED
    BY <2>3
<1> HIDE DEF F
<1>2. SUBSET S \subseteq F
  BY <1>1, SubsetInduction
<1> QED
  BY <1>2 DEF F

-----------------------------------------------------------------------------
(* What the rest of the development uses. *)

\* The sum over no element is 0.
LEMMA SumEmpty == \A f : SumFunctionOnSet(f, {}) = 0
<1> SUFFICES ASSUME NEW f PROVE SumFunctionOnSet(f, {}) = 0
  OBVIOUS
<1>1. IsFiniteSet({})
  BY FS_EmptySet
<1>2. IsSumTable(SumTable(f, {}), f, {})
  BY <1>1, TableExists
<1>3. SumTable(f, {})[{}] = 0
  BY <1>2, EmptyEntry
<1> QED
  BY <1>3, SumIsTableEntry

\* The sum over a set is what the fold takes out first plus the rest.
LEMMA SumStep ==
  ASSUME NEW f, NEW S, IsFiniteSet(S), S # {}
  PROVE  /\ Pick(S) \in S
         /\ SumFunctionOnSet(f, S) = f[Pick(S)] + SumFunctionOnSet(f, S \ {Pick(S)})
<1> DEFINE U == S \ {Pick(S)}
<1>1. IsSumTable(SumTable(f, S), f, S) /\ IsSumTable(SumTable(f, U), f, U)
  BY TableExists
<1>2. Pick(S) \in S /\ SumTable(f, S)[S] = f[Pick(S)] + SumTable(f, S)[U]
  <2>1. S \in SUBSET S
    OBVIOUS
  <2> QED
    BY <1>1, <2>1, TableEntry
<1>3. SumTable(f, S)[U] = SumTable(f, U)[U]
  <2>1. U \subseteq S /\ U \in SUBSET U
    OBVIOUS
  <2> HIDE DEF U
  <2> QED
    BY <1>1, <2>1, TablesAgree
<1> QED
  BY <1>2, <1>3, SumIsTableEntry

\* A sum depends only on the values the function has on the set.
LEMMA SumCongruence ==
  ASSUME NEW f, NEW g, NEW S, IsFiniteSet(S), \A x \in S : f[x] = g[x]
  PROVE  SumFunctionOnSet(f, S) = SumFunctionOnSet(g, S)
<1>1. IsSumTable(SumTable(f, S), f, S) /\ IsSumTable(SumTable(g, S), g, S)
  BY TableExists
<1>2. SumTable(f, S)[S] = SumTable(g, S)[S]
  BY <1>1, TablesAgree
<1> QED
  BY <1>2, SumIsTableEntry

\* A sum of naturals is a natural.
LEMMA SumNat ==
  ASSUME NEW f, NEW S, IsFiniteSet(S), \A x \in S : f[x] \in Nat
  PROVE  SumFunctionOnSet(f, S) \in Nat
<1> DEFINE F == {T \in SUBSET S : SumFunctionOnSet(f, T) \in Nat}
<1>1. ASSUME NEW T \in SUBSET S, \A U \in SUBSET T : U # T => U \in F
      PROVE  T \in F
  <2>1. CASE T = {}
    BY <2>1, SumEmpty
  <2>2. CASE T # {}
    <3>1. IsFiniteSet(T)
      BY FS_Subset
    <3>2. Pick(T) \in T
          /\ SumFunctionOnSet(f, T) = f[Pick(T)] + SumFunctionOnSet(f, T \ {Pick(T)})
      BY <2>2, <3>1, SumStep
    <3>3. T \ {Pick(T)} \in F
      BY <1>1, <3>2
    <3> QED
      BY <3>2, <3>3
  <2> QED
    BY <2>1, <2>2
<1> HIDE DEF F
<1>2. SUBSET S \subseteq F
  BY <1>1, SubsetInduction
<1> QED
  BY <1>2 DEF F

\* A sum of integers is an integer.
LEMMA SumInt ==
  ASSUME NEW f, NEW S, IsFiniteSet(S), \A x \in S : f[x] \in Int
  PROVE  SumFunctionOnSet(f, S) \in Int
<1> DEFINE F == {T \in SUBSET S : SumFunctionOnSet(f, T) \in Int}
<1>1. ASSUME NEW T \in SUBSET S, \A U \in SUBSET T : U # T => U \in F
      PROVE  T \in F
  <2>1. CASE T = {}
    BY <2>1, SumEmpty
  <2>2. CASE T # {}
    <3>1. IsFiniteSet(T)
      BY FS_Subset
    <3>2. Pick(T) \in T
          /\ SumFunctionOnSet(f, T) = f[Pick(T)] + SumFunctionOnSet(f, T \ {Pick(T)})
      BY <2>2, <3>1, SumStep
    <3>3. T \ {Pick(T)} \in F
      BY <1>1, <3>2
    <3> QED
      BY <3>2, <3>3
  <2> QED
    BY <2>1, <2>2
<1> HIDE DEF F
<1>2. SUBSET S \subseteq F
  BY <1>1, SubsetInduction
<1> QED
  BY <1>2 DEF F

\* Taking any element out of the set takes its value out of the sum, of integers
\* as of naturals.
LEMMA SumRemoveInt ==
  ASSUME NEW f, NEW S, IsFiniteSet(S), \A x \in S : f[x] \in Int, NEW y \in S
  PROVE  SumFunctionOnSet(f, S) = f[y] + SumFunctionOnSet(f, S \ {y})
<1> DEFINE F == {T \in SUBSET S : \A z \in T :
                   SumFunctionOnSet(f, T) = f[z] + SumFunctionOnSet(f, T \ {z})}
<1>1. ASSUME NEW T \in SUBSET S, \A U \in SUBSET T : U # T => U \in F
      PROVE  T \in F
  <2> SUFFICES ASSUME NEW z \in T
               PROVE  SumFunctionOnSet(f, T) = f[z] + SumFunctionOnSet(f, T \ {z})
    OBVIOUS
  <2>1. IsFiniteSet(T) /\ T # {}
    BY FS_Subset
  <2> DEFINE c == Pick(T)
  <2>2. c \in T /\ SumFunctionOnSet(f, T) = f[c] + SumFunctionOnSet(f, T \ {c})
    BY <2>1, SumStep
  <2> HIDE DEF c
  <2>3. CASE z = c
    BY <2>2, <2>3
  <2>4. CASE z # c
    <3>1. T \ {c} \in F /\ T \ {z} \in F /\ z \in T \ {c} /\ c \in T \ {z}
      BY <1>1, <2>2, <2>4
    <3>2. SumFunctionOnSet(f, T \ {c}) = f[z] + SumFunctionOnSet(f, (T \ {c}) \ {z})
      BY <3>1
    <3>3. SumFunctionOnSet(f, T \ {z}) = f[c] + SumFunctionOnSet(f, (T \ {z}) \ {c})
      BY <3>1
    <3>4. (T \ {c}) \ {z} = (T \ {z}) \ {c}
      OBVIOUS
    <3> DEFINE rest == SumFunctionOnSet(f, (T \ {c}) \ {z})
    <3>5. rest \in Int
      <4>1. IsFiniteSet((T \ {c}) \ {z}) /\ \A x \in (T \ {c}) \ {z} : f[x] \in Int
        BY <2>1, FS_Subset
      <4> QED
        BY <4>1, SumInt
    <3>6. f[z] \in Int /\ f[c] \in Int
      BY <2>2
    <3>7. SumFunctionOnSet(f, T \ {z}) = f[c] + rest
      BY <3>3, <3>4
    <3> HIDE DEF rest
    <3>8. SumFunctionOnSet(f, T) = f[c] + (f[z] + rest)
      BY <2>2, <3>2 DEF rest
    <3> QED
      BY <3>5, <3>6, <3>7, <3>8
  <2> QED
    BY <2>3, <2>4
<1> HIDE DEF F
<1>2. SUBSET S \subseteq F
  BY <1>1, SubsetInduction
<1> QED
  BY <1>2 DEF F

\* ... in particular of naturals.
LEMMA SumRemove ==
  ASSUME NEW f, NEW S, IsFiniteSet(S), \A x \in S : f[x] \in Nat, NEW y \in S
  PROVE  SumFunctionOnSet(f, S) = f[y] + SumFunctionOnSet(f, S \ {y})
<1>1. \A x \in S : f[x] \in Int
  OBVIOUS
<1> QED
  BY <1>1, SumRemoveInt

\* Adding an element to the set adds its value to the sum, of integers as of
\* naturals.
LEMMA SumAddInt ==
  ASSUME NEW f, NEW S, IsFiniteSet(S), NEW y, y \notin S,
         f[y] \in Int, \A x \in S : f[x] \in Int
  PROVE  SumFunctionOnSet(f, S \cup {y}) = f[y] + SumFunctionOnSet(f, S)
<1>1. IsFiniteSet(S \cup {y}) /\ (S \cup {y}) \ {y} = S
  BY FS_AddElement
<1>2. \A x \in S \cup {y} : f[x] \in Int
  OBVIOUS
<1> QED
  BY <1>1, <1>2, SumRemoveInt

\* ... in particular of naturals.
LEMMA SumAdd ==
  ASSUME NEW f, NEW S, IsFiniteSet(S), NEW y, y \notin S,
         f[y] \in Nat, \A x \in S : f[x] \in Nat
  PROVE  SumFunctionOnSet(f, S \cup {y}) = f[y] + SumFunctionOnSet(f, S)
<1>1. f[y] \in Int /\ \A x \in S : f[x] \in Int
  OBVIOUS
<1> QED
  BY <1>1, SumAddInt

\* Changing one value of the function changes the sum by the difference.
LEMMA SumUpdate ==
  ASSUME NEW f, NEW g, NEW S, IsFiniteSet(S), NEW y \in S,
         \A x \in S : f[x] \in Nat /\ g[x] \in Nat,
         \A x \in S \ {y} : f[x] = g[x]
  PROVE  SumFunctionOnSet(f, S) - f[y] = SumFunctionOnSet(g, S) - g[y]
<1>1. SumFunctionOnSet(f, S) = f[y] + SumFunctionOnSet(f, S \ {y})
  BY SumRemove
<1>2. SumFunctionOnSet(g, S) = g[y] + SumFunctionOnSet(g, S \ {y})
  BY SumRemove
<1>3. IsFiniteSet(S \ {y})
  BY FS_Subset
<1>4. SumFunctionOnSet(f, S \ {y}) = SumFunctionOnSet(g, S \ {y})
  BY <1>3, SumCongruence
<1>5. SumFunctionOnSet(f, S \ {y}) \in Nat
  BY <1>3, SumNat
<1> QED
  BY <1>1, <1>2, <1>4, <1>5

\* The sum over a set is the sum over a part of it plus the sum over the rest.
LEMMA SumSplit ==
  ASSUME NEW f, NEW S, IsFiniteSet(S), \A x \in S : f[x] \in Nat, NEW R \in SUBSET S
  PROVE  SumFunctionOnSet(f, S) = SumFunctionOnSet(f, R) + SumFunctionOnSet(f, S \ R)
<1> DEFINE F == {T \in SUBSET S : SumFunctionOnSet(f, S)
                   = SumFunctionOnSet(f, T) + SumFunctionOnSet(f, S \ T)}
<1>1. ASSUME NEW T \in SUBSET S, \A U \in SUBSET T : U # T => U \in F
      PROVE  T \in F
  <2>1. CASE T = {}
    <3>1. S \ T = S /\ SumFunctionOnSet(f, T) = 0
      BY <2>1, SumEmpty
    <3>2. SumFunctionOnSet(f, S) \in Nat
      BY SumNat
    <3> QED
      BY <3>1, <3>2
  <2>2. CASE T # {}
    <3>1. PICK x \in T : TRUE
      BY <2>2
    <3> DEFINE U == T \ {x}
    <3>2. U \in F /\ IsFiniteSet(T) /\ IsFiniteSet(S \ T) /\ IsFiniteSet(S \ U) /\ IsFiniteSet(U)
      BY <1>1, <3>1, FS_Subset
    <3>3. SumFunctionOnSet(f, T) = f[x] + SumFunctionOnSet(f, U)
      BY <3>1, <3>2, SumRemove
    <3>4. SumFunctionOnSet(f, S \ U) = f[x] + SumFunctionOnSet(f, S \ T)
      <4>1. x \in S \ U /\ (S \ U) \ {x} = S \ T
        BY <3>1
      <4> QED
        BY <3>2, <4>1, SumRemove
    <3>5. SumFunctionOnSet(f, U) \in Nat /\ SumFunctionOnSet(f, S \ T) \in Nat /\ f[x] \in Nat
      BY <3>2, SumNat
    <3> HIDE DEF U
    <3>6. SumFunctionOnSet(f, S) = SumFunctionOnSet(f, U) + SumFunctionOnSet(f, S \ U)
      BY <3>2
    <3> QED
      BY <3>3, <3>4, <3>5, <3>6
  <2> QED
    BY <2>1, <2>2
<1> HIDE DEF F
<1>2. SUBSET S \subseteq F
  BY <1>1, SubsetInduction
<1> QED
  BY <1>2 DEF F
\* A sum of zeros is 0.
LEMMA SumZero ==
  ASSUME NEW f, NEW S, IsFiniteSet(S), \A x \in S : f[x] = 0
  PROVE  SumFunctionOnSet(f, S) = 0
<1> DEFINE F == {T \in SUBSET S : SumFunctionOnSet(f, T) = 0}
<1>1. ASSUME NEW T \in SUBSET S, \A U \in SUBSET T : U # T => U \in F
      PROVE  T \in F
  <2>1. CASE T = {}
    BY <2>1, SumEmpty
  <2>2. CASE T # {}
    <3> DEFINE x == Pick(T)
               U == T \ {x}
    <3>1. IsFiniteSet(T)
      BY FS_Subset
    <3>2. x \in T /\ SumFunctionOnSet(f, T) = f[x] + SumFunctionOnSet(f, U)
      BY <2>2, <3>1, SumStep
    <3>3. SumFunctionOnSet(f, U) = 0
      BY <1>1, <3>2
    <3>4. f[x] = 0
      BY <3>2
    <3> HIDE DEF x, U
    <3> QED
      BY <3>2, <3>3, <3>4
  <2> QED
    BY <2>1, <2>2
<1> HIDE DEF F
<1>2. SUBSET S \subseteq F
  BY <1>1, SubsetInduction
<1> QED
  BY <1>2 DEF F
=============================================================================

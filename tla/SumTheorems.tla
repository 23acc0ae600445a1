----------------------------- MODULE SumTheorems -----------------------------
(***************************************************************************)
(* Facts about sums over finite sets, for the proofs that money is         *)
(* conserved.  SumOver(f, S) is what SumFunctionOnSet, SumFunction and     *)
(* MapThenSumSet of the community modules stand for: the fold with + that  *)
(* picks the elements of S one by one.                                     *)
(*                                                                         *)
(* The fold is a function defined by recursion on the subsets of S, so the *)
(* first thing to show is that such a function exists.  All inductions     *)
(* look at a smallest counterexample, which WFMin provides.                *)
(***************************************************************************)
EXTENDS Integers, FiniteSets, Functions, FiniteSetTheorems, TLAPS

Pick(s) == CHOOSE x \in s : TRUE

\* g obeys the equation of the fold on the set D of subsets.
FoldsOn(g, f, D) ==
    g = [s \in D |-> IF s = {} THEN 0 ELSE f[Pick(s)] + g[s \ {Pick(s)}]]

SumOver(f, S) == SumFunctionOnSet(f, S)

IntOn(f, S) == \A x \in S : f[x] \in Int

-----------------------------------------------------------------------------
\* A set of subsets of a finite set that is not empty has a smallest member.
LEMMA SmallestSubset ==
    ASSUME NEW S, IsFiniteSet(S), NEW C, C \subseteq SUBSET S, C # {}
    PROVE  \E T \in C : \A U \in C : U \subseteq T => U = T
<1>1. IsWellFoundedOn(StrictSubsetOrdering(S), FiniteSubsetsOf(S))
  BY FS_StrictSubsetOrderingWellFounded
<1>2. FiniteSubsetsOf(S) = SUBSET S
  BY FS_FiniteSubsetsOfFinite
<1>3. PICK T \in C : \A U \in C : ~ (<<U, T>> \in StrictSubsetOrdering(S))
  BY <1>1, <1>2, WFMin
<1>4. \A U \in C : U \subseteq T => U = T
  BY <1>3 DEF StrictSubsetOrdering
<1> QED
  BY <1>3, <1>4

LEMMA PickIn == \A s : s # {} => Pick(s) \in s
BY DEF Pick

\* The definition of the library, with its recursive function named.
LEMMA SumUnfolds ==
    ASSUME NEW f, NEW S
    PROVE  SumOver(f, S) = (CHOOSE g : FoldsOn(g, f, SUBSET S))[S]
BY Zenon DEF SumOver, SumFunctionOnSet, FoldFunctionOnSet, MapThenFoldSet, FoldsOn, Pick

LEMMA SmallestNumber ==
    ASSUME NEW C, C \subseteq Nat, C # {}
    PROVE  \E m \in C : \A n \in C : m <= n
<1>1. IsWellFoundedOn(OpToRel(<, Nat), Nat)
  BY NatLessThanWellFounded
<1>2. PICK m \in C : \A n \in C : ~ (<<n, m>> \in OpToRel(<, Nat))
  BY <1>1, WFMin
<1>3. \A n \in C : ~ (n < m)
  BY <1>2 DEF OpToRel
<1>4. m \in Nat /\ \A n \in C : n \in Nat
  OBVIOUS
<1>5. \A n \in C : m <= n
  BY <1>3, <1>4
<1> QED
  BY <1>5

\* There is a function that obeys the equation: it is built up to subsets of n elements.
LEMMA FoldExists ==
    ASSUME NEW f, NEW S, IsFiniteSet(S)
    PROVE  \E g : FoldsOn(g, f, SUBSET S)
<1> DEFINE Small(n) == {s \in SUBSET S : Cardinality(s) <= n}
           Bad == {n \in Nat : ~ \E g : FoldsOn(g, f, Small(n))}
<1>1. \A s \in SUBSET S : IsFiniteSet(s) /\ Cardinality(s) \in Nat /\ Cardinality(s) <= Cardinality(S)
  BY FS_Subset, FS_CardinalityType
<1>2. Bad = {}
  <2> SUFFICES ASSUME Bad # {}
               PROVE  FALSE
    OBVIOUS
  <2>1. PICK m \in Bad : \A n \in Bad : m <= n
    <3> HIDE DEF Bad
    <3>1. Bad \subseteq Nat
      BY DEF Bad
    <3> QED
      BY <3>1, SmallestNumber
  <2>2. m \in Nat /\ ~ \E g : FoldsOn(g, f, Small(m))
    OBVIOUS
  <2>3. CASE m = 0
    <3>1. \A s \in Small(m) : s = {}
      BY <1>1, <2>3, FS_EmptySet
    <3>2. FoldsOn([s \in Small(m) |-> 0], f, Small(m))
      BY <3>1 DEF FoldsOn
    <3> QED
      BY <2>2, <3>2
  <2>4. CASE m # 0
    <3>1. m - 1 \in Nat /\ ~ (m <= m - 1)
      BY <2>2, <2>4
    <3>2. PICK h : FoldsOn(h, f, Small(m - 1))
      BY <2>1, <3>1
    <3> DEFINE g == [s \in Small(m) |-> IF s = {} THEN 0 ELSE f[Pick(s)] + h[s \ {Pick(s)}]]
    <3>3. \A s \in Small(m) : s # {} => s \ {Pick(s)} \in Small(m - 1)
      BY <1>1, <2>2, PickIn, FS_RemoveElement
    <3>4. \A s \in Small(m - 1) : s \in Small(m) /\ g[s] = h[s]
      <4>1. \A s \in Small(m - 1) : s \in Small(m)
        BY <1>1, <2>2
      <4>2. \A s \in Small(m - 1) : h[s] = IF s = {} THEN 0 ELSE f[Pick(s)] + h[s \ {Pick(s)}]
        BY <3>2 DEF FoldsOn
      <4> QED
        BY <4>1, <4>2
    <3>5. \A s \in Small(m) : s # {} => g[s \ {Pick(s)}] = h[s \ {Pick(s)}]
      BY <3>3, <3>4
    <3>6. FoldsOn(g, f, Small(m))
      BY <3>5 DEF FoldsOn
    <3> QED
      BY <2>2, <3>6
  <2> QED
    BY <2>3, <2>4
<1>3. Cardinality(S) \in Nat
  BY FS_CardinalityType
<1>4. SUBSET S = Small(Cardinality(S))
  BY <1>1
<1> QED
  BY <1>2, <1>3, <1>4

LEMMA FoldUnique ==
    ASSUME NEW f, NEW S, IsFiniteSet(S), NEW g, NEW D, FoldsOn(g, f, D), SUBSET S \subseteq D,
           NEW h, NEW E, FoldsOn(h, f, E), SUBSET S \subseteq E
    PROVE  g[S] = h[S]
<1> DEFINE Bad == {T \in SUBSET S : g[T] # h[T]}
<1> SUFFICES ASSUME Bad # {}
             PROVE  FALSE
  OBVIOUS
<1>1. PICK T \in Bad : \A U \in Bad : U \subseteq T => U = T
  <2>1. Bad \subseteq SUBSET S /\ Bad # {}
    OBVIOUS
  <2> HIDE DEF Bad
  <2> QED
    BY <2>1, SmallestSubset
<1>2. /\ g[T] = IF T = {} THEN 0 ELSE f[Pick(T)] + g[T \ {Pick(T)}]
      /\ h[T] = IF T = {} THEN 0 ELSE f[Pick(T)] + h[T \ {Pick(T)}]
  BY DEF FoldsOn
<1>3. T # {} => T \ {Pick(T)} \in SUBSET S /\ T \ {Pick(T)} \subseteq T /\ T \ {Pick(T)} # T
  BY PickIn
<1>4. T # {} => g[T \ {Pick(T)}] = h[T \ {Pick(T)}]
  BY <1>1, <1>3
<1> QED
  BY <1>1, <1>2, <1>4

-----------------------------------------------------------------------------
LEMMA SumEquation ==
    ASSUME NEW f, NEW S, IsFiniteSet(S)
    PROVE  SumOver(f, S) = IF S = {} THEN 0 ELSE f[Pick(S)] + SumOver(f, S \ {Pick(S)})
<1> DEFINE iter(T) == CHOOSE g : FoldsOn(g, f, SUBSET T)
           R == S \ {Pick(S)}
<1>1. FoldsOn(iter(S), f, SUBSET S)
  BY FoldExists
<1>2. IsFiniteSet(R)
  BY FS_Difference
<1>3. FoldsOn(iter(R), f, SUBSET R)
  BY <1>2, FoldExists
<1>4. iter(S)[R] = iter(R)[R]
  BY <1>1, <1>2, <1>3, FoldUnique
<1>5. iter(S)[S] = IF S = {} THEN 0 ELSE f[Pick(S)] + iter(S)[R]
  BY <1>1 DEF FoldsOn
<1>6. SumOver(f, S) = iter(S)[S] /\ SumOver(f, R) = iter(R)[R]
  BY SumUnfolds, Zenon
<1> HIDE DEF iter
<1> QED
  BY <1>4, <1>5, <1>6

LEMMA SumEmpty == \A f : SumOver(f, {}) = 0
BY SumEquation, FS_EmptySet

LEMMA SumType ==
    ASSUME NEW f, NEW S, IsFiniteSet(S), IntOn(f, S)
    PROVE  SumOver(f, S) \in Int
<1> DEFINE Bad == {T \in SUBSET S : SumOver(f, T) \notin Int}
<1> SUFFICES ASSUME Bad # {}
             PROVE  FALSE
  OBVIOUS
<1>1. PICK T \in Bad : \A U \in Bad : U \subseteq T => U = T
  <2>1. Bad \subseteq SUBSET S /\ Bad # {}
    OBVIOUS
  <2> HIDE DEF Bad
  <2> QED
    BY <2>1, SmallestSubset
<1>2. IsFiniteSet(T)
  BY FS_Subset
<1>3. SumOver(f, T) = IF T = {} THEN 0 ELSE f[Pick(T)] + SumOver(f, T \ {Pick(T)})
  BY <1>2, SumEquation
<1>4. T # {} => Pick(T) \in S /\ f[Pick(T)] \in Int /\ SumOver(f, T \ {Pick(T)}) \in Int
  BY <1>1, PickIn DEF IntOn
<1> QED
  BY <1>1, <1>3, <1>4

\* The order in which the elements are picked does not matter.
LEMMA SumRemove ==
    ASSUME NEW f, NEW S, IsFiniteSet(S), IntOn(f, S), NEW e \in S
    PROVE  SumOver(f, S) = f[e] + SumOver(f, S \ {e})
<1> DEFINE Bad == {T \in SUBSET S : \E x \in T : SumOver(f, T) # f[x] + SumOver(f, T \ {x})}
<1> SUFFICES ASSUME Bad # {}
             PROVE  FALSE
  OBVIOUS
<1>1. PICK T \in Bad : \A U \in Bad : U \subseteq T => U = T
  <2>1. Bad \subseteq SUBSET S /\ Bad # {}
    OBVIOUS
  <2> HIDE DEF Bad
  <2> QED
    BY <2>1, SmallestSubset
<1>2. PICK x \in T : SumOver(f, T) # f[x] + SumOver(f, T \ {x})
  OBVIOUS
<1> DEFINE p == Pick(T)
<1>3. p \in T /\ IsFiniteSet(T) /\ IsFiniteSet(T \ {x})
  BY PickIn, FS_Subset
<1>4. SumOver(f, T) = f[p] + SumOver(f, T \ {p})
  BY <1>3, SumEquation
<1>5. x # p
  BY <1>2, <1>4
<1>6. SumOver(f, T \ {p}) = f[x] + SumOver(f, (T \ {p}) \ {x})
  <2>1. T \ {p} \in SUBSET S /\ T \ {p} \subseteq T /\ T \ {p} # T /\ x \in T \ {p}
    BY <1>3, <1>5
  <2> QED
    BY <1>1, <2>1
<1>7. SumOver(f, T \ {x}) = f[p] + SumOver(f, (T \ {x}) \ {p})
  <2>1. T \ {x} \in SUBSET S /\ T \ {x} \subseteq T /\ T \ {x} # T /\ p \in T \ {x}
    BY <1>3, <1>5
  <2> QED
    BY <1>1, <2>1
<1>8. (T \ {p}) \ {x} = (T \ {x}) \ {p}
  OBVIOUS
<1>9. f[p] \in Int /\ f[x] \in Int /\ SumOver(f, (T \ {p}) \ {x}) \in Int
  <2>1. IntOn(f, (T \ {p}) \ {x}) /\ IsFiniteSet((T \ {p}) \ {x})
    BY FS_Subset DEF IntOn
  <2> QED
    BY <1>3, <2>1, SumType DEF IntOn
<1>10. SumOver(f, (T \ {p}) \ {x}) = SumOver(f, (T \ {x}) \ {p})
  BY <1>8
<1> HIDE DEF Bad, p
<1> QED
  BY <1>2, <1>4, <1>6, <1>7, <1>9, <1>10

LEMMA SumAdd ==
    ASSUME NEW f, NEW S, IsFiniteSet(S), NEW e, e \notin S, IntOn(f, S \cup {e})
    PROVE  SumOver(f, S \cup {e}) = f[e] + SumOver(f, S)
<1>1. IsFiniteSet(S \cup {e}) /\ (S \cup {e}) \ {e} = S
  BY FS_AddElement
<1> QED
  BY <1>1, SumRemove

\* Only the values on the set matter.
LEMMA SumCongruent ==
    ASSUME NEW f, NEW g, NEW S, IsFiniteSet(S), \A x \in S : f[x] = g[x]
    PROVE  SumOver(f, S) = SumOver(g, S)
<1> DEFINE Bad == {T \in SUBSET S : SumOver(f, T) # SumOver(g, T)}
<1> SUFFICES ASSUME Bad # {}
             PROVE  FALSE
  OBVIOUS
<1>1. PICK T \in Bad : \A U \in Bad : U \subseteq T => U = T
  <2>1. Bad \subseteq SUBSET S /\ Bad # {}
    OBVIOUS
  <2> HIDE DEF Bad
  <2> QED
    BY <2>1, SmallestSubset
<1>2. IsFiniteSet(T)
  BY FS_Subset
<1>3. /\ SumOver(f, T) = IF T = {} THEN 0 ELSE f[Pick(T)] + SumOver(f, T \ {Pick(T)})
      /\ SumOver(g, T) = IF T = {} THEN 0 ELSE g[Pick(T)] + SumOver(g, T \ {Pick(T)})
  BY <1>2, SumEquation
<1>4. T # {} => /\ Pick(T) \in T /\ f[Pick(T)] = g[Pick(T)]
                /\ SumOver(f, T \ {Pick(T)}) = SumOver(g, T \ {Pick(T)})
  BY <1>1, PickIn
<1> QED
  BY <1>1, <1>3, <1>4

\* One term changes.
LEMMA SumUpdate ==
    ASSUME NEW f, NEW g, NEW S, IsFiniteSet(S), NEW e \in S, IntOn(f, S), g[e] \in Int,
           \A x \in S \ {e} : g[x] = f[x]
    PROVE  SumOver(g, S) = SumOver(f, S) - f[e] + g[e]
<1>1. IsFiniteSet(S \ {e})
  BY FS_Difference
<1>2. IntOn(g, S) /\ IntOn(f, S \ {e}) /\ f[e] \in Int
  BY DEF IntOn
<1>3. SumOver(g, S \ {e}) = SumOver(f, S \ {e})
  BY <1>1, SumCongruent
<1>4. SumOver(f, S \ {e}) \in Int
  BY <1>1, <1>2, SumType
<1>5. SumOver(f, S) = f[e] + SumOver(f, S \ {e}) /\ SumOver(g, S) = g[e] + SumOver(g, S \ {e})
  BY <1>2, SumRemove
<1> QED
  BY <1>2, <1>3, <1>4, <1>5

\* A sum of terms between 0 and k lies between 0 and k times their number.
LEMMA SumBounds ==
    ASSUME NEW f, NEW S, IsFiniteSet(S), NEW k \in Nat, \A x \in S : f[x] \in 0..k
    PROVE  SumOver(f, S) \in Nat /\ SumOver(f, S) <= Cardinality(S) * k
<1> DEFINE Fits(T) == SumOver(f, T) \in Nat /\ SumOver(f, T) <= Cardinality(T) * k
           Bad == {T \in SUBSET S : ~ Fits(T)}
<1> SUFFICES ASSUME Bad # {}
             PROVE  FALSE
  OBVIOUS
<1>1. PICK T \in Bad : \A U \in Bad : U \subseteq T => U = T
  <2>1. Bad \subseteq SUBSET S /\ Bad # {}
    OBVIOUS
  <2> HIDE DEF Bad
  <2> QED
    BY <2>1, SmallestSubset
<1> DEFINE p == Pick(T)
           R == T \ {p}
<1>2. IsFiniteSet(T)
  BY FS_Subset
<1>3. SumOver(f, T) = IF T = {} THEN 0 ELSE f[p] + SumOver(f, R)
  BY <1>2, SumEquation
<1>4. CASE T = {}
  <2>1. Cardinality(T) = 0 /\ SumOver(f, T) = 0
    BY <1>3, <1>4, FS_EmptySet
  <2> QED
    BY <1>1, <2>1
<1>5. CASE T # {}
  <2>1. p \in T /\ R \in SUBSET S /\ R \subseteq T /\ R # T
    BY <1>5, PickIn
  <2>2. Fits(R)
    BY <1>1, <2>1
  <2>3. IsFiniteSet(R) /\ Cardinality(R) \in Nat /\ Cardinality(T) = Cardinality(R) + 1
    <3>1. IsFiniteSet(R) /\ Cardinality(R) = Cardinality(T) - 1
      BY <1>2, <2>1, FS_RemoveElement
    <3>2. Cardinality(R) \in Nat /\ Cardinality(T) \in Nat
      BY <1>2, <3>1, FS_CardinalityType
    <3> QED
      BY <3>1, <3>2
  <2>4. f[p] \in 0..k
    BY <2>1
  <2>5. \A n \in Nat : (n + 1) * k = n * k + k
    OBVIOUS
  <2> HIDE DEF p, R
  <2>6. Cardinality(R) * k \in Int
    BY <2>3
  <2>7. SumOver(f, T) <= Cardinality(T) * k /\ SumOver(f, T) \in Nat
    BY <1>3, <1>5, <2>2, <2>3, <2>4, <2>5, <2>6
  <2> QED
    BY <1>1, <2>7
<1> QED
  BY <1>4, <1>5

LEMMA SumNat ==
    ASSUME NEW f, NEW S, IsFiniteSet(S), \A x \in S : f[x] \in Nat
    PROVE  SumOver(f, S) \in Nat
<1> DEFINE Bad == {T \in SUBSET S : SumOver(f, T) \notin Nat}
<1> SUFFICES ASSUME Bad # {}
             PROVE  FALSE
  OBVIOUS
<1>1. PICK T \in Bad : \A U \in Bad : U \subseteq T => U = T
  <2>1. Bad \subseteq SUBSET S /\ Bad # {}
    OBVIOUS
  <2> HIDE DEF Bad
  <2> QED
    BY <2>1, SmallestSubset
<1>2. IsFiniteSet(T)
  BY FS_Subset
<1>3. SumOver(f, T) = IF T = {} THEN 0 ELSE f[Pick(T)] + SumOver(f, T \ {Pick(T)})
  BY <1>2, SumEquation
<1>4. T # {} => f[Pick(T)] \in Nat /\ SumOver(f, T \ {Pick(T)}) \in Nat
  BY <1>1, PickIn
<1> QED
  BY <1>1, <1>3, <1>4

LEMMA SumZero ==
    ASSUME NEW f, NEW S, IsFiniteSet(S), \A x \in S : f[x] = 0
    PROVE  SumOver(f, S) = 0
<1>1. \A x \in S : f[x] \in 0..0
  OBVIOUS
<1>2. SumOver(f, S) \in Nat /\ SumOver(f, S) <= Cardinality(S) * 0 /\ Cardinality(S) \in Nat
  BY <1>1, SumBounds, FS_CardinalityType
<1> QED
  BY <1>2

LEMMA SumPlus ==
    ASSUME NEW f, NEW g, NEW h, NEW S, IsFiniteSet(S), IntOn(f, S), IntOn(g, S),
           \A x \in S : h[x] = f[x] + g[x]
    PROVE  SumOver(h, S) = SumOver(f, S) + SumOver(g, S)
<1> DEFINE Bad == {T \in SUBSET S : SumOver(h, T) # SumOver(f, T) + SumOver(g, T)}
<1> SUFFICES ASSUME Bad # {}
             PROVE  FALSE
  OBVIOUS
<1>1. PICK T \in Bad : \A U \in Bad : U \subseteq T => U = T
  <2>1. Bad \subseteq SUBSET S /\ Bad # {}
    OBVIOUS
  <2> HIDE DEF Bad
  <2> QED
    BY <2>1, SmallestSubset
<1> DEFINE p == Pick(T)
           R == T \ {p}
<1>2. IsFiniteSet(T) /\ IsFiniteSet(R)
  BY FS_Subset
<1>3. /\ SumOver(f, T) = IF T = {} THEN 0 ELSE f[p] + SumOver(f, R)
      /\ SumOver(g, T) = IF T = {} THEN 0 ELSE g[p] + SumOver(g, R)
      /\ SumOver(h, T) = IF T = {} THEN 0 ELSE h[p] + SumOver(h, R)
  BY <1>2, SumEquation
<1>4. T # {} => /\ p \in S /\ f[p] \in Int /\ g[p] \in Int /\ h[p] = f[p] + g[p]
                /\ SumOver(h, R) = SumOver(f, R) + SumOver(g, R)
  BY <1>1, PickIn DEF IntOn
<1>5. SumOver(f, R) \in Int /\ SumOver(g, R) \in Int
  <2>1. IntOn(f, R) /\ IntOn(g, R)
    BY DEF IntOn
  <2> QED
    BY <1>2, <2>1, SumType
<1>6. SumOver(h, T) # SumOver(f, T) + SumOver(g, T)
  OBVIOUS
<1> HIDE DEF p, R, Bad
<1> QED
  BY <1>3, <1>4, <1>5, <1>6

LEMMA SumScale ==
    ASSUME NEW f, NEW g, NEW S, IsFiniteSet(S), IntOn(f, S), NEW k \in Int,
           \A x \in S : g[x] = k * f[x]
    PROVE  SumOver(g, S) = k * SumOver(f, S)
<1> DEFINE Bad == {T \in SUBSET S : SumOver(g, T) # k * SumOver(f, T)}
<1> SUFFICES ASSUME Bad # {}
             PROVE  FALSE
  OBVIOUS
<1>1. PICK T \in Bad : \A U \in Bad : U \subseteq T => U = T
  <2>1. Bad \subseteq SUBSET S /\ Bad # {}
    OBVIOUS
  <2> HIDE DEF Bad
  <2> QED
    BY <2>1, SmallestSubset
<1> DEFINE p == Pick(T)
           R == T \ {p}
<1>2. IsFiniteSet(T) /\ IsFiniteSet(R)
  BY FS_Subset
<1>3. /\ SumOver(f, T) = IF T = {} THEN 0 ELSE f[p] + SumOver(f, R)
      /\ SumOver(g, T) = IF T = {} THEN 0 ELSE g[p] + SumOver(g, R)
  BY <1>2, SumEquation
<1>4. T # {} => p \in S /\ f[p] \in Int /\ g[p] = k * f[p] /\ SumOver(g, R) = k * SumOver(f, R)
  BY <1>1, PickIn DEF IntOn
<1>5. SumOver(f, R) \in Int
  <2>1. IntOn(f, R)
    BY DEF IntOn
  <2> QED
    BY <1>2, <2>1, SumType
<1>6. SumOver(g, T) # k * SumOver(f, T)
  OBVIOUS
<1>7. k * 0 = 0 /\ \A a, b \in Int : k * a + k * b = k * (a + b)
  OBVIOUS
<1> HIDE DEF p, R, Bad
<1> QED
  BY <1>3, <1>4, <1>5, <1>6, <1>7

\* Terms that are 0 do not count.
LEMMA SumRestrict ==
    ASSUME NEW f, NEW S, IsFiniteSet(S), IntOn(f, S), NEW E, E \subseteq S,
           \A x \in S \ E : f[x] = 0
    PROVE  SumOver(f, S) = SumOver(f, E)
<1> DEFINE Bad == {T \in SUBSET S : SumOver(f, T) # SumOver(f, T \cap E)}
<1> SUFFICES ASSUME Bad # {}
             PROVE  FALSE
  <2>1. Bad = {} => SumOver(f, S) = SumOver(f, S \cap E)
    OBVIOUS
  <2>2. S \cap E = E
    OBVIOUS
  <2> HIDE DEF Bad
  <2> QED
    BY <2>1, <2>2
<1>1. PICK T \in Bad : \A U \in Bad : U \subseteq T => U = T
  <2>1. Bad \subseteq SUBSET S /\ Bad # {}
    OBVIOUS
  <2> HIDE DEF Bad
  <2> QED
    BY <2>1, SmallestSubset
<1>2. T # {}
  <2>1. T = {} => T \cap E = T
    OBVIOUS
  <2> QED
    BY <1>1, <2>1
<1> DEFINE p == Pick(T)
           R == T \ {p}
<1>3. p \in T /\ R # T /\ SumOver(f, R) = SumOver(f, R \cap E)
  <2>1. p \in T
    BY <1>2, PickIn
  <2> HIDE DEF p
  <2> QED
    BY <1>1, <2>1
<1>4. IsFiniteSet(T) /\ IsFiniteSet(T \cap E)
  BY FS_Subset
<1>5. SumOver(f, T) = f[p] + SumOver(f, R)
  BY <1>2, <1>4, SumEquation
<1>6. SumOver(f, T \cap E) = f[p] + SumOver(f, R \cap E)
  <2>1. CASE p \in E
    <3>1. p \in T \cap E /\ (T \cap E) \ {p} = R \cap E /\ IntOn(f, T \cap E)
      BY <1>3, <2>1 DEF IntOn
    <3> HIDE DEF p, R
    <3> QED
      BY <1>4, <3>1, SumRemove
  <2>2. CASE p \notin E
    <3>1. T \cap E = R \cap E /\ f[p] = 0
      BY <1>3, <2>2
    <3>2. SumOver(f, R \cap E) \in Int
      <4>1. IntOn(f, R \cap E) /\ IsFiniteSet(R \cap E)
        BY FS_Subset DEF IntOn
      <4> HIDE DEF p, R
      <4> QED
        BY <4>1, SumType
    <3> HIDE DEF p, R
    <3> QED
      BY <3>1, <3>2
  <2> QED
    BY <2>1, <2>2
<1>7. SumOver(f, T) # SumOver(f, T \cap E)
  OBVIOUS
<1> HIDE DEF p, R, Bad
<1> QED
  BY <1>3, <1>5, <1>6, <1>7

\* A sum of ones counts.
LEMMA SumCounts ==
    ASSUME NEW f, NEW S, IsFiniteSet(S), \A x \in S : f[x] = 1
    PROVE  SumOver(f, S) = Cardinality(S)
<1> DEFINE Bad == {T \in SUBSET S : SumOver(f, T) # Cardinality(T)}
<1> SUFFICES ASSUME Bad # {}
             PROVE  FALSE
  OBVIOUS
<1>1. PICK T \in Bad : \A U \in Bad : U \subseteq T => U = T
  <2>1. Bad \subseteq SUBSET S /\ Bad # {}
    OBVIOUS
  <2> HIDE DEF Bad
  <2> QED
    BY <2>1, SmallestSubset
<1> DEFINE p == Pick(T)
           R == T \ {p}
<1>2. IsFiniteSet(T) /\ SumOver(f, T) # Cardinality(T)
  BY FS_Subset
<1>3. SumOver(f, T) = IF T = {} THEN 0 ELSE f[p] + SumOver(f, R)
  BY <1>2, SumEquation
<1>4. T # {} => p \in T /\ f[p] = 1 /\ SumOver(f, R) = Cardinality(R)
  BY <1>1, PickIn
<1>5. /\ T = {} => Cardinality(T) = 0
      /\ p \in T => Cardinality(R) = Cardinality(T) - 1
      /\ Cardinality(T) \in Nat
  BY <1>2, FS_EmptySet, FS_RemoveElement, FS_CardinalityType
<1> HIDE DEF p, R, Bad
<1> QED
  BY <1>2, <1>3, <1>4, <1>5

\* What lies apart adds up.
LEMMA SumApart ==
    ASSUME NEW f, NEW A, NEW B, IsFiniteSet(A), IsFiniteSet(B), A \cap B = {}, IntOn(f, A \cup B)
    PROVE  SumOver(f, A \cup B) = SumOver(f, A) + SumOver(f, B)
<1> DEFINE Bad == {T \in SUBSET B : SumOver(f, A \cup T) # SumOver(f, A) + SumOver(f, T)}
<1> SUFFICES ASSUME Bad # {}
             PROVE  FALSE
  OBVIOUS
<1>1. PICK T \in Bad : \A U \in Bad : U \subseteq T => U = T
  <2>1. Bad \subseteq SUBSET B /\ Bad # {}
    OBVIOUS
  <2> HIDE DEF Bad
  <2> QED
    BY <2>1, SmallestSubset
<1> DEFINE p == Pick(T)
           R == T \ {p}
<1>2. IsFiniteSet(T) /\ IsFiniteSet(R)
  BY FS_Subset
<1>3. IsFiniteSet(A \cup T) /\ IntOn(f, A \cup T) /\ IntOn(f, A) /\ IntOn(f, R) /\ IntOn(f, T)
  <2>1. IsFiniteSet(A \cup T)
    BY <1>2, FS_Union
  <2> QED  BY <2>1 DEF IntOn
<1>4. SumOver(f, A) \in Int /\ SumOver(f, R) \in Int
  BY <1>2, <1>3, SumType
<1>5. SumOver(f, A \cup T) # SumOver(f, A) + SumOver(f, T)
  OBVIOUS
<1>6. T # {}
  <2>1. T = {} => A \cup T = A
    OBVIOUS
  <2>2. SumOver(f, {}) = 0
    BY SumEmpty
  <2> HIDE DEF Bad, R, p
  <2>3. ASSUME T = {}
        PROVE  FALSE
    <3>1. SumOver(f, A \cup T) = SumOver(f, A) /\ SumOver(f, T) = 0
      BY <2>1, <2>2, <2>3
    <3> QED  BY <1>4, <1>5, <3>1
  <2> QED  BY <2>3
<1>7. p \in T /\ p \in A \cup T /\ f[p] \in Int
  BY <1>6, PickIn DEF IntOn
<1>8. (A \cup T) \ {p} = A \cup R
  BY <1>7
<1>9. SumOver(f, A \cup T) = f[p] + SumOver(f, A \cup R)
  BY <1>3, <1>7, <1>8, SumRemove
<1>10. SumOver(f, T) = f[p] + SumOver(f, R)
  BY <1>2, <1>3, <1>7, SumRemove
<1>11. SumOver(f, A \cup R) = SumOver(f, A) + SumOver(f, R)
  BY <1>1, <1>7
<1> HIDE DEF p, R, Bad
<1> QED
  BY <1>4, <1>5, <1>7, <1>9, <1>10, <1>11

\* Terms that stand for different ones, and are no larger, add up to no more.
LEMMA SumAlong ==
    ASSUME NEW f, NEW g, NEW along, NEW S, IsFiniteSet(S), IntOn(f, S),
           \A x \in S : g[along[x]] \in Int /\ f[x] <= g[along[x]],
           \A x, y \in S : along[x] = along[y] => x = y
    PROVE  SumOver(f, S) <= SumOver(g, {along[x] : x \in S})
<1> DEFINE Image(T) == {along[x] : x \in T}
           Bad == {T \in SUBSET S : ~ (SumOver(f, T) <= SumOver(g, Image(T)))}
<1> SUFFICES ASSUME Bad # {}
             PROVE  FALSE
  OBVIOUS
<1>1. PICK T \in Bad : \A U \in Bad : U \subseteq T => U = T
  <2>1. Bad \subseteq SUBSET S /\ Bad # {}
    OBVIOUS
  <2> HIDE DEF Bad
  <2> QED
    BY <2>1, SmallestSubset
<1> DEFINE p == Pick(T)
           R == T \ {p}
<1>2. IsFiniteSet(T) /\ IsFiniteSet(R)
  BY FS_Subset
<1>3. IsFiniteSet(Image(T)) /\ IsFiniteSet(Image(R))
  <2>1. \A Q : IsFiniteSet(Q) => IsFiniteSet({along[x] : x \in Q})
    <3> SUFFICES ASSUME NEW Q, IsFiniteSet(Q)
                 PROVE  IsFiniteSet({along[x] : x \in Q})
      OBVIOUS
    <3> DEFINE fn == [x \in Q |-> along[x]]
    <3>1. fn \in Surjection(Q, {along[x] : x \in Q})
      BY DEF Surjection
    <3> QED  BY <3>1, FS_Surjection
  <2> QED  BY <1>2, <2>1
<1>4. IntOn(g, Image(T)) /\ IntOn(g, Image(R)) /\ IntOn(f, R) /\ IntOn(f, T)
  BY DEF IntOn
<1>5. SumOver(f, R) \in Int /\ SumOver(g, Image(R)) \in Int
  BY <1>2, <1>3, <1>4, SumType
<1>6. T # {}
  <2>1. T = {} => Image(T) = {}
    OBVIOUS
  <2>2. SumOver(f, {}) = 0 /\ SumOver(g, {}) = 0
    BY SumEmpty
  <2> QED  BY <2>1, <2>2
<1>7. p \in T /\ p \in S /\ along[p] \in Image(T) /\ f[p] \in Int
  BY <1>6, PickIn DEF IntOn
<1>8. Image(T) \ {along[p]} = Image(R)
  <2>1. along[p] \notin Image(R)
    BY <1>7
  <2>2. Image(T) = Image(R) \cup {along[p]}
    BY <1>7
  <2> HIDE DEF Image, p
  <2> QED  BY <2>1, <2>2
<1>9. SumOver(g, Image(T)) = g[along[p]] + SumOver(g, Image(R))
  BY <1>3, <1>4, <1>7, <1>8, SumRemove
<1>10. SumOver(f, T) = f[p] + SumOver(f, R)
  BY <1>2, <1>4, <1>7, SumRemove
<1>11. SumOver(f, R) <= SumOver(g, Image(R))
  BY <1>1, <1>7
<1>12. ~ (SumOver(f, T) <= SumOver(g, Image(T))) /\ g[along[p]] \in Int /\ f[p] <= g[along[p]]
  BY <1>7
<1> HIDE DEF p, R, Bad, Image
<1> QED
  BY <1>5, <1>7, <1>9, <1>10, <1>11, <1>12

Grouped(S, group, T) == {x \in S : group[x] \in T}

\* Adding up group by group adds up everything that is in one of the groups.
LEMMA SumByGroup ==
    ASSUME NEW f, NEW S, IsFiniteSet(S), IntOn(f, S), NEW group, NEW H, IsFiniteSet(H),
           NEW held, \A h \in H : held[h] = SumOver(f, Grouped(S, group, {h}))
    PROVE  SumOver(held, H) = SumOver(f, Grouped(S, group, H))
<1> DEFINE In(T) == Grouped(S, group, T)
           Bad == {T \in SUBSET H : SumOver(held, T) # SumOver(f, In(T))}
<1> SUFFICES ASSUME Bad # {}
             PROVE  FALSE
  OBVIOUS
<1>1. PICK T \in Bad : \A U \in Bad : U \subseteq T => U = T
  <2>1. Bad \subseteq SUBSET H /\ Bad # {}
    OBVIOUS
  <2> HIDE DEF Bad
  <2> QED
    BY <2>1, SmallestSubset
<1> DEFINE p == Pick(T)
           R == T \ {p}
           One == Grouped(S, group, {p})
<1>2. IsFiniteSet(T) /\ IsFiniteSet(R)
  BY FS_Subset
<1>3. IsFiniteSet(One) /\ IsFiniteSet(In(R)) /\ IntOn(f, One \cup In(R))
  <2>1. One \subseteq S /\ In(R) \subseteq S
    BY DEF Grouped
  <2> QED  BY <2>1, FS_Subset DEF IntOn
<1>4. SumOver(held, T) = IF T = {} THEN 0 ELSE held[p] + SumOver(held, R)
  BY <1>2, SumEquation
<1>5. T # {}
  <2>1. T = {} => In(T) = {}
    BY DEF Grouped
  <2>2. SumOver(f, {}) = 0
    BY SumEmpty
  <2> QED  BY <1>4, <2>1, <2>2
<1>6. p \in T /\ p \in H
  BY <1>5, PickIn
<1>7. In(T) = One \cup In(R) /\ One \cap In(R) = {}
  BY <1>6 DEF Grouped
<1>8. SumOver(held, R) = SumOver(f, In(R))
  BY <1>1, <1>6
<1>9. held[p] = SumOver(f, One)
  BY <1>6
<1>10. SumOver(f, One \cup In(R)) = SumOver(f, One) + SumOver(f, In(R))
  BY <1>3, <1>7, SumApart
<1>11. SumOver(held, T) # SumOver(f, In(T))
  OBVIOUS
<1> HIDE DEF p, R, Bad, In, One
<1> QED
  BY <1>4, <1>5, <1>7, <1>8, <1>9, <1>10, <1>11
=============================================================================

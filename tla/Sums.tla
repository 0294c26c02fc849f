--------------------------------- MODULE Sums ---------------------------------
(***************************************************************************)
(* What a sum over a finite set does when one value changes or one element *)
(* is added.  The sums of the community modules are folds by a recursive   *)
(* function over the subsets of the index set; that the function exists,   *)
(* and that the order in which it takes the elements does not matter, is   *)
(* proved here by induction on the number of elements.  The induction is   *)
(* stated on sets (NatStep): the set of the numbers that are good.         *)
(***************************************************************************)
EXTENDS Integers, FiniteSets, Functions, FiniteSetTheorems, WellFoundedInduction, TLAPS

\* The element a fold takes first.
Pick(s) == CHOOSE x \in s : TRUE

\* The recursive function of the fold: the sum of f over each subset of S.
Partial(f, S) ==
    CHOOSE g : g = [s \in SUBSET S |->
                      IF s = {} THEN 0 ELSE f[Pick(s)] + g[s \ {Pick(s)}]]

\* The sum of f over S.
SumOver(f, S) == Partial(f, S)[S]

\* SumFunction of the module Functions is that sum over the whole domain.
LEMMA SumFunctionIsSum ==
    ASSUME NEW f PROVE SumFunction(f) = SumOver(f, DOMAIN f)
BY DEF SumFunction, SumFunctionOnSet, FoldFunctionOnSet, MapThenFoldSet, SumOver, Partial, Pick

-----------------------------------------------------------------------------
(* Induction *)

\* A set of numbers with 0 and, with a number, its successor, has them all.
LEMMA NatStep ==
    ASSUME NEW Q, 0 \in Q, \A n \in Nat : n \in Q => n + 1 \in Q
    PROVE  Nat \subseteq Q
<1> SUFFICES ASSUME Nat \ Q # {} PROVE FALSE
  OBVIOUS
<1> DEFINE Less == {ss \in Nat \X Nat : ss[1] < ss[2]}
<1>1. IsWellFoundedOn(Less, Nat)
  BY NatLessThanWellFounded DEF OpToRel
<1>2. PICK n \in Nat \ Q : \A m \in Nat \ Q : ~(<<m, n>> \in Less)
  <2>1. (Nat \ Q) \subseteq Nat
    OBVIOUS
  <2> HIDE DEF Less
  <2> QED
    BY <1>1, <2>1, WFMin
<1>3. n # 0 /\ n - 1 \in Nat
  OBVIOUS
<1>4. <<n - 1, n>> \in Less
  BY <1>3
<1>5. n - 1 \in Q
  <2> HIDE DEF Less
  <2> QED
    BY <1>2, <1>3, <1>4
<1> QED
  BY <1>3, <1>5

\* A set of numbers up to n that has n has a least one.
LEMMA LeastExists ==
    ASSUME NEW n \in Nat, NEW S \in SUBSET (0 .. n), n \in S
    PROVE  \E m \in S : \A k \in S : m <= k
<1> DEFINE Q == {m \in Nat : \A k \in S : m <= k}
<1>1. 0 \in Q
  OBVIOUS
<1>2. SUFFICES ASSUME ~ \E m \in S : \A k \in S : m <= k PROVE FALSE
  OBVIOUS
<1>3. ASSUME NEW m \in Nat, m \in Q PROVE m + 1 \in Q
  <2>1. m \notin S
    BY <1>2, <1>3
  <2>2. \A k \in S : m <= k /\ k # m /\ k \in Nat
    BY <1>3, <2>1
  <2>3. \A k \in S : m + 1 <= k
    BY <2>2
  <2> QED
    BY <2>3
<1>4. Nat \subseteq Q
  <2> HIDE DEF Q
  <2> QED
    BY <1>1, <1>3, NatStep
<1>5. n + 1 \in Q
  BY <1>4
<1> QED
  BY <1>5

\* Taking an element out of a subset of a finite set.
LEMMA TakeOut ==
    ASSUME NEW S, IsFiniteSet(S), NEW s \in SUBSET S
    PROVE  /\ IsFiniteSet(s) /\ Cardinality(s) \in Nat
           /\ Cardinality(s) = 0 <=> s = {}
           /\ \A x \in s : /\ s \ {x} \in SUBSET S
                           /\ Cardinality(s \ {x}) = Cardinality(s) - 1
           /\ s # {} => Pick(s) \in s
<1>1. IsFiniteSet(s)
  BY FS_Subset
<1>2. Cardinality(s) \in Nat /\ (Cardinality(s) = 0 <=> s = {})
  BY <1>1, FS_CardinalityType, FS_EmptySet
<1>3. \A x \in s : Cardinality(s \ {x}) = Cardinality(s) - 1
  BY <1>1, FS_RemoveElement
<1>4. s # {} => Pick(s) \in s
  BY DEF Pick
<1> QED
  BY <1>1, <1>2, <1>3, <1>4

\* A set of subsets with {} and with every s of which it has each s without
\* one element, has them all.
LEMMA SubsetStep ==
    ASSUME NEW S, IsFiniteSet(S), NEW Q, {} \in Q,
           \A s \in SUBSET S : s # {} /\ (\A x \in s : s \ {x} \in Q) => s \in Q
    PROVE  SUBSET S \subseteq Q
<1> DEFINE N == {n \in Nat : \A s \in SUBSET S : Cardinality(s) = n => s \in Q}
<1>1. 0 \in N
  BY TakeOut
<1>2. ASSUME NEW n \in Nat, n \in N PROVE n + 1 \in N
  <2> SUFFICES ASSUME NEW s \in SUBSET S, Cardinality(s) = n + 1 PROVE s \in Q
    OBVIOUS
  <2>1. s # {} /\ \A x \in s : s \ {x} \in SUBSET S /\ Cardinality(s \ {x}) = n
    BY TakeOut
  <2> QED
    BY <1>2, <2>1
<1>3. Nat \subseteq N
  <2> HIDE DEF N
  <2> QED
    BY <1>1, <1>2, NatStep
<1> QED
  BY <1>3, TakeOut

-----------------------------------------------------------------------------
(* The fold *)

\* The recursive function exists, so it satisfies its equation.
LEMMA PartialUnfolds ==
    ASSUME NEW S, IsFiniteSet(S), NEW f \in [S -> Int]
    PROVE  \A s \in SUBSET S :
              Partial(f, S)[s] = IF s = {} THEN 0
                                 ELSE f[Pick(s)] + Partial(f, S)[s \ {Pick(s)}]
<1> DEFINE Next(g, s) == IF s = {} THEN 0 ELSE f[Pick(s)] + g[s \ {Pick(s)}]
           N == {n \in Nat : \E g \in [SUBSET S -> Int] : \A s \in SUBSET S :
                                Cardinality(s) <= n => g[s] = Next(g, s)}
<1>1. 0 \in N
  <2> DEFINE g == [s \in SUBSET S |-> 0]
  <2>1. g \in [SUBSET S -> Int]
    OBVIOUS
  <2>2. \A s \in SUBSET S : Cardinality(s) <= 0 => g[s] = Next(g, s)
    BY TakeOut
  <2> QED
    BY <2>1, <2>2
<1>2. ASSUME NEW n \in Nat, n \in N PROVE n + 1 \in N
  <2>1. PICK g \in [SUBSET S -> Int] : \A s \in SUBSET S :
               Cardinality(s) <= n => g[s] = Next(g, s)
    BY <1>2
  <2> DEFINE h == [s \in SUBSET S |-> Next(g, s)]
  <2>2. h \in [SUBSET S -> Int]
    BY TakeOut
  <2>3. ASSUME NEW s \in SUBSET S, Cardinality(s) <= n + 1
        PROVE  h[s] = Next(h, s)
    <3>1. CASE s = {}
      BY <3>1
    <3>2. CASE s # {}
      <4> DEFINE t == s \ {Pick(s)}
      <4>1. t \in SUBSET S /\ Cardinality(t) <= n
        BY <2>3, <3>2, TakeOut
      <4>2. g[t] = Next(g, t)
        BY <2>1, <4>1
      <4>3. h[t] = g[t]
        BY <4>1, <4>2
      <4>4. h[s] = f[Pick(s)] + g[t] /\ Next(h, s) = f[Pick(s)] + h[t]
        BY <3>2
      <4> QED
        BY <4>3, <4>4
    <3> QED
      BY <3>1, <3>2
  <2>4. \A s \in SUBSET S : Cardinality(s) <= n + 1 => h[s] = Next(h, s)
    BY <2>3
  <2>5. n + 1 \in Nat
    OBVIOUS
  <2> HIDE DEF h, Next
  <2> QED
    BY <2>2, <2>4, <2>5
<1>3. Nat \subseteq N
  <2> HIDE DEF N
  <2> QED
    BY <1>1, <1>2, NatStep
<1>4. PICK g \in [SUBSET S -> Int] : \A s \in SUBSET S : g[s] = Next(g, s)
  <2>1. Cardinality(S) \in N
    BY <1>3, FS_CardinalityType
  <2>2. \A s \in SUBSET S : Cardinality(s) <= Cardinality(S)
    BY FS_Subset
  <2> QED
    BY <2>1, <2>2
<1>5. g = [s \in SUBSET S |-> Next(g, s)]
  BY <1>4
<1>6. Partial(f, S) = [s \in SUBSET S |-> Next(Partial(f, S), s)]
  BY <1>5 DEF Partial
<1> QED
  BY <1>6

\* The equation in the form in which it is used.
LEMMA PartialEquations ==
    ASSUME NEW S, IsFiniteSet(S), NEW f \in [S -> Int]
    PROVE  /\ Partial(f, S)[{}] = 0
           /\ \A s \in SUBSET S : s # {} =>
                 /\ Pick(s) \in s /\ s \ {Pick(s)} \in SUBSET S
                 /\ Partial(f, S)[s] = f[Pick(s)] + Partial(f, S)[s \ {Pick(s)}]
<1>1. {} \in SUBSET S
  OBVIOUS
<1>2. Partial(f, S)[{}] = 0
  BY <1>1, PartialUnfolds
<1> QED
  BY <1>2, PartialUnfolds, TakeOut

\* Partial sums are integers.
LEMMA PartialType ==
    ASSUME NEW S, IsFiniteSet(S), NEW f \in [S -> Int]
    PROVE  \A s \in SUBSET S : Partial(f, S)[s] \in Int
<1> DEFINE Q == {s \in SUBSET S : Partial(f, S)[s] \in Int}
<1>1. {} \in Q
  BY PartialEquations
<1>2. ASSUME NEW s \in SUBSET S, s # {}, \A x \in s : s \ {x} \in Q
      PROVE  s \in Q
  <2>1. Pick(s) \in s /\ Partial(f, S)[s] = f[Pick(s)] + Partial(f, S)[s \ {Pick(s)}]
    BY <1>2, PartialEquations
  <2>2. f[Pick(s)] \in Int /\ Partial(f, S)[s \ {Pick(s)}] \in Int
    BY <1>2, <2>1
  <2> QED
    BY <2>1, <2>2
<1>3. SUBSET S \subseteq Q
  <2> HIDE DEF Q
  <2> QED
    BY <1>1, <1>2, SubsetStep
<1> QED
  BY <1>3

\* Whatever element is taken first, the sum is the same.
LEMMA PartialRemoves ==
    ASSUME NEW S, IsFiniteSet(S), NEW f \in [S -> Int]
    PROVE  \A s \in SUBSET S : \A x \in s :
              Partial(f, S)[s] = f[x] + Partial(f, S)[s \ {x}]
<1> DEFINE P == Partial(f, S)
           Q == {s \in SUBSET S : \A x \in s : P[s] = f[x] + P[s \ {x}]}
<1>1. {} \in Q
  OBVIOUS
<1>2. ASSUME NEW s \in SUBSET S, s # {}, \A x \in s : s \ {x} \in Q
      PROVE  s \in Q
  <2> SUFFICES ASSUME NEW x \in s PROVE P[s] = f[x] + P[s \ {x}]
    OBVIOUS
  <2> DEFINE y == Pick(s)
  <2>0. \A t \in SUBSET S : t # {} =>
              /\ Pick(t) \in t
              /\ Partial(f, S)[t] = f[Pick(t)] + Partial(f, S)[t \ {Pick(t)}]
    BY PartialEquations
  <2>1. y \in s /\ P[s] = f[y] + P[s \ {y}]
    BY <1>2, <2>0
  <2> HIDE DEF P, y
  <2>2. CASE x = y
    BY <2>1, <2>2
  <2>3. CASE x # y
    <3>1. P[s \ {y}] = f[x] + P[(s \ {y}) \ {x}]
      BY <1>2, <2>1, <2>3
    <3>2. P[s \ {x}] = f[y] + P[(s \ {x}) \ {y}]
      BY <1>2, <2>1, <2>3
    <3>3. (s \ {y}) \ {x} = (s \ {x}) \ {y}
      OBVIOUS
    <3>4. f[x] \in Int /\ f[y] \in Int /\ P[(s \ {x}) \ {y}] \in Int
      BY <2>1, PartialType DEF P
    <3> DEFINE z == P[(s \ {x}) \ {y}]
    <3>5. P[s \ {y}] = f[x] + z /\ P[s \ {x}] = f[y] + z
      BY <3>1, <3>2, <3>3
    <3> HIDE DEF z
    <3>6. z \in Int
      BY <3>4 DEF z
    <3> QED
      BY <2>1, <3>4, <3>5, <3>6
  <2> QED
    BY <2>2, <2>3
<1>3. SUBSET S \subseteq Q
  <2> HIDE DEF Q
  <2> QED
    BY <1>1, <1>2, SubsetStep
<1> QED
  BY <1>3

\* A partial sum depends on the values it adds only.
LEMMA PartialAgrees ==
    ASSUME NEW S, IsFiniteSet(S), NEW T, IsFiniteSet(T),
           NEW f \in [S -> Int], NEW h \in [T -> Int],
           NEW U \in SUBSET S, U \subseteq T, \A x \in U : f[x] = h[x]
    PROVE  Partial(f, S)[U] = Partial(h, T)[U]
<1> DEFINE P == Partial(f, S)
           R == Partial(h, T)
           Q == {s \in SUBSET U : P[s] = R[s]}
<1>0. /\ IsFiniteSet(U)
      /\ \A s \in SUBSET S : s # {} => P[s] = f[Pick(s)] + P[s \ {Pick(s)}]
      /\ \A s \in SUBSET T : s # {} => R[s] = h[Pick(s)] + R[s \ {Pick(s)}]
  <2>1. IsFiniteSet(U)
    BY FS_Subset
  <2>2. \A s \in SUBSET S : s # {} => P[s] = f[Pick(s)] + P[s \ {Pick(s)}]
    BY PartialEquations
  <2>3. \A s \in SUBSET T : s # {} => R[s] = h[Pick(s)] + R[s \ {Pick(s)}]
    BY PartialEquations
  <2> QED
    BY <2>1, <2>2, <2>3
<1>1. {} \in Q
  BY PartialEquations
<1>2. ASSUME NEW s \in SUBSET U, s # {}, \A x \in s : s \ {x} \in Q
      PROVE  s \in Q
  <2>1. Pick(s) \in s /\ s \in SUBSET S /\ s \in SUBSET T
    BY <1>0, <1>2, TakeOut
  <2> HIDE DEF P, R
  <2>2. P[s] = f[Pick(s)] + P[s \ {Pick(s)}]
    BY <1>0, <1>2, <2>1
  <2>3. R[s] = h[Pick(s)] + R[s \ {Pick(s)}]
    BY <1>0, <1>2, <2>1
  <2> QED
    BY <1>2, <2>1, <2>2, <2>3
<1>3. SUBSET U \subseteq Q
  <2> HIDE DEF Q
  <2> QED
    BY <1>0, <1>1, <1>2, SubsetStep
<1> QED
  BY <1>3

-----------------------------------------------------------------------------
(* The sums *)

\* A sum of integers is an integer, and nothing adds up to nothing.
LEMMA SumType ==
    ASSUME NEW S, IsFiniteSet(S), NEW f \in [S -> Int]
    PROVE  /\ SumOver(f, S) \in Int
           /\ (\A x \in S : f[x] = 0) => SumOver(f, S) = 0
<1>1. SumOver(f, S) \in Int
  BY PartialType DEF SumOver
<1>2. ASSUME \A x \in S : f[x] = 0 PROVE SumOver(f, S) = 0
  <2> DEFINE P == Partial(f, S)
             Q == {s \in SUBSET S : P[s] = 0}
  <2>1. {} \in Q
    BY PartialEquations
  <2>2. ASSUME NEW s \in SUBSET S, s # {}, \A x \in s : s \ {x} \in Q
        PROVE  s \in Q
    <3>1. Pick(s) \in s /\ P[s] = f[Pick(s)] + P[s \ {Pick(s)}]
      BY <2>2, PartialEquations
    <3> QED
      BY <1>2, <2>2, <3>1
  <2>3. SUBSET S \subseteq Q
    <3> HIDE DEF Q
    <3> QED
      BY <2>1, <2>2, SubsetStep
  <2> QED
    BY <2>3 DEF SumOver
<1> QED
  BY <1>1, <1>2

\* One value changes: the sum changes by the difference.
LEMMA SumChanges ==
    ASSUME NEW S, IsFiniteSet(S), NEW f \in [S -> Int], NEW h \in [S -> Int],
           NEW x \in S, \A y \in S \ {x} : h[y] = f[y]
    PROVE  SumOver(h, S) = SumOver(f, S) - f[x] + h[x]
<1>1. /\ SumOver(f, S) = f[x] + Partial(f, S)[S \ {x}]
      /\ SumOver(h, S) = h[x] + Partial(h, S)[S \ {x}]
  BY PartialRemoves DEF SumOver
<1>2. Partial(f, S)[S \ {x}] = Partial(h, S)[S \ {x}]
  BY PartialAgrees
<1>3. Partial(f, S)[S \ {x}] \in Int
  BY PartialType
<1> QED
  BY <1>1, <1>2, <1>3

\* The sum depends on the values only.
LEMMA SumAgrees ==
    ASSUME NEW S, IsFiniteSet(S), NEW f \in [S -> Int], NEW h \in [S -> Int],
           \A y \in S : h[y] = f[y]
    PROVE  SumOver(h, S) = SumOver(f, S)
BY PartialAgrees DEF SumOver

\* One element is added: the sum grows by its value.
LEMMA SumExtends ==
    ASSUME NEW S, IsFiniteSet(S), NEW x, x \notin S, NEW f \in [S -> Int],
           NEW h \in [S \cup {x} -> Int], \A y \in S : h[y] = f[y]
    PROVE  SumOver(h, S \cup {x}) = SumOver(f, S) + h[x]
<1> DEFINE T == S \cup {x}
<1>1. IsFiniteSet(T) /\ T \ {x} = S /\ x \in T /\ S \in SUBSET T
  BY FS_AddElement
<1> HIDE DEF T
<1>2. h \in [T -> Int]
  BY DEF T
<1>3. SumOver(h, T) = h[x] + Partial(h, T)[S]
  BY <1>1, <1>2, PartialRemoves DEF SumOver
<1>4. Partial(h, T)[S] = SumOver(f, S)
  BY <1>1, <1>2, PartialAgrees DEF SumOver
<1>5. SumOver(f, S) \in Int /\ h[x] \in Int
  BY <1>1, <1>2, SumType
<1> QED
  BY <1>3, <1>4, <1>5 DEF T

\* A sum of naturals is a natural, at least each of its values.
LEMMA SumBounds ==
    ASSUME NEW S, IsFiniteSet(S), NEW f \in [S -> Nat]
    PROVE  SumOver(f, S) \in Nat /\ \A x \in S : f[x] <= SumOver(f, S)
<1> DEFINE P == Partial(f, S)
           Q == {s \in SUBSET S : P[s] \in Nat}
<1>0. f \in [S -> Int]
  OBVIOUS
<1>1. {} \in Q
  BY <1>0, PartialEquations
<1>2. ASSUME NEW s \in SUBSET S, s # {}, \A x \in s : s \ {x} \in Q
      PROVE  s \in Q
  <2>1. Pick(s) \in s /\ P[s] = f[Pick(s)] + P[s \ {Pick(s)}]
    BY <1>0, <1>2, PartialEquations
  <2> QED
    BY <1>2, <2>1
<1>3. SUBSET S \subseteq Q
  <2> HIDE DEF Q
  <2> QED
    BY <1>1, <1>2, SubsetStep
<1>4. \A s \in SUBSET S : P[s] \in Nat
  BY <1>3
<1>5. \A x \in S : P[S] = f[x] + P[S \ {x}]
  BY <1>0, PartialRemoves
<1> HIDE DEF P
<1>6. P[S] \in Nat /\ \A x \in S : P[S \ {x}] \in Nat
  BY <1>4
<1>7. ASSUME NEW x \in S PROVE f[x] <= P[S]
  <2>1. P[S] = f[x] + P[S \ {x}]
    BY <1>5
  <2>2. f[x] \in Nat /\ P[S \ {x}] \in Nat
    BY <1>6
  <2> QED
    BY <2>1, <2>2
<1> QED
  BY <1>6, <1>7 DEF SumOver, P
=============================================================================

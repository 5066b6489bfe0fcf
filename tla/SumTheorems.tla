---------------------------- MODULE SumTheorems -----------------------------
(***************************************************************************)
(* What SumFunction, with which the statistics and the slope of the prices *)
(* are stated, returns.  Its definition chooses the function that adds up  *)
(* the values over every subset of the domain, so the lemmas show first    *)
(* that there is one and that the order of the terms does not matter.      *)
(* Induction is by a least counterexample: Least, and from it Induct.      *)
(***************************************************************************)
EXTENDS Integers, Functions, FiniteSetTheorems, WellFoundedInduction, TLAPS

\* A set of natural numbers has a least element, which stands in for
\* induction: a least counterexample.
LEMMA Least ==
    ASSUME NEW T, T \subseteq Nat, T # {}
    PROVE  \E n \in T : \A k \in T : n <= k
<1>1. PICK n \in T : \A k \in T : ~(<<k, n>> \in OpToRel(<, Nat))
  BY NatLessThanWellFounded, WFMin
<1>2. \A k \in T : k \in Nat /\ n \in Nat /\ ~(k < n)
  BY <1>1 DEF OpToRel
<1>3. \A k \in T : n <= k
  BY <1>2
<1> QED
  BY <1>3

\* A set of numbers that contains 0 and the successor of each of its elements
\* contains them all.
LEMMA Induct ==
    ASSUME NEW T, 0 \in T, \A n \in Nat : n \in T => n + 1 \in T
    PROVE  Nat \subseteq T
<1> SUFFICES ASSUME Nat \ T # {} PROVE FALSE
  OBVIOUS
<1>1. PICK n \in Nat \ T : \A k \in Nat \ T : n <= k
  BY Least
<1>2. n # 0 /\ n - 1 \in Nat /\ ~(n <= n - 1)
  BY <1>1
<1>3. n - 1 \in T
  BY <1>1, <1>2
<1>4. (n - 1) + 1 = n
  BY <1>1
<1> QED
  BY <1>1, <1>2, <1>3, <1>4

Step(F, f, s) == IF s = {} THEN 0 ELSE LET x == CHOOSE x \in s : TRUE IN f[x] + F[s \ {x}]

\* The equation by which SumFunction defines the sums over subsets of S.
Recurs(F, f, S) == F = [s \in SUBSET S |-> Step(F, f, s)]

Upto(S, n) == {s \in SUBSET S : Cardinality(s) <= n}

SumsUpto(f, S, n) ==
    \E F \in [Upto(S, n) -> Int] : \A s \in Upto(S, n) : F[s] = Step(F, f, s)

\* F[s] is the sum of f over s, whichever element is taken out of s first.
IsSum(F, f, S) ==
    /\ F \in [SUBSET S -> Int]
    /\ F[{}] = 0
    /\ \A s \in SUBSET S : \A x \in s : F[s] = f[x] + F[s \ {x}]

LEMMA Unfold ==
    ASSUME NEW S, NEW f, DOMAIN f = S
    PROVE  SumFunction(f) = (CHOOSE F : Recurs(F, f, S))[S]
BY DEF SumFunction, SumFunctionOnSet, FoldFunctionOnSet, MapThenFoldSet, Step, Recurs

LEMMA Subsets ==
    ASSUME NEW S, IsFiniteSet(S), NEW s \in SUBSET S
    PROVE  /\ IsFiniteSet(s) /\ Cardinality(s) \in Nat
           /\ Cardinality(s) <= Cardinality(S)
           /\ \A x \in s : Cardinality(s \ {x}) = Cardinality(s) - 1
           /\ Cardinality(s) = 0 <=> s = {}
BY FS_Subset, FS_CardinalityType, FS_RemoveElement, FS_EmptySet

LEMMA SumsStep ==
    ASSUME NEW S, IsFiniteSet(S), NEW f \in [S -> Int], NEW n \in Nat, SumsUpto(f, S, n)
    PROVE  SumsUpto(f, S, n + 1)
<1>1. PICK F \in [Upto(S, n) -> Int] : \A s \in Upto(S, n) : F[s] = Step(F, f, s)
  BY DEF SumsUpto
<1> DEFINE G == [s \in Upto(S, n + 1) |-> Step(F, f, s)]
<1>2. ASSUME NEW s \in Upto(S, n + 1), s # {}
      PROVE  /\ (CHOOSE x \in s : TRUE) \in S
             /\ s \ {CHOOSE x \in s : TRUE} \in Upto(S, n)
  <2>1. (CHOOSE x \in s : TRUE) \in s
    BY <1>2
  <2>2. Cardinality(s \ {CHOOSE x \in s : TRUE}) = Cardinality(s) - 1
    BY <2>1, Subsets DEF Upto
  <2>3. Cardinality(s) \in Nat /\ Cardinality(s) <= n + 1
    BY Subsets DEF Upto
  <2> QED
    BY <2>1, <2>2, <2>3 DEF Upto
<1>3. G \in [Upto(S, n + 1) -> Int]
  <2> SUFFICES ASSUME NEW s \in Upto(S, n + 1) PROVE Step(F, f, s) \in Int
    OBVIOUS
  <2>1. CASE s = {}
    BY <2>1 DEF Step
  <2>2. CASE s # {}
    BY <1>1, <1>2, <2>2 DEF Step
  <2> QED
    BY <2>1, <2>2
<1>4. \A s \in Upto(S, n) : s \in Upto(S, n + 1) /\ G[s] = F[s]
  <2>1. \A s \in Upto(S, n) : s \in Upto(S, n + 1)
    BY Subsets DEF Upto
  <2> QED
    BY <1>1, <2>1
<1>5. ASSUME NEW s \in Upto(S, n + 1) PROVE G[s] = Step(G, f, s)
  <2>1. CASE s = {}
    BY <2>1 DEF Step
  <2>2. CASE s # {}
    <3>1. G[s \ {CHOOSE x \in s : TRUE}] = F[s \ {CHOOSE x \in s : TRUE}]
      BY <1>2, <1>4, <2>2
    <3>2. G[s] = Step(F, f, s)
      OBVIOUS
    <3> HIDE DEF G
    <3> QED
      BY <2>2, <3>1, <3>2 DEF Step
  <2> QED
    BY <2>1, <2>2
<1> HIDE DEF G
<1> QED
  BY <1>3, <1>5 DEF SumsUpto

\* There is a function that satisfies the definition of the sum.
LEMMA SumExists ==
    ASSUME NEW S, IsFiniteSet(S), NEW f \in [S -> Int]
    PROVE  \E F \in [SUBSET S -> Int] : Recurs(F, f, S)
<1> DEFINE T == {n \in Nat : SumsUpto(f, S, n)}
<1>1. 0 \in T
  <2> DEFINE F == [s \in Upto(S, 0) |-> 0]
  <2>1. \A s \in Upto(S, 0) : s = {}
    BY Subsets DEF Upto
  <2>2. \A s \in Upto(S, 0) : F[s] = Step(F, f, s)
    BY <2>1 DEF Step
  <2>3. F \in [Upto(S, 0) -> Int]
    OBVIOUS
  <2> HIDE DEF F
  <2>4. SumsUpto(f, S, 0)
    BY <2>2, <2>3 DEF SumsUpto
  <2> QED
    BY <2>4
<1>2. \A n \in Nat : n \in T => n + 1 \in T
  BY SumsStep
<1>3. Nat \subseteq T
  <2> HIDE DEF T
  <2> QED
    BY <1>1, <1>2, Induct
<1>4. Cardinality(S) \in Nat /\ Upto(S, Cardinality(S)) = SUBSET S
  BY Subsets DEF Upto
<1>5. PICK F \in [SUBSET S -> Int] : \A s \in SUBSET S : F[s] = Step(F, f, s)
  BY <1>3, <1>4 DEF SumsUpto
<1> QED
  BY <1>5 DEF Recurs

\* What SumFunction(f) is a value of.
LEMMA SumIsSum ==
    ASSUME NEW S, IsFiniteSet(S), NEW f \in [S -> Int]
    PROVE  \E F : IsSum(F, f, S) /\ SumFunction(f) = F[S]
<1>1. PICK F : F = CHOOSE G : Recurs(G, f, S)
  OBVIOUS
<1>2. Recurs(F, f, S)
  BY <1>1, SumExists
<1>3. SumFunction(f) = F[S]
  BY <1>1, Unfold
<1>4. DOMAIN F = SUBSET S /\ \A s \in SUBSET S : F[s] = Step(F, f, s)
  BY <1>2 DEF Recurs
<1> DEFINE Good(s) == F[s] \in Int /\ \A x \in s : F[s] = f[x] + F[s \ {x}]
           T == {n \in Nat : \A s \in SUBSET S : Cardinality(s) <= n => Good(s)}
<1>5. 0 \in T
  BY <1>4, Subsets DEF Step
<1>6. ASSUME NEW n \in Nat, n \in T PROVE n + 1 \in T
  <2> SUFFICES ASSUME NEW s \in SUBSET S, Cardinality(s) = n + 1
               PROVE  Good(s)
    BY <1>6, Subsets
  <2>1. s # {}
    BY Subsets
  <2>2. PICK c \in s : F[s] = f[c] + F[s \ {c}]
    BY <1>4, <2>1 DEF Step
  <2>3. ASSUME NEW r \in SUBSET S, Cardinality(r) <= n PROVE Good(r)
    BY <1>6, <2>3
  <2>4. ASSUME NEW x \in s
        PROVE  s \ {x} \in SUBSET S /\ Cardinality(s \ {x}) = n
    BY Subsets
  <2>5. \A x \in s : Good(s \ {x}) /\ F[s \ {x}] \in Int
    <3> SUFFICES ASSUME NEW x \in s PROVE Good(s \ {x})
      OBVIOUS
    <3> HIDE DEF Good
    <3> QED
      BY <2>3, <2>4
  <2>6. ASSUME NEW x \in s, x # c
        PROVE  F[s] = f[x] + F[s \ {x}]
    <3>1. F[s \ {c}] = f[x] + F[(s \ {c}) \ {x}]
      BY <2>5, <2>6
    <3>2. F[s \ {x}] = f[c] + F[(s \ {x}) \ {c}]
      BY <2>5, <2>6
    <3>3. (s \ {c}) \ {x} = (s \ {x}) \ {c}
      OBVIOUS
    <3>4. F[(s \ {x}) \ {c}] \in Int
      <4>1. (s \ {x}) \ {c} \in SUBSET S /\ Cardinality((s \ {x}) \ {c}) = n - 1
        <5>1. PICK r \in SUBSET S : r = s \ {x} /\ c \in r /\ Cardinality(r) = n
          BY <2>4, <2>6
        <5> QED
          BY <5>1, Subsets
      <4> QED
        BY <2>3, <4>1
    <3>5. PICK a \in Int, b \in Int, z \in Int :
              a = f[x] /\ b = f[c] /\ z = F[(s \ {x}) \ {c}]
      BY <3>4
    <3>6. F[s] = b + (a + z) /\ F[s \ {x}] = b + z
      BY <2>2, <3>1, <3>2, <3>3, <3>5
    <3>7. b + (a + z) = a + (b + z)
      OBVIOUS
    <3> QED
      BY <3>5, <3>6, <3>7
  <2>7. F[s] \in Int
    <3>1. f[c] \in Int /\ F[s \ {c}] \in Int
      BY <2>5
    <3> QED
      BY <2>2, <3>1
  <2> QED
    BY <2>2, <2>6, <2>7
<1>7. \A s \in SUBSET S : Good(s)
  <2>1. \A n \in Nat : n \in T => n + 1 \in T
    BY <1>6
  <2>2. Nat \subseteq T
    <3> HIDE DEF T
    <3> QED
      BY <1>5, <2>1, Induct
  <2> QED
    BY <2>2, Subsets
<1>8. IsSum(F, f, S)
  <2>1. F[{}] = 0
    BY <1>4 DEF Step
  <2>2. F \in [SUBSET S -> Int]
    <3>1. \A s \in SUBSET S : F[s] \in Int
      BY <1>7
    <3>2. F = [s \in SUBSET S |-> F[s]]
      BY <1>2 DEF Recurs
    <3> QED
      BY <3>1, <3>2
  <2> QED
    BY <1>7, <2>1, <2>2 DEF IsSum
<1> QED
  BY <1>3, <1>8

\* Two sums over the same values are the same.
LEMMA SumUnique ==
    ASSUME NEW S, NEW R, NEW f, NEW g, NEW F, NEW G, IsSum(F, f, S), IsSum(G, g, R),
           NEW U, IsFiniteSet(U), U \subseteq S, U \subseteq R, \A x \in U : f[x] = g[x]
    PROVE  F[U] = G[U]
<1> DEFINE T == {n \in Nat : \A s \in SUBSET U : Cardinality(s) = n => F[s] = G[s]}
<1>1. 0 \in T
  BY Subsets DEF IsSum
<1>2. ASSUME NEW n \in Nat, n \in T PROVE n + 1 \in T
  <2> SUFFICES ASSUME NEW s \in SUBSET U, Cardinality(s) = n + 1
               PROVE  F[s] = G[s]
    OBVIOUS
  <2>1. PICK x : x \in s
    BY Subsets
  <2>2. s \ {x} \in SUBSET U /\ Cardinality(s \ {x}) = n
    BY <2>1, Subsets
  <2>3. F[s \ {x}] = G[s \ {x}]
    BY <1>2, <2>2
  <2>4. F[s] = f[x] + F[s \ {x}] /\ G[s] = g[x] + G[s \ {x}]
    BY <2>1 DEF IsSum
  <2> QED
    BY <2>1, <2>3, <2>4
<1>3. Nat \subseteq T
  <2>1. \A n \in Nat : n \in T => n + 1 \in T
    BY <1>2
  <2> HIDE DEF T
  <2> QED
    BY <1>1, <2>1, Induct
<1> QED
  BY <1>3, Subsets

\* The value of the sum changes with one of its terms.
LEMMA SumUpdate ==
    ASSUME NEW S, IsFiniteSet(S), NEW f \in [S -> Int], NEW g \in [S -> Int], NEW x \in S,
           \A y \in S \ {x} : g[y] = f[y]
    PROVE  /\ SumFunction(f) \in Int
           /\ SumFunction(g) = SumFunction(f) + (g[x] - f[x])
<1>1. PICK F : IsSum(F, f, S) /\ SumFunction(f) = F[S]
  BY SumIsSum
<1>2. PICK G : IsSum(G, g, S) /\ SumFunction(g) = G[S]
  BY SumIsSum
<1>3. F[S \ {x}] = G[S \ {x}]
  BY <1>1, <1>2, SumUnique, Subsets
<1>4. F[S] = f[x] + F[S \ {x}] /\ G[S] = g[x] + G[S \ {x}] /\ F[S \ {x}] \in Int
  BY <1>1, <1>2 DEF IsSum
<1> QED
  BY <1>1, <1>2, <1>3, <1>4

\* A new term is added to the sum.
LEMMA SumExtend ==
    ASSUME NEW S, IsFiniteSet(S), NEW f \in [S -> Int], NEW x, x \notin S,
           NEW g \in [S \cup {x} -> Int], \A y \in S : g[y] = f[y]
    PROVE  /\ SumFunction(f) \in Int
           /\ SumFunction(g) = SumFunction(f) + g[x]
<1>1. PICK F : IsSum(F, f, S) /\ SumFunction(f) = F[S]
  BY SumIsSum
<1>2. PICK G : IsSum(G, g, S \cup {x}) /\ SumFunction(g) = G[S \cup {x}]
  BY SumIsSum, FS_AddElement
<1>3. F[S] = G[S]
  BY <1>1, <1>2, SumUnique
<1>4. (S \cup {x}) \ {x} = S
  OBVIOUS
<1>5. G[S \cup {x}] = g[x] + G[(S \cup {x}) \ {x}]
  BY <1>2 DEF IsSum
<1>6. PICK a \in Int, z \in Int : a = g[x] /\ z = F[S]
  BY <1>1 DEF IsSum
<1>7. SumFunction(g) = a + z /\ SumFunction(f) = z
  BY <1>1, <1>2, <1>3, <1>4, <1>5, <1>6
<1> QED
  BY <1>6, <1>7

\* The sum of f over one more place.
LEMMA SumOfMore ==
    ASSUME NEW S, IsFiniteSet(S), NEW x, x \notin S, NEW f, \A y \in S \cup {x} : f[y] \in Int
    PROVE  /\ SumFunction([y \in S |-> f[y]]) \in Int
           /\ SumFunction([y \in S \cup {x} |-> f[y]]) = SumFunction([y \in S |-> f[y]]) + f[x]
<1>1. PICK g \in [S -> Int] : g = [y \in S |-> f[y]]
  OBVIOUS
<1>2. PICK h \in [S \cup {x} -> Int] : h = [y \in S \cup {x} |-> f[y]]
  OBVIOUS
<1>3. (\A y \in S : h[y] = g[y]) /\ h[x] = f[x]
  BY <1>1, <1>2
<1>4. SumFunction(g) \in Int /\ SumFunction(h) = SumFunction(g) + h[x]
  BY <1>3, SumExtend
<1> QED
  BY <1>1, <1>2, <1>3, <1>4

\* A sum of nothing but 0 is 0.
LEMMA SumZero ==
    ASSUME NEW S, IsFiniteSet(S), NEW f \in [S -> {0}]
    PROVE  SumFunction(f) = 0
<1>1. PICK F : IsSum(F, f, S) /\ SumFunction(f) = F[S]
  BY SumIsSum
<1>2. IsSum([s \in SUBSET S |-> 0], f, S)
  BY DEF IsSum
<1>3. F[S] = [s \in SUBSET S |-> 0][S]
  BY <1>1, <1>2, SumUnique
<1> QED
  BY <1>1, <1>3

\* One term grows by d; a term that was not there counts as 0.
LEMMA SumAdd ==
    ASSUME NEW S, IsFiniteSet(S), NEW f \in [S -> Int], NEW x, NEW d \in Int,
           NEW g \in [S \cup {x} -> Int], \A y \in S \ {x} : g[y] = f[y],
           g[x] = (IF x \in S THEN f[x] ELSE 0) + d
    PROVE  /\ SumFunction(f) \in Int
           /\ SumFunction(g) = SumFunction(f) + d
<1>1. CASE x \in S
  <2>1. g \in [S -> Int] /\ g[x] - f[x] = d
    <3>1. S \cup {x} = S /\ f[x] \in Int
      BY <1>1
    <3> QED
      BY <1>1, <3>1
  <2> QED
    BY <1>1, <2>1, SumUpdate
<1>2. CASE x \notin S
  BY <1>2, SumExtend
<1> QED
  BY <1>1, <1>2

-----------------------------------------------------------------------------
(* Sums over 0..k                                                          *)

\* The sums over the first places of a list, the last of which is its sum.
LEMMA PrefixSums ==
    ASSUME NEW k \in Nat, NEW f \in [0..k -> Int]
    PROVE  \E F \in [0 .. k + 1 -> Int] :
              /\ F[0] = 0
              /\ \A m \in 0..k : F[m + 1] = F[m] + f[m]
              /\ F[k + 1] = SumFunction(f)
<1> DEFINE part(m) == [x \in 0 .. m - 1 |-> f[x]]
           F == [m \in 0 .. k + 1 |-> SumFunction(part(m))]
<1>1. part(0) \in [{} -> {0}] /\ SumFunction(part(0)) = 0
    <2>1. part(0) \in [{} -> {0}]
        OBVIOUS
    <2> HIDE DEF part
    <2> QED BY <2>1, SumZero, FS_EmptySet
<1>2. ASSUME NEW m \in 0..k
      PROVE  /\ SumFunction(part(m)) \in Int
             /\ SumFunction(part(m + 1)) = SumFunction(part(m)) + f[m]
    <2>1. PICK R : R = 0 .. m - 1
        OBVIOUS
    <2>2. IsFiniteSet(R) /\ m \notin R /\ R \cup {m} = 0 .. (m + 1) - 1
        <3>1. IsFiniteSet(0 .. m - 1)
            BY FS_Interval
        <3> QED BY <2>1, <3>1
    <2>3. \A x \in 0 .. (m + 1) - 1 : x \in 0..k /\ f[x] \in Int
        OBVIOUS
    <2>4. part(m) = [x \in R |-> f[x]] /\ part(m + 1) = [x \in R \cup {m} |-> f[x]]
        BY <2>1, <2>2
    <2>5. \A x \in R \cup {m} : f[x] \in Int
        BY <2>2, <2>3
    <2> HIDE DEF part
    <2>6. IsFiniteSet(R) /\ m \notin R
        BY <2>2
    <2>7. /\ SumFunction([x \in R |-> f[x]]) \in Int
          /\ SumFunction([x \in R \cup {m} |-> f[x]]) = SumFunction([x \in R |-> f[x]]) + f[m]
        BY <2>5, <2>6, SumOfMore, Zenon
    <2> QED BY <2>4, <2>7
<1>3. SumFunction(part(k + 1)) \in Int
    <2>1. k \in 0..k /\ f[k] \in Int
        OBVIOUS
    <2> HIDE DEF part
    <2> QED BY <1>2, <2>1
<1>4. F \in [0 .. k + 1 -> Int]
    <2> SUFFICES ASSUME NEW m \in 0 .. k + 1 PROVE SumFunction(part(m)) \in Int
        OBVIOUS
    <2>1. m \in 0..k \/ m = k + 1
        OBVIOUS
    <2> HIDE DEF part
    <2> QED BY <1>2, <1>3, <2>1
<1>5. F[0] = 0
    <2>1. 0 \in 0 .. k + 1
        OBVIOUS
    <2> HIDE DEF part
    <2> QED BY <1>1, <2>1
<1>6. ASSUME NEW m \in 0..k PROVE F[m + 1] = F[m] + f[m]
    <2>1. m \in 0 .. k + 1 /\ m + 1 \in 0 .. k + 1
        OBVIOUS
    <2> HIDE DEF part
    <2> QED BY <1>2, <2>1
<1>7. F[k + 1] = SumFunction(f)
    <2>1. part(k + 1) = f /\ k + 1 \in 0 .. k + 1
        OBVIOUS
    <2> HIDE DEF part
    <2> QED BY <2>1
<1> HIDE DEF F
<1> QED BY <1>4, <1>5, <1>6, <1>7

\* The sum of a negated list.
LEMMA SumNegated ==
    ASSUME NEW k \in Nat, NEW f \in [0..k -> Int]
    PROVE  /\ SumFunction(f) \in Int
           /\ SumFunction([x \in 0..k |-> -f[x]]) = -SumFunction(f)
<1> DEFINE g == [x \in 0..k |-> -f[x]]
<1>1. g \in [0..k -> Int] /\ \A m \in 0..k : g[m] = -f[m]
    OBVIOUS
<1> HIDE DEF g
<1>2. PICK F \in [0 .. k + 1 -> Int] :
          F[0] = 0 /\ (\A m \in 0..k : F[m + 1] = F[m] + f[m]) /\ F[k + 1] = SumFunction(f)
    BY PrefixSums
<1>3. PICK G \in [0 .. k + 1 -> Int] :
          G[0] = 0 /\ (\A m \in 0..k : G[m + 1] = G[m] + g[m]) /\ G[k + 1] = SumFunction(g)
    BY <1>1, PrefixSums
<1> DEFINE T == {m \in Nat : m <= k + 1 => G[m] = -F[m]}
<1>4. 0 \in T
    BY <1>2, <1>3
<1>5. ASSUME NEW m \in Nat, m \in T PROVE m + 1 \in T
    <2> SUFFICES ASSUME m + 1 <= k + 1 PROVE G[m + 1] = -F[m + 1]
        OBVIOUS
    <2>1. m \in 0..k /\ m \in 0 .. k + 1 /\ m <= k + 1
        OBVIOUS
    <2>2. PICK a \in Int, b \in Int : a = F[m] /\ b = f[m]
        BY <2>1
    <2>3. G[m] = -a
        BY <1>5, <2>1, <2>2
    <2>4. G[m + 1] = -a + -b /\ F[m + 1] = a + b
        BY <1>1, <1>2, <1>3, <2>1, <2>2, <2>3
    <2> QED BY <2>4
<1>6. k + 1 \in T
    <2>1. \A m \in Nat : m \in T => m + 1 \in T
        BY <1>5
    <2>2. Nat \subseteq T
        <3> HIDE DEF T
        <3> QED BY <1>4, <2>1, Induct
    <2> QED BY <2>2
<1>7. F[k + 1] \in Int /\ G[k + 1] = -F[k + 1]
    <2>1. k + 1 \in 0 .. k + 1
        OBVIOUS
    <2> QED BY <1>6, <2>1
<1> QED BY <1>2, <1>3, <1>7 DEF g
=============================================================================

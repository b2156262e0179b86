-------------------------------- MODULE Sums --------------------------------
(***************************************************************************)
(* What MapThenSumSet computes, for sums of integers over finite sets: it  *)
(* does not matter in which order the elements are chosen.  The induction  *)
(* over the set is by a smallest counterexample.                           *)
(***************************************************************************)
EXTENDS Integers, FiniteSets, FiniteSetsExt, FiniteSetTheorems,
        WellFoundedInduction, TLAPS

LEMMA SmallestOf ==
  ASSUME NEW B \in SUBSET Nat, B # {}
  PROVE  \E m \in B : \A n \in B : m <= n
<1>1. PICK m \in B : \A n \in B : ~(<<n, m>> \in OpToRel(<, Nat))
  BY NatLessThanWellFounded, WFMin
<1>2. \A n \in B : ~(n < m)
  BY <1>1 DEF OpToRel
<1> QED
  BY <1>2

-----------------------------------------------------------------------------
(* The recursive function inside MapThenSumSet.                            *)
Pick(s) == CHOOSE x \in s : TRUE

Body(f, S, g) ==
  [s \in SUBSET S |-> IF s = {} THEN 0 ELSE f[Pick(s)] + g[s \ {Pick(s)}]]

Adds(f, S, g) == g = Body(f, S, g)

SumOf(f, S) == MapThenSumSet(LAMBDA x : f[x], S)

LEMMA PickIsIn ==
  ASSUME NEW s, s # {}
  PROVE  Pick(s) \in s
BY DEF Pick

LEMMA SmallerByOne ==
  ASSUME NEW s, IsFiniteSet(s), s # {}
  PROVE  /\ IsFiniteSet(s \ {Pick(s)}) /\ Cardinality(s) \in Nat
         /\ Cardinality(s \ {Pick(s)}) \in Nat
         /\ Cardinality(s \ {Pick(s)}) = Cardinality(s) - 1
<1>1. Pick(s) \in s
  BY PickIsIn
<1> QED
  BY <1>1, FS_RemoveElement, FS_CardinalityType

(* The function up to sets of n elements.                                  *)
Level(S, n) == {s \in SUBSET S : Cardinality(s) <= n}

Upto(f, S, n, g) ==
  g = [s \in Level(S, n) |-> IF s = {} THEN 0 ELSE f[Pick(s)] + g[s \ {Pick(s)}]]

LEMMA UptoExists ==
  ASSUME NEW f, NEW S, IsFiniteSet(S), NEW n \in Nat
  PROVE  \E g : Upto(f, S, n, g)
<1> DEFINE Bad == {k \in Nat : ~ \E g : Upto(f, S, k, g)}
<1>1. SUFFICES ASSUME Bad # {} PROVE FALSE
  OBVIOUS
<1>2. PICK m \in Bad : \A k \in Bad : m <= k
  BY <1>1, SmallestOf
<1>3. m \in Nat /\ ~ \E g : Upto(f, S, m, g)
  BY <1>2
<1>4. CASE m = 0
  <2> DEFINE g == [s \in Level(S, m) |-> 0]
  <2>1. \A s \in Level(S, m) : s = {}
    <3> TAKE s \in Level(S, m)
    <3>1. s \subseteq S /\ IsFiniteSet(s) /\ Cardinality(s) <= 0
      BY <1>4, FS_Subset DEF Level
    <3> QED
      BY <3>1, FS_CardinalityType, FS_EmptySet
  <2>2. g = [s \in Level(S, m) |-> IF s = {} THEN 0 ELSE f[Pick(s)] + g[s \ {Pick(s)}]]
    BY <2>1
  <2> QED
    BY <1>3, <2>2 DEF Upto
<1>5. CASE m # 0
  <2>1. m - 1 \in Nat /\ m - 1 \notin Bad
    BY <1>2, <1>3, <1>5
  <2>2. PICK g : Upto(f, S, m - 1, g)
    BY <2>1
  <2> DEFINE h == [s \in Level(S, m) |-> IF s = {} THEN 0 ELSE f[Pick(s)] + g[s \ {Pick(s)}]]
  <2>3. ASSUME NEW t \in Level(S, m - 1) PROVE t \in Level(S, m) /\ h[t] = g[t]
    <3>1. t \in Level(S, m)
      BY <1>3, FS_Subset, FS_CardinalityType DEF Level
    <3>2. h[t] = IF t = {} THEN 0 ELSE f[Pick(t)] + g[t \ {Pick(t)}]
      BY <3>1
    <3>3. g[t] = IF t = {} THEN 0 ELSE f[Pick(t)] + g[t \ {Pick(t)}]
      BY <2>2 DEF Upto
    <3> QED
      BY <3>1, <3>2, <3>3
  <2>4. ASSUME NEW s \in Level(S, m), s # {} PROVE s \ {Pick(s)} \in Level(S, m - 1)
    <3>1. s \subseteq S /\ IsFiniteSet(s) /\ Cardinality(s) <= m
      BY FS_Subset DEF Level
    <3> QED
      BY <1>3, <2>4, <3>1, SmallerByOne DEF Level
  <2> HIDE DEF Bad
  <2>5. \A s \in Level(S, m) : s # {} => h[s \ {Pick(s)}] = g[s \ {Pick(s)}]
    BY <2>3, <2>4
  <2>6. h = [s \in Level(S, m) |-> IF s = {} THEN 0 ELSE f[Pick(s)] + h[s \ {Pick(s)}]]
    BY <2>5
  <2> QED
    BY <1>3, <2>6 DEF Upto
<1> QED
  BY <1>4, <1>5

LEMMA AddsExists ==
  ASSUME NEW f, NEW S, IsFiniteSet(S)
  PROVE  \E g : Adds(f, S, g)
<1>1. Cardinality(S) \in Nat
  BY FS_CardinalityType
<1>2. PICK g : Upto(f, S, Cardinality(S), g)
  BY <1>1, UptoExists
<1>3. Level(S, Cardinality(S)) = SUBSET S
  BY FS_Subset DEF Level
<1> QED
  BY <1>2, <1>3 DEF Upto, Adds, Body

LEMMA SumByAdds ==
  ASSUME NEW f, NEW S, IsFiniteSet(S)
  PROVE  \E g : Adds(f, S, g) /\ SumOf(f, S) = g[S]
<1>1. SumOf(f, S) = (CHOOSE h : h = Body(f, S, h))[S]
  BY Zenon DEF SumOf, MapThenSumSet, MapThenFoldSet, Body, Pick
<1>2. \E g : Adds(f, S, g)
  BY AddsExists
<1> QED
  BY <1>1, <1>2, Zenon DEF Adds

-----------------------------------------------------------------------------
(* Two functions that agree on a set have the same sum over it.            *)
LEMMA AddsAgree ==
  ASSUME NEW f, NEW S, NEW g, Adds(f, S, g),
         NEW h, NEW T, NEW k, Adds(h, T, k),
         NEW R, IsFiniteSet(R), R \subseteq S, R \subseteq T,
         \A x \in R : f[x] = h[x]
  PROVE  g[R] = k[R]
<1> DEFINE Bad == {n \in Nat : \E s \in SUBSET R : Cardinality(s) = n /\ g[s] # k[s]}
<1>1. \A s \in SUBSET R : IsFiniteSet(s) /\ Cardinality(s) \in Nat
  BY FS_Subset, FS_CardinalityType
<1>2. SUFFICES ASSUME Bad # {} PROVE FALSE
  BY <1>1
<1>3. PICK m \in Bad : \A n \in Bad : m <= n
  BY <1>2, SmallestOf
<1>4. PICK s \in SUBSET R : Cardinality(s) = m /\ g[s] # k[s]
  BY <1>3
<1>5. /\ g[s] = IF s = {} THEN 0 ELSE f[Pick(s)] + g[s \ {Pick(s)}]
      /\ k[s] = IF s = {} THEN 0 ELSE h[Pick(s)] + k[s \ {Pick(s)}]
  BY DEF Adds, Body
<1>6. s # {}
  BY <1>4, <1>5
<1>7. Pick(s) \in s /\ Cardinality(s \ {Pick(s)}) \in Nat /\ Cardinality(s \ {Pick(s)}) < m
  BY <1>1, <1>4, <1>6, PickIsIn, SmallerByOne
<1>8. s \ {Pick(s)} \in SUBSET R /\ ~(Cardinality(s \ {Pick(s)}) \in Bad)
  <2>1. m \in Nat /\ \A n \in Nat : n < m => n \notin Bad
    <3> HIDE DEF Bad
    <3>1. m \in Nat
      BY <1>3 DEF Bad
    <3> QED
      BY <1>3, <3>1
  <2> HIDE DEF Bad
  <2> QED
    BY <1>7, <2>1
<1>9. g[s \ {Pick(s)}] = k[s \ {Pick(s)}]
  BY <1>7, <1>8
<1> QED
  BY <1>4, <1>5, <1>6, <1>7, <1>9

(* The sum of integers is one.                                             *)
LEMMA AddsInt ==
  ASSUME NEW f, NEW S, NEW g, Adds(f, S, g), IsFiniteSet(S),
         \A x \in S : f[x] \in Int
  PROVE  \A s \in SUBSET S : g[s] \in Int
<1> DEFINE Bad == {n \in Nat : \E s \in SUBSET S : Cardinality(s) = n /\ g[s] \notin Int}
<1>1. \A s \in SUBSET S : IsFiniteSet(s) /\ Cardinality(s) \in Nat
  BY FS_Subset, FS_CardinalityType
<1>2. SUFFICES ASSUME Bad # {} PROVE FALSE
  BY <1>1
<1>3. PICK m \in Bad : \A n \in Bad : m <= n
  BY <1>2, SmallestOf
<1>4. PICK s \in SUBSET S : Cardinality(s) = m /\ g[s] \notin Int
  BY <1>3
<1>5. g[s] = IF s = {} THEN 0 ELSE f[Pick(s)] + g[s \ {Pick(s)}]
  BY DEF Adds, Body
<1>6. s # {}
  BY <1>4, <1>5
<1>7. Pick(s) \in s /\ Cardinality(s \ {Pick(s)}) \in Nat /\ Cardinality(s \ {Pick(s)}) < m
  BY <1>1, <1>4, <1>6, PickIsIn, SmallerByOne
<1>8. s \ {Pick(s)} \in SUBSET S /\ ~(Cardinality(s \ {Pick(s)}) \in Bad)
  <2>1. m \in Nat /\ \A n \in Nat : n < m => n \notin Bad
    <3> HIDE DEF Bad
    <3>1. m \in Nat
      BY <1>3 DEF Bad
    <3> QED
      BY <1>3, <3>1
  <2> HIDE DEF Bad
  <2> QED
    BY <1>7, <2>1
<1>9. g[s \ {Pick(s)}] \in Int
  BY <1>7, <1>8
<1> QED
  BY <1>4, <1>5, <1>6, <1>7, <1>9

(* Whatever element is taken first.                                        *)
LEMMA AddsOne ==
  ASSUME NEW f, NEW S, NEW g, Adds(f, S, g), IsFiniteSet(S),
         \A x \in S : f[x] \in Int
  PROVE  \A s \in SUBSET S : \A y \in s : g[s] = g[s \ {y}] + f[y]
<1> DEFINE Bad == {n \in Nat : \E s \in SUBSET S :
                     Cardinality(s) = n /\ \E y \in s : g[s] # g[s \ {y}] + f[y]}
<1>1. \A s \in SUBSET S : IsFiniteSet(s) /\ Cardinality(s) \in Nat
  BY FS_Subset, FS_CardinalityType
<1>2. SUFFICES ASSUME Bad # {} PROVE FALSE
  BY <1>1
<1>3. PICK m \in Bad : \A n \in Bad : m <= n
  BY <1>2, SmallestOf
<1>4. PICK s \in SUBSET S : Cardinality(s) = m /\ \E y \in s : g[s] # g[s \ {y}] + f[y]
  BY <1>3
<1>5. PICK y \in s : g[s] # g[s \ {y}] + f[y]
  BY <1>4
<1> DEFINE x == Pick(s)
           r == s \ {x}
           q == s \ {y}
           p == (s \ {x}) \ {y}
<1>6. x \in s /\ s # {}
  BY PickIsIn
<1>7. \A t \in SUBSET S : t # {} => g[t] = f[Pick(t)] + g[t \ {Pick(t)}]
  BY DEF Adds, Body
<1>8. g[s] = f[x] + g[r]
  BY <1>6, <1>7
<1>9. \A t \in SUBSET S : g[t] \in Int
  BY AddsInt
<1>10. r \in SUBSET S /\ q \in SUBSET S /\ p \in SUBSET S /\ x \in S /\ y \in S
  BY <1>6
<1>11. /\ g[r] \in Int /\ g[q] \in Int /\ g[p] \in Int /\ f[x] \in Int /\ f[y] \in Int
  BY <1>9, <1>10
<1>12. x # y
  <2> SUFFICES ASSUME x = y PROVE FALSE
    OBVIOUS
  <2>1. r = s \ {y}
    OBVIOUS
  <2> HIDE DEF x, r
  <2>2. g[s] = g[r] + f[y]
    BY <1>8, <1>11
  <2> QED
    BY <1>5, <2>1, <2>2
<1>13. Cardinality(r) < m /\ Cardinality(r) \in Nat
  BY <1>1, <1>4, <1>6, SmallerByOne
<1>14. Cardinality(q) < m /\ Cardinality(q) \in Nat
  BY <1>1, <1>4, <1>6, <1>13, FS_RemoveElement
<1>15. \A t \in SUBSET S : \A z \in t :
         Cardinality(t) < m /\ Cardinality(t) \in Nat => g[t] = g[t \ {z}] + f[z]
  <2> SUFFICES ASSUME NEW t \in SUBSET S, NEW z \in t,
                      Cardinality(t) < m, Cardinality(t) \in Nat,
                      g[t] # g[t \ {z}] + f[z]
               PROVE  FALSE
    OBVIOUS
  <2>1. Cardinality(t) \in Bad
    OBVIOUS
  <2>2. m \in Nat
    BY <1>3
  <2> HIDE DEF Bad
  <2> QED
    BY <1>3, <2>1, <2>2
<1>16. y \in r /\ x \in q /\ r \ {y} = p /\ q \ {x} = p
  BY <1>6, <1>12
<1> HIDE DEF Bad, x, r, q, p
<1>17. g[r] = g[p] + f[y] /\ g[q] = g[p] + f[x]
  BY <1>10, <1>13, <1>14, <1>15, <1>16
<1>18. q = s \ {y}
  BY DEF q
<1> QED
  BY <1>5, <1>8, <1>11, <1>17, <1>18

-----------------------------------------------------------------------------
(* The facts to cite.                                                      *)
\* A sum of integers is an integer: the totals of the queue (afl-fuzz.c:3601-3603).
THEOREM SumType ==
  ASSUME NEW f, NEW S, IsFiniteSet(S), \A x \in S : f[x] \in Int
  PROVE  SumOf(f, S) \in Int
BY SumByAdds, AddsInt

\* The sum over no element is zero: the totals before the first entry.
THEOREM SumNone ==
  ASSUME NEW f
  PROVE  SumOf(f, {}) = 0
<1>1. IsFiniteSet({})
  BY FS_EmptySet
<1>2. PICK g : Adds(f, {}, g) /\ SumOf(f, {}) = g[{}]
  BY <1>1, SumByAdds
<1>3. {} \in SUBSET {}
  OBVIOUS
<1>4. g[{}] = 0
  BY <1>2, <1>3 DEF Adds, Body
<1> QED
  BY <1>2, <1>4

\* A sum depends only on the values over the set: what a step leaves alone keeps
\* its total.
THEOREM SumSame ==
  ASSUME NEW f, NEW h, NEW S, IsFiniteSet(S), \A x \in S : f[x] = h[x]
  PROVE  SumOf(f, S) = SumOf(h, S)
<1>1. PICK g : Adds(f, S, g) /\ SumOf(f, S) = g[S]
  BY SumByAdds
<1>2. PICK k : Adds(h, S, k) /\ SumOf(h, S) = k[S]
  BY SumByAdds
<1>3. g[S] = k[S]
  BY <1>1, <1>2, AddsAgree
<1> QED
  BY <1>1, <1>2, <1>3

\* A sum is that of the rest and any one of its summands, in whatever order the
\* definition takes them.
THEOREM SumTake ==
  ASSUME NEW f, NEW S, IsFiniteSet(S), \A x \in S : f[x] \in Int, NEW y \in S
  PROVE  SumOf(f, S) = SumOf(f, S \ {y}) + f[y]
<1>1. PICK g : Adds(f, S, g) /\ SumOf(f, S) = g[S]
  BY SumByAdds
<1>2. IsFiniteSet(S \ {y})
  BY FS_Subset
<1>3. PICK k : Adds(f, S \ {y}, k) /\ SumOf(f, S \ {y}) = k[S \ {y}]
  BY <1>2, SumByAdds
<1>4. g[S] = g[S \ {y}] + f[y]
  BY <1>1, AddsOne
<1>5. g[S \ {y}] = k[S \ {y}]
  BY <1>1, <1>2, <1>3, AddsAgree
<1> QED
  BY <1>1, <1>3, <1>4, <1>5

\* A new element adds its value: an entry that is added to the queue (add_to_queue,
\* afl-fuzz.c:1696-1751).
THEOREM SumAdd ==
  ASSUME NEW f, NEW S, IsFiniteSet(S), NEW y, y \notin S, \A x \in S \cup {y} : f[x] \in Int
  PROVE  SumOf(f, S \cup {y}) = SumOf(f, S) + f[y]
<1> DEFINE T == S \cup {y}
<1>1. IsFiniteSet(T) /\ y \in T /\ T \ {y} = S /\ \A x \in T : f[x] \in Int
  BY FS_AddElement
<1> HIDE DEF T
<1>2. SumOf(f, T) = SumOf(f, T \ {y}) + f[y]
  BY <1>1, SumTake
<1> QED
  BY <1>1, <1>2 DEF T

\* A sum of zeroes is zero: entries that were never measured.
THEOREM SumZero ==
  ASSUME NEW f, NEW S, IsFiniteSet(S), \A x \in S : f[x] = 0
  PROVE  SumOf(f, S) = 0
<1>1. PICK g : Adds(f, S, g) /\ SumOf(f, S) = g[S]
  BY SumByAdds
<1> DEFINE z == [s \in SUBSET S |-> 0]
           h == [x \in S |-> 0]
<1>2. Adds(h, S, z)
  <2>1. \A s \in SUBSET S : s # {} => h[Pick(s)] = 0 /\ z[s \ {Pick(s)}] = 0
    BY PickIsIn
  <2>2. z = Body(h, S, z)
    BY <2>1 DEF Body
  <2> QED
    BY <2>2 DEF Adds
<1>3. \A x \in S : f[x] = h[x]
  OBVIOUS
<1>4. z[S] = 0
  OBVIOUS
<1> HIDE DEF z, h
<1>5. g[S] = z[S]
  BY <1>1, <1>2, <1>3, AddsAgree
<1> QED
  BY <1>1, <1>4, <1>5

\* When one summand changes, the sum changes by as much: an entry that is measured
\* (calibrate_case, afl-fuzz.c:3597-3607).
THEOREM SumChange ==
  ASSUME NEW f, NEW h, NEW S, IsFiniteSet(S), NEW y \in S,
         \A x \in S : f[x] \in Int /\ h[x] \in Int,
         \A x \in S \ {y} : f[x] = h[x]
  PROVE  SumOf(h, S) - SumOf(f, S) = h[y] - f[y]
<1>1. IsFiniteSet(S \ {y}) /\ \A x \in S \ {y} : f[x] \in Int
  BY FS_Subset
<1>2. SumOf(f, S \ {y}) = SumOf(h, S \ {y}) /\ SumOf(f, S \ {y}) \in Int
  BY <1>1, SumSame, SumType
<1>3. SumOf(f, S) = SumOf(f, S \ {y}) + f[y] /\ SumOf(h, S) = SumOf(h, S \ {y}) + h[y]
  BY SumTake
<1> QED
  BY <1>2, <1>3

\* A sum of natural numbers is one, and no less than any of its summands.
THEOREM SumNat ==
  ASSUME NEW f, NEW S, IsFiniteSet(S), \A x \in S : f[x] \in Nat
  PROVE  /\ SumOf(f, S) \in Nat
         /\ \A y \in S : f[y] <= SumOf(f, S)
<1> DEFINE Bad == {n \in Nat : \E R \in SUBSET S : Cardinality(R) = n /\ SumOf(f, R) \notin Nat}
<1>1. \A R \in SUBSET S : IsFiniteSet(R) /\ Cardinality(R) \in Nat /\ \A x \in R : f[x] \in Nat /\ f[x] \in Int
  BY FS_Subset, FS_CardinalityType
<1>2. \A R \in SUBSET S : SumOf(f, R) \in Nat
  <2> SUFFICES ASSUME Bad # {} PROVE FALSE
    BY <1>1
  <2>1. PICK m \in Bad : \A n \in Bad : m <= n
    BY SmallestOf
  <2>2. PICK R \in SUBSET S : Cardinality(R) = m /\ SumOf(f, R) \notin Nat
    BY <2>1
  <2>3. R # {}
    BY <2>2, SumNone
  <2>4. PICK y \in R : TRUE
    BY <2>3
  <2>5. IsFiniteSet(R) /\ R \ {y} \in SUBSET S /\ f[y] \in Nat /\ \A x \in R : f[x] \in Int
    BY <1>1
  <2>6. SumOf(f, R) = SumOf(f, R \ {y}) + f[y]
    BY <2>5, SumTake
  <2>7. Cardinality(R \ {y}) \in Nat /\ Cardinality(R \ {y}) < m
    BY <1>1, <2>2, <2>4, <2>5, FS_RemoveElement
  <2>8. Cardinality(R \ {y}) \notin Bad
    <3>1. m \in Nat
      BY <2>1
    <3> HIDE DEF Bad
    <3> QED
      BY <2>1, <2>7, <3>1
  <2>9. SumOf(f, R \ {y}) \in Nat
    BY <2>5, <2>7, <2>8
  <2> QED
    BY <2>2, <2>5, <2>6, <2>9
<1>3. SumOf(f, S) \in Nat
  BY <1>2
<1>4. ASSUME NEW y \in S PROVE f[y] <= SumOf(f, S)
  <2>1. SumOf(f, S) = SumOf(f, S \ {y}) + f[y]
    BY <1>1, SumTake
  <2>2. SumOf(f, S \ {y}) \in Nat /\ f[y] \in Nat
    BY <1>2
  <2> QED
    BY <2>1, <2>2
<1> QED
  BY <1>3, <1>4

\* Elements that count for nothing do not change a sum: nodes that a step adds to the
\* tree (append_child, mcts.c).
THEOREM SumExtend ==
  ASSUME NEW f, NEW h, NEW S, NEW T, IsFiniteSet(T), S \subseteq T,
         \A x \in T : h[x] \in Int, \A x \in S : h[x] = f[x], \A x \in T \ S : h[x] = 0
  PROVE  SumOf(h, T) = SumOf(f, S)
<1> DEFINE D == T \ S
           Bad == {n \in Nat : \E R \in SUBSET D : Cardinality(R) = n /\ SumOf(h, S \cup R) # SumOf(f, S)}
<1>1. \A R \in SUBSET D : IsFiniteSet(R) /\ Cardinality(R) \in Nat /\ IsFiniteSet(S \cup R)
  BY FS_Subset, FS_CardinalityType
<1>2. SUFFICES ASSUME Bad # {} PROVE FALSE
  <2>1. \A R \in SUBSET D : SumOf(h, S \cup R) = SumOf(f, S)
    BY <1>1, <1>2
  <2>2. S \cup D = T /\ D \in SUBSET D
    OBVIOUS
  <2> HIDE DEF D
  <2> QED
    BY <2>1, <2>2
<1>3. PICK m \in Bad : \A n \in Bad : m <= n
  BY <1>2, SmallestOf
<1>4. PICK R \in SUBSET D : Cardinality(R) = m /\ SumOf(h, S \cup R) # SumOf(f, S)
  BY <1>3
<1>5. R # {}
  <2> SUFFICES ASSUME R = {} PROVE FALSE
    OBVIOUS
  <2>1. S \cup R = S /\ IsFiniteSet(S)
    BY FS_Subset
  <2>2. SumOf(h, S) = SumOf(f, S)
    BY <2>1, SumSame
  <2> QED
    BY <1>4, <2>1, <2>2
<1>6. PICK y \in R : TRUE
  BY <1>5
<1> DEFINE Q == R \ {y}
           U == S \cup R
<1>7. Q \in SUBSET D /\ Cardinality(Q) \in Nat /\ Cardinality(Q) < m
  <2>1. IsFiniteSet(R) /\ Cardinality(R) \in Nat /\ Cardinality(R) = m
    BY <1>1, <1>4
  <2>2. Cardinality(Q) = Cardinality(R) - 1 /\ IsFiniteSet(Q)
    BY <1>6, <2>1, FS_RemoveElement
  <2>3. Cardinality(Q) \in Nat
    BY <2>2, FS_CardinalityType
  <2>4. Q \in SUBSET D
    OBVIOUS
  <2> HIDE DEF Q, Bad
  <2> QED
    BY <2>1, <2>2, <2>3, <2>4
<1>8. Cardinality(Q) \notin Bad
  <2>1. m \in Nat
    BY <1>3
  <2> HIDE DEF Bad, Q
  <2> QED
    BY <1>3, <1>7, <2>1
<1>9. SumOf(h, S \cup Q) = SumOf(f, S)
  BY <1>7, <1>8
<1>10. IsFiniteSet(U) /\ y \in U /\ U \ {y} = S \cup Q /\ h[y] = 0 /\ \A x \in U : h[x] \in Int
  BY <1>1, <1>6
<1>11. SumOf(h, S \cup Q) \in Int
  <2>1. IsFiniteSet(S \cup Q) /\ \A x \in S \cup Q : h[x] \in Int
    BY <1>1, <1>7, <1>10
  <2> HIDE DEF Q
  <2> QED
    BY <2>1, SumType
<1> HIDE DEF Q, U
<1>12. SumOf(h, U) = SumOf(h, U \ {y}) + h[y]
  BY <1>10, SumTake
<1> QED
  BY <1>4, <1>9, <1>10, <1>11, <1>12 DEF U
=============================================================================

--------------------------- MODULE NumberProofs ----------------------------
(***************************************************************************)
(* Facts about numbers, sequences and sums that the proofs share.  What    *)
(* would need induction is proved from the least counterexample instead.   *)
(***************************************************************************)
EXTENDS Integers, Sequences, FiniteSets, FiniteSetsExt, FiniteSetTheorems,
        SequenceTheorems, WellFoundedInduction, TLAPS

\* A non-empty set of numbers has a least element.
LEMMA LeastNumber ==
    ASSUME NEW T \in SUBSET Nat, T # {}
    PROVE  \E x \in T : \A y \in T : x <= y
  <1> DEFINE Initial == {0 .. m : m \in T}
  <1>1. Initial \subseteq FiniteSubsetsOf(Nat)
    <2>1. ASSUME NEW m \in T
          PROVE  0 .. m \in FiniteSubsetsOf(Nat)
      <3>1. IsFiniteSet(0 .. m)
        BY FS_Interval
      <3>2. 0 .. m \subseteq Nat
        OBVIOUS
      <3> QED
        BY <3>1, <3>2 DEF FiniteSubsetsOf
    <2> QED
      BY <2>1
  <1>2. Initial # {}
    OBVIOUS
  <1>3. IsWellFoundedOn(StrictSubsetOrdering(Nat), FiniteSubsetsOf(Nat))
    BY FS_StrictSubsetOrderingWellFounded
  <1>4. PICK X \in Initial :
          \A Y \in Initial : ~(<<Y, X>> \in StrictSubsetOrdering(Nat))
    <2> HIDE DEF Initial
    <2> QED  BY <1>1, <1>2, <1>3, WFMin
  <1>5. PICK x \in T : X = 0 .. x
    BY <1>4
  <1>6. ASSUME NEW y \in T
        PROVE  x <= y
    <2> SUFFICES ASSUME y < x PROVE FALSE
      OBVIOUS
    <2>1. 0 .. y \in Initial
      OBVIOUS
    <2>2. /\ 0 .. y \subseteq 0 .. x /\ 0 .. x \subseteq Nat
          /\ x \in 0 .. x /\ x \notin 0 .. y
      OBVIOUS
    <2>3. <<0 .. y, 0 .. x>> \in StrictSubsetOrdering(Nat)
      BY <2>2 DEF StrictSubsetOrdering
    <2> QED
      BY <1>4, <1>5, <2>1, <2>3
  <1> QED
    BY <1>6

\* A set of numbers below a bound has a greatest element.
LEMMA GreatestNumber ==
    ASSUME NEW n \in Nat, NEW T \in SUBSET (0 .. n), T # {}
    PROVE  \E x \in T : \A y \in T : y <= x
  <1> DEFINE U == {n - x : x \in T}
  <1>1. U \in SUBSET Nat /\ U # {}
    <2>1. ASSUME NEW x \in T
          PROVE  n - x \in Nat
      <3>1. x \in 0 .. n
        OBVIOUS
      <3> QED  BY <3>1
    <2> QED  BY <2>1
  <1>2. PICK u \in U : \A v \in U : u <= v
    <2> HIDE DEF U
    <2> QED  BY <1>1, LeastNumber
  <1>3. PICK x \in T : u = n - x
    BY <1>2
  <1>4. ASSUME NEW y \in T
        PROVE  y <= x
    <2>1. n - y \in U
      OBVIOUS
    <2>2. n - x <= n - y
      <3> HIDE DEF U
      <3> QED  BY <1>2, <1>3, <2>1
    <2> QED  BY <2>2
  <1> QED
    BY <1>4

\* A function on the first n numbers is a sequence of that length.
LEMMA FunctionIsSequence ==
    ASSUME NEW S, NEW n \in Nat, NEW f \in [1 .. n -> S]
    PROVE  /\ f \in Seq(S) /\ Len(f) = n
           /\ n # 0 => f # <<>>
  <1>1. f \in Seq(S)
    BY SeqDef
  <1>2. DOMAIN f = 1 .. Len(f) /\ Len(f) \in Nat /\ DOMAIN f = 1 .. n
    BY <1>1, LenProperties
  <1>3. Len(f) = n
    <2>1. CASE n = 0
      <3>1. ~(Len(f) \in 1 .. n)
        BY <2>1, <1>2
      <3> QED  BY <2>1, <1>2, <3>1
    <2>2. CASE n # 0
      BY <2>2, <1>2
    <2> QED  BY <2>1, <2>2
  <1> QED
    BY <1>1, <1>3, EmptySeq

----------------------------------------------------------------------------
(* The sum of the lengths of finitely many sequences is the number of      *)
(* their places, which needs no recursion.                                 *)

Places(q, R) == UNION {{r} \X (1 .. Len(q[r])) : r \in R}

LEMMA PlacesOfOne ==
    ASSUME NEW r, NEW n \in Nat
    PROVE  IsFiniteSet({r} \X (1 .. n)) /\ Cardinality({r} \X (1 .. n)) = n
  <1>1. IsFiniteSet({r}) /\ Cardinality({r}) = 1
    BY FS_Singleton
  <1>2. IsFiniteSet(1 .. n) /\ Cardinality(1 .. n) = n
    BY FS_Interval
  <1>3. /\ IsFiniteSet({r} \X (1 .. n))
        /\ Cardinality({r} \X (1 .. n)) = Cardinality({r}) * Cardinality(1 .. n)
    BY <1>1, <1>2, FS_Product
  <1>4. 1 * n = n
    OBVIOUS
  <1> QED
    BY <1>1, <1>2, <1>3, <1>4

LEMMA PlacesFinite ==
    ASSUME NEW q, NEW R, IsFiniteSet(R), \A r \in R : Len(q[r]) \in Nat
    PROVE  IsFiniteSet(Places(q, R)) /\ Cardinality(Places(q, R)) \in Nat
  <1> DEFINE part(r) == {r} \X (1 .. Len(q[r]))
             S == {part(r) : r \in R}
             f == [r \in R |-> part(r)]
  <1>1. \A T \in S : IsFiniteSet(T)
    <2>1. ASSUME NEW r \in R
          PROVE  IsFiniteSet(part(r))
      BY PlacesOfOne
    <2> HIDE DEF part
    <2> QED  BY <2>1
  <1>2. IsFiniteSet(S)
    <2> HIDE DEF part
    <2>1. f \in Surjection(R, S)
      BY DEF Surjection
    <2> HIDE DEF f, S
    <2> QED  BY <2>1, FS_Surjection
  <1>3. IsFiniteSet(UNION S)
    <2> HIDE DEF S
    <2> QED  BY <1>1, <1>2, FS_UNION
  <1>4. Places(q, R) = UNION S
    BY DEF Places
  <1>5. IsFiniteSet(Places(q, R))
    <2> HIDE DEF S
    <2> QED  BY <1>3, <1>4
  <1> QED
    BY <1>5, FS_CardinalityType

LEMMA PlacesWithout ==
    ASSUME NEW q, NEW R, IsFiniteSet(R), \A r \in R : Len(q[r]) \in Nat, NEW x \in R
    PROVE  Cardinality(Places(q, R)) = Len(q[x]) + Cardinality(Places(q, R \ {x}))
  <1> DEFINE A == {x} \X (1 .. Len(q[x]))
             B == Places(q, R \ {x})
  <1>1. IsFiniteSet(A) /\ Cardinality(A) = Len(q[x])
    BY PlacesOfOne
  <1>2. IsFiniteSet(R \ {x})
    BY FS_Difference
  <1>3. IsFiniteSet(B) /\ Cardinality(B) \in Nat
    BY <1>2, PlacesFinite
  <1>4. Places(q, R) = A \cup B
    BY DEF Places
  <1>5. A \cap B = {}
    BY DEF Places
  <1> HIDE DEF A, B
  <1>6. Cardinality(A \cup B) = Cardinality(A) + Cardinality(B) - Cardinality({})
    BY <1>1, <1>3, <1>5, FS_Union
  <1>7. Cardinality({}) = 0
    BY FS_EmptySet
  <1>8. Len(q[x]) \in Nat
    OBVIOUS
  <1>9. Cardinality(Places(q, R)) = Len(q[x]) + Cardinality(B)
    BY <1>1, <1>3, <1>4, <1>6, <1>7, <1>8
  <1> QED
    BY <1>9 DEF B

LEMMA SumIsPlaces ==
    ASSUME NEW q, NEW R, IsFiniteSet(R), \A r \in R : Len(q[r]) \in Nat
    PROVE  MapThenSumSet(LAMBDA r : Len(q[r]), R) = Cardinality(Places(q, R))
  <1> DEFINE pick(s) == CHOOSE x \in s : TRUE
             next(f, s) == IF s = {} THEN 0 ELSE Len(q[pick(s)]) + f[s \ {pick(s)}]
             Sums(f) == f = [s \in SUBSET R |-> next(f, s)]
             sum == CHOOSE f : Sums(f)
             count == [s \in SUBSET R |-> Cardinality(Places(q, s))]
  <1>1. MapThenSumSet(LAMBDA r : Len(q[r]), R) = sum[R]
    BY DEF MapThenSumSet, MapThenFoldSet
  <1>2. ASSUME NEW s \in SUBSET R, s # {}
        PROVE  pick(s) \in s /\ s \ {pick(s)} \in SUBSET R
    BY <1>2
  <1> HIDE DEF pick
  <1>3. ASSUME NEW s \in SUBSET R
        PROVE  count[s] = next(count, s)
    <2>1. CASE s = {}
      <3>1. Places(q, {}) = {}
        BY DEF Places
      <3> QED  BY <2>1, <3>1, FS_EmptySet
    <2>2. CASE s # {}
      <3>1. IsFiniteSet(s) /\ \A r \in s : Len(q[r]) \in Nat
        BY FS_Subset
      <3>2. pick(s) \in s /\ s \ {pick(s)} \in SUBSET R
        BY <2>2, <1>2
      <3>3. Cardinality(Places(q, s)) = Len(q[pick(s)]) + Cardinality(Places(q, s \ {pick(s)}))
        BY <3>1, <3>2, PlacesWithout
      <3> QED  BY <2>2, <3>2, <3>3
    <2> QED  BY <2>1, <2>2
  <1>4. Sums(count)
    <2>1. count = [s \in SUBSET R |-> count[s]]
      OBVIOUS
    <2> HIDE DEF count, next
    <2> QED  BY <1>3, <2>1
  <1>5. Sums(sum)
    <2> HIDE DEF Sums, count
    <2> QED  BY <1>4
  <1> HIDE DEF sum
  <1>6. ASSUME NEW s \in SUBSET R
        PROVE  sum[s] = next(sum, s)
    <2> DEFINE n(u) == next(sum, u)
    <2> HIDE DEF n, next
    <2>1. sum = [u \in SUBSET R |-> n(u)]
      BY <1>5 DEF n
    <2>2. sum[s] = n(s)
      BY <2>1
    <2> QED  BY <2>2 DEF n
  <1>7. ASSUME NEW s \in SUBSET R
        PROVE  Cardinality(s) \in Nat /\ IsFiniteSet(s)
    BY FS_Subset, FS_CardinalityType
  <1> DEFINE T == {Cardinality(s) : s \in {u \in SUBSET R : sum[u] # count[u]}}
  <1>8. SUFFICES ASSUME sum[R] # count[R] PROVE FALSE
    BY <1>1
  <1>9. T \in SUBSET Nat /\ T # {}
    BY <1>7, <1>8
  <1>10. PICK c \in T : \A y \in T : c <= y
    <2> HIDE DEF T
    <2> QED  BY <1>9, LeastNumber
  <1>11. PICK s \in SUBSET R : sum[s] # count[s] /\ c = Cardinality(s)
    BY <1>10
  <1> HIDE DEF count
  <1>12. s # {}
    BY <1>3, <1>6, <1>11
  <1>13. pick(s) \in s /\ s \ {pick(s)} \in SUBSET R
    BY <1>2, <1>12
  <1> DEFINE u == s \ {pick(s)}
  <1>14. sum[u] # count[u]
    BY <1>3, <1>6, <1>11, <1>12
  <1>15. Cardinality(u) = Cardinality(s) - 1
    BY <1>7, <1>13, FS_RemoveElement
  <1>16. Cardinality(u) \in T
    <2> HIDE DEF u
    <2>1. u \in SUBSET R
      BY <1>13 DEF u
    <2> QED  BY <1>14, <2>1
  <1> HIDE DEF T, u
  <1>17. c <= Cardinality(u)
    BY <1>10, <1>16
  <1> QED
    BY <1>7, <1>11, <1>15, <1>17

\* The results of n steps from a, the i-th of which takes x to step[<<x, i>>].
Taken(f, n, S, a, step) ==
    /\ f \in [0 .. n -> S]
    /\ f[0] = a /\ \A i \in 1 .. n : f[i] = step[<<f[i - 1], i>>]

\* Steps that stay in a set can be taken one after the other: the function
\* that a recursive definition over the numbers up to n asks for exists.
LEMMA StepsTaken ==
    ASSUME NEW n \in Nat, NEW S, NEW a \in S, NEW step \in [S \X (1 .. n) -> S]
    PROVE  \E f : Taken(f, n, S, a, step)
  <1> USE DEF Taken
  <1> DEFINE Run(f, m) == /\ f \in [0 .. m -> S]
                          /\ f[0] = a /\ \A i \in 1 .. m : f[i] = step[<<f[i - 1], i>>]
             Bad == {m \in 0 .. n : ~ \E f : Run(f, m)}
  <1>1. SUFFICES ASSUME Bad # {} PROVE FALSE
    <2>1. n \in 0 .. n
      OBVIOUS
    <2> QED  BY <1>1, <2>1
  <1>2. PICK m \in Bad : \A k \in Bad : m <= k
    <2>1. Bad \in SUBSET Nat
      OBVIOUS
    <2> HIDE DEF Bad
    <2> QED  BY <1>1, <2>1, LeastNumber
  <1>3. m # 0
    <2> SUFFICES ASSUME m = 0 PROVE FALSE
      OBVIOUS
    <2> DEFINE f == [i \in 0 .. 0 |-> a]
    <2>1. Run(f, 0)
      OBVIOUS
    <2> HIDE DEF Run
    <2> QED  BY <1>2, <2>1
  <1>4. m \in 0 .. n /\ m - 1 \in 0 .. n /\ m - 1 \notin Bad
    BY <1>2, <1>3
  <1>5. PICK f : Run(f, m - 1)
    BY <1>4
  <1> DEFINE e == [i \in 0 .. m |-> IF i = m THEN step[<<f[m - 1], m>>] ELSE f[i]]
  <1>6. f \in [0 .. (m - 1) -> S] /\ f[m - 1] \in S /\ m \in 1 .. n
    BY <1>3, <1>4, <1>5
  <1>7. step[<<f[m - 1], m>>] \in S
    BY <1>6
  <1>8. e \in [0 .. m -> S] /\ e[0] = a
    <2>1. \A i \in 0 .. m : i # m => i \in 0 .. (m - 1)
      BY <1>4
    <2> QED  BY <1>3, <1>4, <1>5, <1>6, <1>7, <2>1
  <1>9. ASSUME NEW i \in 1 .. m
        PROVE  e[i] = step[<<e[i - 1], i>>]
    <2>1. i \in 0 .. m /\ i - 1 \in 0 .. m /\ i - 1 # m
      BY <1>4
    <2>2. e[i - 1] = f[i - 1]
      BY <2>1
    <2>3. CASE i = m
      BY <2>1, <2>2, <2>3
    <2>4. CASE i # m
      <3>1. i \in 1 .. (m - 1)
        BY <1>4, <2>4
      <3> QED  BY <1>5, <2>1, <2>2, <2>4, <3>1
    <2> QED  BY <2>3, <2>4
  <1>10. Run(e, m)
    BY <1>8, <1>9
  <1> HIDE DEF Run, e
  <1> QED  BY <1>2, <1>10

\* What holds at the start and is kept by every step holds after all of them;
\* R[i] is what holds after the i-th.
LEMMA StepsKeep ==
    ASSUME NEW n \in Nat, NEW R, NEW f, f[0] \in R[0],
           \A i \in 1 .. n : f[i - 1] \in R[i - 1] => f[i] \in R[i]
    PROVE  \A i \in 0 .. n : f[i] \in R[i]
  <1> DEFINE Bad == {i \in 0 .. n : f[i] \notin R[i]}
  <1>1. SUFFICES ASSUME Bad # {} PROVE FALSE
    OBVIOUS
  <1>2. PICK m \in Bad : \A k \in Bad : m <= k
    <2>1. Bad \in SUBSET Nat
      OBVIOUS
    <2> HIDE DEF Bad
    <2> QED  BY <1>1, <2>1, LeastNumber
  <1>3. m # 0 /\ m \in 0 .. n
    BY <1>2
  <1>4. m \in 1 .. n /\ m - 1 \in 0 .. n /\ ~(m <= m - 1)
    BY <1>3
  <1>5. f[m - 1] \in R[m - 1]
    BY <1>2, <1>4
  <1> QED  BY <1>2, <1>4, <1>5
=============================================================================

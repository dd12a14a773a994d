--------------------------------- MODULE Numbers ---------------------------------
(***************************************************************************)
(* The least and the greatest of a set of numbers, as the models take them *)
(* from sets of positions and sizes, the members of a set of positions in  *)
(* their order, functions that are defined from number to number, and the  *)
(* sums of sizes among them.                                               *)
(***************************************************************************)
EXTENDS Integers, FiniteSetsExt, FiniteSetTheorems, FunctionTheorems, WellFoundedInduction, TLAPS

(* A set of numbers has a least one, and Min is it. *)
LEMMA MinIsLeast ==
  ASSUME NEW S \in SUBSET Nat, S # {}
  PROVE  Min(S) \in S /\ \A n \in S : Min(S) <= n
<1>1. PICK m \in S : \A n \in S : ~ (<<n, m>> \in OpToRel(<, Nat))
  BY WFMin, NatLessThanWellFounded, Zenon
<1>2. \A n \in S : ~ (n < m)
  BY <1>1, Zenon DEF OpToRel
<1>3. \A n \in S : m <= n
  BY <1>2
<1> QED
  BY <1>3 DEF Min

(* A set of numbers up to a bound has a greatest one, and Max is it: the    *)
(* least of its bounds is a member.                                         *)
LEMMA MaxIsGreatest ==
  ASSUME NEW S \in SUBSET Nat, S # {}, NEW b \in Nat, \A n \in S : n <= b
  PROVE  Max(S) \in S /\ \A n \in S : n <= Max(S)
<1> DEFINE Bounds == {n \in Nat : \A k \in S : k <= n}
<1>1. PICK m \in Bounds : \A n \in Bounds : m <= n
  <2>1. Bounds \in SUBSET Nat /\ b \in Bounds
    OBVIOUS
  <2> HIDE DEF Bounds
  <2> QED
    BY <2>1, MinIsLeast
<1>2. m \in S
  <2> SUFFICES ASSUME m \notin S PROVE FALSE
    OBVIOUS
  <2>1. \A k \in S : k <= m - 1
    OBVIOUS
  <2>2. m - 1 \in Bounds
    <3>1. PICK k \in S : TRUE
      OBVIOUS
    <3> QED
      BY <2>1, <3>1
  <2> QED
    BY <1>1, <2>2
<1> QED
  BY <1>2 DEF Max

(* How many members are not behind a position tells them apart and counts   *)
(* them all.                                                                *)
LEMMA RanksCount ==
  ASSUME NEW S \in SUBSET Nat, IsFiniteSet(S), NEW n \in 1..Cardinality(S)
  PROVE  \E k \in S : Cardinality({j \in S : j <= k}) = n
<1> DEFINE Upto(k) == {j \in S : j <= k}
           rank == [k \in S |-> Cardinality(Upto(k))]
<1>1. ASSUME NEW k \in S PROVE rank[k] \in 1..Cardinality(S) /\ IsFiniteSet(Upto(k))
  <2>1. Upto(k) \subseteq S /\ k \in Upto(k)
    OBVIOUS
  <2>2. IsFiniteSet(Upto(k)) /\ Cardinality(Upto(k)) <= Cardinality(S)
    BY <2>1, FS_Subset
  <2>3. Cardinality(Upto(k)) \in Nat /\ Cardinality(Upto(k)) # 0
    BY <2>1, <2>2, FS_CardinalityType, FS_EmptySet
  <2>4. Cardinality(S) \in Nat
    BY FS_CardinalityType
  <2> QED
    BY <2>2, <2>3, <2>4
<1>2. ASSUME NEW j \in S, NEW k \in S, j < k PROVE rank[j] < rank[k]
  <2>1. k \in Upto(k) /\ k \notin Upto(j)
    BY <1>2
  <2>2. \A x \in Upto(j) : x \in Upto(k)
    BY <1>2
  <2>3. Upto(j) \subseteq Upto(k) \ {k}
    BY <2>1, <2>2
  <2>4. Cardinality(Upto(k) \ {k}) = Cardinality(Upto(k)) - 1 /\ IsFiniteSet(Upto(k) \ {k})
    BY <1>1, <2>1, FS_RemoveElement
  <2>5. Cardinality(Upto(j)) <= Cardinality(Upto(k) \ {k})
    BY <2>3, <2>4, FS_Subset
  <2>6. Cardinality(Upto(j)) \in Nat /\ Cardinality(Upto(k)) \in Nat
    BY <1>1, FS_CardinalityType
  <2> QED
    BY <2>4, <2>5, <2>6
<1>3. rank \in Injection(S, 1..Cardinality(S))
  <2>1. rank \in [S -> 1..Cardinality(S)]
    BY <1>1
  <2>2. \A j, k \in S : rank[j] = rank[k] => j = k
    <3>1. \A j, k \in S : rank[j] \in Int /\ (j < k \/ k < j \/ j = k)
      BY <1>1
    <3> HIDE DEF rank
    <3> QED
      BY <1>2, <3>1
  <2> QED
    BY <2>1, <2>2 DEF Injection, IsInjective
<1>4. rank \in Surjection(S, 1..Cardinality(S))
  <2>1. Cardinality(S) \in Nat
    BY FS_CardinalityType
  <2>2. IsFiniteSet(1..Cardinality(S)) /\ Cardinality(1..Cardinality(S)) = Cardinality(S)
    BY <2>1, FS_Interval
  <2> HIDE DEF rank
  <2> QED
    BY <1>3, <2>2, FS_Injection
<1>5. PICK k \in S : rank[k] = n
  <2> HIDE DEF rank
  <2> QED
    BY <1>4 DEF Surjection
<1> QED
  BY <1>5

(* What is done in each step, and a function that does it up to n.          *)
IsStep(step, n, S) == step \in [1..n -> [S -> S]]
GoesStepByStep(f, n, S, first, step) ==
  /\ f \in [0..n -> S] /\ f[0] = first
  /\ \A i \in 1..n : f[i] = step[i][f[i - 1]]

(* A function that is defined step by step exists: the least number no      *)
(* such function reaches is one step behind a number that one does.         *)
LEMMA StepsExist ==
  ASSUME NEW n \in Nat, NEW S, NEW first \in S, NEW step, IsStep(step, n, S)
  PROVE  \E f : GoesStepByStep(f, n, S, first, step)
<1> USE DEF IsStep
<1> DEFINE Steps(m, f) == f[0] = first /\ \A i \in 1..m : f[i] = step[i][f[i - 1]]
           Without == {m \in 0..n : ~\E f \in [0..m -> S] : Steps(m, f)}
<1>1. SUFFICES ASSUME Without # {} PROVE FALSE
  <2>0. (\E f \in [0..n -> S] : Steps(n, f)) => \E f : GoesStepByStep(f, n, S, first, step)
    BY Zenon DEF GoesStepByStep
  <2>1. Without = {} => \E f \in [0..n -> S] : Steps(n, f)
    <3>1. n \in 0..n
      OBVIOUS
    <3> HIDE DEF Steps
    <3> QED
      BY <3>1, Zenon
  <2> QED
    BY <2>0, <2>1
<1>2. PICK m \in Without : \A k \in Without : m <= k
  <2>1. Without \in SUBSET Nat
    OBVIOUS
  <2> HIDE DEF Without
  <2> QED
    BY <1>1, <2>1, MinIsLeast
<1>3. CASE m = 0
  <2> DEFINE f == [i \in 0..0 |-> first]
  <2>1. f \in [0..0 -> S] /\ Steps(0, f)
    OBVIOUS
  <2> QED
    BY <1>3, <2>1
<1>4. CASE m # 0
  <2>1. m \in 1..n /\ m - 1 \in 0..n /\ m - 1 \notin Without
    <3>1. m \in 0..n
      OBVIOUS
    <3> HIDE DEF Without
    <3> QED
      BY <1>2, <1>4, <3>1
  <2>2. PICK f \in [0..m - 1 -> S] : Steps(m - 1, f)
    BY <2>1
  <2> DEFINE next == step[m][f[m - 1]]
             g == [i \in 0..m |-> IF i = m THEN next ELSE f[i]]
  <2>3. next \in S
    BY <2>1
  <2>4. g \in [0..m -> S]
    <3> HIDE DEF next
    <3> QED
      BY <2>1, <2>3
  <2>5. Steps(m, g)
    <3>1. g[0] = first
      BY <2>1, <2>2
    <3>2. ASSUME NEW i \in 1..m PROVE g[i] = step[i][g[i - 1]]
      <4>1. i - 1 \in 0..m - 1 /\ g[i - 1] = f[i - 1]
        BY <2>1
      <4>2. CASE i = m
        BY <4>1, <4>2
      <4>3. CASE i # m
        <5>1. i \in 1..m - 1 /\ g[i] = f[i]
          BY <4>3, <2>1
        <5> QED
          BY <2>2, <4>1, <5>1
      <4> QED
        BY <4>2, <4>3
    <3> QED
      BY <3>1, <3>2
  <2>6. m \notin Without
    <3> HIDE DEF g, Steps
    <3> QED
      BY <2>4, <2>5
  <2> QED
    BY <2>6
<1> QED
  BY <1>3, <1>4

(* Whatever goes from each number to the next goes to all of them. *)
LEMMA StepByStep ==
  ASSUME NEW n \in Nat, NEW S \in SUBSET (0..n), 0 \in S, \A i \in 1..n : i - 1 \in S => i \in S
  PROVE  S = 0..n
<1> DEFINE Outside == (0..n) \ S
<1>1. SUFFICES ASSUME Outside # {} PROVE FALSE
  OBVIOUS
<1>2. PICK m \in Outside : \A k \in Outside : m <= k
  <2>1. Outside \in SUBSET Nat
    OBVIOUS
  <2> HIDE DEF Outside
  <2> QED
    BY <1>1, <2>1, MinIsLeast
<1>3. m \in 1..n /\ m - 1 \in 0..n
  OBVIOUS
<1>4. m - 1 \notin Outside
  <2> HIDE DEF Outside
  <2> QED
    BY <1>2, <1>3
<1> QED
  BY <1>3, <1>4

(* There is a sequence of running sums up to every length. *)
LEMMA RunningSums ==
  ASSUME NEW n \in Nat, NEW size \in [1..n -> Nat]
  PROVE  \E f \in [0..n -> Nat] : f[0] = 0 /\ \A i \in 1..n : f[i] = f[i - 1] + size[i]
<1> DEFINE step == [i \in 1..n |-> [sum \in Nat |-> sum + size[i]]]
<1>1. step \in [1..n -> [Nat -> Nat]]
  OBVIOUS
<1>2. PICK f : GoesStepByStep(f, n, Nat, 0, step)
  <2>1. IsStep(step, n, Nat) /\ 0 \in Nat
    BY <1>1 DEF IsStep
  <2> HIDE DEF step
  <2> QED
    BY <2>1, StepsExist, Zenon
<1>3. f \in [0..n -> Nat] /\ f[0] = 0 /\ \A i \in 1..n : f[i] = step[i][f[i - 1]]
  BY <1>2, Zenon DEF GoesStepByStep
<1>4. \A i \in 1..n : step[i][f[i - 1]] = f[i - 1] + size[i]
  BY <1>3
<1> QED
  BY <1>3, <1>4

=================================================================================

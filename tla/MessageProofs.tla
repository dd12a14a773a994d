----------------------------- MODULE MessageProofs -----------------------------
(***************************************************************************)
(* Theorems about Message for every request, every way its texts are read  *)
(* and every limit: whom the message goes to, and of which parts it is     *)
(* made.  FlattenSeq is defined by recursion, so what it does with a list  *)
(* is shown of a function that does the same piece by piece.               *)
(***************************************************************************)
EXTENDS Message, SequenceTheorems, Numbers

(* Positions in ascending order are just that: each once, none behind a    *)
(* later one.                                                              *)
LEMMA AscendingIsSorted ==
  ASSUME NEW s, Len(s) \in Nat, NEW positions \in SUBSET (1..Len(s))
  PROVE  /\ Ascending(s, positions) \in Seq(positions)
         /\ \A p \in positions : \E i \in DOMAIN Ascending(s, positions) :
              Ascending(s, positions)[i] = p
         /\ \A i, j \in DOMAIN Ascending(s, positions) :
              i < j => Ascending(s, positions)[i] < Ascending(s, positions)[j]
<1> DEFINE n == Len(s)
           step == [i \in 1..n |-> [t \in Seq(Nat) |-> IF i \in positions THEN Append(t, i) ELSE t]]
           Upto == CHOOSE g : g = [i \in 0..n |-> IF i = 0 THEN <<>>
                                     ELSE IF i \in positions THEN Append(g[i - 1], i) ELSE g[i - 1]]
           Sorted(t, m) == /\ t \in Seq(positions)
                           /\ \A p \in positions : p <= m => \E i \in DOMAIN t : t[i] = p
                           /\ \A i \in DOMAIN t : t[i] <= m
                           /\ \A i, j \in DOMAIN t : i < j => t[i] < t[j]
<1>1. PICK f : GoesStepByStep(f, n, Seq(Nat), <<>>, step)
  <2>1. step \in [1..n -> [Seq(Nat) -> Seq(Nat)]] /\ <<>> \in Seq(Nat)
    OBVIOUS
  <2>2. IsStep(step, n, Seq(Nat))
    BY <2>1, Zenon DEF IsStep
  <2> HIDE DEF step
  <2> QED
    BY <2>1, <2>2, StepsExist, Zenon
<1>2. f \in [0..n -> Seq(Nat)] /\ f[0] = <<>> /\ \A i \in 1..n : f[i] = step[i][f[i - 1]]
  BY <1>1, Zenon DEF GoesStepByStep
<1>3. \A i \in 1..n : f[i] = IF i \in positions THEN Append(f[i - 1], i) ELSE f[i - 1]
  <2>1. ASSUME NEW i \in 1..n PROVE f[i - 1] \in Seq(Nat)
    BY <1>2
  <2>2. ASSUME NEW i \in 1..n, NEW t \in Seq(Nat)
        PROVE  step[i][t] = IF i \in positions THEN Append(t, i) ELSE t
    OBVIOUS
  <2> HIDE DEF step
  <2> QED
    BY <1>2, <2>1, <2>2, Zenon
<1>4. f = [i \in 0..n |-> IF i = 0 THEN <<>>
                          ELSE IF i \in positions THEN Append(f[i - 1], i) ELSE f[i - 1]]
  <2>1. \A i \in 0..n : f[i] = IF i = 0 THEN <<>>
                          ELSE IF i \in positions THEN Append(f[i - 1], i) ELSE f[i - 1]
    <3>1. \A i \in 0..n : i = 0 \/ i \in 1..n
      OBVIOUS
    <3> HIDE DEF n
    <3> QED
      BY <1>2, <1>3, <3>1
  <2> HIDE DEF n
  <2> QED
    BY <1>2, <2>1
<1>5. Upto = [i \in 0..n |-> IF i = 0 THEN <<>>
                             ELSE IF i \in positions THEN Append(Upto[i - 1], i) ELSE Upto[i - 1]]
  <2> HIDE DEF n
  <2> QED
    BY <1>4, Zenon
<1>6. Ascending(s, positions) = Upto[n]
  BY DEF Ascending
<1> HIDE DEF Upto, step
<1> DEFINE Good == {i \in 0..n : Sorted(Upto[i], i)}
<1>7. Good = 0..n
  <2>1. Good \in SUBSET (0..n)
    OBVIOUS
  <2>2. 0 \in Good
    <3>1. Upto[0] = <<>>
      BY <1>5
    <3>2. Sorted(<<>>, 0)
      OBVIOUS
    <3> HIDE DEF Sorted
    <3> QED
      BY <3>1, <3>2
  <2>3. ASSUME NEW i \in 1..n, i - 1 \in Good PROVE i \in Good
    <3>1. Upto[i] = IF i \in positions THEN Append(Upto[i - 1], i) ELSE Upto[i - 1]
      <4>1. i \in 0..n /\ i # 0
        OBVIOUS
      <4> HIDE DEF n
      <4> QED
        BY <1>5, <4>1
    <3>2. Sorted(Upto[i - 1], i - 1)
      BY <2>3
    <3> DEFINE t == Upto[i - 1]
    <3>3. CASE i \in positions
      <4>1. t \in Seq(positions) /\ Upto[i] = Append(t, i)
        BY <3>1, <3>2, <3>3
      <4>2. /\ Append(t, i) \in Seq(positions) /\ Len(t) \in Nat
            /\ DOMAIN t = 1..Len(t) /\ DOMAIN Append(t, i) = 1..(Len(t) + 1)
            /\ Append(t, i)[Len(t) + 1] = i
            /\ \A l \in 1..Len(t) : Append(t, i)[l] = t[l]
        BY <3>3, <4>1, AppendProperties, LenProperties
      <4> HIDE DEF t
      <4>3. Sorted(Append(t, i), i)
        <5>1. \A p \in positions : p <= i => \E l \in DOMAIN Append(t, i) : Append(t, i)[l] = p
          <6>1. ASSUME NEW p \in positions, p <= i
                PROVE  \E l \in DOMAIN Append(t, i) : Append(t, i)[l] = p
            <7>1. CASE p = i
              BY <4>2, <7>1
            <7>2. CASE p # i
              <8>1. p <= i - 1
                BY <6>1, <7>2
              <8>2. PICK l \in DOMAIN t : t[l] = p
                BY <3>2, <8>1 DEF t
              <8> QED
                BY <4>2, <8>2
            <7> QED
              BY <7>1, <7>2
          <6> QED
            BY <6>1
        <5>2. \A l \in 1..Len(t) : t[l] \in positions /\ t[l] <= i - 1
          BY <3>2, <4>2, ElementOfSeq DEF t
        <5> DEFINE more == Append(t, i)
        <5>3. DOMAIN more = 1..(Len(t) + 1) /\ \A l \in DOMAIN more :
                \/ l = Len(t) + 1 /\ more[l] = i
                \/ l \in 1..Len(t) /\ more[l] = t[l] /\ l < Len(t) + 1
          BY <4>2
        <5>4. \A j, l \in 1..Len(t) : j < l => t[j] < t[l]
          BY <3>2, <4>2 DEF t
        <5> HIDE DEF more
        <5>5. \A l \in DOMAIN more : more[l] <= i
          <6>1. (\A x \in positions : x <= i - 1 => x <= i) /\ i <= i
            OBVIOUS
          <6> QED
            BY <5>2, <5>3, <6>1
        <5>6. \A j, l \in DOMAIN more : j < l => more[j] < more[l]
          <6>1. ASSUME NEW j \in DOMAIN more, NEW l \in DOMAIN more, j < l PROVE more[j] < more[l]
            <7>1. j \in 1..Len(t) /\ more[j] = t[j]
              BY <4>2, <5>3, <6>1
            <7>2. CASE l \in 1..Len(t) /\ more[l] = t[l]
              BY <5>4, <6>1, <7>1, <7>2
            <7>3. CASE more[l] = i
              <8>1. \A x \in positions : x <= i - 1 => x < i
                OBVIOUS
              <8> QED
                BY <5>2, <7>1, <7>3, <8>1
            <7> QED
              BY <5>3, <7>2, <7>3
          <6> QED
            BY <6>1
        <5> QED
          BY <4>2, <5>1, <5>5, <5>6 DEF more
      <4>4. i \in 0..n /\ Sorted(Upto[i], i)
        BY <4>1, <4>3
      <4> HIDE DEF Sorted
      <4> QED
        BY <4>4
    <3>4. CASE i \notin positions
      <4>1. Sorted(t, i)
        <5>1. \A p \in positions : p <= i => p <= i - 1
          BY <3>4
        <5>2. t \in Seq(positions) /\ \A l \in DOMAIN t : t[l] \in positions
          BY <3>2, ElementOfSeq, LenProperties
        <5>3. \A l \in DOMAIN t : t[l] <= i - 1
          BY <3>2
        <5>4. \A l \in DOMAIN t : t[l] <= i
          <6>1. \A x \in positions : x <= i - 1 => x <= i
            OBVIOUS
          <6> HIDE DEF t
          <6> QED
            BY <5>2, <5>3, <6>1
        <5> HIDE DEF t
        <5> QED
          BY <3>2, <5>1, <5>2, <5>4 DEF t
      <4> QED
        BY <3>1, <3>4, <4>1
    <3> QED
      BY <3>3, <3>4
  <2> HIDE DEF Good
  <2> QED
    BY <2>1, <2>2, <2>3, StepByStep
<1>8. Sorted(Upto[n], n)
  <2>1. n \in 0..n
    OBVIOUS
  <2> HIDE DEF Sorted
  <2> QED
    BY <1>7, <2>1
<1>9. \A p \in positions : p <= n
  OBVIOUS
<1> QED
  BY <1>6, <1>8, <1>9

(* The first occurrences in a sequence have each of its members once, in   *)
(* the order in which they first occur.                                    *)
LEMMA FirstsAreOnce ==
  ASSUME NEW s, Len(s) \in Nat, DOMAIN s = 1..Len(s)
  PROVE  /\ ToSet(Firsts(s)) = ToSet(s)
         /\ \A m, n \in DOMAIN Firsts(s) : m < n =>
              \E p \in DOMAIN s : /\ s[p] = Firsts(s)[m]
                                  /\ \A q \in 1..p : s[q] # Firsts(s)[n]
<1> DEFINE New == {p \in DOMAIN s : \A q \in 1..p - 1 : s[q] # s[p]}
           first == Ascending(s, New)
<1>1. New \in SUBSET (1..Len(s))
  OBVIOUS
<1>2. Firsts(s) = [n \in DOMAIN first |-> s[first[n]]]
  BY DEF Firsts
<1>3. /\ first \in Seq(New)
      /\ \A p \in New : \E i \in DOMAIN first : first[i] = p
      /\ \A i, j \in DOMAIN first : i < j => first[i] < first[j]
  <2> HIDE DEF New
  <2> QED
    BY <1>1, AscendingIsSorted
<1>4. \A i \in DOMAIN first : first[i] \in New
  <2> HIDE DEF New
  <2> QED
    BY <1>3, ElementOfSeq, LenProperties
<1>5. ASSUME NEW p \in DOMAIN s PROVE \E q \in New : s[q] = s[p]
  <2> DEFINE Same == {q \in DOMAIN s : s[q] = s[p]}
  <2>1. PICK q \in Same : \A r \in Same : q <= r
    <3>1. Same \in SUBSET Nat /\ p \in Same
      OBVIOUS
    <3> HIDE DEF Same
    <3> QED
      BY <3>1, MinIsLeast
  <2>2. \A r \in 1..q - 1 : s[r] # s[p]
    <3>1. \A r \in 1..q - 1 : r \in DOMAIN s /\ ~(q <= r)
      OBVIOUS
    <3> QED
      BY <2>1, <3>1
  <2> QED
    BY <2>1, <2>2
<1> HIDE DEF first
<1>6. ToSet(Firsts(s)) = ToSet(s)
  <2>1. ASSUME NEW i \in DOMAIN first PROVE Firsts(s)[i] \in ToSet(s)
    BY <1>2, <1>4 DEF ToSet
  <2>2. ASSUME NEW p \in DOMAIN s PROVE \E i \in DOMAIN first : Firsts(s)[i] = s[p]
    <3>1. PICK q \in New : s[q] = s[p]
      BY <1>5
    <3>2. PICK i \in DOMAIN first : first[i] = q
      BY <1>3
    <3> QED
      BY <1>2, <3>1, <3>2
  <2>3. DOMAIN Firsts(s) = DOMAIN first
    BY <1>2
  <2> QED
    BY <2>1, <2>2, <2>3 DEF ToSet
<1>7. ASSUME NEW m \in DOMAIN first, NEW n \in DOMAIN first, m < n
      PROVE  \E p \in DOMAIN s : s[p] = Firsts(s)[m] /\ \A q \in 1..p : s[q] # Firsts(s)[n]
  <2>1. /\ first[m] \in DOMAIN s /\ first[n] \in DOMAIN s
        /\ \A q \in 1..first[n] - 1 : s[q] # s[first[n]]
    BY <1>4
  <2>2. first[m] < first[n]
    BY <1>3, <1>7
  <2>3. \A q \in 1..first[m] : q \in 1..first[n] - 1
    BY <2>1, <2>2
  <2> QED
    BY <1>2, <2>1, <2>3
<1> QED
  BY <1>2, <1>6, <1>7

(* Whatever is read as a mailbox has an address in the form that is used.  *)
LEMMA MailboxHasAddress ==
  ASSUME NEW s, NEW m \in ParseMailbox(s)
  PROVE  m.address \in Range(AddressOf)
<1>1. \A token, name : \A v \in Validate(token, name) : v.address \in Range(AddressOf)
  BY DEF Validate, Range
<1>2. \A lead : \A v \in BareMailbox(s, lead) : v.address \in Range(AddressOf)
  BY <1>1, Zenon DEF BareMailbox
<1>3. \A lead, phrase : \A v \in NamedMailbox(s, lead, phrase) : v.address \in Range(AddressOf)
  BY <1>1, Zenon DEF NamedMailbox
<1> QED
  BY <1>2, <1>3 DEF ParseMailbox, ReadMailbox

(* A sequence of its own members, and one more behind them. *)
IsList(s) == s \in Seq(Range(s))
IsOneMore(t, s, x) ==
  /\ t \in Seq(Range(t)) /\ Len(s) \in Nat
  /\ DOMAIN s = 1..Len(s) /\ DOMAIN t = 1..Len(s) + 1
  /\ t[Len(s) + 1] = x /\ \A i \in DOMAIN s : t[i] = s[i]

(* What Append does to a list. *)
LEMMA OneMore ==
  ASSUME NEW s, IsList(s), NEW x
  PROVE  IsOneMore(Append(s, x), s, x)
<1> DEFINE S == Range(s) \cup {x}
           t == Append(s, x)
<1>0. s \in Seq(Range(s))
  BY DEF IsList
<1>1. s \in Seq(S) /\ x \in S
  <2>1. \A i \in 1..Len(s) : s[i] \in S
    BY <1>0, ElementOfSeq
  <2> QED
    BY <1>0, <2>1, SeqDef
<1>2. /\ t \in Seq(S) /\ Len(t) = Len(s) + 1 /\ Len(s) \in Nat
      /\ DOMAIN s = 1..Len(s) /\ DOMAIN t = 1..Len(s) + 1
      /\ t[Len(s) + 1] = x /\ \A i \in DOMAIN s : t[i] = s[i]
  <2> HIDE DEF S
  <2> QED
    BY <1>1, AppendProperties, LenProperties
<1>3. t \in [1..Len(t) -> Range(t)]
  <2>1. t \in [1..Len(t) -> S]
    <3> HIDE DEF S
    <3> QED
      BY <1>2, LenProperties
  <2>2. \A i \in 1..Len(t) : t[i] \in Range(t)
    BY <2>1 DEF Range
  <2> HIDE DEF S
  <2> QED
    BY <2>1, <2>2
<1>4. t \in Seq(Range(t))
  <2> DEFINE R == Range(t)
             n == Len(t)
  <2>1. n \in Nat /\ t \in [1..n -> R]
    BY <1>2, <1>3
  <2> HIDE DEF R, n
  <2>2. t \in Seq(R)
    BY <2>1, SeqDef
  <2> QED
    BY <2>2 DEF R
<1> QED
  BY <1>2, <1>4 DEF IsOneMore

-------------------------------------------------------------------------------
(* Flattening *)

(* What a flattened sequence is made of: piece by piece, from the first. *)
IsFlattened(f, seqs, S) ==
  /\ f \in [0..Len(seqs) -> Seq(S)] /\ f[0] = <<>>
  /\ \A i \in 1..Len(seqs) : f[i] = f[i - 1] \o seqs[i]

(* A function that adds piece by piece exists, and ends with FlattenSeq. *)
LEMMA FlattenStepByStep ==
  ASSUME NEW S, NEW seqs \in Seq(Seq(S))
  PROVE  \E f : IsFlattened(f, seqs, S)
<1> DEFINE n == Len(seqs)
           step == [i \in 1..n |-> [t \in Seq(S) |-> t \o seqs[i]]]
<1>1. n \in Nat /\ \A i \in 1..n : seqs[i] \in Seq(S)
  BY ElementOfSeq, LenProperties
<1>2. ASSUME NEW i \in 1..n, NEW t \in Seq(S) PROVE t \o seqs[i] \in Seq(S)
  BY <1>1, ConcatProperties
<1>3. step \in [1..n -> [Seq(S) -> Seq(S)]] /\ <<>> \in Seq(S)
  <2> HIDE DEF n
  <2> QED
    BY <1>2, EmptySeq
<1>4. PICK f : GoesStepByStep(f, n, Seq(S), <<>>, step)
  <2>1. IsStep(step, n, Seq(S))
    BY <1>3, Zenon DEF IsStep
  <2> HIDE DEF step, n
  <2> QED
    BY <1>1, <1>3, <2>1, StepsExist, Zenon
<1>5. f \in [0..n -> Seq(S)] /\ f[0] = <<>> /\ \A i \in 1..n : f[i] = step[i][f[i - 1]]
  BY <1>4, Zenon DEF GoesStepByStep
<1>6. ASSUME NEW i \in 1..n PROVE step[i][f[i - 1]] = f[i - 1] \o seqs[i]
  <2>1. i - 1 \in 0..n
    BY <1>1
  <2>2. f[i - 1] \in Seq(S)
    BY <1>5, <2>1
  <2> HIDE DEF n
  <2> QED
    BY <2>2
<1> HIDE DEF step
<1>7. \A i \in 1..n : f[i] = f[i - 1] \o seqs[i]
  BY <1>5, <1>6
<1> QED
  BY <1>5, <1>7, Zenon DEF IsFlattened

(* FlattenSeq is what such a function ends with. *)
LEMMA FlattenIsLast ==
  ASSUME NEW S, NEW seqs \in Seq(Seq(S)), NEW f, IsFlattened(f, seqs, S)
  PROVE  FlattenSeq(seqs) = f[Len(seqs)]
<1> DEFINE n == Len(seqs)
           flatten == CHOOSE g : g = [i \in 1..n |-> IF i = 1 THEN seqs[i] ELSE g[i - 1] \o seqs[i]]
<1>0. 1 - 1 = 0
  OBVIOUS
<1>1. n \in Nat /\ \A i \in 1..n : seqs[i] \in Seq(S)
  BY ElementOfSeq, LenProperties
<1>2. /\ f \in [0..n -> Seq(S)] /\ f[0] = <<>>
      /\ \A i \in 1..n : f[i] = f[i - 1] \o seqs[i]
  BY Zenon DEF IsFlattened
<1>3. CASE n = 0
  <2>1. seqs = <<>>
    BY <1>3, EmptySeq
  <2> QED
    BY <1>2, <1>3, <2>1 DEF FlattenSeq
<1>4. CASE n # 0
  <2> DEFINE g == [i \in 1..n |-> f[i]]
  <2>1. ASSUME NEW i \in 1..n
        PROVE  f[i] = IF i = 1 THEN seqs[i] ELSE g[i - 1] \o seqs[i]
    <3>1. CASE i = 1
      <4>1. f[1] = f[1 - 1] \o seqs[1] /\ seqs[1] \in Seq(S)
        BY <1>1, <1>2, <3>1, Zenon
      <4>2. f[1] = <<>> \o seqs[1]
        BY <1>0, <1>2, <4>1, Zenon
      <4> QED
        BY <3>1, <4>1, <4>2, ConcatEmptySeq
    <3>2. CASE i # 1
      <4>1. i - 1 \in 1..n
        BY <1>1, <3>2
      <4> HIDE DEF n
      <4> QED
        BY <1>2, <3>2, <4>1
    <3> QED
      BY <3>1, <3>2
  <2>2. g = [i \in 1..n |-> IF i = 1 THEN seqs[i] ELSE g[i - 1] \o seqs[i]]
    <3> DEFINE h == [i \in 1..n |-> IF i = 1 THEN seqs[i] ELSE g[i - 1] \o seqs[i]]
    <3>1. \A i \in 1..n : h[i] = IF i = 1 THEN seqs[i] ELSE g[i - 1] \o seqs[i]
      <4> HIDE DEF g, n
      <4> QED
        OBVIOUS
    <3>2. DOMAIN h = 1..n /\ h = [i \in 1..n |-> h[i]]
      <4> HIDE DEF g, n
      <4> QED
        OBVIOUS
    <3> HIDE DEF h, n
    <3>3. \A i \in 1..n : h[i] = f[i]
      BY <2>1, <3>1, Zenon
    <3>4. g = [i \in 1..n |-> h[i]]
      BY <3>3
    <3> QED
      BY <3>2, <3>4 DEF h
  <2>3. flatten = [i \in 1..n |-> IF i = 1 THEN seqs[i] ELSE flatten[i - 1] \o seqs[i]]
    <3> HIDE DEF g, n
    <3> QED
      BY <2>2, Zenon
  <2> HIDE DEF g
  <2>4. FlattenSeq(seqs) = flatten[n]
    BY <1>4 DEF FlattenSeq
  <2> HIDE DEF flatten
  <2>5. \A i \in 1..n : flatten[i] = IF i = 1 THEN seqs[i] ELSE flatten[i - 1] \o seqs[i]
    <3> HIDE DEF n
    <3> QED
      BY <2>3
  <2> DEFINE Same == {i \in 0..n : i = 0 \/ flatten[i] = f[i]}
  <2>6. Same = 0..n
    <3>1. 0 \in Same /\ Same \in SUBSET (0..n)
      BY <1>1
    <3>2. ASSUME NEW i \in 1..n, i - 1 \in Same PROVE i \in Same
      <4>1. CASE i = 1
        <5>1. f[1] = f[1 - 1] \o seqs[1] /\ seqs[1] \in Seq(S) /\ flatten[1] = seqs[1]
          BY <1>1, <1>2, <2>5, <4>1, Zenon
        <5>2. f[1] = <<>> \o seqs[1]
          BY <1>0, <1>2, <5>1, Zenon
        <5>3. f[1] = flatten[1]
          BY <5>1, <5>2, ConcatEmptySeq
        <5> QED
          BY <1>1, <4>1, <5>3
      <4>2. CASE i # 1
        <5>1. i - 1 # 0 /\ i \in 0..n
          BY <1>1, <4>2
        <5>2. flatten[i - 1] = f[i - 1]
          BY <3>2, <5>1
        <5>3. flatten[i] = f[i]
          BY <1>2, <2>5, <4>2, <5>2
        <5> QED
          BY <5>1, <5>3
      <4> QED
        BY <4>1, <4>2
    <3> HIDE DEF Same
    <3> QED
      BY <1>1, <3>1, <3>2, StepByStep
  <2>7. n \in 0..n /\ n \in Same
    BY <1>1, <2>6
  <2> QED
    BY <1>4, <2>4, <2>7
<1> QED
  BY <1>3, <1>4

(* Flattening goes on where it stopped. *)
LEMMA FlattenConcat ==
  ASSUME NEW S, NEW a \in Seq(Seq(S)), NEW b \in Seq(Seq(S))
  PROVE  /\ FlattenSeq(a) \in Seq(S)
         /\ FlattenSeq(a \o b) = FlattenSeq(a) \o FlattenSeq(b)
<1> DEFINE m == Len(a)
           n == Len(b)
           ab == a \o b
<1>1. PICK f : IsFlattened(f, a, S)
  BY FlattenStepByStep
<1>2. PICK g : IsFlattened(g, b, S)
  BY FlattenStepByStep
<1>3. ab \in Seq(Seq(S))
  BY ConcatProperties
<1>4. PICK h : IsFlattened(h, ab, S)
  <2> HIDE DEF ab
  <2> QED
    BY <1>3, FlattenStepByStep
<1>5. FlattenSeq(a) = f[m] /\ FlattenSeq(b) = g[n] /\ FlattenSeq(ab) = h[Len(ab)]
  <2> HIDE DEF ab
  <2> QED
    BY <1>1, <1>2, <1>3, <1>4, FlattenIsLast
<1>6. /\ m \in Nat /\ n \in Nat /\ Len(ab) = m + n
      /\ \A i \in 1..m : ab[i] = a[i]
      /\ \A i \in 1..n : ab[m + i] = b[i]
  <2>1. m \in Nat /\ n \in Nat
    BY LenProperties
  <2>2. /\ Len(ab) = m + n
        /\ \A i \in 1..m + n : ab[i] = IF i <= m THEN a[i] ELSE b[i - m]
    BY ConcatProperties
  <2> HIDE DEF m, n, ab
  <2>3. \A i \in 1..m : i \in 1..m + n /\ i <= m
    BY <2>1
  <2>4. \A i \in 1..n : m + i \in 1..m + n /\ ~(m + i <= m) /\ (m + i) - m = i
    BY <2>1
  <2> QED
    BY <2>1, <2>2, <2>3, <2>4
<1>7. /\ f \in [0..m -> Seq(S)] /\ f[0] = <<>> /\ \A i \in 1..m : f[i] = f[i - 1] \o a[i]
      /\ g \in [0..n -> Seq(S)] /\ g[0] = <<>> /\ \A i \in 1..n : g[i] = g[i - 1] \o b[i]
      /\ \A i \in 1..n : b[i] \in Seq(S)
  BY <1>1, <1>2, ElementOfSeq DEF IsFlattened
<1>8. /\ h[0] = <<>> /\ \A i \in 1..m + n : h[i] = h[i - 1] \o ab[i]
  <2> HIDE DEF ab, m, n
  <2> QED
    BY <1>4, <1>6, Zenon DEF IsFlattened
<1> HIDE DEF m, n, ab
<1>9. {i \in 0..m : h[i] = f[i]} = 0..m
  <2> DEFINE Same == {i \in 0..m : h[i] = f[i]}
  <2>1. Same \in SUBSET (0..m) /\ 0 \in Same
    BY <1>6, <1>7, <1>8
  <2>2. ASSUME NEW i \in 1..m, i - 1 \in Same PROVE i \in Same
    <3>1. i \in 1..m + n /\ i \in 0..m
      BY <1>6
    <3>2. h[i] = h[i - 1] \o a[i] /\ f[i] = f[i - 1] \o a[i] /\ h[i - 1] = f[i - 1]
      BY <1>6, <1>7, <1>8, <2>2, <3>1
    <3> QED
      BY <3>1, <3>2
  <2> HIDE DEF Same
  <2>3. Same = 0..m
    BY <1>6, <2>1, <2>2, StepByStep
  <2> QED
    BY <2>3 DEF Same
<1>10. f[m] \in Seq(S) /\ h[m] = f[m]
  <2>1. m \in 0..m
    BY <1>6
  <2> QED
    BY <1>7, <1>9, <2>1
<1>11. {i \in 0..n : h[m + i] = f[m] \o g[i]} = 0..n
  <2> DEFINE Same == {i \in 0..n : h[m + i] = f[m] \o g[i]}
  <2>1. Same \in SUBSET (0..n) /\ 0 \in Same
    <3>1. f[m] \o <<>> = f[m]
      BY <1>10, ConcatEmptySeq
    <3>2. 0 \in 0..n /\ m + 0 = m
      BY <1>6
    <3> QED
      BY <1>7, <1>10, <3>1, <3>2
  <2>2. ASSUME NEW i \in 1..n, i - 1 \in Same PROVE i \in Same
    <3>1. /\ i \in 0..n /\ i - 1 \in 0..n /\ m + i \in 1..m + n /\ (m + i) - 1 = m + (i - 1)
      BY <1>6
    <3>2. h[m + i] = h[m + (i - 1)] \o b[i]
      BY <1>6, <1>8, <3>1
    <3>3. h[m + (i - 1)] = f[m] \o g[i - 1] /\ g[i] = g[i - 1] \o b[i]
      BY <1>7, <2>2
    <3>4. g[i - 1] \in Seq(S) /\ b[i] \in Seq(S)
      BY <1>7, <3>1
    <3>5. (f[m] \o g[i - 1]) \o b[i] = f[m] \o (g[i - 1] \o b[i])
      <4> DEFINE x == f[m]
                 y == g[i - 1]
                 z == b[i]
      <4>1. x \in Seq(S) /\ y \in Seq(S) /\ z \in Seq(S)
        BY <1>10, <3>4, Zenon
      <4> HIDE DEF x, y, z
      <4>2. \A u, v, w \in Seq(S) : (u \o v) \o w = u \o (v \o w)
        BY ConcatAssociative
      <4>3. (x \o y) \o z = x \o (y \o z)
        BY <4>1, <4>2
      <4> QED
        BY <4>3 DEF x, y, z
    <3> QED
      BY <3>1, <3>2, <3>3, <3>5
  <2> HIDE DEF Same
  <2>3. Same = 0..n
    BY <1>6, <2>1, <2>2, StepByStep
  <2> QED
    BY <2>3 DEF Same
<1>12. h[m + n] = f[m] \o g[n]
  <2>1. n \in 0..n
    BY <1>6
  <2> QED
    BY <1>11, <2>1
<1> QED
  BY <1>5, <1>6, <1>10, <1>12 DEF ab

(* One piece is itself, none is empty. *)
LEMMA FlattenFew ==
  ASSUME NEW S, NEW x \in Seq(S)
  PROVE  /\ FlattenSeq(<<x>>) = x
         /\ FlattenSeq(<<>>) = <<>>
<1>1. PICK f : IsFlattened(f, <<x>>, S)
  <2>1. <<x>> \in Seq(Seq(S))
    OBVIOUS
  <2> QED
    BY <2>1, FlattenStepByStep
<1>2. Len(<<x>>) = 1 /\ <<x>>[1] = x /\ 1 - 1 = 0 /\ <<x>> \in Seq(Seq(S)) /\ 1 \in 1..1
  OBVIOUS
<1>3. f[1] = <<>> \o x
  <2>1. f[0] = <<>> /\ f[1] = f[1 - 1] \o <<x>>[1]
    BY <1>1, <1>2, Zenon DEF IsFlattened
  <2> QED
    BY <1>2, <2>1, Zenon
<1>4. FlattenSeq(<<x>>) = f[1]
  BY <1>1, <1>2, FlattenIsLast
<1>5. <<>> \o x = x
  BY ConcatEmptySeq
<1>6. FlattenSeq(<<>>) = <<>>
  BY DEF FlattenSeq
<1> QED
  BY <1>3, <1>4, <1>5, <1>6

(* A sequence in pieces of one is itself. *)
LEMMA FlattenSingles ==
  ASSUME NEW S, NEW s \in Seq(S)
  PROVE  FlattenSeq([n \in DOMAIN s |-> <<s[n]>>]) = s
<1> DEFINE singles == [n \in DOMAIN s |-> <<s[n]>>]
           m == Len(s)
           f == [i \in 0..m |-> SubSeq(s, 1, i)]
<1>1. /\ m \in Nat /\ DOMAIN s = 1..m /\ \A i \in 1..m : s[i] \in S
  BY ElementOfSeq, LenProperties
<1>2. singles \in [1..m -> Seq(S)]
  <2>1. \A i \in 1..m : <<s[i]>> \in Seq(S)
    BY <1>1
  <2> HIDE DEF m
  <2> QED
    BY <1>1, <2>1
<1>3. singles \in Seq(Seq(S)) /\ Len(singles) = m
  <2> HIDE DEF singles, m
  <2>1. singles \in Seq(Seq(S))
    BY <1>1, <1>2, SeqDef
  <2> QED
    BY <1>1, <1>2, <2>1, LenProperties
<1>4. IsFlattened(f, singles, S)
  <2>1. ASSUME NEW i \in 0..m PROVE SubSeq(s, 1, i) \in Seq(S)
    <3>1. \A j \in 1..i : s[j] \in S
      BY <1>1
    <3> QED
      BY <3>1, SubSeqProperties
  <2>2. SubSeq(s, 1, 0) = <<>>
    BY SubSeqEmpty
  <2>3. ASSUME NEW i \in 1..m PROVE SubSeq(s, 1, i) = SubSeq(s, 1, i - 1) \o <<s[i]>>
    <3>1. 1 \in 1..Len(s) /\ i \in 1..Len(s)
      BY <1>1
    <3> QED
      BY <3>1, SubSeqRecursiveSecond
  <2>4. \A i \in 1..m : singles[i] = <<s[i]>>
    BY <1>1
  <2>5. 0 \in 0..m /\ \A i \in 1..m : i \in 0..m /\ i - 1 \in 0..m
    BY <1>1
  <2> HIDE DEF m, singles
  <2>6. f \in [0..m -> Seq(S)] /\ f[0] = <<>>
    BY <2>1, <2>2, <2>5
  <2>7. \A i \in 1..m : f[i] = f[i - 1] \o singles[i]
    BY <2>3, <2>4, <2>5
  <2> HIDE DEF f
  <2> QED
    BY <1>3, <2>6, <2>7, Zenon DEF IsFlattened
<1>5. f[m] = s
  BY <1>1, SubSeqFull
<1> HIDE DEF singles, f
<1>6. FlattenSeq(singles) = f[m]
  BY <1>3, <1>4, FlattenIsLast, Zenon
<1> QED
  BY <1>5, <1>6 DEF singles

-------------------------------------------------------------------------------
(* Opening a tree *)

(* What is behind a node, and nodes whose children are nodes again. *)
Opening(node) == IF node.kind = "leaf" THEN <<node>> ELSE node.children
Openings(nodes) == [n \in DOMAIN nodes |-> Opening(nodes[n])]
AreClosed(S) == \A node \in S : Opening(node) \in Seq(S)

(* Opening a forest is flattening what is behind its nodes. *)
LEMMA OpenedIsFlattened == \A nodes : Opened(nodes) = FlattenSeq(Openings(nodes))
BY DEF Opened, Openings, Opening

(* What is behind the nodes of a closed set is in that set. *)
LEMMA OpeningsAreLists ==
  ASSUME NEW S, AreClosed(S), NEW a \in Seq(S)
  PROVE  /\ Openings(a) \in Seq(Seq(S)) /\ Len(Openings(a)) = Len(a)
         /\ DOMAIN Openings(a) = 1..Len(a)
         /\ \A n \in 1..Len(a) : Openings(a)[n] = Opening(a[n])
<1> DEFINE m == Len(a)
<1>1. m \in Nat /\ DOMAIN a = 1..m /\ \A i \in 1..m : a[i] \in S
  BY ElementOfSeq, LenProperties
<1>2. \A i \in 1..m : Opening(a[i]) \in Seq(S)
  BY <1>1 DEF AreClosed
<1> HIDE DEF m
<1>3. Openings(a) = [n \in 1..m |-> Opening(a[n])]
  BY <1>1 DEF Openings
<1>4. Openings(a) \in [1..m -> Seq(S)] /\ DOMAIN Openings(a) = 1..m
      /\ \A n \in 1..m : Openings(a)[n] = Opening(a[n])
  BY <1>2, <1>3
<1>5. Openings(a) \in Seq(Seq(S))
  BY <1>1, <1>4, SeqDef
<1>6. Len(Openings(a)) = m
  BY <1>1, <1>4, <1>5, LenProperties
<1> QED
  BY <1>4, <1>5, <1>6 DEF m

(* A forest is opened tree by tree. *)
LEMMA OpenedConcat ==
  ASSUME NEW S, AreClosed(S), NEW a \in Seq(S), NEW b \in Seq(S)
  PROVE  /\ Opened(a) \in Seq(S)
         /\ Opened(a \o b) = Opened(a) \o Opened(b)
<1> DEFINE ab == a \o b
           both == Openings(a) \o Openings(b)
<1>1. /\ Openings(a) \in Seq(Seq(S)) /\ Openings(b) \in Seq(Seq(S))
      /\ Len(Openings(a)) = Len(a) /\ Len(Openings(b)) = Len(b)
      /\ \A n \in 1..Len(a) : Openings(a)[n] = Opening(a[n])
      /\ \A n \in 1..Len(b) : Openings(b)[n] = Opening(b[n])
      /\ Len(a) \in Nat /\ Len(b) \in Nat
  BY OpeningsAreLists, LenProperties
<1>2. /\ ab \in Seq(S) /\ Len(ab) = Len(a) + Len(b)
      /\ \A i \in 1..Len(a) + Len(b) : ab[i] = IF i <= Len(a) THEN a[i] ELSE b[i - Len(a)]
  BY ConcatProperties
<1>3. /\ both \in Seq(Seq(S)) /\ Len(both) = Len(a) + Len(b)
      /\ \A i \in 1..Len(a) + Len(b) :
           both[i] = IF i <= Len(a) THEN Openings(a)[i] ELSE Openings(b)[i - Len(a)]
  <2> DEFINE x == Openings(a)
             y == Openings(b)
  <2>1. x \in Seq(Seq(S)) /\ y \in Seq(Seq(S)) /\ Len(x) = Len(a) /\ Len(y) = Len(b)
    BY <1>1
  <2> HIDE DEF x, y
  <2>2. /\ x \o y \in Seq(Seq(S)) /\ Len(x \o y) = Len(x) + Len(y)
        /\ \A i \in 1..Len(x) + Len(y) :
             (x \o y)[i] = IF i <= Len(x) THEN x[i] ELSE y[i - Len(x)]
    BY <2>1, ConcatProperties
  <2> QED
    BY <2>1, <2>2, Zenon DEF x, y
<1> HIDE DEF ab, both
<1>4. /\ Openings(ab) \in Seq(Seq(S)) /\ Len(Openings(ab)) = Len(ab)
      /\ \A n \in 1..Len(ab) : Openings(ab)[n] = Opening(ab[n])
  BY <1>2, OpeningsAreLists
<1>5. ASSUME NEW i \in 1..Len(a) + Len(b) PROVE Openings(ab)[i] = both[i]
  <2>1. Openings(ab)[i] = Opening(ab[i])
    BY <1>2, <1>4
  <2>2. CASE i <= Len(a)
    <3>1. i \in 1..Len(a)
      BY <1>1, <2>2
    <3> QED
      BY <1>1, <1>2, <1>3, <2>1, <2>2, <3>1
  <2>3. CASE ~(i <= Len(a))
    <3>1. i - Len(a) \in 1..Len(b)
      BY <1>1, <2>3
    <3> QED
      BY <1>1, <1>2, <1>3, <2>1, <2>3, <3>1
  <2> QED
    BY <2>2, <2>3
<1>6. Openings(ab) = both
  BY <1>2, <1>3, <1>4, <1>5, SeqEqual
<1>7. /\ FlattenSeq(Openings(a)) \in Seq(S)
      /\ FlattenSeq(both) = FlattenSeq(Openings(a)) \o FlattenSeq(Openings(b))
  BY <1>1, FlattenConcat DEF both
<1> QED
  BY <1>6, <1>7, OpenedIsFlattened, Zenon DEF ab

(* One tree is opened into its children, leaves stay. *)
LEMMA OpenedFew ==
  ASSUME NEW S, AreClosed(S)
  PROVE  /\ \A node \in S : Opened(<<node>>) = Opening(node)
         /\ Opened(<<>>) = <<>>
         /\ \A a \in Seq(S) : (\A n \in DOMAIN a : a[n].kind = "leaf") => Opened(a) = a
<1>1. ASSUME NEW node \in S PROVE Opened(<<node>>) = Opening(node)
  <2>1. Openings(<<node>>) = <<Opening(node)>>
    BY DEF Openings
  <2>2. Opening(node) \in Seq(S)
    BY DEF AreClosed
  <2>3. FlattenSeq(<<Opening(node)>>) = Opening(node)
    BY <2>2, FlattenFew
  <2> QED
    BY <2>1, <2>3, OpenedIsFlattened, Zenon
<1>2. Opened(<<>>) = <<>>
  <2>1. Openings(<<>>) = <<>>
    BY DEF Openings
  <2>2. FlattenSeq(<<>>) = <<>>
    BY EmptySeq, FlattenFew
  <2> QED
    BY <2>1, <2>2, OpenedIsFlattened, Zenon
<1>3. ASSUME NEW a \in Seq(S), \A n \in DOMAIN a : a[n].kind = "leaf"
      PROVE  Opened(a) = a
  <2>1. Openings(a) = [n \in DOMAIN a |-> <<a[n]>>]
    BY <1>3 DEF Openings, Opening
  <2>2. FlattenSeq([n \in DOMAIN a |-> <<a[n]>>]) = a
    BY FlattenSingles
  <2> QED
    BY <2>1, <2>2, OpenedIsFlattened, Zenon
<1> QED
  BY <1>1, <1>2, <1>3

-------------------------------------------------------------------------------
(* The tree of a message *)

(* The tree a request asks for: its texts, what belongs beside its html,   *)
(* and what stands beside all of it, with the first n attachments.         *)
PlainPart    == TextPart(<<"text", "plain">>, input.text)
HtmlPart     == TextPart(<<"text", "html">>, input.html)
AmpPart      == TextPart(<<"text", "x-amp-html">>, input.amp)
RelatedNode  == Multipart("related", HtmlPart \o inline)
RelatedPart  == IF HtmlPart = <<>> \/ inline = <<>> THEN HtmlPart ELSE <<RelatedNode>>
Alternatives == PlainPart \o RelatedPart \o AmpPart
TextNode     == IF Len(Alternatives) = 1 THEN Alternatives[1]
                ELSE Multipart("alternative", Alternatives)
Attached(n)  ==
  [m \in 1..n |-> Leaf(LeafContentType(input.attachments[m].type),
                       input.attachments[m].name, <<>>, input.attachments[m].data)]
Beside(n)    == (IF HtmlPart = <<>> THEN inline ELSE <<>>) \o Attached(n)
MixedNode(n) == Multipart("mixed", <<TextNode>> \o Beside(n))
TreeWith(n)  == IF Beside(n) = <<>> THEN TextNode ELSE MixedNode(n)

(* Its parts are leaves of L, and there is a text. *)
IsMadeOf(n, L) ==
  /\ \A leaf \in L : leaf.kind = "leaf"
  /\ {PlainPart, HtmlPart, AmpPart, inline, Beside(n)} \subseteq Seq(L)
  /\ Len(PlainPart) \in 0..1 /\ Len(HtmlPart) \in 0..1 /\ Len(AmpPart) \in 0..1
  /\ PlainPart # <<>> \/ HtmlPart # <<>>

(* All its nodes, and its leaves from left to right. *)
NodesOver(n, L) ==
  L \cup {node \in {RelatedNode} : HtmlPart # <<>> /\ inline # <<>>}
    \cup {node \in {Multipart("alternative", Alternatives)} : Len(Alternatives) # 1}
    \cup {node \in {MixedNode(n)} : Beside(n) # <<>>}
HtmlLeaves == IF HtmlPart = <<>> THEN <<>> ELSE HtmlPart \o inline
TextLeaves == PlainPart \o HtmlLeaves \o AmpPart

(* Behind a multipart are its children. *)
LEMMA OpeningOfMultipart ==
  \A children : /\ Opening(Multipart("related", children)) = children
                /\ Opening(Multipart("alternative", children)) = children
                /\ Opening(Multipart("mixed", children)) = children
<1> TAKE children
<1>1. Opening(Multipart("related", children)) = children
  BY DEF Opening, Multipart
<1>2. Opening(Multipart("alternative", children)) = children
  BY DEF Opening, Multipart
<1>3. Opening(Multipart("mixed", children)) = children
  BY DEF Opening, Multipart
<1> QED
  BY <1>1, <1>2, <1>3

(* The nodes are closed: no child is outside. *)
LEMMA NodesAreClosed ==
  ASSUME NEW n, NEW L, IsMadeOf(n, L)
  PROVE  /\ AreClosed(NodesOver(n, L))
         /\ RelatedPart \in Seq(NodesOver(n, L)) /\ Alternatives \in Seq(NodesOver(n, L))
         /\ TextNode \in NodesOver(n, L) /\ TreeWith(n) \in NodesOver(n, L)
<1> DEFINE S == NodesOver(n, L)
           alternative == Multipart("alternative", Alternatives)
<1>1. /\ PlainPart \in Seq(L) /\ HtmlPart \in Seq(L) /\ AmpPart \in Seq(L)
      /\ inline \in Seq(L) /\ Beside(n) \in Seq(L) /\ \A leaf \in L : leaf.kind = "leaf"
  BY DEF IsMadeOf
<1>2. L \subseteq S
  BY DEF NodesOver
<1>3. HtmlPart # <<>> /\ inline # <<>> => RelatedNode \in S
  BY DEF NodesOver
<1>4. Len(Alternatives) # 1 => alternative \in S
  BY DEF NodesOver
<1>5. Beside(n) # <<>> => MixedNode(n) \in S
  BY DEF NodesOver
<1>6. \A node \in S : \/ node \in L
                      \/ node = RelatedNode
                      \/ node = alternative
                      \/ node = MixedNode(n)
  BY DEF NodesOver
<1> HIDE DEF S, alternative
<1>7. /\ PlainPart \in Seq(S) /\ HtmlPart \in Seq(S) /\ AmpPart \in Seq(S)
      /\ inline \in Seq(S) /\ Beside(n) \in Seq(S)
  BY <1>1, <1>2, SeqMonotonic
<1>8. RelatedPart \in Seq(S)
  <2>1. CASE HtmlPart = <<>> \/ inline = <<>>
    BY <1>7, <2>1 DEF RelatedPart
  <2>2. CASE HtmlPart # <<>> /\ inline # <<>>
    <3>1. RelatedPart = <<RelatedNode>> /\ RelatedNode \in S
      BY <1>3, <2>2 DEF RelatedPart
    <3> QED
      BY <3>1
  <2> QED
    BY <2>1, <2>2
<1>9. Alternatives \in Seq(S)
  BY <1>7, <1>8, ConcatProperties DEF Alternatives
<1>10. TextNode \in S
  <2>1. CASE Len(Alternatives) = 1
    <3>1. 1 \in 1..Len(Alternatives)
      BY <2>1
    <3>2. Alternatives[1] \in S
      BY <1>9, <3>1, ElementOfSeq
    <3> QED
      BY <2>1, <3>2 DEF TextNode
  <2>2. CASE Len(Alternatives) # 1
    BY <1>4, <2>2 DEF TextNode, alternative
  <2> QED
    BY <2>1, <2>2
<1>11. <<TextNode>> \o Beside(n) \in Seq(S)
  <2>1. <<TextNode>> \in Seq(S)
    BY <1>10
  <2> QED
    BY <1>7, <2>1, ConcatProperties
<1>12. HtmlPart \o inline \in Seq(S)
  BY <1>7, ConcatProperties
<1>13. AreClosed(S)
  <2>1. ASSUME NEW node \in L PROVE Opening(node) \in Seq(S)
    <3>1. Opening(node) = <<node>> /\ node \in S
      BY <1>1, <1>2 DEF Opening
    <3> QED
      BY <3>1
  <2>3. /\ Opening(RelatedNode) = HtmlPart \o inline /\ Opening(alternative) = Alternatives
        /\ Opening(MixedNode(n)) = <<TextNode>> \o Beside(n)
    BY OpeningOfMultipart DEF RelatedNode, alternative, MixedNode
  <2>4. ASSUME NEW node \in S PROVE Opening(node) \in Seq(S)
    <3>1. CASE node \in L
      BY <2>1, <3>1
    <3>2. CASE node = RelatedNode
      BY <1>12, <2>3, <3>2
    <3>3. CASE node = alternative
      BY <1>9, <2>3, <3>3
    <3>4. CASE node = MixedNode(n)
      BY <1>11, <2>3, <3>4
    <3> QED
      BY <1>6, <3>1, <3>2, <3>3, <3>4
  <2> QED
    BY <2>4 DEF AreClosed
<1>14. TreeWith(n) \in S
  BY <1>5, <1>10 DEF TreeWith
<1> QED
  BY <1>8, <1>9, <1>10, <1>13, <1>14 DEF S

(* The leaves of the tree are those of its texts and those beside them,    *)
(* and two openings more add no node.                                      *)
LEMMA LeavesOfTree ==
  ASSUME NEW n, NEW L, IsMadeOf(n, L), tree = TreeWith(n)
  PROVE  /\ Leaves = TextLeaves \o Beside(n)
         /\ Nodes \subseteq NodesOver(n, L)
         /\ TextLeaves \in Seq(L)
         /\ Beside(n) = <<>> => Opened(<<tree>>) \in {Alternatives, TextLeaves}
         /\ Beside(n) # <<>> => /\ Opened(<<tree>>) = <<TextNode>> \o Beside(n)
                                /\ Opened(Opened(<<tree>>)) = Opened(<<TextNode>>) \o Beside(n)
         /\ Len(Alternatives) # 1 => Opened(<<TextNode>>) = Alternatives
         /\ Len(Alternatives) = 1 => Alternatives = <<TextNode>>
<1> DEFINE S == NodesOver(n, L)
           Lists == Seq(S)
<1>1. /\ PlainPart \in Seq(L) /\ HtmlPart \in Seq(L) /\ AmpPart \in Seq(L)
      /\ inline \in Seq(L) /\ Beside(n) \in Seq(L) /\ \A leaf \in L : leaf.kind = "leaf"
  BY DEF IsMadeOf
<1>2. /\ AreClosed(S) /\ RelatedPart \in Seq(S) /\ Alternatives \in Seq(S)
      /\ TextNode \in S /\ TreeWith(n) \in S /\ L \subseteq S
  BY NodesAreClosed DEF NodesOver
<1>3. /\ Opening(RelatedNode) = HtmlPart \o inline
      /\ Opening(Multipart("alternative", Alternatives)) = Alternatives
      /\ Opening(MixedNode(n)) = <<TextNode>> \o Beside(n)
  BY OpeningOfMultipart DEF RelatedNode, MixedNode
<1>4. /\ HtmlPart # <<>> /\ inline # <<>> => RelatedNode \in S
      /\ Len(Alternatives) # 1 => Multipart("alternative", Alternatives) \in S
      /\ Beside(n) # <<>> => MixedNode(n) \in S
  BY DEF NodesOver
<1> HIDE DEF S
<1>5. \A list \in Seq(L) : list \in Seq(S) /\ Opened(list) = list
  <2>1. ASSUME NEW list \in Seq(L) PROVE list \in Seq(S) /\ Opened(list) = list
    <3>1. list \in Seq(S)
      BY <1>2, SeqMonotonic
    <3>2. \A i \in DOMAIN list : list[i].kind = "leaf"
      BY <1>1, ElementOfSeq, LenProperties
    <3> QED
      BY <1>2, <3>1, <3>2, OpenedFew
  <2> QED
    BY <2>1
<1>6. \A node \in S : Opened(<<node>>) = Opening(node) /\ <<node>> \in Seq(S)
  <2>1. \A node \in S : <<node>> \in Seq(S)
    OBVIOUS
  <2>2. \A node \in S : Opened(<<node>>) = Opening(node)
    BY <1>2, OpenedFew, Zenon
  <2> QED
    BY <2>1, <2>2, Zenon
<1>7. \A a, b \in Seq(S) : Opened(a) \in Seq(S) /\ Opened(a \o b) = Opened(a) \o Opened(b)
  BY <1>2, OpenedConcat
<1>8. \A a, b \in Seq(L) : a \o b \in Seq(L)
  BY ConcatProperties
<1>9. HtmlLeaves \in Seq(L) /\ TextLeaves \in Seq(L)
  <2>1. HtmlLeaves \in Seq(L)
    BY <1>1, <1>8, EmptySeq DEF HtmlLeaves
  <2> QED
    BY <1>1, <1>8, <2>1 DEF TextLeaves
<1>10. Opened(RelatedPart) = HtmlLeaves
  <2>1. CASE HtmlPart = <<>>
    <3>1. RelatedPart = HtmlPart /\ HtmlLeaves = HtmlPart
      BY <2>1 DEF RelatedPart, HtmlLeaves
    <3> QED
      BY <1>1, <1>5, <3>1, Zenon
  <2>2. CASE HtmlPart # <<>> /\ inline = <<>>
    <3>1. RelatedPart = HtmlPart /\ HtmlLeaves = HtmlPart \o <<>>
      BY <2>2 DEF RelatedPart, HtmlLeaves
    <3>2. HtmlPart \o <<>> = HtmlPart
      BY <1>1, ConcatEmptySeq
    <3> QED
      BY <1>1, <1>5, <3>1, <3>2, Zenon
  <2>3. CASE HtmlPart # <<>> /\ inline # <<>>
    <3>1. Opened(<<RelatedNode>>) = HtmlPart \o inline
      BY <1>3, <1>4, <1>6, <2>3, Zenon
    <3>2. RelatedPart = <<RelatedNode>> /\ HtmlLeaves = HtmlPart \o inline
      BY <2>3 DEF RelatedPart, HtmlLeaves
    <3> QED
      BY <3>1, <3>2, Zenon
  <2> QED
    BY <2>1, <2>2, <2>3
<1>11. Opened(Alternatives) = TextLeaves
  <2>1. PlainPart \in Seq(S) /\ AmpPart \in Seq(S) /\ PlainPart \o RelatedPart \in Seq(S)
    BY <1>1, <1>2, <1>5, ConcatProperties
  <2>2. Opened(PlainPart) = PlainPart /\ Opened(AmpPart) = AmpPart
    BY <1>1, <1>5, Zenon
  <2>3. Opened(PlainPart \o RelatedPart) = PlainPart \o HtmlLeaves
    <3>1. Opened(PlainPart \o RelatedPart) = Opened(PlainPart) \o Opened(RelatedPart)
      BY <1>2, <1>7, <2>1, Zenon
    <3> QED
      BY <1>10, <2>2, <3>1, Zenon
  <2> DEFINE front == PlainPart \o RelatedPart
  <2>4. front \in Seq(S) /\ Alternatives = front \o AmpPart
        /\ Opened(front) = PlainPart \o HtmlLeaves
    BY <2>1, <2>3, Zenon DEF Alternatives
  <2> HIDE DEF front
  <2>5. Opened(front \o AmpPart) = Opened(front) \o Opened(AmpPart)
    BY <1>7, <2>1, <2>4, Zenon
  <2> QED
    BY <2>2, <2>4, <2>5, Zenon DEF TextLeaves
<1>12. Len(Alternatives) = 1 => Alternatives = <<TextNode>>
  <2>1. Len(Alternatives) = 1 => Alternatives = <<Alternatives[1]>>
    BY <1>2
  <2> QED
    BY <2>1 DEF TextNode
<1>13. Len(Alternatives) # 1 => Opened(<<TextNode>>) = Alternatives
  <2>1. Len(Alternatives) # 1 => TextNode = Multipart("alternative", Alternatives)
    BY DEF TextNode
  <2> QED
    BY <1>3, <1>4, <1>6, <2>1, Zenon
<1>14. /\ Opened(<<TextNode>>) \in {Alternatives, TextLeaves}
       /\ Opened(Opened(<<TextNode>>)) = TextLeaves
  <2>1. Opened(TextLeaves) = TextLeaves
    BY <1>5, <1>9, Zenon
  <2>2. CASE Len(Alternatives) = 1
    <3>1. Opened(<<TextNode>>) = TextLeaves
      BY <1>11, <1>12, <2>2, Zenon
    <3> QED
      BY <2>1, <3>1, Zenon
  <2>3. CASE Len(Alternatives) # 1
    BY <1>11, <1>13, <2>3, Zenon
  <2> QED
    BY <2>2, <2>3
<1>15. Opened(TextLeaves) = TextLeaves /\ Opened(Beside(n)) = Beside(n)
       /\ TextLeaves \in Seq(S) /\ Beside(n) \in Seq(S)
  BY <1>1, <1>5, <1>9, Zenon
<1>16. ASSUME Beside(n) = <<>>
       PROVE  /\ Leaves = TextLeaves \o Beside(n)
              /\ Opened(<<tree>>) \in {Alternatives, TextLeaves}
  <2>1. tree = TextNode
    BY <1>16 DEF TreeWith
  <2>2. Leaves = TextLeaves
    BY <1>14, <1>15, <2>1, Zenon DEF Leaves
  <2>3. TextLeaves \o <<>> = TextLeaves
    BY <1>9, ConcatEmptySeq
  <2>4. Opened(<<tree>>) \in {Alternatives, TextLeaves}
    BY <1>14, <2>1, Zenon
  <2> QED
    BY <1>16, <2>2, <2>3, <2>4, Zenon
<1>17. ASSUME Beside(n) # <<>>
       PROVE  /\ Leaves = TextLeaves \o Beside(n)
              /\ Opened(<<tree>>) = <<TextNode>> \o Beside(n)
              /\ Opened(Opened(<<tree>>)) = Opened(<<TextNode>>) \o Beside(n)
  <2>1. tree = MixedNode(n)
    BY <1>17 DEF TreeWith
  <2>2. Opened(<<tree>>) = <<TextNode>> \o Beside(n)
    BY <1>3, <1>4, <1>6, <1>17, <2>1, Zenon
  <2> DEFINE x == <<TextNode>>
             y == Opened(x)
  <2>3. x \in Seq(S) /\ y \in Seq(S) /\ Opened(<<tree>>) = x \o Beside(n)
        /\ Opened(y) = TextLeaves /\ y = Opened(x)
    <3>1. x \in Seq(S)
      BY <1>2, <1>6, Zenon
    <3> QED
      BY <1>7, <1>14, <2>2, <3>1, Zenon
  <2> DEFINE b == Beside(n)
  <2>4. b \in Seq(S) /\ Opened(b) = b
    BY <1>15
  <2> HIDE DEF x, y, b
  <2>5. Opened(x \o b) = Opened(x) \o Opened(b)
    BY <1>7, <2>3, <2>4
  <2>6. Opened(y \o b) = Opened(y) \o Opened(b)
    BY <1>7, <2>3, <2>4
  <2>7. Opened(x \o b) = y \o b /\ Opened(y \o b) = TextLeaves \o b
    BY <2>3, <2>4, <2>5, <2>6, Zenon
  <2> QED
    BY <2>2, <2>7, Zenon DEF Leaves, x, y, b
<1>18. Nodes \subseteq S
  <2> DEFINE x == <<tree>>
  <2>1. x \in Seq(S) /\ Opened(x) \in Seq(S) /\ Opened(Opened(x)) \in Seq(S)
    <3>1. x \in Seq(S)
      BY <1>2, <1>6, Zenon
    <3> HIDE DEF x
    <3> QED
      BY <1>7, <3>1, Zenon
  <2>2. \A list \in Seq(S) : ToSet(list) \subseteq S
    BY ElementOfSeq, LenProperties DEF ToSet
  <2>3. Nodes = UNION {ToSet(l) : l \in {x, Opened(x), Opened(Opened(x))}}
    BY DEF Nodes
  <2> HIDE DEF x
  <2> QED
    BY <2>1, <2>2, <2>3, Zenon
<1> QED
  BY <1>9, <1>12, <1>13, <1>16, <1>17, <1>18 DEF S

(* What is in two lists together. *)
LEMMA ToSetOfConcat ==
  ASSUME NEW S, NEW a \in Seq(S), NEW b \in Seq(S)
  PROVE  ToSet(a \o b) = ToSet(a) \cup ToSet(b)
<1>1. /\ Len(a) \in Nat /\ Len(b) \in Nat /\ DOMAIN a = 1..Len(a) /\ DOMAIN b = 1..Len(b)
      /\ DOMAIN (a \o b) = 1..Len(a) + Len(b)
      /\ \A i \in 1..Len(a) + Len(b) : (a \o b)[i] = IF i <= Len(a) THEN a[i] ELSE b[i - Len(a)]
  BY ConcatProperties, LenProperties
<1> DEFINE ab == a \o b
<1> HIDE DEF ab
<1>2. ASSUME NEW i \in DOMAIN ab PROVE ab[i] \in ToSet(a) \cup ToSet(b)
  <2>1. i \in 1..Len(a) + Len(b)
    BY <1>1 DEF ab
  <2>2. CASE i <= Len(a)
    BY <1>1, <2>1, <2>2 DEF ToSet, ab
  <2>3. CASE ~(i <= Len(a))
    <3>1. i - Len(a) \in DOMAIN b
      BY <1>1, <2>1, <2>3
    <3> QED
      BY <1>1, <2>1, <2>3, <3>1 DEF ToSet, ab
  <2> QED
    BY <2>2, <2>3
<1>3. ASSUME NEW i \in DOMAIN a PROVE a[i] \in ToSet(ab)
  <2>1. i \in 1..Len(a) + Len(b) /\ i <= Len(a)
    BY <1>1
  <2> QED
    BY <1>1, <2>1 DEF ToSet, ab
<1>4. ASSUME NEW i \in DOMAIN b PROVE b[i] \in ToSet(ab)
  <2>1. i + Len(a) \in 1..Len(a) + Len(b) /\ ~(i + Len(a) <= Len(a)) /\ i + Len(a) - Len(a) = i
    BY <1>1
  <2> QED
    BY <1>1, <2>1 DEF ToSet, ab
<1> QED
  BY <1>2, <1>3, <1>4 DEF ToSet, ab

(* How many texts there are. *)
LEMMA CountOfAlternatives ==
  ASSUME NEW n, NEW L, IsMadeOf(n, L)
  PROVE  /\ Len(Alternatives) = Len(PlainPart) + Len(HtmlPart) + Len(AmpPart)
         /\ Len(RelatedPart) = Len(HtmlPart) /\ Len(Alternatives) >= 1
         /\ Len(Alternatives) \in Nat
<1> DEFINE S == NodesOver(n, L)
<1>1. RelatedPart \in Seq(S) /\ L \subseteq S
  BY NodesAreClosed DEF NodesOver
<1> HIDE DEF S
<1>2. PlainPart \in Seq(S) /\ HtmlPart \in Seq(S) /\ AmpPart \in Seq(S)
  <2>1. PlainPart \in Seq(L) /\ HtmlPart \in Seq(L) /\ AmpPart \in Seq(L)
    BY DEF IsMadeOf
  <2> QED
    BY <1>1, <2>1, SeqMonotonic
<1>3. /\ Len(PlainPart) \in 0..1 /\ Len(HtmlPart) \in 0..1 /\ Len(AmpPart) \in 0..1
      /\ (PlainPart # <<>> \/ HtmlPart # <<>>)
  BY DEF IsMadeOf
<1>4. Len(RelatedPart) = Len(HtmlPart)
  <2>1. CASE HtmlPart = <<>> \/ inline = <<>>
    BY <2>1 DEF RelatedPart
  <2>2. CASE HtmlPart # <<>> /\ inline # <<>>
    <3>1. Len(HtmlPart) # 0
      BY <1>2, <2>2, EmptySeq
    <3>2. Len(RelatedPart) = 1
      BY <2>2 DEF RelatedPart
    <3> QED
      BY <1>3, <3>1, <3>2
  <2> QED
    BY <2>1, <2>2
<1>5. PlainPart \o RelatedPart \in Seq(S)
      /\ Len(PlainPart \o RelatedPart) = Len(PlainPart) + Len(RelatedPart)
  BY <1>1, <1>2, ConcatProperties
<1>6. Len(Alternatives) = Len(PlainPart \o RelatedPart) + Len(AmpPart)
  BY <1>2, <1>5, ConcatProperties DEF Alternatives
<1>7. Len(PlainPart) # 0 \/ Len(HtmlPart) # 0
  BY <1>2, <1>3, EmptySeq
<1> QED
  BY <1>3, <1>4, <1>5, <1>6, <1>7

(* No multipart stands for a single part. *)
LEMMA MultipartsAreMany ==
  ASSUME NEW n, NEW L, IsMadeOf(n, L), NEW node \in NodesOver(n, L), node.kind # "leaf"
  PROVE  Len(node.children) >= 2
<1>1. /\ HtmlPart \in Seq(L) /\ inline \in Seq(L) /\ Beside(n) \in Seq(L)
      /\ \A leaf \in L : leaf.kind = "leaf"
  BY DEF IsMadeOf
<1>2. node \notin L
  BY <1>1
<1>3. CASE node = RelatedNode /\ HtmlPart # <<>> /\ inline # <<>>
  <2>1. node.children = HtmlPart \o inline
    BY <1>3 DEF RelatedNode, Multipart
  <2>2. /\ Len(HtmlPart) \in Nat /\ Len(HtmlPart) # 0 /\ Len(inline) \in Nat /\ Len(inline) # 0
        /\ Len(HtmlPart \o inline) = Len(HtmlPart) + Len(inline)
    BY <1>1, <1>3, EmptySeq, ConcatProperties, LenProperties
  <2> QED
    BY <2>1, <2>2
<1>4. CASE node = Multipart("alternative", Alternatives) /\ Len(Alternatives) # 1
  <2>1. node.children = Alternatives
    BY <1>4 DEF Multipart
  <2>2. Len(Alternatives) >= 1 /\ Len(Alternatives) \in Nat
    BY CountOfAlternatives
  <2>3. Len(Alternatives) >= 2
    BY <1>4, <2>2
  <2> QED
    BY <2>1, <2>3
<1>5. CASE node = MixedNode(n) /\ Beside(n) # <<>>
  <2>1. node.children = <<TextNode>> \o Beside(n)
    BY <1>5 DEF MixedNode, Multipart
  <2> DEFINE T == L \cup {TextNode}
             a == <<TextNode>>
             b == Beside(n)
  <2>2. a \in Seq(T) /\ Len(a) = 1
    OBVIOUS
  <2>3. b \in Seq(T) /\ Len(b) \in Nat /\ Len(b) # 0
    <3>1. Len(b) \in Nat /\ Len(b) # 0
      BY <1>1, <1>5, EmptySeq, LenProperties
    <3>2. L \subseteq T
      OBVIOUS
    <3> HIDE DEF T
    <3>3. b \in Seq(T)
      BY <1>1, <3>2, SeqMonotonic
    <3> QED
      BY <3>1, <3>3
  <2> HIDE DEF T, a, b
  <2>4. Len(a \o b) = Len(a) + Len(b)
    BY <2>2, <2>3, ConcatProperties
  <2>5. Len(a \o b) >= 2
    BY <2>2, <2>3, <2>4
  <2> QED
    BY <2>1, <2>5 DEF a, b
<1> QED
  BY <1>2, <1>3, <1>4, <1>5 DEF NodesOver

(* The html and its inline parts are the only related part. *)
LEMMA RelatedIsHtml ==
  ASSUME NEW n, NEW L, IsMadeOf(n, L), NEW node \in NodesOver(n, L), node.kind = "related"
  PROVE  node.children[1].type = <<"text", "html">> /\ Tail(node.children) = inline
<1>1. /\ HtmlPart \in Seq(L) /\ inline \in Seq(L)
      /\ \A leaf \in L : leaf.kind = "leaf"
  BY DEF IsMadeOf
<1>2. node \notin L
  BY <1>1
<1>3. node # Multipart("alternative", Alternatives) /\ node # MixedNode(n)
  <2>1. Multipart("alternative", Alternatives).kind = "alternative"
    BY DEF Multipart
  <2>2. MixedNode(n).kind = "mixed"
    BY DEF MixedNode, Multipart
  <2> QED
    BY <2>1, <2>2
<1>4. node = RelatedNode /\ HtmlPart # <<>>
  BY <1>2, <1>3 DEF NodesOver
<1> DEFINE leaf == Leaf(<<"text", "html">>, <<>>, <<>>, Canonical(input.html))
<1>5. HtmlPart = <<leaf>> /\ leaf.type = <<"text", "html">>
  <2>1. HtmlPart = <<leaf>>
    BY <1>4 DEF HtmlPart, TextPart
  <2>2. leaf.type = <<"text", "html">>
    BY DEF Leaf
  <2> QED
    BY <2>1, <2>2
<1> HIDE DEF leaf
<1>6. node.children = <<leaf>> \o inline
  BY <1>4, <1>5 DEF RelatedNode, Multipart
<1>7. leaf \in L
  <2>1. Len(HtmlPart) = 1 /\ HtmlPart[1] = leaf
    BY <1>5
  <2> QED
    BY <1>1, <2>1, ElementOfSeq
<1>8. (<<leaf>> \o inline)[1] = leaf /\ Tail(<<leaf>> \o inline) = inline
  <2>1. <<leaf>> \o inline \in Seq(L) /\ Len(<<leaf>> \o inline) = 1 + Len(inline)
    BY <1>1, <1>7
  <2>2. (<<leaf>> \o inline)[1] = leaf
    BY <1>1, <1>7
  <2>3. \A i \in 1..Len(inline) : (<<leaf>> \o inline)[i + 1] = inline[i]
    BY <1>1, <1>7
  <2> DEFINE whole == <<leaf>> \o inline
  <2> HIDE DEF whole
  <2>4. whole # <<>>
    BY <1>1, <2>1, EmptySeq, LenProperties DEF whole
  <2>5. /\ Tail(whole) \in Seq(L) /\ Len(Tail(whole)) = Len(whole) - 1
        /\ \A i \in 1..Len(Tail(whole)) : Tail(whole)[i] = whole[i + 1]
    BY <2>1, <2>4, HeadTailProperties DEF whole
  <2>6. Len(whole) - 1 = Len(inline) /\ Len(inline) \in Nat
    BY <1>1, <2>1, LenProperties DEF whole
  <2>7. Tail(whole) = inline
    <3>1. \A i \in 1..Len(Tail(whole)) : Tail(whole)[i] = inline[i]
      BY <2>3, <2>5, <2>6 DEF whole
    <3>2. Len(Tail(whole)) = Len(inline)
      BY <2>5, <2>6
    <3> QED
      BY <1>1, <2>5, <3>1, <3>2, SeqEqual
  <2> QED
    BY <2>2, <2>7 DEF whole
<1> QED
  BY <1>5, <1>6, <1>8

(* Inline parts beside an html text have their part in the tree. *)
LEMMA RelatedIsThere ==
  ASSUME NEW n, NEW L, IsMadeOf(n, L), tree = TreeWith(n), HtmlPart # <<>>, inline # <<>>
  PROVE  \E node \in Nodes : node.kind = "related"
<1> DEFINE S == NodesOver(n, L)
<1>1. /\ RelatedPart \in Seq(S) /\ Alternatives \in Seq(S) /\ TextNode \in S
      /\ L \subseteq S
  BY NodesAreClosed DEF NodesOver
<1>2. PlainPart \in Seq(L) /\ AmpPart \in Seq(L) /\ Beside(n) \in Seq(L)
  BY DEF IsMadeOf
<1> HIDE DEF S
<1>3. PlainPart \in Seq(S) /\ AmpPart \in Seq(S) /\ Beside(n) \in Seq(S)
  BY <1>1, <1>2, SeqMonotonic
<1>4. RelatedNode \in ToSet(Alternatives)
  <2>1. RelatedPart = <<RelatedNode>>
    BY DEF RelatedPart
  <2>2. RelatedNode \in ToSet(RelatedPart)
    <3>1. 1 \in DOMAIN <<RelatedNode>> /\ <<RelatedNode>>[1] = RelatedNode
      OBVIOUS
    <3> QED
      BY <2>1, <3>1 DEF ToSet
  <2> DEFINE front == PlainPart \o RelatedPart
  <2>3. front \in Seq(S) /\ ToSet(front) = ToSet(PlainPart) \cup ToSet(RelatedPart)
    BY <1>1, <1>3, ConcatProperties, ToSetOfConcat
  <2> HIDE DEF front
  <2>4. ToSet(front \o AmpPart) = ToSet(front) \cup ToSet(AmpPart)
    BY <1>3, <2>3, ToSetOfConcat
  <2>5. Alternatives = front \o AmpPart
    BY DEF Alternatives, front
  <2> QED
    BY <2>2, <2>3, <2>4, <2>5, Zenon
<1>5. RelatedNode.kind = "related"
  BY DEF RelatedNode, Multipart
<1> SUFFICES RelatedNode \in Nodes
  BY <1>5
<1>6. /\ Beside(n) = <<>> => tree = TextNode
      /\ Beside(n) # <<>> => /\ Opened(<<tree>>) = <<TextNode>> \o Beside(n)
                             /\ Opened(Opened(<<tree>>)) = Opened(<<TextNode>>) \o Beside(n)
      /\ Len(Alternatives) # 1 => Opened(<<TextNode>>) = Alternatives
      /\ Len(Alternatives) = 1 => Alternatives = <<TextNode>>
  BY LeavesOfTree, Zenon DEF TreeWith
<1>7. ASSUME NEW l, l \in {<<tree>>, Opened(<<tree>>), Opened(Opened(<<tree>>))},
             RelatedNode \in ToSet(l)
      PROVE  RelatedNode \in Nodes
  BY <1>7, Zenon DEF Nodes
<1>8. CASE Beside(n) = <<>>
  <2>1. CASE Len(Alternatives) = 1
    BY <1>4, <1>6, <1>7, <1>8, <2>1, Zenon
  <2>2. CASE Len(Alternatives) # 1
    BY <1>4, <1>6, <1>7, <1>8, <2>2, Zenon
  <2> QED
    BY <2>1, <2>2
<1>9. CASE Beside(n) # <<>>
  <2>1. <<TextNode>> \in Seq(S)
    BY <1>1
  <2> DEFINE x == <<TextNode>>
             b == Beside(n)
  <2>2. x \in Seq(S) /\ b \in Seq(S)
    BY <1>3, <2>1
  <2>3. Opened(<<tree>>) = x \o b
    BY <1>6, <1>9
  <2>4. Opened(Opened(<<tree>>)) = Opened(x) \o b
    BY <1>6, <1>9
  <2>5. CASE Len(Alternatives) = 1
    <3>1. Alternatives = x
      BY <1>6, <2>5
    <3> HIDE DEF x, b
    <3>2. ToSet(x \o b) = ToSet(x) \cup ToSet(b)
      BY <2>2, ToSetOfConcat
    <3> QED
      BY <1>4, <1>7, <2>3, <3>1, <3>2, Zenon
  <2>6. CASE Len(Alternatives) # 1
    <3>1. Alternatives = Opened(x)
      BY <1>6, <2>6
    <3> HIDE DEF x, b
    <3>2. ToSet(Alternatives \o b) = ToSet(Alternatives) \cup ToSet(b)
      BY <1>1, <2>2, ToSetOfConcat
    <3> QED
      BY <1>4, <1>7, <2>4, <3>1, <3>2, Zenon
  <2> QED
    BY <2>5, <2>6
<1> QED
  BY <1>8, <1>9

(* What stands beside the texts is on top. *)
LEMMA BesideIsOnTop ==
  ASSUME NEW n, NEW L, IsMadeOf(n, L), tree = TreeWith(n), Beside(n) # <<>>
  PROVE  Len(tree.children) = Len(Beside(n)) + 1 /\ tree.kind = "mixed"
<1> DEFINE T == L \cup {TextNode}
           a == <<TextNode>>
           b == Beside(n)
<1>1. tree.children = a \o b /\ tree.kind = "mixed"
  BY DEF TreeWith, MixedNode, Multipart
<1>2. a \in Seq(T) /\ Len(a) = 1
  OBVIOUS
<1>3. b \in Seq(L) /\ L \subseteq T
  BY DEF IsMadeOf
<1> HIDE DEF T, a, b
<1>4. b \in Seq(T) /\ Len(b) \in Nat
  BY <1>3, SeqMonotonic, LenProperties
<1>5. Len(a \o b) = Len(a) + Len(b)
  BY <1>2, <1>4, ConcatProperties
<1>6. Len(a \o b) = Len(b) + 1
  BY <1>2, <1>4, <1>5
<1> QED
  BY <1>1, <1>6 DEF b

(* A message of one part is one of the two texts. *)
LEMMA SinglePartIsText ==
  ASSUME NEW n, NEW L, IsMadeOf(n, L), tree = TreeWith(n), tree.kind = "leaf"
  PROVE  \E text \in {input.text, input.html} : text # <<>> /\ tree.bytes = Canonical(text)
<1>1. Beside(n) = <<>> /\ tree = TextNode
  <2>1. MixedNode(n).kind = "mixed"
    BY DEF MixedNode, Multipart
  <2> QED
    BY <2>1 DEF TreeWith
<1>2. Len(Alternatives) = 1 /\ tree = Alternatives[1]
  <2>1. Multipart("alternative", Alternatives).kind = "alternative"
    BY DEF Multipart
  <2> QED
    BY <1>1, <2>1 DEF TextNode
<1>3. /\ Len(PlainPart) + Len(HtmlPart) + Len(AmpPart) = 1 /\ Len(RelatedPart) = Len(HtmlPart)
      /\ Len(PlainPart) \in 0..1 /\ Len(HtmlPart) \in 0..1 /\ Len(AmpPart) \in 0..1
      /\ (PlainPart # <<>> \/ HtmlPart # <<>>)
      /\ PlainPart \in Seq(L) /\ HtmlPart \in Seq(L) /\ AmpPart \in Seq(L)
  BY <1>2, CountOfAlternatives DEF IsMadeOf
<1>4. /\ PlainPart # <<>> => Len(PlainPart) # 0 /\ PlainPart = <<PlainPart[1]>>
      /\ HtmlPart # <<>> => Len(HtmlPart) # 0 /\ HtmlPart = <<HtmlPart[1]>>
      /\ Len(PlainPart) = 0 => PlainPart = <<>>
      /\ Len(AmpPart) = 0 => AmpPart = <<>>
  BY <1>3
<1>5. CASE PlainPart # <<>>
  <2>1. /\ Len(PlainPart) = 1 /\ Len(AmpPart) = 0 /\ Len(RelatedPart) = 0 /\ Len(HtmlPart) = 0
    BY <1>3, <1>4, <1>5
  <2>2. RelatedPart = <<>> /\ AmpPart = <<>>
    <3>1. HtmlPart = <<>>
      BY <1>3, <2>1, EmptySeq
    <3> QED
      BY <1>3, <2>1, <3>1, EmptySeq DEF RelatedPart
  <2>3. Alternatives = <<PlainPart[1]>>
    <3>1. Alternatives = <<PlainPart[1]>> \o <<>> \o <<>>
      BY <1>4, <1>5, <2>2 DEF Alternatives
    <3> QED
      BY <3>1
  <2>4. tree = PlainPart[1] /\ input.text # <<>>
    BY <1>2, <1>5, <2>3 DEF PlainPart, TextPart
  <2>5. PlainPart[1].bytes = Canonical(input.text)
    BY <2>4 DEF PlainPart, TextPart, Leaf
  <2> QED
    BY <2>4, <2>5
<1>6. CASE PlainPart = <<>>
  <2>1. HtmlPart # <<>> /\ AmpPart = <<>> /\ input.html # <<>>
    BY <1>3, <1>4, <1>6, EmptySeq DEF HtmlPart, TextPart
  <2>2. RelatedPart = HtmlPart
    <3>1. ASSUME RelatedPart # HtmlPart PROVE FALSE
      <4>1. RelatedPart = <<RelatedNode>>
        BY <3>1 DEF RelatedPart
      <4>2. Alternatives = <<>> \o <<RelatedNode>> \o <<>>
        BY <1>6, <2>1, <4>1 DEF Alternatives
      <4>3. Alternatives = <<RelatedNode>>
        BY <4>2
      <4>4. tree = RelatedNode
        BY <1>2, <4>3
      <4> QED
        BY <4>4 DEF RelatedNode, Multipart
    <3> QED
      BY <3>1
  <2>3. Alternatives = <<HtmlPart[1]>>
    <3>1. Alternatives = <<>> \o <<HtmlPart[1]>> \o <<>>
      BY <1>4, <1>6, <2>1, <2>2 DEF Alternatives
    <3> QED
      BY <3>1
  <2>4. tree = HtmlPart[1]
    BY <1>2, <2>3
  <2>5. HtmlPart[1].bytes = Canonical(input.html)
    BY <2>1 DEF HtmlPart, TextPart, Leaf
  <2> QED
    BY <2>1, <2>4, <2>5
<1> QED
  BY <1>5, <1>6

-------------------------------------------------------------------------------
(* Lines and their breaks *)

(* Where a line ends. *)
IsBreak(s, q) == s[q] = "CR" \/ (s[q] = "LF" /\ (q = 1 \/ s[q - 1] # "CR"))

(* Breaks counts them one by one. *)
LEMMA BreaksOneByOne ==
  ASSUME NEW s
  PROVE  /\ Breaks(s, 0) = 0
         /\ \A p \in Nat : Breaks(s, p) \in Nat
         /\ \A p \in Nat \ {0} : Breaks(s, p) = Breaks(s, p - 1) + (IF IsBreak(s, p) THEN 1 ELSE 0)
<1> DEFINE Upto(p) == {q \in 1..p : IsBreak(s, q)}
<1>1. \A p : Breaks(s, p) = Cardinality(Upto(p))
  BY DEF Breaks, IsBreak
<1>2. ASSUME NEW p \in Nat PROVE IsFiniteSet(Upto(p)) /\ Cardinality(Upto(p)) \in Nat
  <2>1. IsFiniteSet(1..p)
    BY FS_Interval
  <2>2. Upto(p) \in SUBSET (1..p)
    OBVIOUS
  <2> HIDE DEF Upto
  <2> QED
    BY <2>1, <2>2, FS_Subset, FS_CardinalityType
<1>3. Breaks(s, 0) = 0
  <2>1. Upto(0) = {}
    OBVIOUS
  <2> HIDE DEF Upto
  <2> QED
    BY <1>1, <2>1, FS_EmptySet
<1>4. ASSUME NEW p \in Nat \ {0}
      PROVE  Cardinality(Upto(p)) = Cardinality(Upto(p - 1)) + (IF IsBreak(s, p) THEN 1 ELSE 0)
  <2>1. p - 1 \in Nat /\ p \notin Upto(p - 1)
    OBVIOUS
  <2>2. CASE IsBreak(s, p)
    <3>1. Upto(p) = Upto(p - 1) \cup {p}
      <4>1. \A q : q \in 1..p <=> (q \in 1..p - 1 \/ q = p)
        OBVIOUS
      <4> QED
        BY <2>2, <4>1, Zenon
    <3> HIDE DEF Upto
    <3>2. Cardinality(Upto(p - 1) \cup {p}) = Cardinality(Upto(p - 1)) + 1
      BY <1>2, <2>1, FS_AddElement
    <3> QED
      BY <2>2, <3>1, <3>2
  <2>3. CASE ~IsBreak(s, p)
    <3>1. Upto(p) = Upto(p - 1)
      <4>1. \A q : q \in 1..p <=> (q \in 1..p - 1 \/ q = p)
        OBVIOUS
      <4> QED
        BY <2>3, <4>1, Zenon
    <3> HIDE DEF Upto
    <3>2. Cardinality(Upto(p - 1)) \in Nat
      BY <1>2, <2>1
    <3> QED
      BY <2>3, <3>1, <3>2
  <2> QED
    BY <2>2, <2>3
<1> QED
  BY <1>1, <1>2, <1>3, <1>4

(* The same, a position further. *)
LEMMA NextBreak ==
  ASSUME NEW s, NEW n \in Nat, NEW p, p = n + 1
  PROVE  /\ Breaks(s, p) = Breaks(s, n) + (IF IsBreak(s, p) THEN 1 ELSE 0)
         /\ Breaks(s, n) \in Nat
<1>1. p \in Nat \ {0} /\ p - 1 = n
  OBVIOUS
<1>2. Breaks(s, p) = Breaks(s, p - 1) + (IF IsBreak(s, p) THEN 1 ELSE 0)
  BY <1>1, BreaksOneByOne, Zenon
<1>3. Breaks(s, n) \in Nat
  BY BreaksOneByOne
<1> QED
  BY <1>1, <1>2, <1>3, Zenon

(* They depend on the symbols up to there. *)
LEMMA BreaksOfPrefix ==
  ASSUME NEW s, NEW t, NEW n \in Nat, \A q \in 1..n : s[q] = t[q], NEW p \in 0..n
  PROVE  Breaks(s, p) = Breaks(t, p)
<1>1. ASSUME NEW q \in 1..p PROVE IsBreak(s, q) <=> IsBreak(t, q)
  <2>1. s[q] = t[q]
    OBVIOUS
  <2>2. q # 1 => s[q - 1] = t[q - 1]
    OBVIOUS
  <2> QED
    BY <2>1, <2>2 DEF IsBreak
<1>2. {q \in 1..p : IsBreak(s, q)} = {q \in 1..p : IsBreak(t, q)}
  BY <1>1
<1> QED
  BY <1>2 DEF Breaks, IsBreak

(* Texts whose line breaks are CR and LF in this order and nothing else. *)
Symbols == DOMAIN Base64Of
IsPaired(s) ==
  /\ s \in Seq(Symbols)
  /\ \A p \in 1..Len(s) : (s[p] = "CR") <=> (p < Len(s) /\ s[p + 1] = "LF")
  /\ Len(s) > 0 => s[1] # "LF"

(* A longer text has the breaks of the shorter one at the same places. *)
Extends(g, f) ==
  /\ g \in Seq(Symbols) /\ f \in Seq(Symbols) /\ Len(g) >= Len(f)
  /\ \A q \in 1..Len(f) : g[q] = f[q] /\ Breaks(g, q) = Breaks(f, q)

(* A text that goes on extends what it goes on from. *)
LEMMA ConcatExtends ==
  ASSUME NEW f \in Seq(Symbols), NEW x \in Seq(Symbols)
  PROVE  /\ Extends(f \o x, f) /\ Len(f \o x) = Len(f) + Len(x)
         /\ Len(f) \in Nat /\ Len(x) \in Nat
         /\ \A q \in 1..Len(x) : (f \o x)[Len(f) + q] = x[q]
         /\ Breaks(f \o x, Len(f)) = Breaks(f, Len(f))
<1> DEFINE g == f \o x
<1>1. /\ g \in Seq(Symbols) /\ Len(g) = Len(f) + Len(x) /\ Len(f) \in Nat /\ Len(x) \in Nat
      /\ \A i \in 1..Len(f) + Len(x) : g[i] = IF i <= Len(f) THEN f[i] ELSE x[i - Len(f)]
  BY ConcatProperties, LenProperties
<1> HIDE DEF g
<1>2. \A q \in 1..Len(f) : g[q] = f[q]
  BY <1>1
<1>3. \A q \in 0..Len(f) : Breaks(g, q) = Breaks(f, q)
  BY <1>1, <1>2, BreaksOfPrefix
<1>4. ASSUME NEW q \in 1..Len(x) PROVE g[Len(f) + q] = x[q]
  <2>1. /\ Len(f) + q \in 1..Len(f) + Len(x) /\ ~(Len(f) + q <= Len(f))
        /\ Len(f) + q - Len(f) = q
    BY <1>1
  <2> QED
    BY <1>1, <2>1
<1>5. Len(f) \in 0..Len(f) /\ \A q \in 1..Len(f) : q \in 0..Len(f)
  BY <1>1
<1> QED
  BY <1>1, <1>2, <1>3, <1>4, <1>5 DEF g, Extends

(* One more line break. *)
LEMMA AddBreak ==
  ASSUME NEW f, IsPaired(f)
  PROVE  /\ IsPaired(f \o CRLF) /\ Extends(f \o CRLF, f) /\ Len(f \o CRLF) = Len(f) + 2
         /\ (f \o CRLF)[Len(f) + 1] = "CR" /\ (f \o CRLF)[Len(f) + 2] = "LF"
         /\ Breaks(f \o CRLF, Len(f) + 2) = Breaks(f, Len(f)) + 1
<1> DEFINE g == f \o CRLF
           n == Len(f)
<1>1. CRLF \in Seq(Symbols) /\ Len(CRLF) = 2 /\ CRLF[1] = "CR" /\ CRLF[2] = "LF"
  BY Base64Assumption DEF CRLF, Symbols
<1>2. f \in Seq(Symbols)
  BY DEF IsPaired
<1>3. /\ Extends(g, f) /\ Len(g) = n + 2 /\ n \in Nat
      /\ g[n + 1] = "CR" /\ g[n + 2] = "LF"
      /\ Breaks(g, n) = Breaks(f, n)
  <2>1. /\ Extends(g, f) /\ Len(g) = n + Len(CRLF) /\ n \in Nat
        /\ \A q \in 1..Len(CRLF) : g[n + q] = CRLF[q]
        /\ Breaks(g, n) = Breaks(f, n)
    BY <1>1, <1>2, ConcatExtends
  <2> HIDE DEF g, n
  <2>2. 1 \in 1..2 /\ 2 \in 1..2
    OBVIOUS
  <2> QED
    BY <1>1, <2>1, <2>2
<1>4. /\ \A p \in 1..n : (f[p] = "CR") <=> (p < n /\ f[p + 1] = "LF")
      /\ n > 0 => f[1] # "LF"
      /\ g \in Seq(Symbols) /\ \A q \in 1..n : g[q] = f[q]
  BY <1>3 DEF IsPaired, Extends
<1> HIDE DEF g, n
<1>5. IsPaired(g)
  <2>1. ASSUME NEW p \in 1..n + 2
        PROVE  (g[p] = "CR") <=> (p < n + 2 /\ g[p + 1] = "LF")
    <3>1. CASE p < n
      BY <1>3, <1>4, <3>1
    <3>2. CASE p = n
      BY <1>3, <1>4, <3>2
    <3>3. CASE p = n + 1
      BY <1>3, <3>3
    <3>4. CASE p = n + 2
      BY <1>3, <3>4
    <3> QED
      BY <1>3, <3>1, <3>2, <3>3, <3>4
  <2>2. g[1] # "LF"
    <3>1. CASE n = 0
      BY <1>3, <3>1
    <3>2. CASE n # 0
      BY <1>3, <1>4, <3>2
    <3> QED
      BY <3>1, <3>2
  <2> QED
    BY <1>3, <1>4, <2>1, <2>2 DEF IsPaired
<1>6. Breaks(g, n + 2) = Breaks(f, n) + 1
  <2> DEFINE a == n + 1
             b == n + 2
  <2>1. a \in Nat /\ b = a + 1 /\ b # 1 /\ b - 1 = a
    BY <1>3
  <2>2. IsBreak(g, a) /\ ~IsBreak(g, b)
    <3> HIDE DEF a, b
    <3> QED
      BY <1>3, <2>1 DEF IsBreak, a, b
  <2>3. a = n + 1
    OBVIOUS
  <2> HIDE DEF a, b
  <2>4. Breaks(g, a) = Breaks(g, n) + 1 /\ Breaks(g, n) \in Nat
    BY <1>3, <2>2, <2>3, NextBreak
  <2>5. Breaks(g, b) = Breaks(g, a) + 0 /\ Breaks(g, a) \in Nat
    BY <2>1, <2>2, NextBreak
  <2>6. Breaks(g, b) = Breaks(f, n) + 1
    BY <1>3, <2>4, <2>5
  <2> QED
    BY <2>6 DEF b
<1> QED
  BY <1>3, <1>5, <1>6 DEF g, n

(* One more symbol on the line. *)
LEMMA AddInk ==
  ASSUME NEW f, IsPaired(f), NEW c \in Symbols, c \notin LineBreaks
  PROVE  /\ IsPaired(f \o <<c>>) /\ Extends(f \o <<c>>, f) /\ Len(f \o <<c>>) = Len(f) + 1
         /\ (f \o <<c>>)[Len(f) + 1] = c
         /\ Breaks(f \o <<c>>, Len(f) + 1) = Breaks(f, Len(f))
<1> DEFINE g == f \o <<c>>
           n == Len(f)
<1>1. <<c>> \in Seq(Symbols) /\ Len(<<c>>) = 1 /\ <<c>>[1] = c /\ c # "CR" /\ c # "LF"
  BY DEF LineBreaks
<1>2. f \in Seq(Symbols)
  BY DEF IsPaired
<1>3. /\ Extends(g, f) /\ Len(g) = n + 1 /\ n \in Nat
      /\ g[n + 1] = c
      /\ Breaks(g, n) = Breaks(f, n)
  <2> DEFINE x == <<c>>
  <2>0. x \in Seq(Symbols) /\ Len(x) = 1 /\ x[1] = c
    BY <1>1
  <2> HIDE DEF x
  <2>1. /\ Extends(f \o x, f) /\ Len(f \o x) = n + Len(x) /\ n \in Nat
        /\ \A q \in 1..Len(x) : (f \o x)[n + q] = x[q]
        /\ Breaks(f \o x, n) = Breaks(f, n)
    BY <1>2, <2>0, ConcatExtends
  <2>2. g = f \o x
    BY DEF x
  <2> HIDE DEF g, n
  <2>3. 1 \in 1..1
    OBVIOUS
  <2> QED
    BY <2>0, <2>1, <2>2, <2>3
<1>4. /\ \A p \in 1..n : (f[p] = "CR") <=> (p < n /\ f[p + 1] = "LF")
      /\ n > 0 => f[1] # "LF"
      /\ g \in Seq(Symbols) /\ \A q \in 1..n : g[q] = f[q]
  BY <1>3 DEF IsPaired, Extends
<1> HIDE DEF g, n
<1>5. IsPaired(g)
  <2>1. ASSUME NEW p \in 1..n + 1
        PROVE  (g[p] = "CR") <=> (p < n + 1 /\ g[p + 1] = "LF")
    <3>1. CASE p < n
      BY <1>3, <1>4, <3>1
    <3>2. CASE p = n
      BY <1>1, <1>3, <1>4, <3>2
    <3>3. CASE p = n + 1
      BY <1>1, <1>3, <3>3
    <3> QED
      BY <1>3, <3>1, <3>2, <3>3
  <2>2. g[1] # "LF"
    <3>1. CASE n = 0
      BY <1>1, <1>3, <3>1
    <3>2. CASE n # 0
      BY <1>3, <1>4, <3>2
    <3> QED
      BY <3>1, <3>2
  <2> QED
    BY <1>3, <1>4, <2>1, <2>2 DEF IsPaired
<1>6. Breaks(g, n + 1) = Breaks(f, n)
  <2>1. ~IsBreak(g, n + 1)
    BY <1>1, <1>3 DEF IsBreak
  <2> DEFINE a == n + 1
  <2>2. a = n + 1
    OBVIOUS
  <2> HIDE DEF a
  <2>3. Breaks(g, a) = Breaks(g, n) + 0 /\ Breaks(g, n) \in Nat
    BY <1>3, <2>1, <2>2, NextBreak
  <2>4. Breaks(g, a) = Breaks(g, n)
    BY <2>3
  <2> QED
    BY <1>3, <2>4 DEF a
<1> QED
  BY <1>3, <1>5, <1>6 DEF g, n

(* Two ascending sequences of the same numbers are one. *)
IsAscending(a) == /\ a \in Seq(Nat)
                  /\ \A i, j \in DOMAIN a : i < j => a[i] < a[j]
HaveSameMembers(a, b) ==
  /\ \A i \in DOMAIN a : \E j \in DOMAIN b : b[j] = a[i]
  /\ \A i \in DOMAIN b : \E j \in DOMAIN a : a[j] = b[i]

(* Up to their first difference there is none. *)
LEMMA FirstDifference ==
  ASSUME NEW a, IsAscending(a), NEW b, IsAscending(b), HaveSameMembers(a, b),
         NEW i \in DOMAIN a, NEW j \in DOMAIN b, i = j,
         \A l \in 1..i - 1 : a[l] = b[l]
  PROVE  ~(a[i] < b[j])
<1> SUFFICES ASSUME a[i] < b[j] PROVE FALSE
  OBVIOUS
<1>1. /\ DOMAIN a = 1..Len(a) /\ DOMAIN b = 1..Len(b) /\ Len(a) \in Nat /\ Len(b) \in Nat
      /\ \A l \in DOMAIN a : a[l] \in Nat
      /\ \A l \in DOMAIN b : b[l] \in Nat
  BY ElementOfSeq, LenProperties DEF IsAscending
<1>2. PICK l \in DOMAIN b : b[l] = a[i]
  BY DEF HaveSameMembers
<1>3. l < j
  <2>1. ASSUME j < l PROVE FALSE
    <3>1. b[j] < b[l]
      BY <2>1 DEF IsAscending
    <3>2. a[i] \in Nat /\ b[j] \in Nat /\ b[l] = a[i]
      BY <1>1, <1>2
    <3> QED
      BY <3>1, <3>2
  <2>2. l # j
    <3>1. a[i] \in Nat /\ b[j] \in Nat /\ b[l] = a[i]
      BY <1>1, <1>2
    <3> QED
      BY <3>1
  <2>3. l \in Nat /\ j \in Nat
    BY <1>1
  <2> QED
    BY <2>1, <2>2, <2>3
<1>4. l \in 1..i - 1 /\ l \in DOMAIN a /\ l < i
  BY <1>1, <1>3
<1>5. a[l] < a[i] /\ a[l] = a[i]
  BY <1>2, <1>4 DEF IsAscending
<1> QED
  BY <1>1, <1>4, <1>5

(* So the sequence is determined by its members. *)
LEMMA AscendingIsUnique ==
  ASSUME NEW a, IsAscending(a), NEW b, IsAscending(b), HaveSameMembers(a, b)
  PROVE  a = b
<1> DEFINE m == Len(a)
           n == Len(b)
<1>1. /\ DOMAIN a = 1..m /\ DOMAIN b = 1..n /\ m \in Nat /\ n \in Nat
      /\ a \in Seq(Nat) /\ b \in Seq(Nat)
      /\ \A l \in 1..m : a[l] \in Nat
      /\ \A l \in 1..n : b[l] \in Nat
  BY ElementOfSeq, LenProperties DEF IsAscending
<1> HIDE DEF m, n
<1>2. HaveSameMembers(b, a)
  BY DEF HaveSameMembers
<1>3. ASSUME NEW i \in 1..m, i \in 1..n, \A l \in 1..i - 1 : a[l] = b[l] PROVE a[i] = b[i]
  <2>1. i \in DOMAIN a /\ i \in DOMAIN b /\ \A l \in 1..i - 1 : b[l] = a[l]
    BY <1>1, <1>3
  <2>2. ~(a[i] < b[i])
    BY <1>3, <2>1, FirstDifference
  <2>3. ~(b[i] < a[i])
    BY <1>2, <2>1, FirstDifference
  <2>4. a[i] \in Nat /\ b[i] \in Nat
    BY <1>1, <1>3
  <2> QED
    BY <2>2, <2>3, <2>4
<1> DEFINE Same == {i \in 0..m : \A l \in 1..i : l \in 1..n => a[l] = b[l]}
<1>4. Same = 0..m
  <2>1. Same \in SUBSET (0..m) /\ 0 \in Same
    BY <1>1
  <2>2. ASSUME NEW i \in 1..m, i - 1 \in Same PROVE i \in Same
    <3>1. \A l \in 1..i - 1 : l \in 1..n => a[l] = b[l]
      BY <2>2
    <3>2. i \in 1..n => a[i] = b[i]
      <4>1. ASSUME i \in 1..n PROVE a[i] = b[i]
        <5>1. \A l \in 1..i - 1 : l \in 1..n
          BY <1>1, <4>1
        <5> QED
          BY <1>3, <3>1, <4>1, <5>1
      <4> QED
        BY <4>1
    <3>3. \A l \in 1..i : l \in 1..i - 1 \/ l = i
      OBVIOUS
    <3>4. i \in 0..m
      BY <1>1
    <3> QED
      BY <3>1, <3>2, <3>3, <3>4
  <2> HIDE DEF Same
  <2> QED
    BY <1>1, <2>1, <2>2, StepByStep
<1>5. \A l \in 1..m : l \in 1..n => a[l] = b[l]
  <2>1. m \in 0..m
    BY <1>1
  <2> QED
    BY <1>4, <2>1
<1>6. ~(m < n)
  <2> SUFFICES ASSUME m < n PROVE FALSE
    OBVIOUS
  <2>1. m + 1 \in 1..n
    BY <1>1
  <2>2. PICK j \in 1..m : a[j] = b[m + 1]
    BY <1>1, <2>1 DEF HaveSameMembers
  <2>3. j \in 1..n /\ j < m + 1
    BY <1>1
  <2>4. b[j] < b[m + 1] /\ b[j] = a[j]
    BY <1>1, <1>5, <2>1, <2>3 DEF IsAscending
  <2>5. b[j] \in Nat
    BY <1>1, <2>3
  <2> QED
    BY <2>2, <2>4, <2>5
<1>7. ~(n < m)
  <2> SUFFICES ASSUME n < m PROVE FALSE
    OBVIOUS
  <2>1. n + 1 \in 1..m
    BY <1>1
  <2>2. PICK j \in 1..n : b[j] = a[n + 1]
    BY <1>1, <2>1 DEF HaveSameMembers
  <2>3. j \in 1..m /\ j < n + 1
    BY <1>1
  <2>4. a[j] < a[n + 1] /\ b[j] = a[j]
    BY <1>1, <1>5, <2>1, <2>3 DEF IsAscending
  <2>5. a[j] \in Nat
    BY <1>1, <2>3
  <2> QED
    BY <2>2, <2>4, <2>5
<1>8. m = n
  BY <1>1, <1>6, <1>7
<1>9. \A l \in 1..m : a[l] = b[l]
  BY <1>5, <1>8
<1> QED
  BY <1>1, <1>8, <1>9, SeqEqual DEF m, n

(* What a symbol of a text is sent as, and where a line's symbols are. *)
Piece(t, p) ==
  CASE t[p] = "CR" -> CRLF
    [] t[p] = "LF" -> IF p > 1 /\ t[p - 1] = "CR" THEN <<>> ELSE CRLF
    [] OTHER       -> <<t[p]>>
Inks(s) == {p \in DOMAIN s : s[p] \notin LineBreaks}

(* What the first i symbols of t were sent as: the p-th of them, if it is  *)
(* no line break, is at[p].                                                *)
InksAreSent(f, t, i, at) ==
  /\ \A p \in Inks(t) : p <= i =>
       at[p] \in 1..Len(f) /\ f[at[p]] = t[p] /\ Breaks(f, at[p]) = Breaks(t, p)
  /\ \A q \in Inks(f) : \E p \in Inks(t) : p <= i /\ at[p] = q
  /\ \A p, r \in Inks(t) : p < r /\ r <= i => at[p] < at[r]
IsSentUpto(f, t, i, at) ==
  /\ IsPaired(f)
  /\ Breaks(f, Len(f)) = Breaks(t, i)
  /\ \/ i = 0 /\ f = <<>>
     \/ i > 0 /\ Len(f) > 0 /\ (f[Len(f)] = "LF" <=> t[i] \in LineBreaks)
  /\ InksAreSent(f, t, i, at)

(* The places of a line's symbols stay when a break is added to it ...     *)
LEMMA LongerKeepsInks ==
  ASSUME NEW t \in Seq(Symbols), NEW i, NEW at, NEW f, NEW g,
         Extends(g, f), \A q \in Inks(g) : q <= Len(f), InksAreSent(f, t, i, at)
  PROVE  InksAreSent(g, t, i, at)
<1>1. /\ Len(f) \in Nat /\ Len(g) \in Nat /\ Len(f) <= Len(g)
      /\ DOMAIN f = 1..Len(f) /\ DOMAIN g = 1..Len(g)
      /\ \A q \in 1..Len(f) : g[q] = f[q] /\ Breaks(g, q) = Breaks(f, q)
  BY LenProperties DEF Extends
<1>2. ASSUME NEW p \in Inks(t), p <= i
      PROVE  at[p] \in 1..Len(g) /\ g[at[p]] = t[p] /\ Breaks(g, at[p]) = Breaks(t, p)
  <2>1. at[p] \in 1..Len(f) /\ f[at[p]] = t[p] /\ Breaks(f, at[p]) = Breaks(t, p)
    BY <1>2 DEF InksAreSent
  <2>2. at[p] \in 1..Len(g)
    BY <1>1, <2>1
  <2> QED
    BY <1>1, <2>1, <2>2
<1>3. ASSUME NEW q \in Inks(g) PROVE \E p \in Inks(t) : p <= i /\ at[p] = q
  <2>1. q \in 1..Len(f)
    BY <1>1 DEF Inks
  <2>2. q \in Inks(f)
    BY <1>1, <2>1 DEF Inks
  <2> QED
    BY <2>2 DEF InksAreSent
<1> QED
  BY <1>2, <1>3 DEF InksAreSent

(* ... as it is by CRLF ... *)
LEMMA BreakKeepsInks ==
  ASSUME NEW t \in Seq(Symbols), NEW i \in 1..Len(t), NEW at, NEW f, NEW g,
         t[i] \in LineBreaks, Extends(g, f), \A q \in Inks(g) : q <= Len(f),
         InksAreSent(f, t, i - 1, at)
  PROVE  InksAreSent(g, t, i, at)
<1> DEFINE j == i - 1
<1>1. ASSUME NEW p \in Inks(t) PROVE p <= i <=> p <= j
  <2>1. p # i /\ p \in Nat
    BY LenProperties DEF Inks
  <2> QED
    BY <2>1
<1> HIDE DEF j
<1>2. InksAreSent(g, t, j, at)
  BY LongerKeepsInks DEF j
<1> QED
  BY <1>1, <1>2 DEF InksAreSent

(* ... and a symbol that is added is behind all others.                    *)
LEMMA InkKeepsInks ==
  ASSUME NEW t \in Seq(Symbols), NEW i \in 1..Len(t), NEW at, NEW f, NEW g,
         t[i] \notin LineBreaks, Extends(g, f), Len(g) = Len(f) + 1, at[i] = Len(g),
         g[Len(g)] = t[i], Breaks(g, Len(g)) = Breaks(t, i),
         InksAreSent(f, t, i - 1, at)
  PROVE  InksAreSent(g, t, i, at)
<1>1. \A p \in Inks(t) : p \in Nat /\ (p <= i => p <= i - 1 \/ p = i)
  BY LenProperties DEF Inks
<1>2. i \in Inks(t)
  BY LenProperties DEF Inks
<1>3. Len(f) \in Nat /\ Len(g) \in Nat /\ Len(f) <= Len(g) /\ DOMAIN f = 1..Len(f) /\ DOMAIN g = 1..Len(g)
      /\ \A q \in 1..Len(f) : g[q] = f[q] /\ Breaks(g, q) = Breaks(f, q)
  BY LenProperties DEF Extends
<1>4. \A p \in Inks(t) : p <= i =>
        at[p] \in 1..Len(g) /\ g[at[p]] = t[p] /\ Breaks(g, at[p]) = Breaks(t, p)
  <2>1. ASSUME NEW p \in Inks(t), p <= i - 1
        PROVE  at[p] \in 1..Len(g) /\ g[at[p]] = t[p] /\ Breaks(g, at[p]) = Breaks(t, p)
    <3>1. at[p] \in 1..Len(f) /\ f[at[p]] = t[p] /\ Breaks(f, at[p]) = Breaks(t, p)
      BY <1>1, <2>1 DEF InksAreSent
    <3>2. at[p] \in 1..Len(g)
      BY <1>3, <3>1
    <3> QED
      BY <1>3, <3>1, <3>2
  <2>2. at[i] \in 1..Len(g)
    BY <1>3
  <2> QED
    BY <1>1, <2>1, <2>2
<1>5. \A q \in Inks(g) : \E p \in Inks(t) : p <= i /\ at[p] = q
  <2>1. ASSUME NEW q \in Inks(g) PROVE \E p \in Inks(t) : p <= i /\ at[p] = q
    <3>1. q \in 1..Len(f) \/ q = Len(g)
      BY <1>3 DEF Inks
    <3>2. CASE q = Len(g)
      BY <1>2, <3>2
    <3>3. CASE q \in 1..Len(f)
      <4>1. q \in Inks(f)
        BY <1>3, <3>3 DEF Inks
      <4>2. PICK p \in Inks(t) : p <= i - 1 /\ at[p] = q
        BY <4>1 DEF InksAreSent
      <4>3. p <= i
        BY <1>1, <4>2
      <4> QED
        BY <4>2, <4>3
    <3> QED
      BY <3>1, <3>2, <3>3
  <2> QED
    BY <2>1
<1>6. ASSUME NEW p \in Inks(t), NEW r \in Inks(t), p < r, r <= i PROVE at[p] < at[r]
  <2>1. CASE r <= i - 1
    BY <1>6, <2>1 DEF InksAreSent
  <2>2. CASE r = i
    <3>1. p <= i - 1
      BY <1>1, <1>6, <2>2
    <3>2. at[p] \in 1..Len(f)
      BY <3>1 DEF InksAreSent
    <3> QED
      BY <1>3, <2>2, <3>2
  <2> QED
    BY <1>1, <1>6, <2>1, <2>2
<1> QED
  BY <1>4, <1>5, <1>6 DEF InksAreSent

(* A symbol more is sent. *)
LEMMA SendOneMore ==
  ASSUME NEW t \in Seq(Symbols), NEW i \in 1..Len(t), NEW at, NEW f,
         IsSentUpto(f, t, i - 1, at), at[i] = Len(f \o Piece(t, i))
  PROVE  IsSentUpto(f \o Piece(t, i), t, i, at)
<1> DEFINE n == Len(f)
<1>1. /\ IsPaired(f) /\ f \in Seq(Symbols) /\ n \in Nat /\ Breaks(f, n) = Breaks(t, i - 1)
      /\ DOMAIN f = 1..n
      /\ InksAreSent(f, t, i - 1, at)
  BY LenProperties DEF IsSentUpto, IsPaired
<1>2. /\ i - 1 \in Nat /\ i > 0 /\ DOMAIN t = 1..Len(t) /\ Len(t) \in Nat /\ t[i] \in Symbols
      /\ i \in Nat
  BY ElementOfSeq, LenProperties
<1>3. /\ Breaks(t, i) = Breaks(t, i - 1) + (IF IsBreak(t, i) THEN 1 ELSE 0)
      /\ Breaks(t, i - 1) \in Nat
  <2> DEFINE j == i - 1
  <2>1. j \in Nat /\ i = j + 1
    BY <1>2
  <2> HIDE DEF j
  <2>2. /\ Breaks(t, i) = Breaks(t, j) + (IF IsBreak(t, i) THEN 1 ELSE 0)
        /\ Breaks(t, j) \in Nat
    BY <2>1, NextBreak
  <2> QED
    BY <2>2 DEF j
<1>4. CASE t[i] = "LF" /\ i > 1 /\ t[i - 1] = "CR"
  <2>1. Piece(t, i) = <<>> /\ t[i] \in LineBreaks
    BY <1>4 DEF Piece, LineBreaks
  <2>2. f \o <<>> = f
    BY <1>1, ConcatEmptySeq
  <2>3. ~IsBreak(t, i)
    BY <1>2, <1>4 DEF IsBreak
  <2>4. Extends(f, f) /\ \A q \in Inks(f) : q <= n
    BY <1>1 DEF Extends, Inks
  <2>5. InksAreSent(f, t, i, at)
    BY <1>1, <2>1, <2>4, BreakKeepsInks
  <2>6. n > 0 /\ f[n] = "LF"
    <3>1. n > 0 /\ (f[n] = "LF" <=> t[i - 1] \in LineBreaks)
      BY <1>2, <1>4 DEF IsSentUpto
    <3> QED
      BY <1>4, <3>1 DEF LineBreaks
  <2>7. Breaks(f, n) = Breaks(t, i)
    BY <1>1, <1>3, <2>3
  <2> QED
    BY <1>1, <1>2, <2>1, <2>2, <2>5, <2>6, <2>7 DEF IsSentUpto
<1>5. CASE t[i] = "CR" \/ (t[i] = "LF" /\ ~(i > 1 /\ t[i - 1] = "CR"))
  <2> DEFINE g == f \o CRLF
  <2>1. Piece(t, i) = CRLF /\ t[i] \in LineBreaks
    BY <1>5 DEF Piece, LineBreaks
  <2>2. IsBreak(t, i)
    BY <1>2, <1>5 DEF IsBreak
  <2>3. /\ IsPaired(g) /\ Extends(g, f) /\ Len(g) = n + 2 /\ g[n + 1] = "CR" /\ g[n + 2] = "LF"
        /\ Breaks(g, n + 2) = Breaks(f, n) + 1
    BY <1>1, AddBreak
  <2>4. g \in Seq(Symbols) /\ DOMAIN g = 1..Len(g)
    BY <2>3, LenProperties DEF IsPaired
  <2> HIDE DEF g, n
  <2>5. ASSUME NEW q \in Inks(g) PROVE q <= n
    <3>1. q \in 1..n + 2 /\ g[q] # "CR" /\ g[q] # "LF"
      BY <2>3, <2>4 DEF Inks, LineBreaks
    <3>2. q # n + 1 /\ q # n + 2
      BY <2>3, <3>1
    <3> QED
      BY <1>1, <3>1, <3>2
  <2>6. InksAreSent(g, t, i, at)
    BY <1>1, <2>1, <2>3, <2>5, BreakKeepsInks DEF n
  <2>7. Breaks(g, Len(g)) = Breaks(t, i)
    BY <1>1, <1>3, <2>2, <2>3
  <2>8. Len(g) > 0 /\ g[Len(g)] = "LF"
    BY <1>1, <2>3
  <2> QED
    BY <1>2, <2>1, <2>3, <2>6, <2>7, <2>8 DEF IsSentUpto, g
<1>6. CASE t[i] # "CR" /\ t[i] # "LF"
  <2> DEFINE c == t[i]
             g == f \o <<c>>
  <2>1. Piece(t, i) = <<c>> /\ c \notin LineBreaks
    BY <1>6 DEF Piece, LineBreaks
  <2>2. ~IsBreak(t, i)
    BY <1>6 DEF IsBreak
  <2>3. c \in Symbols
    BY <1>2
  <2> HIDE DEF c
  <2>4. /\ IsPaired(g) /\ Extends(g, f) /\ Len(g) = n + 1 /\ g[n + 1] = c
        /\ Breaks(g, n + 1) = Breaks(f, n)
    BY <1>1, <2>1, <2>3, AddInk
  <2>5. at[i] = Len(g)
    BY <2>1
  <2> HIDE DEF g, n
  <2>6. Breaks(g, Len(g)) = Breaks(t, i)
    BY <1>1, <1>3, <2>2, <2>4
  <2>7. InksAreSent(g, t, i, at)
    <3>1. t[i] \notin LineBreaks /\ g[Len(g)] = t[i] /\ Len(g) = Len(f) + 1
      BY <2>1, <2>4 DEF c, n
    <3> QED
      BY <1>1, <2>4, <2>5, <2>6, <3>1, InkKeepsInks
  <2>8. Len(g) > 0 /\ g[Len(g)] # "LF" /\ t[i] \notin LineBreaks
    <3>1. c # "LF"
      BY <2>1 DEF LineBreaks
    <3> QED
      BY <1>1, <2>1, <2>4, <3>1 DEF c
  <2> QED
    BY <1>2, <2>1, <2>4, <2>6, <2>7, <2>8 DEF IsSentUpto, g
<1> QED
  BY <1>4, <1>5, <1>6

(* The lines of a text are sent with their symbols and their breaks. *)
LEMMA LinesAreSent ==
  ASSUME NEW t \in Seq(Symbols), NEW g \in Seq(Symbols), NEW at, InksAreSent(g, t, Len(t), at)
  PROVE  Lines(g) = Lines(t)
<1> DEFINE a == Ascending(t, Inks(t))
           b == Ascending(g, Inks(g))
           c == [n \in DOMAIN a |-> at[a[n]]]
<1>1. /\ Len(t) \in Nat /\ DOMAIN t = 1..Len(t) /\ Len(g) \in Nat /\ DOMAIN g = 1..Len(g)
      /\ Inks(t) \in SUBSET (1..Len(t)) /\ Inks(g) \in SUBSET (1..Len(g))
  BY LenProperties DEF Inks
<1>2. /\ a \in Seq(Inks(t)) /\ \A p \in Inks(t) : \E i \in DOMAIN a : a[i] = p
      /\ \A i, j \in DOMAIN a : i < j => a[i] < a[j]
  BY <1>1, AscendingIsSorted
<1>3. /\ b \in Seq(Inks(g)) /\ \A p \in Inks(g) : \E i \in DOMAIN b : b[i] = p
      /\ \A i, j \in DOMAIN b : i < j => b[i] < b[j]
  BY <1>1, AscendingIsSorted
<1>4. /\ Lines(t) = [n \in DOMAIN a |-> <<t[a[n]], Breaks(t, a[n])>>]
      /\ Lines(g) = [n \in DOMAIN b |-> <<g[b[n]], Breaks(g, b[n])>>]
  BY DEF Lines, Inks
<1> HIDE DEF a, b
<1>5. /\ DOMAIN a = 1..Len(a) /\ Len(a) \in Nat /\ \A n \in DOMAIN a : a[n] \in Inks(t)
      /\ DOMAIN b = 1..Len(b) /\ Len(b) \in Nat /\ \A n \in DOMAIN b : b[n] \in Inks(g)
  BY <1>2, <1>3, ElementOfSeq, LenProperties
<1>6. ASSUME NEW p \in Inks(t)
      PROVE  p <= Len(t) /\ at[p] \in Inks(g) /\ g[at[p]] = t[p] /\ Breaks(g, at[p]) = Breaks(t, p)
  <2>1. p <= Len(t)
    BY <1>1
  <2>2. at[p] \in 1..Len(g) /\ g[at[p]] = t[p] /\ Breaks(g, at[p]) = Breaks(t, p)
    BY <2>1 DEF InksAreSent
  <2> QED
    BY <1>1, <2>1, <2>2 DEF Inks
<1>7. IsAscending(c)
  <2>1. c \in [1..Len(a) -> Nat]
    BY <1>1, <1>5, <1>6
  <2>2. ASSUME NEW i \in DOMAIN a, NEW j \in DOMAIN a, i < j PROVE c[i] < c[j]
    <3>1. a[i] < a[j] /\ a[i] \in Inks(t) /\ a[j] \in Inks(t)
      BY <1>2, <1>5, <2>2
    <3>2. a[j] <= Len(t)
      BY <1>6, <3>1
    <3> QED
      BY <3>1, <3>2 DEF InksAreSent
  <2>3. DOMAIN c = DOMAIN a
    OBVIOUS
  <2> HIDE DEF c
  <2>4. c \in Seq(Nat)
    BY <1>5, <2>1, SeqDef
  <2> QED
    BY <2>2, <2>3, <2>4 DEF IsAscending
<1>8. IsAscending(b)
  <2>1. b \in Seq(Nat)
    <3>1. Inks(g) \subseteq Nat
      BY <1>1
    <3> QED
      BY <1>3, <3>1, SeqMonotonic
  <2> QED
    BY <1>3, <2>1 DEF IsAscending
<1>9. HaveSameMembers(c, b)
  <2>1. ASSUME NEW i \in DOMAIN a PROVE \E j \in DOMAIN b : b[j] = c[i]
    BY <1>3, <1>5, <1>6
  <2>2. ASSUME NEW i \in DOMAIN b PROVE \E j \in DOMAIN a : c[j] = b[i]
    <3>1. b[i] \in Inks(g)
      BY <1>5
    <3>2. PICK p \in Inks(t) : at[p] = b[i]
      BY <3>1 DEF InksAreSent
    <3>3. PICK j \in DOMAIN a : a[j] = p
      BY <1>2
    <3> QED
      BY <3>2, <3>3
  <2>3. DOMAIN c = DOMAIN a
    OBVIOUS
  <2> HIDE DEF c
  <2> QED
    BY <2>1, <2>2, <2>3 DEF HaveSameMembers
<1>10. b = c
  <2> HIDE DEF c
  <2> QED
    BY <1>7, <1>8, <1>9, AscendingIsUnique
<1>11. DOMAIN b = DOMAIN a /\ \A n \in DOMAIN a : b[n] = at[a[n]]
  BY <1>10
<1> HIDE DEF c
<1>12. ASSUME NEW n \in DOMAIN a
       PROVE  <<g[b[n]], Breaks(g, b[n])>> = <<t[a[n]], Breaks(t, a[n])>>
  <2>1. g[at[a[n]]] = t[a[n]] /\ Breaks(g, at[a[n]]) = Breaks(t, a[n])
    BY <1>5, <1>6
  <2> QED
    BY <1>11, <2>1
<1> QED
  BY <1>4, <1>11, <1>12, Zenon

(* The text in its pieces is sent up to the last of its symbols. *)
LEMMA TextIsSent ==
  ASSUME NEW t \in Seq(Symbols)
  PROVE  \E at : IsSentUpto(FlattenSeq([p \in DOMAIN t |-> Piece(t, p)]), t, Len(t), at)
<1> DEFINE pieces == [p \in DOMAIN t |-> Piece(t, p)]
           n == Len(t)
<1>1. n \in Nat /\ DOMAIN t = 1..n /\ \A p \in 1..n : t[p] \in Symbols
  BY ElementOfSeq, LenProperties
<1>2. ASSUME NEW p \in 1..n PROVE Piece(t, p) \in Seq(Symbols)
  <2>1. <<>> \in Seq(Symbols) /\ CRLF \in Seq(Symbols)
    BY Base64Assumption DEF CRLF, Symbols
  <2>2. <<t[p]>> \in Seq(Symbols)
    BY <1>1
  <2>3. Piece(t, p) \in {<<>>, CRLF, <<t[p]>>}
    <3>1. CASE t[p] = "CR"
      BY <3>1 DEF Piece
    <3>2. CASE t[p] = "LF"
      BY <3>2 DEF Piece
    <3>3. CASE t[p] # "CR" /\ t[p] # "LF"
      BY <3>3 DEF Piece
    <3> QED
      BY <3>1, <3>2, <3>3
  <2> QED
    BY <2>1, <2>2, <2>3
<1>3. pieces \in [1..n -> Seq(Symbols)] /\ \A p \in 1..n : pieces[p] = Piece(t, p)
  BY <1>1, <1>2
<1> HIDE DEF n
<1>4. pieces \in Seq(Seq(Symbols)) /\ Len(pieces) = n
  <2> HIDE DEF pieces
  <2>1. pieces \in Seq(Seq(Symbols))
    BY <1>1, <1>3, SeqDef
  <2> QED
    BY <1>1, <1>3, <2>1, LenProperties
<1> HIDE DEF pieces
<1>5. PICK f : IsFlattened(f, pieces, Symbols)
  BY <1>4, FlattenStepByStep
<1>6. /\ f \in [0..n -> Seq(Symbols)] /\ f[0] = <<>>
      /\ \A i \in 1..n : f[i] = f[i - 1] \o Piece(t, i)
  BY <1>3, <1>4, <1>5, Zenon DEF IsFlattened
<1>7. FlattenSeq(pieces) = f[n]
  BY <1>4, <1>5, FlattenIsLast, Zenon
<1> DEFINE at == [i \in 0..n |-> Len(f[i])]
           Sent == {i \in 0..n : IsSentUpto(f[i], t, i, at)}
<1>8. 0 \in Sent
  <2>1. IsPaired(<<>>)
    BY DEF IsPaired
  <2>2. Breaks(<<>>, Len(<<>>)) = Breaks(t, 0)
    BY BreaksOneByOne
  <2>3. InksAreSent(<<>>, t, 0, at)
    <3>1. Inks(<<>>) = {}
      BY DEF Inks
    <3>2. \A p \in Inks(t) : ~(p <= 0)
      BY <1>1 DEF Inks
    <3>3. \A p, r \in Inks(t) : ~(p < r /\ r <= 0)
      BY <3>2
    <3> HIDE DEF at
    <3> QED
      BY <3>1, <3>2, <3>3 DEF InksAreSent
  <2>4. 0 \in 0..n
    BY <1>1
  <2> HIDE DEF at
  <2> QED
    BY <1>6, <2>1, <2>2, <2>3, <2>4 DEF IsSentUpto
<1>9. ASSUME NEW i \in 1..n, i - 1 \in Sent PROVE i \in Sent
  <2>1. i \in 0..n /\ i \in 1..Len(t) /\ f[i] = f[i - 1] \o Piece(t, i)
    BY <1>1, <1>6 DEF n
  <2>2. IsSentUpto(f[i - 1], t, i - 1, at)
    BY <1>9
  <2>3. at[i] = Len(f[i])
    BY <2>1
  <2> DEFINE before == f[i - 1]
  <2>4. IsSentUpto(before, t, i - 1, at) /\ f[i] = before \o Piece(t, i)
    BY <2>1, <2>2
  <2> HIDE DEF at, before
  <2>5. at[i] = Len(before \o Piece(t, i))
    BY <2>3, <2>4
  <2>6. IsSentUpto(before \o Piece(t, i), t, i, at)
    BY <2>1, <2>4, <2>5, SendOneMore
  <2> QED
    BY <2>1, <2>4, <2>6
<1>10. Sent = 0..n
  <2>1. Sent \in SUBSET (0..n)
    OBVIOUS
  <2> HIDE DEF Sent
  <2> QED
    BY <1>1, <1>8, <1>9, <2>1, StepByStep
<1>11. n \in Sent
  BY <1>1, <1>10
<1>12. IsSentUpto(f[n], t, n, at)
  BY <1>11
<1> HIDE DEF at
<1> QED
  BY <1>7, <1>12 DEF pieces, n

(* How a sequence ends. *)
EndsAs(s, t) == Len(s) >= Len(t) /\ \A i \in 1..Len(t) : s[i + (Len(s) - Len(t))] = t[i]

(* EndsWith compares the last symbols. *)
LEMMA EndsWithMeans ==
  ASSUME NEW S, NEW s \in Seq(S), NEW t \in Seq(S)
  PROVE  EndsWith(s, t) <=> EndsAs(s, t)
<1> DEFINE m == Len(s)
           n == Len(t)
           end == SubSeq(s, m - n + 1, m)
<1>1. /\ m \in Nat /\ n \in Nat /\ DOMAIN t = 1..n /\ \A i \in 1..m : s[i] \in S
  BY ElementOfSeq, LenProperties
<1>2. EndsWith(s, t) <=> m >= n /\ end = t
  BY DEF EndsWith
<1>3. ASSUME m >= n PROVE end = t <=> \A i \in 1..n : s[i + (m - n)] = t[i]
  <2> DEFINE from == m - n + 1
  <2>1. /\ from \in Int /\ m \in Int /\ n \in Nat /\ from..m \subseteq 1..m
        /\ (IF from <= m THEN m - from + 1 ELSE 0) = n /\ m - from + 1 = n
        /\ \A i \in 1..n : from + i - 1 = i + (m - n)
    BY <1>1, <1>3
  <2>2. end = SubSeq(s, from, m)
    OBVIOUS
  <2>3. \A i \in 1..m : s[i] \in S
    BY <1>1
  <2> HIDE DEF end, from, m, n
  <2>4. \A i \in from..m : s[i] \in S
    BY <2>1, <2>3
  <2>5. /\ end \in Seq(S) /\ Len(end) = IF from <= m THEN m - from + 1 ELSE 0
        /\ \A i \in 1..m - from + 1 : end[i] = s[from + i - 1]
    BY <2>1, <2>2, <2>4, SubSeqProperties
  <2>6. end \in Seq(S) /\ Len(end) = n /\ \A i \in 1..n : end[i] = s[i + (m - n)]
    BY <2>1, <2>5
  <2>7. (\A i \in 1..n : end[i] = t[i]) => end = t
    BY <2>6, SeqEqual DEF n
  <2> QED
    BY <2>6, <2>7
<1> HIDE DEF end
<1> QED
  BY <1>2, <1>3 DEF EndsAs

(* A text that was sent ends with a break just where its last symbol is    *)
(* half of one.                                                            *)
LEMMA EndsWithBreak ==
  ASSUME NEW f, IsPaired(f)
  PROVE  EndsWith(f, CRLF) <=> (Len(f) > 0 /\ f[Len(f)] = "LF")
<1> DEFINE n == Len(f)
<1>1. /\ n \in Nat /\ f \in Seq(Symbols)
      /\ \A p \in 1..n : (f[p] = "CR") <=> (p < n /\ f[p + 1] = "LF")
      /\ n > 0 => f[1] # "LF"
  BY LenProperties DEF IsPaired
<1>2. Len(CRLF) = 2 /\ CRLF \in Seq({"CR", "LF"}) /\ CRLF[1] = "CR" /\ CRLF[2] = "LF"
  BY DEF CRLF
<1>3. ASSUME n >= 2
      PROVE  EndsWith(f, CRLF) <=> (f[n - 1] = "CR" /\ f[n] = "LF")
  <2>1. CRLF \in Seq(Symbols)
    BY Base64Assumption DEF CRLF, Symbols
  <2>2. EndsWith(f, CRLF) <=> n >= 2 /\ \A i \in 1..2 : f[i + (n - 2)] = CRLF[i]
    <3>1. EndsWith(f, CRLF) <=> EndsAs(f, CRLF)
      BY <1>1, <2>1, EndsWithMeans, Zenon
    <3> QED
      BY <1>2, <3>1 DEF EndsAs
  <2> HIDE DEF n
  <2>3. /\ 1 + (n - 2) = n - 1 /\ 2 + (n - 2) = n /\ 1 \in 1..2 /\ 2 \in 1..2
        /\ \A i \in 1..2 : i = 1 \/ i = 2
    BY <1>1
  <2> QED
    BY <1>2, <1>3, <2>2, <2>3
<1>4. CASE n >= 2
  <2>1. n - 1 \in 1..n /\ n - 1 < n /\ n - 1 + 1 = n /\ n > 0
    BY <1>1, <1>4
  <2>2. f[n - 1] = "CR" <=> f[n] = "LF"
    BY <1>1, <2>1
  <2> HIDE DEF n
  <2> QED
    BY <1>3, <1>4, <2>1, <2>2 DEF n
<1>5. CASE n < 2
  <2>1. ~EndsWith(f, CRLF)
    BY <1>1, <1>2, <1>5 DEF EndsWith
  <2> HIDE DEF n
  <2>2. n = 0 \/ n = 1
    BY <1>1, <1>5
  <2>3. ~(n > 0 /\ f[n] = "LF")
    BY <1>1, <2>2
  <2> QED
    BY <2>1, <2>3 DEF n
<1> QED
  BY <1>1, <1>4, <1>5

(* The lines of a text survive, whatever its line breaks are, and every    *)
(* line ends with CRLF (rust/src/mime.rs, text_part).                      *)
LEMMA CanonicalKeepsLines ==
  ASSUME NEW t \in Seq(Symbols), t # <<>>
  PROVE  /\ SameLines(t, Canonical(t)) /\ IsPaired(Canonical(t))
         /\ EndsWith(Canonical(t), CRLF)
<1> DEFINE lines == FlattenSeq([p \in DOMAIN t |-> Piece(t, p)])
           n == Len(t)
<1>1. Canonical(t) = IF EndsWith(lines, CRLF) THEN lines ELSE lines \o CRLF
  BY DEF Canonical, Piece
<1>2. PICK at : IsSentUpto(lines, t, n, at)
  BY TextIsSent
<1> HIDE DEF lines
<1>3. n \in Nat /\ n # 0
  BY EmptySeq, LenProperties
<1> HIDE DEF n
<1>4. /\ IsPaired(lines) /\ lines \in Seq(Symbols) /\ Breaks(lines, Len(lines)) = Breaks(t, n)
      /\ Len(lines) > 0 /\ (lines[Len(lines)] = "LF" <=> t[n] \in LineBreaks)
      /\ InksAreSent(lines, t, n, at)
      /\ Len(lines) \in Nat /\ DOMAIN lines = 1..Len(lines)
  BY <1>2, <1>3, LenProperties DEF IsSentUpto, IsPaired
<1>5. Breaks(t, n) \in Nat
  BY <1>3, BreaksOneByOne
<1>6. ASSUME NEW g, IsPaired(g), InksAreSent(g, t, n, at),
             Breaks(g, Len(g)) = Breaks(t, n) + (IF t[n] \in LineBreaks THEN 0 ELSE 1)
      PROVE  SameLines(t, g)
  <2>1. g \in Seq(Symbols) /\ DOMAIN g = 1..Len(g)
        /\ \A p \in 1..Len(g) : (g[p] = "CR") <=> (p < Len(g) /\ g[p + 1] = "LF")
    BY <1>6, LenProperties DEF IsPaired
  <2>2. Lines(g) = Lines(t)
    BY <1>6, <2>1, LinesAreSent DEF n
  <2> QED
    BY <1>6, <2>1, <2>2 DEF SameLines, n
<1>7. CASE t[n] \in LineBreaks
  <2>1. EndsWith(lines, CRLF)
    BY <1>4, <1>7, EndsWithBreak
  <2>2. Breaks(lines, Len(lines)) = Breaks(t, n) + 0
    BY <1>4, <1>5
  <2>3. Canonical(t) = lines
    BY <1>1, <2>1
  <2>4. SameLines(t, lines)
    BY <1>4, <1>6, <1>7, <2>2
  <2> QED
    BY <1>4, <2>1, <2>3, <2>4
<1>8. CASE t[n] \notin LineBreaks
  <2> DEFINE g == lines \o CRLF
             m == Len(lines)
  <2>1. ~EndsWith(lines, CRLF)
    BY <1>4, <1>8, EndsWithBreak
  <2>2. Canonical(t) = g
    BY <1>1, <2>1
  <2>3. /\ IsPaired(g) /\ Extends(g, lines) /\ Len(g) = m + 2
        /\ g[m + 1] = "CR" /\ g[m + 2] = "LF"
        /\ Breaks(g, m + 2) = Breaks(lines, m) + 1
    BY <1>4, AddBreak
  <2>4. DOMAIN g = 1..Len(g) /\ m \in Nat
    BY <1>4, <2>3, LenProperties DEF IsPaired
  <2> HIDE DEF g, m
  <2>5. ASSUME NEW q \in Inks(g) PROVE q <= m
    <3>1. q \in 1..m + 2 /\ g[q] # "CR" /\ g[q] # "LF"
      BY <2>3, <2>4 DEF Inks, LineBreaks
    <3>2. q # m + 1 /\ q # m + 2
      BY <2>3, <3>1
    <3> QED
      BY <2>4, <3>1, <3>2
  <2>6. InksAreSent(g, t, n, at)
    BY <1>4, <2>3, <2>5, LongerKeepsInks DEF m
  <2>7. Breaks(g, Len(g)) = Breaks(t, n) + 1
    BY <1>4, <2>3 DEF m
  <2>8. SameLines(t, g)
    BY <1>6, <1>8, <2>3, <2>6, <2>7
  <2>9. EndsWith(g, CRLF)
    <3>1. Len(g) > 0 /\ g[Len(g)] = "LF"
      BY <2>3, <2>4
    <3> QED
      BY <2>3, <3>1, EndsWithBreak
  <2> QED
    BY <2>2, <2>3, <2>8, <2>9
<1> QED
  BY <1>7, <1>8

(* With one more line break the end is doubled just where there was one. *)
LEMMA EndsDoubled ==
  ASSUME NEW S, NEW f \in Seq(S), "CR" \in S, "LF" \in S
  PROVE  /\ EndsWith(f \o CRLF, CRLF \o CRLF) => EndsWith(f, CRLF)
         /\ EndsWith(f, CRLF) => EndsWith(f \o CRLF, CRLF \o CRLF)
         /\ SubSeq(f \o CRLF, 1, Len(f \o CRLF) - 2) = f
<1> DEFINE n == Len(f)
           g == f \o CRLF
           two == CRLF \o CRLF
<1>1. CRLF \in Seq(S) /\ Len(CRLF) = 2 /\ CRLF[1] = "CR" /\ CRLF[2] = "LF"
  BY DEF CRLF
<1>2. two \in Seq(S) /\ Len(two) = 4 /\ two[1] = "CR" /\ two[2] = "LF" /\ two[3] = "CR" /\ two[4] = "LF"
  BY DEF CRLF
<1>3. /\ n \in Nat /\ g \in Seq(S) /\ Len(g) = n + 2 /\ f \in Seq(S)
      /\ \A i \in 1..n + 2 : g[i] = IF i <= n THEN f[i] ELSE CRLF[i - n]
  <2>1. /\ n \in Nat /\ g \in Seq(S) /\ Len(g) = n + Len(CRLF)
        /\ \A i \in 1..n + Len(CRLF) : g[i] = IF i <= n THEN f[i] ELSE CRLF[i - n]
    BY <1>1, ConcatProperties, LenProperties
  <2> HIDE DEF g, n
  <2> QED
    BY <1>1, <2>1
<1>4. EndsWith(f, CRLF) <=> n >= 2 /\ \A i \in 1..2 : f[i + (n - 2)] = CRLF[i]
  <2>1. EndsWith(f, CRLF) <=> EndsAs(f, CRLF)
    BY <1>1, EndsWithMeans, Zenon
  <2> QED
    BY <1>1, <2>1 DEF EndsAs
<1> HIDE DEF g, two, n
<1>5. EndsWith(g, two) <=> n + 2 >= 4 /\ \A i \in 1..4 : g[i + (n + 2 - 4)] = two[i]
  <2>1. EndsWith(g, two) <=> Len(g) >= Len(two)
                             /\ \A i \in 1..Len(two) : g[i + (Len(g) - Len(two))] = two[i]
    <3>1. EndsWith(g, two) <=> EndsAs(g, two)
      BY <1>2, <1>3, EndsWithMeans, Zenon
    <3> QED
      BY <3>1 DEF EndsAs
  <2> QED
    BY <1>2, <1>3, <2>1
<1>6. ASSUME n >= 2
      PROVE  /\ g[1 + (n + 2 - 4)] = f[1 + (n - 2)] /\ g[2 + (n + 2 - 4)] = f[2 + (n - 2)]
             /\ g[3 + (n + 2 - 4)] = "CR" /\ g[4 + (n + 2 - 4)] = "LF"
  <2>1. /\ 1 + (n + 2 - 4) = n - 1 /\ 1 + (n - 2) = n - 1 /\ n - 1 \in 1..n + 2 /\ n - 1 <= n
        /\ 2 + (n + 2 - 4) = n /\ 2 + (n - 2) = n /\ n \in 1..n + 2 /\ n <= n
        /\ 3 + (n + 2 - 4) = n + 1 /\ n + 1 \in 1..n + 2 /\ ~(n + 1 <= n) /\ n + 1 - n = 1
        /\ 4 + (n + 2 - 4) = n + 2 /\ n + 2 \in 1..n + 2 /\ ~(n + 2 <= n) /\ n + 2 - n = 2
    BY <1>3, <1>6
  <2> QED
    BY <1>1, <1>3, <2>1
<1>7. n + 2 >= 4 <=> n >= 2
  BY <1>3
<1>8. EndsWith(g, two) <=> EndsWith(f, CRLF)
  <2>1. 1 \in 1..4 /\ 2 \in 1..4 /\ 3 \in 1..4 /\ 4 \in 1..4 /\ 1 \in 1..2 /\ 2 \in 1..2
        /\ (\A i \in 1..4 : i = 1 \/ i = 2 \/ i = 3 \/ i = 4)
        /\ (\A i \in 1..2 : i = 1 \/ i = 2)
    OBVIOUS
  <2>2. ASSUME EndsWith(g, two) PROVE EndsWith(f, CRLF)
    <3>1. n >= 2 /\ \A i \in 1..4 : g[i + (n + 2 - 4)] = two[i]
      BY <1>5, <1>7, <2>2
    <3>2. g[1 + (n + 2 - 4)] = "CR" /\ g[2 + (n + 2 - 4)] = "LF"
      BY <1>2, <2>1, <3>1
    <3>3. f[1 + (n - 2)] = "CR" /\ f[2 + (n - 2)] = "LF"
      BY <1>6, <3>1, <3>2
    <3> QED
      BY <1>1, <1>4, <2>1, <3>1, <3>3
  <2>3. ASSUME EndsWith(f, CRLF) PROVE EndsWith(g, two)
    <3>1. n >= 2 /\ f[1 + (n - 2)] = "CR" /\ f[2 + (n - 2)] = "LF"
      BY <1>1, <1>4, <2>1, <2>3
    <3>2. /\ g[1 + (n + 2 - 4)] = "CR" /\ g[2 + (n + 2 - 4)] = "LF"
          /\ g[3 + (n + 2 - 4)] = "CR" /\ g[4 + (n + 2 - 4)] = "LF"
      BY <1>6, <3>1
    <3>3. \A i \in 1..4 : g[i + (n + 2 - 4)] = two[i]
      BY <1>2, <2>1, <3>2
    <3> QED
      BY <1>5, <1>7, <3>1, <3>3
  <2> QED
    BY <2>2, <2>3
<1>9. SubSeq(g, 1, Len(g) - 2) = f
  <2> DEFINE front == SubSeq(g, 1, n)
  <2>1. Len(g) - 2 = n
    BY <1>3
  <2>2. \A i \in 1..n : i \in 1..n + 2 /\ i <= n /\ 1 + i - 1 = i
    BY <1>3
  <2>3. \A i \in 1..n : g[i] \in S
    BY <1>3, <2>2, ElementOfSeq
  <2>4. /\ front \in Seq(S) /\ Len(front) = IF 1 <= n THEN n - 1 + 1 ELSE 0
        /\ \A i \in 1..n - 1 + 1 : front[i] = g[1 + i - 1]
    BY <1>3, <2>3, SubSeqProperties
  <2>5. n - 1 + 1 = n /\ (1 <= n \/ n = 0)
    BY <1>3
  <2> HIDE DEF front
  <2>6. Len(front) = n
    BY <2>4, <2>5
  <2>7. front = f
    <3>1. \A i \in 1..n : front[i] = f[i]
      BY <1>3, <2>2, <2>4, <2>5
    <3>2. Len(f) = n
      BY DEF n
    <3> QED
      BY <1>3, <2>4, <2>6, <3>1, <3>2, SeqEqual
  <2> QED
    BY <2>1, <2>7 DEF front
<1> QED
  BY <1>8, <1>9 DEF g, two

(* Base64 has no line break. *)
LEMMA Base64HasNoBreak ==
  ASSUME NEW b \in Seq(Symbols)
  PROVE  Base64(b) \in Seq(Range(Base64Of) \cup {"+", "="})
<1> DEFINE R == Range(Base64Of) \cup {"+", "="}
           n == Len(b)
           group(g) == [i \in 1..Min({3, n - 3 * g}) |-> Base64Of[b[3 * g + i]]]
           padded(s) == s \o <<"+">> \o [i \in 1..3 - Len(s) |-> "="]
           m == (n + 2) \div 3
           pieces == [g \in 1..m |-> padded(group(g - 1))]
<1>1. n \in Nat /\ \A i \in 1..n : b[i] \in Symbols
  BY ElementOfSeq, LenProperties
<1>2. Base64(b) = FlattenSeq(pieces)
  BY DEF Base64
<1> HIDE DEF n
<1>3. m \in Nat /\ 3 * m <= n + 2
  BY <1>1
<1>4. \A x \in Symbols : Base64Of[x] \in R
  BY DEF Symbols, Range
<1>5. "+" \in R /\ "=" \in R
  OBVIOUS
<1> HIDE DEF m, R
<1>6. ASSUME NEW g \in 1..m PROVE padded(group(g - 1)) \in Seq(R)
  <2> DEFINE h == g - 1
             least == Min({3, n - 3 * h})
             s == group(h)
  <2>1. h \in Nat /\ n - 3 * h \in Nat \ {0}
    BY <1>1, <1>3
  <2> HIDE DEF h
  <2>2. least \in 1..3 /\ least <= n - 3 * h
    <3>1. {3, n - 3 * h} \in SUBSET Nat /\ {3, n - 3 * h} # {}
      BY <2>1
    <3>2. least \in {3, n - 3 * h} /\ \A x \in {3, n - 3 * h} : least <= x
      BY <3>1, MinIsLeast
    <3> HIDE DEF least
    <3> QED
      BY <2>1, <3>2
  <2>3. s = [i \in 1..least |-> Base64Of[b[3 * h + i]]]
    OBVIOUS
  <2> HIDE DEF least
  <2>4. ASSUME NEW i \in 1..least PROVE Base64Of[b[3 * h + i]] \in R
    <3>1. 3 * h + i \in 1..n
      BY <1>1, <2>1, <2>2
    <3> QED
      BY <1>1, <1>4, <3>1
  <2> HIDE DEF s
  <2>5. s \in [1..least -> R]
    BY <2>3, <2>4
  <2>6. s \in Seq(R) /\ Len(s) = least
    <3>1. least \in Nat
      BY <2>2
    <3>2. s \in Seq(R)
      BY <2>5, <3>1, SeqDef
    <3> QED
      BY <2>5, <3>1, <3>2, LenProperties
  <2> DEFINE pad == [i \in 1..3 - Len(s) |-> "="]
  <2>7. pad \in Seq(R)
    <3>1. 3 - Len(s) \in Nat
      BY <2>2, <2>6
    <3>2. pad \in [1..3 - Len(s) -> R]
      BY <1>5
    <3> HIDE DEF pad
    <3> QED
      BY <3>1, <3>2, SeqDef
  <2> HIDE DEF pad
  <2>8. <<"+">> \in Seq(R)
    BY <1>5
  <2>9. s \o <<"+">> \o pad \in Seq(R)
    BY <2>6, <2>7, <2>8, ConcatProperties
  <2> QED
    BY <2>9 DEF s, pad, h
<1>7. pieces \in Seq(Seq(R))
  <2>1. pieces \in [1..m -> Seq(R)]
    BY <1>6
  <2> HIDE DEF pieces
  <2> QED
    BY <1>3, <2>1, SeqDef
<1> HIDE DEF pieces
<1>8. FlattenSeq(pieces) \in Seq(R)
  BY <1>7, FlattenConcat
<1> QED
  BY <1>2, <1>8 DEF R

(* A message of one part is sent as its bytes or as their base64, without  *)
(* the line break of a boundary that it does not have.                     *)
LEMMA SingleIsSent ==
  ASSUME NEW leaf, leaf.bytes \in Seq(Symbols), EndsWith(leaf.bytes, CRLF)
  PROVE  Single(leaf) \in {leaf.bytes, Base64(leaf.bytes) \o CRLF}
<1> DEFINE bytes == leaf.bytes
           body64 == Base64(bytes)
           Sent(s) == IF EndsWith(s, CRLF \o CRLF) THEN SubSeq(s, 1, Len(s) - 2) ELSE s
<1>1. Single(leaf) = Sent((IF IsBase64(bytes) THEN body64 ELSE bytes) \o CRLF)
  BY DEF Single
<1> HIDE DEF bytes, body64
<1>2. CASE ~IsBase64(bytes)
  <2>1. "CR" \in Symbols /\ "LF" \in Symbols
    BY Base64Assumption DEF Symbols
  <2>2. EndsWith(bytes \o CRLF, CRLF \o CRLF)
        /\ SubSeq(bytes \o CRLF, 1, Len(bytes \o CRLF) - 2) = bytes
    BY <2>1, EndsDoubled DEF bytes
  <2>3. Sent(bytes \o CRLF) = bytes
    BY <2>2, Zenon
  <2> HIDE DEF Sent
  <2> QED
    BY <1>1, <1>2, <2>3 DEF bytes
<1>3. CASE IsBase64(bytes)
  <2> DEFINE R == Range(Base64Of) \cup {"+", "="}
             S == R \cup {"CR", "LF"}
  <2>1. "LF" \notin R
    BY Base64Assumption
  <2>2. R \subseteq S /\ "CR" \in S /\ "LF" \in S
    OBVIOUS
  <2>3. body64 \in Seq(R)
    BY Base64HasNoBreak DEF body64, bytes
  <2> HIDE DEF R, S
  <2>4. body64 \in Seq(S)
    BY <2>2, <2>3, SeqMonotonic
  <2>5. ~EndsWith(body64, CRLF)
    <3>1. CRLF \in Seq(S) /\ Len(CRLF) = 2 /\ CRLF[2] = "LF"
      BY <2>2 DEF CRLF
    <3>2. EndsWith(body64, CRLF) <=> /\ Len(body64) >= Len(CRLF)
                /\ \A i \in 1..Len(CRLF) : body64[i + (Len(body64) - Len(CRLF))] = CRLF[i]
      <4>1. EndsWith(body64, CRLF) <=> EndsAs(body64, CRLF)
        BY <2>4, <3>1, EndsWithMeans, Zenon
      <4> QED
        BY <4>1 DEF EndsAs
    <3> DEFINE n == Len(body64)
    <3>3. n \in Nat /\ \A i \in 1..n : body64[i] \in R
      BY <2>3, ElementOfSeq, LenProperties
    <3> HIDE DEF n
    <3>4. ASSUME EndsWith(body64, CRLF) PROVE FALSE
      <4>1. n >= 2 /\ \A i \in 1..2 : body64[i + (n - 2)] = CRLF[i]
        BY <3>1, <3>2, <3>4 DEF n
      <4>2. 2 \in 1..2 /\ 2 + (n - 2) = n /\ n \in 1..n
        BY <3>3, <4>1
      <4>3. body64[n] = "LF" /\ body64[n] \in R
        BY <3>1, <3>3, <4>1, <4>2
      <4> QED
        BY <2>1, <4>3
    <3> QED
      BY <3>4
  <2>6. ~EndsWith(body64 \o CRLF, CRLF \o CRLF)
    BY <2>2, <2>4, <2>5, EndsDoubled
  <2>7. Sent(body64 \o CRLF) = body64 \o CRLF
    BY <2>6, Zenon
  <2> HIDE DEF Sent
  <2> QED
    BY <1>1, <1>3, <2>7 DEF body64, bytes
<1> QED
  BY <1>2, <1>3

-------------------------------------------------------------------------------
(* The parts that were asked for *)

(* Every part that is asked for is a leaf, in this order. *)
Matches(parts, leaves, P, L) ==
  /\ parts \in Seq(P) /\ leaves \in Seq(L) /\ Len(parts) = Len(leaves)
  /\ \A n \in 1..Len(parts) : SamePart(parts[n], leaves[n])

(* Parts that match, and more that match behind them. *)
LEMMA MatchesConcat ==
  ASSUME NEW P, NEW L, NEW a, NEW x, Matches(a, x, P, L), NEW b, NEW y, Matches(b, y, P, L)
  PROVE  Matches(a \o b, x \o y, P, L)
<1> DEFINE m == Len(a)
           n == Len(b)
           ab == a \o b
           xy == x \o y
<1>1. /\ a \in Seq(P) /\ b \in Seq(P) /\ x \in Seq(L) /\ y \in Seq(L)
      /\ Len(x) = m /\ Len(y) = n /\ m \in Nat /\ n \in Nat
      /\ \A i \in 1..m : SamePart(a[i], x[i])
      /\ \A i \in 1..n : SamePart(b[i], y[i])
  BY LenProperties DEF Matches
<1>2. /\ ab \in Seq(P) /\ Len(ab) = m + n
      /\ \A i \in 1..m + n : ab[i] = IF i <= m THEN a[i] ELSE b[i - m]
  BY <1>1, ConcatProperties
<1>3. /\ xy \in Seq(L) /\ Len(xy) = m + n
      /\ \A i \in 1..m + n : xy[i] = IF i <= m THEN x[i] ELSE y[i - m]
  <2>1. /\ x \o y \in Seq(L) /\ Len(x \o y) = Len(x) + Len(y)
        /\ \A i \in 1..Len(x) + Len(y) : (x \o y)[i] = IF i <= Len(x) THEN x[i] ELSE y[i - Len(x)]
    BY <1>1, ConcatProperties
  <2> QED
    BY <1>1, <2>1, Zenon
<1> HIDE DEF m, n, ab, xy
<1>4. ASSUME NEW i \in 1..m + n PROVE SamePart(ab[i], xy[i])
  <2>1. CASE i <= m
    <3>1. i \in 1..m
      BY <1>1, <2>1
    <3>2. ab[i] = a[i] /\ xy[i] = x[i]
      BY <1>2, <1>3, <2>1
    <3> QED
      BY <1>1, <3>1, <3>2, Zenon
  <2>2. CASE ~(i <= m)
    <3>1. i - m \in 1..n
      BY <1>1, <2>2
    <3>2. ab[i] = b[i - m] /\ xy[i] = y[i - m]
      BY <1>2, <1>3, <2>2
    <3> QED
      BY <1>1, <3>1, <3>2, Zenon
  <2> QED
    BY <2>1, <2>2
<1> QED
  BY <1>2, <1>3, <1>4 DEF Matches, ab, xy

(* Nothing matches nothing. *)
LEMMA MatchesNothing == \A P, L : Matches(<<>>, <<>>, P, L)
<1> TAKE P, L
<1>1. Len(<<>>) = 0 /\ <<>> \in Seq(P) /\ <<>> \in Seq(L) /\ \A n \in 1..0 : FALSE
  OBVIOUS
<1> QED
  BY <1>1 DEF Matches

(* A text is its leaf. *)
LEMMA MatchesText ==
  ASSUME NEW type, NEW text \in Seq(Symbols), NEW P, NEW L,
         TextMeant(type, text) \in Seq(P), TextPart(type, text) \in Seq(L)
  PROVE  Matches(TextMeant(type, text), TextPart(type, text), P, L)
<1>1. CASE text = <<>>
  BY <1>1, MatchesNothing DEF TextMeant, TextPart
<1>2. CASE text # <<>>
  <2> DEFINE part == [text |-> TRUE, type |-> type, bytes |-> text]
             leaf == Leaf(type, <<>>, <<>>, Canonical(text))
  <2>1. TextMeant(type, text) = <<part>> /\ TextPart(type, text) = <<leaf>>
    BY <1>2 DEF TextMeant, TextPart
  <2>2. SameLines(text, Canonical(text))
    BY <1>2, CanonicalKeepsLines
  <2>3. part.text = TRUE /\ part.type = type /\ part.bytes = text
    OBVIOUS
  <2>4. leaf.type = type /\ leaf.bytes = Canonical(text)
    BY DEF Leaf
  <2> HIDE DEF part, leaf
  <2>5. SamePart(part, leaf)
    BY <2>2, <2>3, <2>4, Zenon DEF SamePart
  <2>6. /\ Len(<<part>>) = 1 /\ Len(<<leaf>>) = 1 /\ <<part>>[1] = part /\ <<leaf>>[1] = leaf
        /\ \A n \in 1..1 : n = 1
    OBVIOUS
  <2> QED
    BY <2>1, <2>5, <2>6, Zenon DEF Matches
<1> QED
  BY <1>1, <1>2

(* An upload is its leaf. *)
LEMMA MatchesFiles ==
  ASSUME NEW uploads, NEW leaves, NEW P, NEW L,
         FilesMeant(uploads) \in Seq(P), leaves \in Seq(L),
         Len(FilesMeant(uploads)) = Len(leaves), DOMAIN uploads = 1..Len(leaves),
         \A n \in 1..Len(leaves) : /\ leaves[n].bytes = uploads[n].data
                                   /\ leaves[n].type = LeafContentType(uploads[n].type)
  PROVE  Matches(FilesMeant(uploads), leaves, P, L)
<1>1. ASSUME NEW n \in 1..Len(leaves) PROVE SamePart(FilesMeant(uploads)[n], leaves[n])
  <2> DEFINE part == [text |-> FALSE, type |-> uploads[n].type, bytes |-> uploads[n].data]
  <2>1. FilesMeant(uploads)[n] = part
    BY DEF FilesMeant
  <2>2. part.text = FALSE /\ part.bytes = uploads[n].data
    OBVIOUS
  <2>3. LeafContentType(uploads[n].type)[1] \notin Containers
    <3>1. CASE LeafContentType(uploads[n].type) = <<"application", "octet-stream">>
      BY <3>1, TypesAssumption
    <3>2. CASE uploads[n].type[1] \in TypeTokens \ Containers
               /\ LeafContentType(uploads[n].type) = uploads[n].type
      BY <3>2
    <3> QED
      BY <3>1, <3>2, Zenon DEF LeafContentType
  <2> HIDE DEF part
  <2> QED
    BY <2>1, <2>2, <2>3, Zenon DEF SamePart
<1> QED
  BY <1>1 DEF Matches

(* What the tree is made of, with the first n attachments. *)
LeavesFor(n) ==
  {Leaf(<<"text", "plain">>, <<>>, <<>>, Canonical(input.text)),
   Leaf(<<"text", "html">>, <<>>, <<>>, Canonical(input.html)),
   Leaf(<<"text", "x-amp-html">>, <<>>, <<>>, Canonical(input.amp))}
    \cup Range(inline) \cup Range(Attached(n))

(* The tree is made of these leaves alone, and a text is there. *)
LEMMA TreeIsMadeOfLeaves ==
  ASSUME NEW n \in Nat, inline \in Seq(Range(inline)),
         \A m \in DOMAIN inline : inline[m].kind = "leaf",
         input.text # <<>> \/ input.html # <<>>
  PROVE  /\ IsMadeOf(n, LeavesFor(n))
         /\ Attached(n) \in Seq(LeavesFor(n)) /\ Len(Attached(n)) = n
         /\ inline \in Seq(LeavesFor(n))
         /\ PlainPart = <<>> <=> input.text = <<>>
         /\ HtmlPart = <<>> <=> input.html = <<>>
<1> DEFINE L == LeavesFor(n)
           plain == Leaf(<<"text", "plain">>, <<>>, <<>>, Canonical(input.text))
           html == Leaf(<<"text", "html">>, <<>>, <<>>, Canonical(input.html))
           amp == Leaf(<<"text", "x-amp-html">>, <<>>, <<>>, Canonical(input.amp))
           attached == Attached(n)
<1>1. /\ PlainPart = IF input.text = <<>> THEN <<>> ELSE <<plain>>
      /\ HtmlPart = IF input.html = <<>> THEN <<>> ELSE <<html>>
      /\ AmpPart = IF input.amp = <<>> THEN <<>> ELSE <<amp>>
  BY DEF PlainPart, HtmlPart, AmpPart, TextPart
<1>2. plain.kind = "leaf" /\ html.kind = "leaf" /\ amp.kind = "leaf"
  BY DEF Leaf
<1>3. attached = [m \in 1..n |-> attached[m]] /\ \A m \in 1..n : attached[m].kind = "leaf"
  BY DEF Attached, Leaf
<1>4. L = {plain, html, amp} \cup Range(inline) \cup Range(attached)
  BY DEF LeavesFor
<1> HIDE DEF L, plain, html, amp, attached
<1>5. plain \in L /\ html \in L /\ amp \in L /\ Range(inline) \subseteq L /\ Range(attached) \subseteq L
  BY <1>4
<1>6. attached \in Seq(L) /\ Len(attached) = n
  <2>1. \A m \in 1..n : attached[m] \in L
    BY <1>3, <1>5 DEF Range
  <2>2. attached \in [1..n -> L]
    BY <1>3, <2>1
  <2>3. attached \in Seq(L)
    BY <2>2, SeqDef
  <2> QED
    BY <2>2, <2>3, LenProperties
<1>7. inline \in Seq(L)
  BY <1>5, SeqMonotonic
<1>8. \A leaf \in L : leaf.kind = "leaf"
  <2>1. \A leaf \in Range(inline) : leaf.kind = "leaf"
    BY DEF Range
  <2>2. \A leaf \in Range(attached) : leaf.kind = "leaf"
    BY <1>3 DEF Range
  <2> QED
    BY <1>2, <1>4, <2>1, <2>2
<1>9. /\ PlainPart \in Seq(L) /\ HtmlPart \in Seq(L) /\ AmpPart \in Seq(L)
      /\ Len(PlainPart) \in 0..1 /\ Len(HtmlPart) \in 0..1 /\ Len(AmpPart) \in 0..1
  <2>1. ASSUME NEW leaf \in L PROVE <<leaf>> \in Seq(L) /\ Len(<<leaf>>) \in 0..1
    OBVIOUS
  <2>2. <<>> \in Seq(L) /\ Len(<<>>) \in 0..1
    OBVIOUS
  <2> QED
    BY <1>1, <1>5, <2>1, <2>2
<1>10. Beside(n) \in Seq(L)
  <2> DEFINE first == IF HtmlPart = <<>> THEN inline ELSE <<>>
  <2>1. first \in Seq(L)
    BY <1>7
  <2>2. Beside(n) = first \o attached
    BY DEF Beside, attached
  <2> HIDE DEF first
  <2> QED
    BY <1>6, <2>1, <2>2, ConcatProperties
<1>11. \A x : <<x>> # <<>>
  OBVIOUS
<1>12. (PlainPart = <<>> <=> input.text = <<>>) /\ (HtmlPart = <<>> <=> input.html = <<>>)
  BY <1>1, <1>11
<1>13. IsMadeOf(n, L)
  BY <1>7, <1>8, <1>9, <1>10, <1>12 DEF IsMadeOf
<1> QED
  BY <1>6, <1>7, <1>12, <1>13 DEF L, attached

(* The first m inline parts are those that were uploaded. *)
InlineUpto(m) ==
  /\ Len(inline) = m
  /\ \A j \in 1..m : /\ inline[j].bytes = input.inline[j].data
                     /\ inline[j].type = LeafContentType(input.inline[j].type)

(* All that is asked for is in the tree. *)
LEMMA LeavesAreMeant ==
  ASSUME input \in Inputs, NEW n, n = Len(input.attachments), tree = TreeWith(n),
         inline \in Seq(Range(inline)), \A m \in DOMAIN inline : inline[m].kind = "leaf",
         InlineUpto(Len(input.inline)), input.text # <<>> \/ input.html # <<>>
  PROVE  Len(Leaves) = Len(Meant) /\ \A m \in DOMAIN Meant : SamePart(Meant[m], Leaves[m])
<1> DEFINE L == LeavesFor(n)
           plain == TextMeant(<<"text", "plain">>, input.text)
           html == TextMeant(<<"text", "html">>, input.html)
           amp == TextMeant(<<"text", "x-amp-html">>, input.amp)
           files == FilesMeant(input.inline)
           attached == FilesMeant(input.attachments)
           P == Range(plain) \cup Range(html) \cup Range(amp) \cup Range(files) \cup Range(attached)
           between == IF html = <<>> THEN <<>> ELSE html \o files
           behind == IF html = <<>> THEN files ELSE <<>>
           beside == IF HtmlPart = <<>> THEN inline ELSE <<>>
<1>1. /\ {input.text, input.html, input.amp} \subseteq Seq(Symbols)
      /\ input.inline \in Seq(Range(input.inline))
      /\ input.attachments \in Seq(Range(input.attachments))
  BY InputsAssumption DEF Symbols
<1>2. /\ n \in Nat /\ DOMAIN input.attachments = 1..n
      /\ Len(input.inline) \in Nat /\ DOMAIN input.inline = 1..Len(input.inline)
  BY <1>1, LenProperties
<1>3. /\ IsMadeOf(n, L) /\ Attached(n) \in Seq(L) /\ Len(Attached(n)) = n /\ inline \in Seq(L)
      /\ (HtmlPart = <<>> <=> input.html = <<>>)
  BY <1>2, TreeIsMadeOfLeaves
<1>4. PlainPart \in Seq(L) /\ HtmlPart \in Seq(L) /\ AmpPart \in Seq(L)
  BY <1>3 DEF IsMadeOf
<1>5. Leaves = TextLeaves \o Beside(n) /\ TextLeaves \in Seq(L)
  BY <1>3, LeavesOfTree
<1>6. Meant = plain \o between \o amp \o behind \o attached
  BY DEF Meant
<1>7. ASSUME NEW type, NEW text PROVE TextMeant(type, text) \in Seq(Range(TextMeant(type, text)))
  <2> DEFINE part == [text |-> TRUE, type |-> type, bytes |-> text]
  <2>1. TextMeant(type, text) = <<>> \/ TextMeant(type, text) = <<part>>
    BY DEF TextMeant
  <2> HIDE DEF part
  <2>2. <<part>> \in Seq(Range(<<part>>))
    <3>1. part \in Range(<<part>>)
      <4>1. 1 \in DOMAIN <<part>> /\ <<part>>[1] = part
        OBVIOUS
      <4> QED
        BY <4>1, Zenon DEF Range
    <3> DEFINE R == Range(<<part>>)
    <3> HIDE DEF R
    <3>2. part \in R
      BY <3>1 DEF R
    <3>3. <<part>> \in Seq(R)
      BY <3>2
    <3> QED
      BY <3>3 DEF R
  <2>3. <<>> \in Seq(Range(<<>>))
    OBVIOUS
  <2> QED
    BY <2>1, <2>2, <2>3
<1>8. ASSUME NEW uploads, NEW m \in Nat, DOMAIN uploads = 1..m
      PROVE  FilesMeant(uploads) \in Seq(Range(FilesMeant(uploads))) /\ Len(FilesMeant(uploads)) = m
  <2> DEFINE f == FilesMeant(uploads)
             R == Range(f)
  <2>1. f = [j \in 1..m |-> f[j]]
    BY <1>8 DEF FilesMeant
  <2>2. \A j \in 1..m : f[j] \in R
    <3> HIDE DEF f
    <3> QED
      BY <2>1 DEF Range
  <2> HIDE DEF f, R
  <2>3. f \in [1..m -> R]
    BY <2>1, <2>2
  <2>4. f \in Seq(R)
    BY <2>3, SeqDef
  <2>5. Len(f) = m
    BY <2>3, <2>4, LenProperties
  <2> QED
    BY <2>4, <2>5 DEF f, R
<1>9. /\ Range(plain) \subseteq P /\ Range(html) \subseteq P /\ Range(amp) \subseteq P
      /\ Range(files) \subseteq P /\ Range(attached) \subseteq P
  OBVIOUS
<1>10. /\ plain \in Seq(Range(plain)) /\ html \in Seq(Range(html)) /\ amp \in Seq(Range(amp))
       /\ files \in Seq(Range(files)) /\ attached \in Seq(Range(attached))
       /\ Len(files) = Len(input.inline) /\ Len(attached) = n
  BY <1>2, <1>7, <1>8
<1> HIDE DEF P, L, plain, html, amp, files, attached
<1>11. plain \in Seq(P) /\ html \in Seq(P) /\ amp \in Seq(P) /\ files \in Seq(P) /\ attached \in Seq(P)
  BY <1>9, <1>10, SeqMonotonic
<1>12. /\ Matches(plain, PlainPart, P, L) /\ Matches(html, HtmlPart, P, L)
       /\ Matches(amp, AmpPart, P, L)
  BY <1>1, <1>4, <1>11, MatchesText DEF plain, html, amp, PlainPart, HtmlPart, AmpPart
<1>13. Matches(files, inline, P, L)
  BY <1>2, <1>3, <1>10, <1>11, MatchesFiles DEF InlineUpto, files
<1>14. Matches(attached, Attached(n), P, L)
  <2>1. \A m \in 1..n : /\ Attached(n)[m].bytes = input.attachments[m].data
                        /\ Attached(n)[m].type = LeafContentType(input.attachments[m].type)
    BY DEF Attached, Leaf
  <2> QED
    BY <1>2, <1>3, <1>10, <1>11, <2>1, MatchesFiles DEF attached
<1>15. html = <<>> <=> HtmlPart = <<>>
  <2>1. \A x : <<x>> # <<>>
    OBVIOUS
  <2>2. html = <<>> <=> input.html = <<>>
    BY <2>1 DEF html, TextMeant
  <2> QED
    BY <1>3, <2>2
<1>16. Matches(between, HtmlLeaves, P, L)
  <2>1. Matches(html \o files, HtmlPart \o inline, P, L)
    BY <1>12, <1>13, MatchesConcat
  <2> QED
    BY <1>15, <2>1, MatchesNothing DEF HtmlLeaves
<1>17. Matches(behind, beside, P, L)
  BY <1>13, <1>15, MatchesNothing
<1> HIDE DEF between, behind, beside
<1>18. Matches(plain \o between, PlainPart \o HtmlLeaves, P, L)
  BY <1>12, <1>16, MatchesConcat
<1> DEFINE front == plain \o between
           leaves == PlainPart \o HtmlLeaves
<1>19. Matches(front, leaves, P, L)
  BY <1>18
<1> HIDE DEF front, leaves
<1>20. Matches(front \o amp, leaves \o AmpPart, P, L)
  BY <1>12, <1>19, MatchesConcat
<1> DEFINE texts == front \o amp
<1>21. Matches(texts, TextLeaves, P, L)
  BY <1>20 DEF TextLeaves, leaves
<1> HIDE DEF texts
<1>22. Matches(texts \o behind, TextLeaves \o beside, P, L)
  BY <1>17, <1>21, MatchesConcat
<1> DEFINE most == texts \o behind
           leaves2 == TextLeaves \o beside
<1>23. Matches(most, leaves2, P, L)
  BY <1>22
<1> HIDE DEF most, leaves2
<1>24. Matches(most \o attached, leaves2 \o Attached(n), P, L)
  BY <1>14, <1>23, MatchesConcat
<1>25. Meant = most \o attached
  BY <1>6 DEF most, texts, front
<1>26. Leaves = leaves2 \o Attached(n)
  <2>1. beside \in Seq(L)
    BY <1>17 DEF Matches
  <2> DEFINE t == TextLeaves
             a == Attached(n)
  <2>2. t \in Seq(L) /\ a \in Seq(L)
    BY <1>3, <1>5
  <2>3. Beside(n) = beside \o a
    BY DEF Beside, beside
  <2> HIDE DEF t, a
  <2>4. (t \o beside) \o a = t \o (beside \o a)
    BY <2>1, <2>2, ConcatAssociative
  <2> QED
    BY <1>5, <2>3, <2>4, Zenon DEF leaves2, t, a
<1>27. Matches(Meant, Leaves, P, L)
  BY <1>24, <1>25, <1>26
<1>28. Meant \in Seq(P) /\ Len(Meant) = Len(Leaves) /\ \A m \in 1..Len(Meant) : SamePart(Meant[m], Leaves[m])
  BY <1>27, Zenon DEF Matches
<1>29. DOMAIN Meant = 1..Len(Meant)
  BY <1>28, LenProperties
<1> QED
  BY <1>28, <1>29, Zenon

-------------------------------------------------------------------------------
(* The invariant *)

(* The values given are read one after the other. *)
Read == UNION {ParseMailbox(input[f][n]) : f \in Fields, n \in Nat}
ReadInv ==
  /\ input \in Inputs
  /\ parsed \in [Fields -> Seq(Read)]
  /\ k \in Nat \ {0}

(* What is written is a list, and each entry has its place. *)
WrittenInv ==
  /\ header \in Seq(Range(header))
  /\ inline \in Seq(Range(inline))

(* The envelope is made at the end, from what was read. *)
EnvelopeInv == envelope = IF pc = "built" THEN Firsts(Everyone) ELSE <<>>

IInv ==
  /\ TypeOK
  /\ ReadInv
  /\ WrittenInv
  /\ EnvelopeInv

(* Everyone is a list of the addresses that are used. *)
LEMMA EveryoneIsAddressed ==
  ASSUME ReadInv
  PROVE  /\ Len(Everyone) \in Nat /\ DOMAIN Everyone = 1..Len(Everyone)
         /\ ToSet(Everyone) \subseteq Range(AddressOf)
<1> DEFINE all == parsed["to"] \o parsed["cc"] \o parsed["bcc"]
<1>1. all \in Seq(Read)
  BY DEF ReadInv, Fields
<1>2. Len(all) \in Nat /\ \A n \in 1..Len(all) : all[n] \in Read
  <2> HIDE DEF all
  <2> QED
    BY <1>1, ElementOfSeq, LenProperties
<1>3. Everyone = [n \in 1..Len(all) |-> all[n].address]
  BY DEF Everyone
<1>4. \A m \in Read : m.address \in Range(AddressOf)
  BY MailboxHasAddress DEF Read
<1> HIDE DEF all
<1>5. Everyone \in [1..Len(all) -> Range(AddressOf)]
  BY <1>2, <1>3, <1>4
<1>6. Everyone \in Seq(Range(AddressOf))
  BY <1>2, <1>5, SeqDef
<1> QED
  BY <1>5, <1>6, LenProperties DEF ToSet

(* Nothing is read or written at the start. *)
LEMMA InitInv == Init => IInv
<1> SUFFICES ASSUME Init PROVE IInv
  OBVIOUS
<1> USE DEF Init
<1>1. TypeOK
  BY DEF TypeOK, ToSet, Fields
<1>2. ReadInv
  BY DEF ReadInv
<1>3. WrittenInv /\ EnvelopeInv
  BY DEF WrittenInv, EnvelopeInv
<1> QED
  BY <1>1, <1>2, <1>3 DEF IInv

(* The steps of the headers: each name of a list of names is followed by   *)
(* the next.                                                               *)
LEMMA NextName ==
  /\ Following["to"] = "cc" /\ Following["cc"] = "bcc" /\ Following["bcc"] = "breaks"
  /\ Following["From"] = "To" /\ Following["To"] = "Cc" /\ Following["Cc"] = "Subject"
BY DEF Following, Fields

(* A recipient is read. *)
LEMMA ParseRecipientStep == ASSUME IInv, ParseRecipient PROVE IInv'
<1>0. Read' = Read
  BY DEF ParseRecipient, Read
<1>1. /\ pc \in Fields /\ UNCHANGED <<input, header, inline, tree, single, envelope>>
      /\ pc # "built"
  BY DEF ParseRecipient, body, Fields
<1>2. ReadInv' /\ pc' \in Fields \cup {"breaks", "refused"} /\ k' \in Nat
  <2>1. k \in Nat \ {0} /\ k + 1 \in Nat \ {0}
    BY DEF IInv, ReadInv
  <2>2. CASE k > Len(input[pc])
    <3>1. pc' = Following[pc] /\ k' = 1 /\ parsed' = parsed
      BY <2>2 DEF ParseRecipient, Goto
    <3> QED
      BY <1>0, <1>1, <3>1, NextName DEF IInv, ReadInv, Fields
  <2>3. CASE ~(k > Len(input[pc]))
    <3>1. CASE pc' = "refused" /\ k' = 1 /\ parsed' = parsed
      BY <1>0, <1>1, <3>1 DEF IInv, ReadInv
    <3>2. CASE \E m \in ParseMailbox(input[pc][k]) :
                 parsed' = [parsed EXCEPT ![pc] = Append(@, m)] /\ pc' = pc /\ k' = k + 1
      <4>1. PICK m \in ParseMailbox(input[pc][k]) :
              parsed' = [parsed EXCEPT ![pc] = Append(@, m)] /\ pc' = pc /\ k' = k + 1
        BY <3>2
      <4>2. m \in Read
        BY <1>1, <2>1 DEF Read
      <4>3. parsed' \in [Fields -> Seq(Read)]
        BY <1>1, <4>1, <4>2, AppendProperties DEF IInv, ReadInv
      <4> QED
        BY <1>0, <1>1, <2>1, <4>1, <4>3 DEF IInv, ReadInv
    <3> QED
      BY <2>3, <3>1, <3>2 DEF ParseRecipient, Refuse, Again
  <2> QED
    BY <2>2, <2>3
<1>3. pc' # "built"
  BY <1>2 DEF Fields
<1>4. WrittenInv' /\ EnvelopeInv'
  BY <1>1, <1>3 DEF IInv, WrittenInv, EnvelopeInv
<1>5. \A f \in Fields : \A n \in DOMAIN parsed'[f] : parsed'[f][n].address \in Range(AddressOf)
  <2>1. \A f \in Fields : \A n \in DOMAIN parsed'[f] : parsed'[f][n] \in Read'
    BY <1>2, ElementOfSeq, LenProperties DEF ReadInv
  <2>2. \A m \in Read' : m.address \in Range(AddressOf)
    BY <1>1, MailboxHasAddress DEF Read
  <2> QED
    BY <2>1, <2>2
<1>6. TypeOK'
  BY <1>1, <1>2, <1>5 DEF IInv, TypeOK
<1> QED
  BY <1>2, <1>4, <1>6 DEF IInv

HeaderNames == {"From", "To", "Cc", "Subject", "Reply-To"} \cup DOMAIN LowerName
BeforeTheEnd == Fields \cup {"bodies", "breaks", "From", "To", "Cc", "Subject", "custom",
                             "inline", "attachments", "refused"}

(* What every step before the last has to keep. *)
LEMMA StepKeeps ==
  ASSUME IInv, UNCHANGED <<input, parsed, envelope>>, pc # "built",
         pc' \in BeforeTheEnd, k' \in Nat \ {0},
         header' \in Seq(Range(header')), \A n \in DOMAIN header' : header'[n][1] \in HeaderNames,
         inline' \in Seq(Range(inline')), \A n \in DOMAIN inline' : inline'[n].kind = "leaf"
  PROVE  IInv'
<1>0. Read' = Read
  BY DEF Read
<1>1. pc' # "built"
  BY DEF BeforeTheEnd, Fields
<1>2. ReadInv' /\ EnvelopeInv'
  BY <1>0, <1>1 DEF IInv, ReadInv, EnvelopeInv
<1>3. WrittenInv'
  BY DEF WrittenInv, Range
<1>4. TypeOK'
  BY DEF IInv, TypeOK, BeforeTheEnd, HeaderNames, Fields
<1> QED
  BY <1>2, <1>3, <1>4 DEF IInv

(* A header is written as one more line under its name. *)
LEMMA WriteKeeps ==
  ASSUME IInv, NEW name \in HeaderNames, NEW values, Write(name, values) \/ UNCHANGED header
  PROVE  header' \in Seq(Range(header')) /\ \A n \in DOMAIN header' : header'[n][1] \in HeaderNames
<1>1. header \in Seq(Range(header)) /\ \A n \in DOMAIN header : header[n][1] \in HeaderNames
  BY DEF IInv, WrittenInv, TypeOK, HeaderNames
<1>2. CASE UNCHANGED header
  BY <1>1, <1>2
<1>3. CASE header' # header
  <2> DEFINE line == <<name, CHOOSE v \in values : TRUE>>
  <2>1. header' = Append(header, line)
    BY <1>3 DEF Write
  <2>2. line[1] = name
    OBVIOUS
  <2> HIDE DEF line
  <2>3. IsList(header)
    BY <1>1 DEF IsList
  <2>4. IsOneMore(header', header, line)
    BY <2>1, <2>3, OneMore, Zenon
  <2> QED
    BY <1>1, <2>2, <2>4 DEF IsOneMore
<1> QED
  BY <1>2, <1>3

(* An inline part is one more leaf. *)
LEMMA AddInlineKeeps ==
  ASSUME IInv, AddInline
  PROVE  /\ inline' \in Seq(Range(inline')) /\ \A n \in DOMAIN inline' : inline'[n].kind = "leaf"
         /\ pc' \in {"inline", "refused"} /\ k' \in Nat \ {0}
<1>1. inline \in Seq(Range(inline)) /\ \A n \in DOMAIN inline : inline[n].kind = "leaf"
  BY DEF IInv, WrittenInv, TypeOK
<1>2. k \in Nat \ {0} /\ k + 1 \in Nat \ {0} /\ pc = "inline"
  BY DEF IInv, ReadInv, AddInline
<1>3. CASE Refuse /\ UNCHANGED inline
  BY <1>1, <1>3 DEF Refuse
<1>4. CASE \E type, name, id, data :
             inline' = Append(inline, Leaf(type, name, id, data)) /\ Again
  <2>1. PICK part : inline' = Append(inline, part) /\ part.kind = "leaf"
    BY <1>4 DEF Leaf
  <2>2. IsList(inline)
    BY <1>1 DEF IsList
  <2>3. IsOneMore(inline', inline, part)
    BY <2>1, <2>2, OneMore, Zenon
  <2> QED
    BY <1>1, <1>2, <1>4, <2>1, <2>3 DEF Again, IsOneMore
<1> QED
  BY <1>3, <1>4 DEF AddInline

(* The steps that write neither, and the last one. *)
LEMMA OtherSteps ==
  ASSUME IInv,
         CheckBodies \/ CheckLineBreaks \/ HeadersEnd \/ BuildBody \/ AddAttachment
  PROVE  IInv'
<1>1. k \in Nat \ {0} /\ k + 1 \in Nat \ {0}
  BY DEF IInv, ReadInv
<1>2. /\ UNCHANGED <<input, parsed, header, inline, envelope>> /\ pc # "built"
      /\ pc' \in BeforeTheEnd /\ k' \in Nat \ {0}
  <2>1. CASE CheckBodies
    BY <2>1 DEF CheckBodies, Refuse, Goto, body, BeforeTheEnd, Fields
  <2>2. CASE CheckLineBreaks
    BY <2>2 DEF CheckLineBreaks, Refuse, Goto, body, BeforeTheEnd
  <2>3. CASE HeadersEnd
    BY <2>3 DEF HeadersEnd, Goto, body, BeforeTheEnd
  <2>4. CASE BuildBody
    BY <2>4 DEF BuildBody, Goto, BeforeTheEnd
  <2>5. CASE AddAttachment
    <3>1. pc = "attachments" /\ UNCHANGED <<input, parsed, header, inline, envelope>>
      BY <2>5, Zenon DEF AddAttachment
    <3>2. Refuse \/ Again
      BY <2>5, Zenon DEF AddAttachment
    <3> QED
      BY <1>1, <3>1, <3>2 DEF Refuse, Again, BeforeTheEnd
  <2> QED
    BY <2>1, <2>2, <2>3, <2>4, <2>5
<1>3. /\ header \in Seq(Range(header)) /\ \A n \in DOMAIN header : header[n][1] \in HeaderNames
      /\ inline \in Seq(Range(inline)) /\ \A n \in DOMAIN inline : inline[n].kind = "leaf"
  BY DEF IInv, WrittenInv, TypeOK, HeaderNames
<1> QED
  BY <1>2, <1>3, StepKeeps

(* The envelope is made from everyone who was read. *)
LEMMA FinishStep == ASSUME IInv, Finish PROVE IInv'
<1>1. /\ UNCHANGED <<input, parsed, header, inline>> /\ envelope' = Firsts(Everyone)
      /\ pc' = "built" /\ k' = 1
  BY DEF Finish, Goto
<1>2. ReadInv' /\ Everyone' = Everyone
  <2>1. Read' = Read
    BY <1>1 DEF Read
  <2>2. Everyone' = Everyone
    BY <1>1 DEF Everyone
  <2> QED
    BY <1>1, <2>1, <2>2 DEF IInv, ReadInv
<1>3. EnvelopeInv'
  BY <1>1, <1>2 DEF EnvelopeInv, Firsts
<1>4. WrittenInv'
  BY <1>1 DEF IInv, WrittenInv, Range
<1>5. ToSet(envelope') \subseteq Range(AddressOf)
  BY <1>1, EveryoneIsAddressed, FirstsAreOnce DEF IInv
<1>6. TypeOK'
  BY <1>1, <1>5 DEF IInv, TypeOK, ToSet
<1> QED
  BY <1>2, <1>3, <1>4, <1>6 DEF IInv

(* A list of addresses and the subject are written under their own names.  *)
LEMMA WriteAddressesStep == ASSUME IInv, WriteAddresses PROVE IInv'
<1>1. /\ UNCHANGED <<input, parsed, inline, envelope>> /\ pc \in {"From", "To", "Cc"}
      /\ pc # "built"
  BY DEF WriteAddresses, body
<1>2. pc' \in BeforeTheEnd /\ k' \in Nat \ {0}
  <2>1. Refuse \/ Goto(Following[pc])
    BY Zenon DEF WriteAddresses
  <2> QED
    BY <1>1, <2>1, NextName DEF Refuse, Goto, BeforeTheEnd
<1>3. (\E values : Write(pc, values)) \/ UNCHANGED header
  BY Zenon DEF WriteAddresses
<1>4. pc \in HeaderNames
  BY <1>1 DEF HeaderNames
<1>5. header' \in Seq(Range(header')) /\ \A n \in DOMAIN header' : header'[n][1] \in HeaderNames
  BY <1>3, <1>4, WriteKeeps
<1>6. inline \in Seq(Range(inline)) /\ \A n \in DOMAIN inline : inline[n].kind = "leaf"
  BY DEF IInv, WrittenInv, TypeOK
<1> QED
  BY <1>1, <1>2, <1>5, <1>6, StepKeeps

(* The subject is written once, under its name. *)
LEMMA WriteSubjectStep == ASSUME IInv, WriteSubject PROVE IInv'
<1>1. /\ UNCHANGED <<input, parsed, inline, envelope>> /\ pc # "built"
      /\ pc' \in BeforeTheEnd /\ k' \in Nat \ {0}
  BY DEF WriteSubject, body, Refuse, Goto, BeforeTheEnd
<1>2. \E values : Write("Subject", values)
  BY Zenon DEF WriteSubject
<1>3. header' \in Seq(Range(header')) /\ \A n \in DOMAIN header' : header'[n][1] \in HeaderNames
  BY <1>2, WriteKeeps DEF HeaderNames
<1>4. inline \in Seq(Range(inline)) /\ \A n \in DOMAIN inline : inline[n].kind = "leaf"
  BY DEF IInv, WrittenInv, TypeOK
<1> QED
  BY <1>1, <1>3, <1>4, StepKeeps

(* A custom header is written under the name it has in the request, or as  *)
(* "Reply-To".                                                             *)
LEMMA WriteCustomStep == ASSUME IInv, WriteCustom PROVE IInv'
<1>1. /\ UNCHANGED <<input, parsed, inline, envelope>> /\ pc = "custom"
      /\ k <= Len(input.headers)
  BY DEF WriteCustom, body
<1>2. pc' \in BeforeTheEnd /\ k' \in Nat \ {0}
  <2>1. Refuse \/ Again
    BY Zenon DEF WriteCustom
  <2>2. k + 1 \in Nat \ {0}
    BY DEF IInv, ReadInv
  <2> QED
    BY <1>1, <2>1, <2>2 DEF Refuse, Again, BeforeTheEnd
<1>3. \/ \E values : Write("Reply-To", values)
      \/ \E values : Write(input.headers[k][1], values)
      \/ UNCHANGED header
  BY Zenon DEF WriteCustom
<1>4. "Reply-To" \in HeaderNames /\ input.headers[k][1] \in HeaderNames
  <2>1. input.headers \in Seq(Range(input.headers)) /\ input \in Inputs
    BY InputsAssumption DEF IInv, ReadInv
  <2>2. k \in DOMAIN input.headers
    BY <1>1, <2>1, LenProperties DEF IInv, ReadInv
  <2> QED
    BY <2>1, <2>2, InputsAssumption DEF HeaderNames
<1>5. header' \in Seq(Range(header')) /\ \A n \in DOMAIN header' : header'[n][1] \in HeaderNames
  BY <1>3, <1>4, WriteKeeps
<1>6. inline \in Seq(Range(inline)) /\ \A n \in DOMAIN inline : inline[n].kind = "leaf"
  BY DEF IInv, WrittenInv, TypeOK
<1> QED
  BY <1>1, <1>2, <1>5, <1>6, StepKeeps

(* An inline part leaves headers and recipients alone. *)
LEMMA AddInlineStep == ASSUME IInv, AddInline PROVE IInv'
<1>1. UNCHANGED <<input, parsed, header, envelope>> /\ pc # "built"
  BY DEF AddInline
<1>2. header \in Seq(Range(header)) /\ \A n \in DOMAIN header : header[n][1] \in HeaderNames
  BY DEF IInv, WrittenInv, TypeOK, HeaderNames
<1>3. pc' \in BeforeTheEnd
  BY AddInlineKeeps DEF BeforeTheEnd
<1> QED
  BY <1>1, <1>2, <1>3, AddInlineKeeps, StepKeeps

(* Steps of others change nothing. *)
LEMMA Unchanged == ASSUME IInv, UNCHANGED vars PROVE IInv'
<1>1. Read' = Read
  BY DEF vars, Read
<1>2. Everyone' = Everyone
  BY DEF vars, Everyone
<1>3. ReadInv' /\ EnvelopeInv'
  BY <1>1, <1>2 DEF vars, IInv, ReadInv, EnvelopeInv, Firsts
<1>4. WrittenInv'
  BY DEF vars, body, IInv, WrittenInv
<1>5. TypeOK'
  BY DEF vars, body, IInv, TypeOK
<1> QED
  BY <1>3, <1>4, <1>5 DEF IInv

(* The invariant holds in every reachable state. *)
LEMMA Invariance == Spec => []IInv
<1>1. IInv /\ [Next]_vars => IInv'
  <2> SUFFICES ASSUME IInv, Next \/ UNCHANGED vars PROVE IInv'
    OBVIOUS
  <2>1. CASE ParseRecipient
    BY <2>1, ParseRecipientStep
  <2>2. CASE CheckBodies \/ CheckLineBreaks \/ HeadersEnd \/ BuildBody \/ AddAttachment
    BY <2>2, OtherSteps
  <2>3. CASE WriteAddresses
    BY <2>3, WriteAddressesStep
  <2>4. CASE WriteSubject
    BY <2>4, WriteSubjectStep
  <2>5. CASE WriteCustom
    BY <2>5, WriteCustomStep
  <2>6. CASE AddInline
    BY <2>6, AddInlineStep
  <2>7. CASE Finish
    BY <2>7, FinishStep
  <2>8. CASE UNCHANGED vars
    BY <2>8, Unchanged
  <2> QED
    BY <2>1, <2>2, <2>3, <2>4, <2>5, <2>6, <2>7, <2>8 DEF Next
<1> QED
  BY InitInv, <1>1, PTL DEF Spec

-------------------------------------------------------------------------------
(* The body *)

(* The tree is built of what was read: first the inline parts one by one,  *)
(* then the body, then the attachments.                                    *)
BeforeInline == Fields \cup {"bodies", "breaks", "From", "To", "Cc", "Subject", "custom"}
BodyInv ==
  /\ pc \notin {"bodies", "refused"} => input.text # <<>> \/ input.html # <<>>
  /\ pc \in BeforeInline => inline = <<>>
  /\ pc = "inline" => k - 1 <= Len(input.inline) /\ InlineUpto(k - 1)
  /\ pc \in {"attachments", "built"} => InlineUpto(Len(input.inline))
  /\ pc = "attachments" => k - 1 <= Len(input.attachments) /\ tree = TreeWith(k - 1)
  /\ pc = "built" => /\ tree = TreeWith(Len(input.attachments))
                     /\ single = IF tree.kind = "leaf" THEN Single(tree) ELSE <<>>

(* The tree that is asked for is that of the request and the inline parts. *)
LEMMA SameInputSameTree ==
  ASSUME UNCHANGED <<input, inline>>
  PROVE  /\ \A m : (TreeWith(m))' = TreeWith(m)
         /\ \A m : (InlineUpto(m))' <=> InlineUpto(m)
<1>1. UNCHANGED <<PlainPart, HtmlPart, AmpPart>>
  BY DEF PlainPart, HtmlPart, AmpPart
<1>2. UNCHANGED RelatedPart
  BY <1>1 DEF RelatedPart, RelatedNode
<1>3. UNCHANGED Alternatives
  BY <1>1, <1>2 DEF Alternatives
<1>4. UNCHANGED TextNode
  BY <1>3 DEF TextNode
<1>5. \A m : (Beside(m))' = Beside(m)
  BY <1>1 DEF Beside, Attached
<1>6. \A m : (TreeWith(m))' = TreeWith(m)
  BY <1>4, <1>5 DEF TreeWith, MixedNode
<1> QED
  BY <1>6 DEF InlineUpto

(* Until the inline parts there is nothing to be built. *)
LEMMA BeforeInlineKeeps ==
  ASSUME IInv, BodyInv, UNCHANGED <<input, inline>>, pc \in BeforeInline,
         pc' \in (BeforeInline \ {"bodies"}) \cup {"inline", "refused"},
         pc' = "inline" => k' = 1,
         pc = "bodies" /\ pc' # "refused" => input.text # <<>> \/ input.html # <<>>
  PROVE  BodyInv'
<1>1. inline = <<>> /\ pc # "refused"
  BY DEF BodyInv, BeforeInline, Fields
<1>2. pc' \notin {"attachments", "built"}
  BY DEF BeforeInline, Fields
<1>3. pc' # "refused" => input'.text # <<>> \/ input'.html # <<>>
  BY <1>1 DEF BodyInv
<1>4. ASSUME pc' = "inline" PROVE k' - 1 <= Len(input'.inline) /\ (InlineUpto(k - 1))'
  <2>1. Len(input.inline) \in Nat
    <3>1. input.inline \in Seq(Range(input.inline))
      BY InputsAssumption DEF IInv, ReadInv
    <3> QED
      BY <3>1, LenProperties
  <2>2. InlineUpto(0)
    BY <1>1 DEF InlineUpto
  <2>3. k' - 1 = 0
    BY <1>4
  <2> QED
    BY <2>1, <2>2, <2>3, SameInputSameTree
<1> QED
  BY <1>1, <1>2, <1>3, <1>4 DEF BodyInv

(* The headers are written before the body, and leave it alone. *)
LEMMA HeaderStepsKeepBody ==
  ASSUME IInv, BodyInv,
         \/ CheckBodies \/ ParseRecipient \/ CheckLineBreaks
         \/ WriteAddresses \/ WriteSubject \/ WriteCustom \/ HeadersEnd
  PROVE  BodyInv'
<1> SUFFICES /\ UNCHANGED <<input, inline>> /\ pc \in BeforeInline
             /\ pc' \in (BeforeInline \ {"bodies"}) \cup {"inline", "refused"}
             /\ pc' = "inline" => k' = 1
             /\ pc = "bodies" /\ pc' # "refused" => input.text # <<>> \/ input.html # <<>>
  BY BeforeInlineKeeps
<1> USE DEF BeforeInline, Fields
<1>1. CASE CheckBodies
  BY <1>1 DEF CheckBodies, Refuse, Goto, body
<1>2. CASE ParseRecipient
  <2>1. pc \in Fields /\ UNCHANGED <<input, inline>>
    BY <1>2, Zenon DEF ParseRecipient, body
  <2>2. Goto(Following[pc]) \/ Refuse \/ Again
    BY <1>2, Zenon DEF ParseRecipient
  <2> QED
    BY <2>1, <2>2, NextName DEF Refuse, Goto, Again
<1>3. CASE CheckLineBreaks
  <2>1. pc = "breaks" /\ UNCHANGED <<input, inline>>
    BY <1>3, Zenon DEF CheckLineBreaks, body
  <2>2. Goto("From") \/ Refuse
    BY <1>3, Zenon DEF CheckLineBreaks
  <2> QED
    BY <2>1, <2>2 DEF Refuse, Goto
<1>4. CASE WriteAddresses
  <2>1. pc \in {"From", "To", "Cc"} /\ UNCHANGED <<input, inline>>
    BY <1>4, Zenon DEF WriteAddresses, body
  <2>2. Goto(Following[pc]) \/ Refuse
    BY <1>4, Zenon DEF WriteAddresses
  <2> QED
    BY <2>1, <2>2, NextName DEF Refuse, Goto
<1>5. CASE WriteSubject
  <2>1. pc = "Subject" /\ UNCHANGED <<input, inline>>
    BY <1>5, Zenon DEF WriteSubject, body
  <2>2. Goto("custom") \/ Refuse
    BY <1>5, Zenon DEF WriteSubject
  <2> QED
    BY <2>1, <2>2 DEF Refuse, Goto
<1>6. CASE WriteCustom
  <2>1. pc = "custom" /\ UNCHANGED <<input, inline>>
    BY <1>6, Zenon DEF WriteCustom, body
  <2>2. Again \/ Refuse
    BY <1>6, Zenon DEF WriteCustom
  <2> QED
    BY <2>1, <2>2 DEF Refuse, Again
<1>7. CASE HeadersEnd
  BY <1>7 DEF HeadersEnd, Goto, body
<1> QED
  BY <1>1, <1>2, <1>3, <1>4, <1>5, <1>6, <1>7

(* One inline part more. *)
LEMMA AddInlineKeepsBody == ASSUME IInv, BodyInv, AddInline PROVE BodyInv'
<1> DEFINE u == input.inline[k]
           type == LeafContentType(u.type)
           n == Len(inline)
<1>1. pc = "inline" /\ k <= Len(input.inline) /\ UNCHANGED <<input, tree, single>>
  BY Zenon DEF AddInline
<1>2. /\ k \in Nat \ {0} /\ InlineUpto(k - 1) /\ (input.text # <<>> \/ input.html # <<>>)
      /\ inline \in Seq(Range(inline)) /\ Len(input.inline) \in Nat
  <2>1. input.inline \in Seq(Range(input.inline))
    BY InputsAssumption DEF IInv, ReadInv
  <2> QED
    BY <1>1, <2>1, LenProperties DEF IInv, ReadInv, WrittenInv, BodyInv
<1>3. CASE Refuse
  BY <1>3 DEF Refuse, BodyInv, BeforeInline, Fields
<1>4. CASE \E id : inline' = Append(inline, Leaf(type, u.name, id, u.data)) /\ Again
  <2>1. PICK part : /\ inline' = Append(inline, part) /\ part.bytes = u.data /\ part.type = type
                    /\ pc' = pc /\ k' = k + 1
    BY <1>4 DEF Leaf, Again
  <2>2. IsList(inline)
    BY <1>2 DEF IsList
  <2>3. IsOneMore(inline', inline, part)
    BY <2>1, <2>2, OneMore, Zenon
  <2>4. /\ DOMAIN inline = 1..n /\ n = k - 1
        /\ \A j \in 1..n : /\ inline[j].bytes = input.inline[j].data
                            /\ inline[j].type = LeafContentType(input.inline[j].type)
    BY <1>2, LenProperties DEF InlineUpto
  <2>5. /\ n + 1 = k /\ inline' \in Seq(Range(inline')) /\ DOMAIN inline' = 1..k
        /\ inline'[k] = part /\ \A j \in 1..n : inline'[j] = inline[j]
    <3>1. n + 1 = k
      BY <1>2, <2>4
    <3> HIDE DEF n
    <3> QED
      BY <2>3, <2>4, <3>1 DEF IsOneMore, n
  <2>6. Len(inline') = k
    <3>1. DOMAIN inline' = 1..Len(inline') /\ Len(inline') \in Nat
      BY <2>5, LenProperties
    <3> QED
      BY <1>2, <2>5, <3>1
  <2>7. ASSUME NEW j \in 1..k
        PROVE  /\ inline'[j].bytes = input.inline[j].data
               /\ inline'[j].type = LeafContentType(input.inline[j].type)
    <3>1. j \in 1..n \/ j = k
      BY <1>2, <2>4
    <3>2. CASE j = k
      BY <2>1, <2>5, <3>2
    <3>3. CASE j \in 1..n
      BY <2>4, <2>5, <3>3
    <3> QED
      BY <3>1, <3>2, <3>3
  <2>8. k' - 1 = k
    BY <1>2, <2>1
  <2>9. (InlineUpto(k - 1))'
    <3>1. Len(inline') = k' - 1
      BY <2>6, <2>8
    <3>2. \A j \in 1..k' - 1 : /\ inline'[j].bytes = input'.inline[j].data
                             /\ inline'[j].type = LeafContentType(input'.inline[j].type)
      BY <1>1, <2>7, <2>8
    <3> QED
      BY <3>1, <3>2 DEF InlineUpto, LeafContentType
  <2> QED
    BY <1>1, <1>2, <2>1, <2>8, <2>9 DEF BodyInv, BeforeInline, Fields
<1> QED
  BY <1>3, <1>4, Zenon DEF AddInline

(* One attachment more is one node more beside the texts. *)
LEMMA OneMoreAttached ==
  ASSUME NEW n \in Nat \ {0}, inline \in Seq(Range(inline)),
         \A m \in DOMAIN inline : inline[m].kind = "leaf",
         input.text # <<>> \/ input.html # <<>>
  PROVE  LET u    == input.attachments[n]
             part == Leaf(LeafContentType(u.type), u.name, <<>>, u.data)
             others == IF TreeWith(n - 1).kind = "mixed" THEN TreeWith(n - 1).children
                       ELSE <<TreeWith(n - 1)>>
         IN TreeWith(n) = Multipart("mixed", others \o <<part>>)
<1> DEFINE u == input.attachments[n]
           part == Leaf(LeafContentType(u.type), u.name, <<>>, u.data)
           m == n - 1
           others == IF TreeWith(m).kind = "mixed" THEN TreeWith(m).children ELSE <<TreeWith(m)>>
           L == LeavesFor(n)
           S == L \cup {TextNode}
           first == IF HtmlPart = <<>> THEN inline ELSE <<>>
           before == Attached(m)
           after == Attached(n)
<1>1. m \in Nat /\ m + 1 = n
  OBVIOUS
<1>2. /\ IsMadeOf(n, L) /\ after \in Seq(L) /\ Len(after) = n /\ inline \in Seq(L)
  BY TreeIsMadeOfLeaves
<1>3. /\ Len(before) = m /\ before \in Seq(LeavesFor(m))
  BY <1>1, TreeIsMadeOfLeaves
<1>4. after[n] = part /\ \A j \in 1..m : after[j] = before[j]
  <2>1. \A j \in 1..m : j \in 1..n
    BY <1>1
  <2> QED
    BY <2>1 DEF Attached
<1> HIDE DEF m, L, part, u, after, before
<1>5. after = before \o <<part>> /\ before \in Seq(L) /\ part \in L
  <2>1. /\ \A j \in 1..n : after[j] \in L
    BY <1>2, ElementOfSeq
  <2>2. part \in L /\ \A j \in 1..m : before[j] \in L
    BY <1>1, <1>4, <2>1
  <2>3. before \in Seq(L)
    <3>1. before \in [1..m -> L]
      BY <1>3, <2>2, LenProperties
    <3> QED
      BY <1>1, <3>1, SeqDef
  <2> DEFINE x == <<part>>
  <2>4. x \in Seq(L) /\ Len(x) = 1 /\ x[1] = part
    BY <2>2
  <2> HIDE DEF x
  <2>5. /\ before \o x \in Seq(L) /\ Len(before \o x) = Len(before) + Len(x)
        /\ \A j \in 1..Len(before) + Len(x) :
             (before \o x)[j] = IF j <= Len(before) THEN before[j] ELSE x[j - Len(before)]
    BY <2>3, <2>4, ConcatProperties
  <2>6. /\ before \o x \in Seq(L) /\ Len(before \o x) = n
        /\ \A j \in 1..n : (before \o x)[j] = IF j <= m THEN before[j] ELSE x[j - m]
    BY <1>1, <1>3, <2>4, <2>5
  <2>7. ASSUME NEW j \in 1..n PROVE (before \o x)[j] = after[j]
    <3>1. CASE j <= m
      <4>1. j \in 1..m
        BY <1>1, <3>1
      <4> QED
        BY <1>4, <2>6, <3>1, <4>1
    <3>2. CASE ~(j <= m)
      <4>1. j = n /\ j - m = 1
        BY <1>1, <3>2
      <4> QED
        BY <1>4, <2>4, <2>6, <3>2, <4>1
    <3> QED
      BY <3>1, <3>2
  <2>8. before \o x = after
    BY <1>2, <2>6, <2>7, SeqEqual
  <2> QED
    BY <2>2, <2>3, <2>8 DEF x
<1>6. first \in Seq(L)
  BY <1>2
<1>7. Beside(m) = first \o before /\ Beside(n) = first \o after
  BY DEF Beside, before, after
<1> HIDE DEF first
<1>8. Beside(n) = Beside(m) \o <<part>> /\ Beside(m) \in Seq(L) /\ <<part>> \in Seq(L)
  <2>1. <<part>> \in Seq(L)
    BY <1>5
  <2> DEFINE x == <<part>>
  <2> HIDE DEF x
  <2>2. x \in Seq(L)
    BY <2>1 DEF x
  <2>3. (first \o before) \o x = first \o (before \o x)
    BY <1>5, <1>6, <2>2, ConcatAssociative
  <2>4. first \o before \in Seq(L)
    BY <1>5, <1>6, ConcatProperties
  <2> QED
    BY <1>5, <1>7, <2>1, <2>3, <2>4, Zenon DEF x
<1>9. Beside(n) # <<>>
  <2> DEFINE b == Beside(m)
             x == <<part>>
  <2>1. b \in Seq(L) /\ x \in Seq(L) /\ Len(x) = 1
    BY <1>8
  <2> HIDE DEF b, x
  <2>2. Len(b \o x) = Len(b) + Len(x) /\ Len(b) \in Nat
    BY <2>1, ConcatProperties, LenProperties
  <2>3. Len(b \o x) # 0
    BY <2>1, <2>2
  <2>4. b \o x # <<>>
    BY <2>3, EmptySeq
  <2> QED
    BY <1>8, <2>4 DEF b, x
<1>10. TextNode.kind # "mixed"
  <2>1. CASE Len(Alternatives) = 1
    <3>1. RelatedPart \in Seq(L \cup {RelatedNode})
      <4>1. HtmlPart \in Seq(L) /\ L \subseteq L \cup {RelatedNode}
        BY <1>2 DEF IsMadeOf
      <4>2. HtmlPart \in Seq(L \cup {RelatedNode})
        BY <4>1, SeqMonotonic
      <4>3. <<RelatedNode>> \in Seq(L \cup {RelatedNode})
        OBVIOUS
      <4> QED
        BY <4>2, <4>3 DEF RelatedPart
    <3> DEFINE R == L \cup {RelatedNode}
    <3>2. L \subseteq R /\ \A node \in R : node.kind # "mixed"
      <4>1. RelatedNode.kind = "related"
        BY DEF RelatedNode, Multipart
      <4>2. \A leaf \in L : leaf.kind = "leaf"
        BY <1>2 DEF IsMadeOf
      <4> QED
        BY <4>1, <4>2
    <3>3. RelatedPart \in Seq(R)
      BY <3>1
    <3> HIDE DEF R
    <3>4. PlainPart \in Seq(R) /\ AmpPart \in Seq(R)
      <4>1. PlainPart \in Seq(L) /\ AmpPart \in Seq(L)
        BY <1>2 DEF IsMadeOf
      <4> QED
        BY <3>2, <4>1, SeqMonotonic
    <3>5. Alternatives \in Seq(R)
      BY <3>3, <3>4, ConcatProperties DEF Alternatives
    <3>6. Alternatives[1] \in R
      <4>1. 1 \in 1..Len(Alternatives)
        BY <2>1
      <4> QED
        BY <3>5, <4>1, ElementOfSeq
    <3> QED
      BY <2>1, <3>2, <3>6 DEF TextNode
  <2>2. CASE Len(Alternatives) # 1
    BY <2>2 DEF TextNode, Multipart
  <2> QED
    BY <2>1, <2>2
<1>11. others = <<TextNode>> \o Beside(m)
  <2>1. CASE Beside(m) = <<>>
    <3>1. TreeWith(m) = TextNode /\ others = <<TextNode>>
      BY <1>10, <2>1 DEF TreeWith
    <3>2. <<TextNode>> \o <<>> = <<TextNode>>
      OBVIOUS
    <3> QED
      BY <2>1, <3>1, <3>2, Zenon
  <2>2. CASE Beside(m) # <<>>
    <3>1. TreeWith(m) = MixedNode(m)
      BY <2>2 DEF TreeWith
    <3>2. MixedNode(m).kind = "mixed" /\ MixedNode(m).children = <<TextNode>> \o Beside(m)
      BY DEF MixedNode, Multipart
    <3> QED
      BY <3>1, <3>2, Zenon
  <2> QED
    BY <2>1, <2>2
<1>12. (<<TextNode>> \o Beside(m)) \o <<part>> = <<TextNode>> \o (Beside(m) \o <<part>>)
  <2> DEFINE a == <<TextNode>>
             b == Beside(m)
             c == <<part>>
  <2>1. a \in Seq(S) /\ L \subseteq S /\ b \in Seq(L) /\ c \in Seq(L)
    BY <1>8
  <2> HIDE DEF a, b, c, S
  <2>2. b \in Seq(S) /\ c \in Seq(S)
    BY <2>1, SeqMonotonic
  <2>3. (a \o b) \o c = a \o (b \o c)
    BY <2>1, <2>2, ConcatAssociative
  <2> QED
    BY <2>3 DEF a, b, c
<1>13. TreeWith(n) = Multipart("mixed", <<TextNode>> \o Beside(n))
  BY <1>9 DEF TreeWith, MixedNode
<1>14. TreeWith(n) = Multipart("mixed", others \o <<part>>)
  <2> HIDE DEF others
  <2> QED
    BY <1>8, <1>11, <1>12, <1>13, Zenon
<1> QED
  BY <1>14, Zenon DEF u, part, m

(* The body stands for no attachment yet. *)
LEMMA BuildBodyKeepsBody == ASSUME IInv, BodyInv, BuildBody PROVE BodyInv'
<1>1. /\ pc = "inline" /\ k > Len(input.inline) /\ UNCHANGED <<input, inline>>
      /\ pc' = "attachments" /\ k' = 1
  BY DEF BuildBody, Goto
<1>2. /\ k \in Nat \ {0} /\ InlineUpto(k - 1) /\ (input.text # <<>> \/ input.html # <<>>)
      /\ k - 1 <= Len(input.inline)
      /\ inline \in Seq(Range(inline)) /\ Len(input.inline) \in Nat
      /\ Len(input.attachments) \in Nat
  <2>1. input.inline \in Seq(Range(input.inline))
        /\ input.attachments \in Seq(Range(input.attachments))
    BY InputsAssumption DEF IInv, ReadInv
  <2> QED
    BY <1>1, <2>1, LenProperties DEF IInv, ReadInv, WrittenInv, BodyInv
<1>3. InlineUpto(Len(input.inline))
  <2>1. k - 1 = Len(input.inline)
    BY <1>1, <1>2
  <2> QED
    BY <1>2, <2>1
<1>4. tree' = IF HtmlPart = <<>> /\ inline # <<>> THEN Multipart("mixed", <<TextNode>> \o inline)
              ELSE TextNode
  BY Zenon DEF BuildBody, TextNode, Alternatives, RelatedPart, RelatedNode, PlainPart, HtmlPart, AmpPart
<1>5. TreeWith(0) = tree'
  <2> DEFINE first == IF HtmlPart = <<>> THEN inline ELSE <<>>
  <2>1. Attached(0) = <<>>
    BY DEF Attached
  <2>2. first \o <<>> = first
    <3>1. first \in Seq(Range(inline))
      BY <1>2
    <3> HIDE DEF first
    <3> QED
      BY <3>1, ConcatEmptySeq
  <2>3. Beside(0) = first
    BY <2>1, <2>2, Zenon DEF Beside
  <2>4. CASE HtmlPart = <<>> /\ inline # <<>>
    <3>1. Beside(0) = inline /\ inline # <<>>
      BY <2>3, <2>4
    <3> QED
      BY <1>4, <2>4, <3>1, Zenon DEF TreeWith, MixedNode
  <2>5. CASE ~(HtmlPart = <<>> /\ inline # <<>>)
    <3>1. Beside(0) = <<>>
      BY <2>3, <2>5
    <3> QED
      BY <1>4, <2>5, <3>1, Zenon DEF TreeWith
  <2> QED
    BY <2>4, <2>5
<1>6. (InlineUpto(Len(input.inline)))'
  BY <1>1, <1>3, SameInputSameTree DEF InlineUpto
<1>7. k' - 1 = 0 /\ k' - 1 <= Len(input'.attachments) /\ tree' = (TreeWith(k - 1))'
  <2>1. k' - 1 = 0
    BY <1>1
  <2>2. (TreeWith(k - 1))' = TreeWith(0)
    BY <1>1, <2>1, SameInputSameTree
  <2> QED
    BY <1>1, <1>2, <1>5, <2>1, <2>2
<1> QED
  BY <1>1, <1>2, <1>6, <1>7 DEF BodyInv, BeforeInline, Fields

(* An attachment is one node more. *)
LEMMA AddAttachmentKeepsBody == ASSUME IInv, BodyInv, AddAttachment PROVE BodyInv'
<1>1. /\ pc = "attachments" /\ k <= Len(input.attachments) /\ UNCHANGED <<input, inline, single>>
  BY Zenon DEF AddAttachment
<1>2. /\ k \in Nat \ {0} /\ InlineUpto(Len(input.inline)) /\ (input.text # <<>> \/ input.html # <<>>)
      /\ tree = TreeWith(k - 1)
      /\ inline \in Seq(Range(inline)) /\ \A m \in DOMAIN inline : inline[m].kind = "leaf"
  BY <1>1 DEF IInv, ReadInv, WrittenInv, TypeOK, BodyInv
<1>3. (InlineUpto(Len(input.inline)))'
  BY <1>1, <1>2, SameInputSameTree DEF InlineUpto
<1>4. CASE Refuse
  BY <1>4 DEF Refuse, BodyInv, BeforeInline, Fields
<1>5. CASE ~Refuse
  <2>1. tree' = TreeWith(k) /\ Again
    <3> DEFINE u == input.attachments[k]
               part == Leaf(LeafContentType(u.type), u.name, <<>>, u.data)
               others == IF tree.kind = "mixed" THEN tree.children ELSE <<tree>>
    <3>1. tree' = Multipart("mixed", others \o <<part>>) /\ Again
      BY <1>5, Zenon DEF AddAttachment
    <3>2. TreeWith(k) = Multipart("mixed", others \o <<part>>)
      BY <1>2, OneMoreAttached, Zenon
    <3> QED
      BY <3>1, <3>2, Zenon
  <2>2. pc' = pc /\ k' = k + 1 /\ k' - 1 = k
    BY <1>2, <2>1 DEF Again
  <2>3. (TreeWith(k - 1))' = TreeWith(k)
    BY <1>1, <2>2, SameInputSameTree
  <2> QED
    BY <1>1, <1>2, <1>3, <2>1, <2>2, <2>3 DEF BodyInv, BeforeInline, Fields
<1> QED
  BY <1>4, <1>5

(* The tree is complete at the end. *)
LEMMA FinishKeepsBody == ASSUME IInv, BodyInv, Finish PROVE BodyInv'
<1>1. /\ pc = "attachments" /\ k > Len(input.attachments) /\ UNCHANGED <<input, inline, tree>>
      /\ pc' = "built" /\ single' = IF tree.kind = "leaf" THEN Single(tree) ELSE <<>>
  BY DEF Finish, Goto
<1>2. /\ k \in Nat \ {0} /\ InlineUpto(Len(input.inline)) /\ (input.text # <<>> \/ input.html # <<>>)
      /\ tree = TreeWith(k - 1) /\ k - 1 <= Len(input.attachments)
      /\ Len(input.attachments) \in Nat
  <2>1. input.attachments \in Seq(Range(input.attachments))
    BY InputsAssumption DEF IInv, ReadInv
  <2> QED
    BY <1>1, <2>1, LenProperties DEF IInv, ReadInv, BodyInv
<1>3. (InlineUpto(Len(input.inline)))'
  BY <1>1, <1>2, SameInputSameTree DEF InlineUpto
<1>4. k - 1 = Len(input.attachments)
  BY <1>1, <1>2
<1>5. tree = TreeWith(Len(input.attachments))
  BY <1>2, <1>4
<1>6. (TreeWith(Len(input.attachments)))' = TreeWith(Len(input.attachments))
  BY <1>1, SameInputSameTree
<1>7. (Single(tree))' = Single(tree)
  BY <1>1 DEF Single, IsBase64
<1> QED
  BY <1>1, <1>2, <1>3, <1>5, <1>6, <1>7 DEF BodyInv, BeforeInline, Fields

(* Steps of others change nothing. *)
LEMMA StutterKeepsBody == ASSUME IInv, BodyInv, UNCHANGED vars PROVE BodyInv'
<1>1. UNCHANGED <<input, pc, k, inline, tree, single>>
  BY DEF vars, body
<1>2. /\ (TreeWith(k - 1))' = TreeWith(k - 1)
      /\ (TreeWith(Len(input.attachments)))' = TreeWith(Len(input.attachments))
      /\ (InlineUpto(k - 1))' <=> InlineUpto(k - 1)
      /\ (InlineUpto(Len(input.inline)))' <=> InlineUpto(Len(input.inline))
  BY <1>1, SameInputSameTree
<1>3. (Single(tree))' = Single(tree)
  BY <1>1 DEF Single, IsBase64
<1> QED
  BY <1>1, <1>2, <1>3 DEF BodyInv

(* The body is what was read of it in every reachable state. *)
LEMMA BodyInvariance == Spec => []BodyInv
<1>1. Init => BodyInv
  <2> SUFFICES ASSUME Init PROVE BodyInv
    OBVIOUS
  <2>1. pc = "bodies" /\ inline = <<>>
    BY DEF Init
  <2> QED
    BY <2>1 DEF BodyInv
<1>2. IInv /\ BodyInv /\ [Next]_vars => BodyInv'
  <2> SUFFICES ASSUME IInv, BodyInv, Next \/ UNCHANGED vars PROVE BodyInv'
    OBVIOUS
  <2>1. CASE \/ CheckBodies \/ ParseRecipient \/ CheckLineBreaks
             \/ WriteAddresses \/ WriteSubject \/ WriteCustom \/ HeadersEnd
    BY <2>1, HeaderStepsKeepBody
  <2>2. CASE AddInline
    BY <2>2, AddInlineKeepsBody
  <2>3. CASE BuildBody
    BY <2>3, BuildBodyKeepsBody
  <2>4. CASE AddAttachment
    BY <2>4, AddAttachmentKeepsBody
  <2>5. CASE Finish
    BY <2>5, FinishKeepsBody
  <2>6. CASE UNCHANGED vars
    BY <2>6, StutterKeepsBody
  <2> QED
    BY <2>1, <2>2, <2>3, <2>4, <2>5, <2>6 DEF Next
<1> QED
  BY Invariance, <1>1, <1>2, PTL DEF Spec

-------------------------------------------------------------------------------
(* Theorems *)

(* Types, and that the relay's own envelope and every parsed recipient use *)
(* addresses in the form a mail server takes, whatever the request reads   *)
(* as (rust/src/mime.rs, build; rust/src/address.rs, Mailbox).             *)
THEOREM TypeCorrect == Spec => []TypeOK
<1>1. IInv => TypeOK
  BY DEF IInv
<1> QED
  BY Invariance, <1>1, PTL

(* However many recipients a request names and however often, a message    *)
(* that is built goes to each address of to, cc and bcc once, in the order *)
(* of their first occurrence, and to nobody else (rust/src/mime.rs, the    *)
(* loop of build that fills the envelope).                                 *)
THEOREM EnvelopeOnce == Spec => []EnvelopeIsEveryoneOnce
<1>1. IInv => EnvelopeIsEveryoneOnce
  <2> SUFFICES ASSUME IInv, pc = "built" PROVE EnvelopeIsEveryoneOnce
    BY DEF EnvelopeIsEveryoneOnce
  <2>1. envelope = Firsts(Everyone)
    BY DEF IInv, EnvelopeInv
  <2>2. Len(Everyone) \in Nat /\ DOMAIN Everyone = 1..Len(Everyone)
    BY EveryoneIsAddressed DEF IInv
  <2>3. /\ ToSet(Firsts(Everyone)) = ToSet(Everyone)
        /\ \A m, n \in DOMAIN Firsts(Everyone) : m < n =>
             \E p \in DOMAIN Everyone :
               /\ Everyone[p] = Firsts(Everyone)[m]
               /\ \A q \in 1..p : Everyone[q] # Firsts(Everyone)[n]
    BY <2>2, FirstsAreOnce
  <2> QED
    BY <2>1, <2>3 DEF EnvelopeIsEveryoneOnce
<1> QED
  BY Invariance, <1>1, PTL

(* Whatever texts and uploads a request has and however many, the message  *)
(* that is built has each of them once and in order: every line of a text  *)
(* under its own line breaks, every upload byte for byte, the inline parts *)
(* beside the html they belong to and the attachments on top, no multipart *)
(* around a single part, and the only part of a message of one part        *)
(* without the line break a boundary would take (rust/src/mime.rs, build   *)
(* and Tree::formatted).                                                   *)
THEOREM PartsAreReadBack == Spec => []PartsReadBack
<1>1. IInv /\ BodyInv => PartsReadBack
  <2> SUFFICES ASSUME IInv, BodyInv, pc = "built" PROVE PartsReadBack
    BY DEF PartsReadBack
  <2> DEFINE n == Len(input.attachments)
             L == LeavesFor(n)
  <2>1. /\ input \in Inputs /\ (input.text # <<>> \/ input.html # <<>>)
        /\ InlineUpto(Len(input.inline)) /\ tree = TreeWith(n)
        /\ single = IF tree.kind = "leaf" THEN Single(tree) ELSE <<>>
        /\ inline \in Seq(Range(inline)) /\ \A m \in DOMAIN inline : inline[m].kind = "leaf"
    BY DEF IInv, ReadInv, WrittenInv, TypeOK, BodyInv
  <2>2. /\ n \in Nat /\ input.text \in Seq(Symbols) /\ input.html \in Seq(Symbols)
    <3>1. /\ {input.text, input.html, input.amp} \subseteq Seq(Symbols)
          /\ input.attachments \in Seq(Range(input.attachments))
      BY <2>1, InputsAssumption DEF Symbols
    <3> QED
      BY <3>1, LenProperties
  <2> HIDE DEF n, L
  <2>3. /\ IsMadeOf(n, L) /\ Attached(n) \in Seq(L) /\ Len(Attached(n)) = n /\ inline \in Seq(L)
        /\ (HtmlPart = <<>> <=> input.html = <<>>)
    BY <2>1, <2>2, TreeIsMadeOfLeaves DEF L
  <2>4. Len(Leaves) = Len(Meant) /\ \A m \in DOMAIN Meant : SamePart(Meant[m], Leaves[m])
    BY <2>1, LeavesAreMeant DEF n
  <2>5. Nodes \subseteq NodesOver(n, L)
    BY <2>1, <2>3, LeavesOfTree
  <2>6. \A node \in Nodes : node.kind # "leaf" => Len(node.children) >= 2
    BY <2>3, <2>5, MultipartsAreMany
  <2>7. \A node \in Nodes : node.kind = "related" =>
          node.children[1].type = <<"text", "html">> /\ Tail(node.children) = inline
    BY <2>3, <2>5, RelatedIsHtml
  <2>8. (input.html # <<>> /\ inline # <<>>) => \E node \in Nodes : node.kind = "related"
    BY <2>1, <2>3, RelatedIsThere
  <2>9. input.attachments # <<>> =>
          Len(tree.children) = Len(input.attachments) + 1
            + (IF input.html = <<>> THEN Len(inline) ELSE 0)
    <3> DEFINE first == IF HtmlPart = <<>> THEN inline ELSE <<>>
               attached == Attached(n)
    <3>1. first \in Seq(L) /\ attached \in Seq(L) /\ Len(attached) = n
      BY <2>3
    <3>2. Len(first) = IF input.html = <<>> THEN Len(inline) ELSE 0
      BY <2>3
    <3>3. Beside(n) = first \o attached
      BY DEF Beside
    <3> HIDE DEF first, attached
    <3>4. Len(Beside(n)) = Len(first) + n /\ Len(first) \in Nat /\ Beside(n) \in Seq(L)
      BY <3>1, <3>3, ConcatProperties, LenProperties
    <3>5. ASSUME input.attachments # <<>>
          PROVE  Len(tree.children) = n + 1 + Len(first)
      <4>1. n # 0
        <5>1. input.attachments \in Seq(Range(input.attachments))
          BY <2>1, InputsAssumption
        <5> QED
          BY <3>5, <5>1, EmptySeq DEF n
      <4>2. Len(Beside(n)) # 0
        BY <2>2, <3>4, <4>1
      <4>3. Beside(n) # <<>>
        BY <4>2, EmptySeq
      <4>4. Len(tree.children) = Len(Beside(n)) + 1
        BY <2>1, <2>3, <4>3, BesideIsOnTop
      <4> QED
        BY <2>2, <3>4, <4>4
    <3> QED
      BY <3>2, <3>5 DEF n
  <2>10. tree.kind = "leaf" => single \in {tree.bytes, Base64(tree.bytes) \o CRLF}
    <3>1. ASSUME tree.kind = "leaf"
          PROVE  single \in {tree.bytes, Base64(tree.bytes) \o CRLF}
      <4>1. PICK text \in {input.text, input.html} : text # <<>> /\ tree.bytes = Canonical(text)
        BY <2>1, <2>3, <3>1, SinglePartIsText
      <4>2. text \in Seq(Symbols)
        BY <2>2
      <4>3. IsPaired(tree.bytes) /\ EndsWith(tree.bytes, CRLF)
        BY <4>1, <4>2, CanonicalKeepsLines
      <4>4. tree.bytes \in Seq(Symbols)
        BY <4>3 DEF IsPaired
      <4>5. Single(tree) \in {tree.bytes, Base64(tree.bytes) \o CRLF}
        BY <4>3, <4>4, SingleIsSent
      <4> QED
        BY <2>1, <3>1, <4>5
    <3> QED
      BY <3>1
  <2> QED
    BY <2>4, <2>6, <2>7, <2>8, <2>9, <2>10 DEF PartsReadBack
<1> QED
  BY Invariance, BodyInvariance, <1>1, PTL

===============================================================================

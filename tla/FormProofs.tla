------------------------------- MODULE FormProofs -------------------------------
(***************************************************************************)
(* Theorems about Form for every set of requests and all limits.           *)
(*                                                                         *)
(* Three invariants carry them.  While the header is split, end and ind are  *)
(* two neighbouring semicolons, in one order or the other, and diff counts *)
(* the quotes up to the first of them.  While a part is read, the search   *)
(* is ahead of its first byte and has passed no boundary line: that a      *)
(* delimiter which did not end the part may be skipped as a whole rests on *)
(* the boundary, which holds no CR because the header holds none.  And the *)
(* items, counted before their data is read, have taken no more of the     *)
(* body than the scanner has passed: the last part, which rests on the     *)
(* other two.                                                              *)
(***************************************************************************)
EXTENDS Form, SequenceTheorems, Numbers

-------------------------------------------------------------------------------
(* The operators on sequences of symbols *)

(* First is the first of the symbols from a position on, or behind the end. *)
LEMMA FirstIsFirst ==
  ASSUME NEW S, NEW s \in Seq(S), NEW symbols, NEW from \in Nat \ {0}
  PROVE  /\ First(s, symbols, from) \in 1..Len(s) + 1
         /\ First(s, symbols, from) <= Len(s) =>
              First(s, symbols, from) >= from /\ s[First(s, symbols, from)] \in symbols
         /\ \A k \in from..First(s, symbols, from) - 1 : k <= Len(s) => s[k] \notin symbols
<1> DEFINE found == {k \in from..Len(s) : s[k] \in symbols}
<1>1. CASE found = {}
  <2>1. First(s, symbols, from) = Len(s) + 1
    BY <1>1 DEF First
  <2>2. \A k \in from..Len(s) : s[k] \notin symbols
    BY <1>1
  <2> QED
    BY <2>1, <2>2
<1>2. CASE found # {}
  <2>1. First(s, symbols, from) = Min(found)
    BY <1>2 DEF First
  <2>2. found \in SUBSET Nat
    OBVIOUS
  <2>3. Min(found) \in found /\ \A n \in found : Min(found) <= n
    <3> HIDE DEF found
    <3> QED
      BY <1>2, <2>2, MinIsLeast
  <2>4. First(s, symbols, from) \in found
    BY <2>1, <2>3
  <2>5. \A n \in found : First(s, symbols, from) <= n
    BY <2>1, <2>3
  <2>6. Len(s) \in Nat
    OBVIOUS
  <2>7. /\ First(s, symbols, from) \in from..Len(s) /\ s[First(s, symbols, from)] \in symbols
        /\ First(s, symbols, from) \in 1..Len(s) + 1
    BY <2>4, <2>6
  <2>8. ASSUME NEW k \in from..First(s, symbols, from) - 1, k <= Len(s)
        PROVE  s[k] \notin symbols
    <3>1. k \notin found
      BY <2>5, <2>7
    <3> QED
      BY <2>8, <2>7, <3>1
  <2> QED
    BY <2>7, <2>8
<1> QED
  BY <1>1, <1>2

(* What is left without some positions is made of the same symbols. *)
LEMMA DropKeeps ==
  ASSUME NEW S, NEW s \in Seq(S), NEW positions
  PROVE  Drop(s, positions) \in Seq(S)
<1> DEFINE kept == DOMAIN s \ positions
           nth(n) == CHOOSE k \in kept : Cardinality({j \in kept : j <= k}) = n
<1>1. IsFiniteSet(kept) /\ kept \in SUBSET Nat
  <2>1. DOMAIN s = 1..Len(s) /\ Len(s) \in Nat
    OBVIOUS
  <2>2. IsFiniteSet(1..Len(s))
    BY <2>1, FS_Interval
  <2>3. kept \subseteq 1..Len(s)
    BY <2>1
  <2> QED
    BY <2>2, <2>3, FS_Subset
<1>2. ASSUME NEW n \in 1..Cardinality(kept) PROVE s[nth(n)] \in S
  <2>1. \E k \in kept : Cardinality({j \in kept : j <= k}) = n
    <3> HIDE DEF kept
    <3> QED
      BY <1>1, RanksCount
  <2>2. nth(n) \in kept
    BY <2>1
  <2> QED
    BY <2>2
<1>3. Cardinality(kept) \in Nat
  BY <1>1, FS_CardinalityType
<1>4. Drop(s, positions) = [n \in 1..Cardinality(kept) |-> s[nth(n)]]
  BY DEF Drop
<1> HIDE DEF kept, nth
<1> QED
  BY <1>2, <1>3, <1>4, IsASeq

(* A stretch of a sequence is made of its symbols. *)
LEMMA StretchKeeps ==
  ASSUME NEW S, NEW s \in Seq(S), NEW m \in 1..Len(s) + 1, NEW n \in 0..Len(s)
  PROVE  SubSeq(s, m, n) \in Seq(S) /\ Len(SubSeq(s, m, n)) = (IF n < m THEN 0 ELSE n + 1 - m)
<1>1. \A k \in m..n : s[k] \in S
  OBVIOUS
<1> QED
  BY <1>1, SubSeqProperties

(* Taking blanks from both ends adds no symbol. *)
LEMMA StripKeeps ==
  ASSUME NEW S, NEW s \in Seq(S)
  PROVE  Strip(s) \in Seq(S)
<1> DEFINE inner == {k \in DOMAIN s : s[k] # "space"}
<1>1. CASE inner = {}
  <2>1. Strip(s) = <<>>
    BY <1>1 DEF Strip
  <2> QED
    BY <2>1
<1>2. CASE inner # {}
  <2>0. Len(s) \in Nat /\ DOMAIN s = 1..Len(s)
    BY LenProperties
  <2>1. inner \in SUBSET Nat /\ \A n \in inner : n \in 1..Len(s) /\ n <= Len(s)
    <3>1. inner \subseteq DOMAIN s
      OBVIOUS
    <3> HIDE DEF inner
    <3>2. \A n \in inner : n \in 1..Len(s)
      BY <2>0, <3>1
    <3> QED
      BY <2>0, <3>2
  <2>2. Min(inner) \in inner /\ Max(inner) \in inner
    <3> HIDE DEF inner
    <3> QED
      BY <1>2, <2>0, <2>1, MinIsLeast, MaxIsGreatest
  <2>3. Min(inner) \in 1..Len(s) /\ Max(inner) \in 1..Len(s)
    BY <2>1, <2>2
  <2>4. Strip(s) = SubSeq(s, Min(inner), Max(inner))
    BY <1>2 DEF Strip
  <2> HIDE DEF inner
  <2> QED
    BY <2>0, <2>3, <2>4, StretchKeeps
<1> QED
  BY <1>1, <1>2

(* Unquoting adds no symbol. *)
LEMMA UnquotedKeeps ==
  ASSUME NEW S, NEW s \in Seq(S)
  PROVE  Unquoted(s) \in Seq(S)
<1>1. CASE Len(s) >= 2
  <2> DEFINE inner == SubSeq(s, 2, Len(s) - 1)
  <2>1. inner \in Seq(S)
    BY <1>1, StretchKeeps
  <2> HIDE DEF inner
  <2>2. \A first, second : Drop(Drop(inner, first), second) \in Seq(S)
    BY <2>1, DropKeeps
  <2>3. \E first, second : Unquoted(s) \in {s, Drop(Drop(inner, first), second)}
    BY Zenon DEF Unquoted, inner
  <2> QED
    BY <2>2, <2>3
<1>2. CASE ~(Len(s) >= 2)
  BY <1>2 DEF Unquoted
<1> QED
  BY <1>1, <1>2

-------------------------------------------------------------------------------
(* The quotes of the header *)

Symbols == ToSet(Type)
Words   == Symbols \cup {"multipart", "boundary"}

(* The header and the body are sequences, and the header holds no CR. *)
LEMMA RequestIsRead ==
  ASSUME request \in Requests
  PROVE  /\ Type \in Seq(Symbols) /\ Len(Type) \in Nat \ {0} /\ Type[1] = "semicolon"
         /\ "CR" \notin Words
         /\ Body \in Seq(ToSet(Body)) /\ Len(Body) \in Nat
<1> DEFINE S == ToSet(request.type) \cup {"semicolon"}
<1>1. request.type \in Seq(ToSet(request.type)) /\ "CR" \notin ToSet(request.type)
  BY RequestsAssumption
<1>2. request.type \in Seq(S) /\ "CR" \notin S
  BY <1>1, SeqMonotonic
<1>3. <<"semicolon">> \in Seq(S) /\ Len(<<"semicolon">>) = 1 /\ <<"semicolon">>[1] = "semicolon"
  OBVIOUS
<1>4. /\ Type \in Seq(S) /\ Len(Type) = 1 + Len(request.type) /\ Len(request.type) \in Nat
      /\ Type[1] = "semicolon"
  <2> HIDE DEF S
  <2>1. Len(request.type) \in Nat
    BY <1>1, LenProperties
  <2> QED
    BY <1>2, <1>3, <2>1, ConcatProperties DEF Type
<1>5. DOMAIN Type = 1..Len(Type) /\ \A k \in 1..Len(Type) : Type[k] \in S
  <2> HIDE DEF S
  <2> QED
    BY <1>4
<1>6. Symbols \subseteq S
  BY <1>5 DEF Symbols, ToSet
<1>7. Type \in Seq(Symbols)
  <2>1. Type = [k \in 1..Len(Type) |-> Type[k]]
    <3> HIDE DEF S
    <3> QED
      BY <1>4
  <2>2. \A k \in 1..Len(Type) : Type[k] \in Symbols
    BY <1>5 DEF Symbols, ToSet
  <2> QED
    BY <1>4, <2>1, <2>2, IsASeq
<1>8. Body \in Seq(ToSet(Body))
  BY RequestsAssumption DEF Body
<1> QED
  BY <1>2, <1>4, <1>6, <1>7, <1>8, LenProperties DEF Words

(* The quotes of a stretch that are not escaped within it. *)
Unescaped(from, to) == {q \in from..to - 1 : Type[q] = "quote" /\ ~(q > from /\ Type[q - 1] = "backslash")}

(* The quotes of a stretch can be counted. *)
LEMMA UnescapedIsFinite ==
  ASSUME NEW from \in Int, NEW to \in Int
  PROVE  IsFiniteSet(Unescaped(from, to)) /\ Cardinality(Unescaped(from, to)) \in Nat
<1>1. IsFiniteSet(from..to - 1) /\ Unescaped(from, to) \subseteq from..to - 1
  BY FS_Interval DEF Unescaped
<1> QED
  BY <1>1, FS_Subset, FS_CardinalityType

(* Quotes counts them by subtracting the escapes from all. *)
LEMMA QuotesCounts ==
  ASSUME NEW from \in Nat \ {0}, NEW to \in Nat
  PROVE  Quotes(from, to) = Cardinality(Unescaped(from, to))
<1> DEFINE quotes == {k \in from..to - 1 : Type[k] = "quote"}
           escapes == {k \in from..to - 2 : Type[k] = "backslash" /\ Type[k + 1] = "quote"}
           escaped == {k \in quotes : k > from /\ Type[k - 1] = "backslash"}
           next == [k \in escapes |-> k + 1]
<1>1. IsFiniteSet(quotes) /\ IsFiniteSet(escapes)
  <2>1. quotes \subseteq from..to - 1 /\ escapes \subseteq from..to - 2
    OBVIOUS
  <2>2. IsFiniteSet(from..to - 1) /\ IsFiniteSet(from..to - 2)
    BY FS_Interval
  <2> HIDE DEF quotes, escapes
  <2> QED
    BY <2>1, <2>2, FS_Subset
<1>2. Cardinality(escaped) = Cardinality(escapes)
  <2>1. next \in [escapes -> escaped]
    OBVIOUS
  <2>2. \A j, k \in escapes : next[j] = next[k] => j = k
    OBVIOUS
  <2>3. ASSUME NEW k \in escaped PROVE k - 1 \in escapes /\ next[k - 1] = k
    OBVIOUS
  <2>4. next \in Bijection(escapes, escaped)
    <3> HIDE DEF next, escapes, escaped
    <3> QED
      BY <2>1, <2>2, <2>3 DEF Bijection, Injection, Surjection, IsInjective
  <2> HIDE DEF next, escapes, escaped
  <2> QED
    BY <1>1, <2>4, FS_Bijection DEF ExistsBijection
<1>3. Unescaped(from, to) = quotes \ escaped
  BY DEF Unescaped
<1>4. Cardinality(quotes \ escaped) = Cardinality(quotes) - Cardinality(escaped)
  <2>1. quotes \cap escaped = escaped
    OBVIOUS
  <2> HIDE DEF quotes, escaped
  <2> QED
    BY <1>1, <2>1, FS_Difference
<1>5. Quotes(from, to) = Cardinality(quotes) - Cardinality(escapes)
  BY DEF Quotes
<1> QED
  BY <1>2, <1>3, <1>4, <1>5

(* A stretch that is empty, or starts nowhere, has none. *)
LEMMA QuotesOfNothing ==
  ASSUME NEW from \in Nat, NEW to \in 1..Len(Type), from = 0 \/ from >= to, Len(Type) \in Nat
  PROVE  Quotes(from, to) = 0
<1> DEFINE first == IF from = 0 THEN Len(Type) ELSE from
<1>1. first..to - 1 = {} /\ first..to - 2 = {}
  OBVIOUS
<1>2. Quotes(from, to) = Cardinality({}) - Cardinality({})
  BY <1>1 DEF Quotes
<1> QED
  BY <1>2, FS_EmptySet

(* Two stretches that meet at a semicolon are counted one by one. *)
LEMMA QuotesAdd ==
  ASSUME NEW from \in Nat \ {0}, NEW mid \in Nat, NEW to \in Nat,
         from <= mid, mid <= to, mid = from \/ Type[mid] = "semicolon"
  PROVE  Cardinality(Unescaped(from, to)) =
           Cardinality(Unescaped(from, mid)) + Cardinality(Unescaped(mid, to))
<1>1. Unescaped(from, to) = Unescaped(from, mid) \cup Unescaped(mid, to)
  <2>1. ASSUME NEW q \in Unescaped(from, to)
        PROVE  q \in Unescaped(from, mid) \cup Unescaped(mid, to)
    BY DEF Unescaped
  <2>2. ASSUME NEW q \in Unescaped(from, mid) PROVE q \in Unescaped(from, to)
    BY DEF Unescaped
  <2>3. ASSUME NEW q \in Unescaped(mid, to) PROVE q \in Unescaped(from, to)
    <3>1. q \in mid..to - 1 /\ Type[q] = "quote" /\ ~(q > mid /\ Type[q - 1] = "backslash")
      BY DEF Unescaped
    <3>2. CASE mid = from
      BY <3>1, <3>2 DEF Unescaped
    <3>3. CASE Type[mid] = "semicolon"
      <4>1. q > mid
        BY <3>1, <3>3
      <4> QED
        BY <3>1, <4>1 DEF Unescaped
    <3> QED
      BY <3>2, <3>3
  <2> QED
    BY <2>1, <2>2, <2>3
<1>2. Unescaped(from, mid) \cap Unescaped(mid, to) = {}
  BY DEF Unescaped
<1>3. Cardinality({}) = 0
  BY FS_EmptySet
<1>4. /\ Cardinality(Unescaped(from, mid)) \in Nat
      /\ Cardinality(Unescaped(mid, to)) \in Nat
      /\ IsFiniteSet(Unescaped(from, mid)) /\ IsFiniteSet(Unescaped(mid, to))
  <2>1. from \in Int /\ mid \in Int /\ to \in Int
    OBVIOUS
  <2> QED
    BY <2>1, UnescapedIsFinite, Zenon
<1>5. Cardinality(Unescaped(from, mid) \cup Unescaped(mid, to)) =
        Cardinality(Unescaped(from, mid)) + Cardinality(Unescaped(mid, to))
        - Cardinality(Unescaped(from, mid) \cap Unescaped(mid, to))
  BY <1>4, FS_Union, Zenon
<1> DEFINE before == Cardinality(Unescaped(from, mid))
           after  == Cardinality(Unescaped(mid, to))
           both   == Cardinality(Unescaped(from, mid) \cap Unescaped(mid, to))
<1>6. Cardinality(Unescaped(from, to)) = before + after - both
  BY <1>1, <1>5, Zenon
<1>7. both = 0
  BY <1>2, <1>3, Zenon
<1>8. before \in Nat /\ after \in Nat
  BY <1>4, Zenon
<1> HIDE DEF before, after, both
<1>9. before + after - both = before + after
  BY <1>7, <1>8
<1>10. Cardinality(Unescaped(from, to)) = before + after
  BY <1>6, <1>9, Zenon
<1> QED
  BY <1>10, Zenon DEF before, after

(* Find is the next of a symbol, or 0. *)
LEMMA FindFinds ==
  ASSUME request \in Requests, NEW symbol, NEW from \in Nat \ {0}
  PROVE  /\ Find(symbol, from) \in 0..Len(Type)
         /\ Find(symbol, from) # 0 => /\ Find(symbol, from) >= from
                                      /\ Type[Find(symbol, from)] = symbol
                                      /\ \A k \in from..Find(symbol, from) - 1 : Type[k] # symbol
         /\ Find(symbol, from) = 0 => \A k \in from..Len(Type) : Type[k] # symbol
<1> DEFINE at == First(Type, {symbol}, from)
<1>1. Type \in Seq(Symbols) /\ Len(Type) \in Nat
  BY RequestIsRead
<1>2. /\ at \in 1..Len(Type) + 1
      /\ at <= Len(Type) => at >= from /\ Type[at] \in {symbol}
      /\ \A k \in from..at - 1 : k <= Len(Type) => Type[k] \notin {symbol}
  BY <1>1, FirstIsFirst
<1>3. Find(symbol, from) = IF at > Len(Type) THEN 0 ELSE at
  BY DEF Find
<1> HIDE DEF at
<1>4. CASE at > Len(Type)
  BY <1>1, <1>2, <1>3, <1>4
<1>5. CASE at <= Len(Type)
  <2>1. Find(symbol, from) = at
    BY <1>1, <1>2, <1>3, <1>5
  <2> QED
    BY <1>1, <1>2, <1>5, <2>1
<1> QED
  BY <1>1, <1>2, <1>4, <1>5

-------------------------------------------------------------------------------
(* The invariant *)

Heading == pc \in {"params", "quotes", "segment"}

(* What a stage of the parser has not touched yet. *)
StagesInv ==
  /\ Heading => encoding = "unknown" /\ i = 1 /\ search = 1 /\ files = 0 /\ fields = 0
  /\ pc = "urlencoded" => encoding = "urlencoded"
  /\ pc = "start" => i = 1 /\ search = 1 /\ files = 0 /\ fields = 0 /\ cuts = <<>>
  /\ pc \in {"start", "headers", "data"} => encoding = "multipart"
  /\ encoding = "unknown" /\ ~Heading => cuts = <<>>

Segments == {p \in Seq(Seq(Words)) : Len(p) \in {1, 2}}

(* Parameters and boundary are made of the symbols of the header. *)
WordsInv ==
  /\ request \in Requests
  /\ params \in Seq(Segments)
  /\ boundary \in Seq(Words)
  /\ cuts \in Seq(Nat \X Nat)

(* The segment that is being read cannot end up to a position. *)
NoSplit(to) == \A k \in start..to : ~SplitsAt(start, k)

(* ind comes first: the quotes are counted up to it, end is the next       *)
(* semicolon.                                                              *)
InOrder ==
  /\ ind >= start
  /\ \/ ind = start /\ end = Find("semicolon", start)
     \/ ind <= Len(Type) /\ Type[ind] = "semicolon" /\ end = Find("semicolon", ind + 1)
  /\ diff = Cardinality(Unescaped(start, ind))
  /\ NoSplit(IF end = 0 THEN Len(Type) ELSE end - 1)

(* end comes first, and the quotes are counted up to the semicolon behind  *)
(* it; ind is the one after that.                                          *)
CrossedAt(at) ==
  /\ end \in start..at - 1
  /\ Type[at] = "semicolon" /\ at = Find("semicolon", end + 1) /\ ind = Find("semicolon", at + 1)
  /\ diff = Cardinality(Unescaped(start, at)) /\ diff % 2 = 1
  /\ NoSplit(at)
Crossed == \E at \in 1..Len(Type) : CrossedAt(at)

Reached == IF cuts = <<>> THEN 1 ELSE cuts[Len(cuts)][2]
SplitInv ==
  /\ pc = "params" => start = Reached /\ (start <= Len(Type) => Type[start] = "semicolon")
  /\ pc \in {"quotes", "segment"} => start = Reached + 1
  /\ pc = "quotes" => InOrder \/ Crossed
  /\ pc = "segment" => \/ end = 0 /\ NoSplit(Len(Type))
                       \/ end \in start..Len(Type) /\ SplitsAt(start, end) /\ NoSplit(end - 1)

(* The part that is being read begins behind the boundary lines of those   *)
(* before, and its search has passed none.                                 *)
PartInv ==
  /\ pc \in {"headers", "data"} => files + fields + 3 <= i
  /\ pc = "data" => AreAt(i - 2, CRLF) /\ i <= search
  /\ encoding = "multipart" => \A n \in DOMAIN cuts : i >= cuts[n][2] + Len(Delimiter) + 2

IInv ==
  /\ TypeOK
  /\ StagesInv
  /\ WordsInv
  /\ SplitInv
  /\ PartInv
  /\ PartsAreDelimited
  /\ SegmentsRespectQuotes

(* Another cut keeps what holds of each. *)
LEMMA CutIsAdded ==
  ASSUME cuts \in Seq(Nat \X Nat), NEW from \in Nat, NEW behind \in Nat, from <= behind,
         \A n \in DOMAIN cuts : cuts[n][1] <= cuts[n][2]
  PROVE  /\ Append(cuts, <<from, behind>>) \in Seq(Nat \X Nat)
         /\ \A n \in DOMAIN Append(cuts, <<from, behind>>) :
              Append(cuts, <<from, behind>>)[n][1] <= Append(cuts, <<from, behind>>)[n][2]
         /\ DOMAIN Append(cuts, <<from, behind>>) = 1..Len(cuts) + 1
         /\ DOMAIN cuts = 1..Len(cuts) /\ Len(cuts) \in Nat
         /\ \A n \in 1..Len(cuts) : Append(cuts, <<from, behind>>)[n] = cuts[n]
         /\ Append(cuts, <<from, behind>>)[Len(cuts) + 1] = <<from, behind>>
<1> DEFINE new == Append(cuts, <<from, behind>>)
<1>1. /\ DOMAIN new = 1..Len(cuts) + 1 /\ DOMAIN cuts = 1..Len(cuts) /\ Len(cuts) \in Nat
      /\ \A n \in 1..Len(cuts) : new[n] = cuts[n]
      /\ new[Len(cuts) + 1] = <<from, behind>> /\ new \in Seq(Nat \X Nat)
  OBVIOUS
<1> HIDE DEF new
<1>2. \A n \in DOMAIN new : new[n][1] <= new[n][2]
  <2>1. <<from, behind>>[1] <= <<from, behind>>[2]
    OBVIOUS
  <2>2. \A n \in 1..Len(cuts) : new[n][1] <= new[n][2]
    BY <1>1
  <2>3. \A n \in 1..Len(cuts) + 1 : n \in 1..Len(cuts) \/ n = Len(cuts) + 1
    BY <1>1
  <2> QED
    BY <1>1, <2>1, <2>2, <2>3, Zenon
<1>3. new = Append(cuts, <<from, behind>>)
  BY DEF new
<1> QED
  BY <1>1, <1>2, <1>3, Zenon

-------------------------------------------------------------------------------
(* The header is split *)

(* Nothing that is said of the header changes while the request does not. *)
LEMMA HeaderStays ==
  ASSUME request' = request
  PROVE  /\ Type' = Type /\ Body' = Body /\ Symbols' = Symbols /\ Words' = Words
         /\ \A x, y : /\ Find(x, y)' = Find(x, y) /\ Quotes(x, y)' = Quotes(x, y)
                      /\ Unescaped(x, y)' = Unescaped(x, y) /\ SplitsAt(x, y)' = SplitsAt(x, y)
<1>1. Type' = Type /\ Body' = Body
  BY DEF Type, Body
<1>2. Symbols' = Symbols /\ Words' = Words
  BY <1>1, Zenon DEF Symbols, Words
<1>3. ASSUME NEW x, NEW y
      PROVE  /\ Find(x, y)' = Find(x, y) /\ Quotes(x, y)' = Quotes(x, y)
             /\ Unescaped(x, y)' = Unescaped(x, y) /\ SplitsAt(x, y)' = SplitsAt(x, y)
  <2>1. Find(x, y)' = Find(x, y)
    BY <1>1, Zenon DEF Find
  <2>2. Quotes(x, y)' = Quotes(x, y)
    BY <1>1, Zenon DEF Quotes
  <2>3. Unescaped(x, y)' = Unescaped(x, y)
    BY <1>1, Zenon DEF Unescaped
  <2>4. SplitsAt(x, y)' = SplitsAt(x, y)
    BY <1>1, Zenon DEF SplitsAt, ClosedAt
  <2> QED
    BY <2>1, <2>2, <2>3, <2>4
<1> QED
  BY <1>1, <1>2, <1>3, Zenon

(* A semicolon splits where the quotes before it are even. *)
LEMMA SplitsWhereEven ==
  ASSUME NEW from, NEW k
  PROVE  SplitsAt(from, k) <=>
           Type[k] = "semicolon" /\ Cardinality(Unescaped(from, k)) % 2 = 0
BY Zenon DEF SplitsAt, ClosedAt, Unescaped

(* The first count starts with the segment. *)
LEMMA NextSegmentKeepsSplits ==
  ASSUME IInv, NextSegment
  PROVE  SplitInv'
<1> USE DEF NextSegment, Goto
<1>1. request \in Requests /\ start \in 1..Len(Type) + 1 /\ start' = start + 1 /\ cuts' = cuts
  BY DEF IInv, WordsInv, TypeOK
<1>2. Type' = Type /\ Len(Type) \in Nat
  BY <1>1, HeaderStays, RequestIsRead
<1>3. start' \in Nat \ {0} /\ end' = Find("semicolon", start')
  BY <1>1, <1>2
<1>4. InOrder'
  <2>1. Unescaped(start', start') = {}
    BY <1>3 DEF Unescaped
  <2>2. diff' = Cardinality(Unescaped(start', start'))
    BY <2>1, FS_EmptySet
  <2>3. end' = 0 => \A k \in start'..Len(Type) : Type[k] # "semicolon"
    BY <1>1, <1>3, FindFinds
  <2>4. end' # 0 => \A k \in start'..end' - 1 : Type[k] # "semicolon"
    BY <1>1, <1>3, FindFinds
  <2>5. \A k \in start'..(IF end' = 0 THEN Len(Type) ELSE end' - 1) : ~SplitsAt(start', k)
    BY <2>3, <2>4, SplitsWhereEven
  <2>6. ind' = start' /\ ind' >= start'
    BY <1>3
  <2> QED
    BY <1>2, <1>3, <2>2, <2>5, <2>6, HeaderStays DEF InOrder, NoSplit
<1>5. start' = Reached' + 1
  <2>1. start = Reached
    BY DEF IInv, SplitInv
  <2> QED
    BY <1>1, <2>1 DEF Reached
<1> QED
  BY <1>4, <1>5 DEF SplitInv

(* The count reaches the next semicolon: there the segment ends, or the    *)
(* two positions cross.                                                    *)
LEMMA CountQuotesKeepsSplits ==
  ASSUME IInv, CountQuotes
  PROVE  SplitInv'
<1>1. /\ request \in Requests /\ start \in 1..Len(Type) + 1 /\ end \in 0..Len(Type)
      /\ ind \in 0..Len(Type) + 1 /\ diff \in Int
      /\ request' = request /\ start' = start /\ cuts' = cuts
      /\ pc = "quotes" /\ pc' \in {"quotes", "segment"}
  BY DEF IInv, WordsInv, TypeOK, CountQuotes, Goto
<1>2. Type' = Type /\ Len(Type) \in Nat
  BY <1>1, HeaderStays, RequestIsRead
<1>3. start' = Reached' + 1
  BY <1>1 DEF IInv, SplitInv, Reached
<1>4. InOrder \/ Crossed
  BY <1>1 DEF IInv, SplitInv
<1>5. CASE end = 0
  <2>1. pc' = "segment" /\ end' = 0 /\ InOrder
    BY <1>1, <1>4, <1>5 DEF CountQuotes, Goto, Crossed, CrossedAt
  <2>2. NoSplit(Len(Type))'
    BY <1>1, <1>2, <1>5, <2>1, HeaderStays DEF InOrder, NoSplit
  <2> QED
    BY <1>2, <1>3, <2>1, <2>2 DEF SplitInv
<1>6. CASE end # 0 /\ InOrder
  <2>1. ind \in start..Len(Type) /\ end \in ind..Len(Type) /\ Type[end] = "semicolon"
    BY <1>1, <1>2, <1>6, FindFinds DEF InOrder
  <2>2. Quotes(ind, end) = Cardinality(Unescaped(ind, end))
    BY <1>1, <2>1, QuotesCounts
  <2>3. Cardinality(Unescaped(start, end)) =
          Cardinality(Unescaped(start, ind)) + Cardinality(Unescaped(ind, end))
    BY <1>1, <1>6, <2>1, QuotesAdd DEF InOrder
  <2>4. diff' = Cardinality(Unescaped(start, end)) /\ diff' \in Nat
    <3>1. diff' = diff + Quotes(ind, end)
      BY <1>6 DEF CountQuotes
    <3>2. Cardinality(Unescaped(start, end)) \in Nat
      BY <1>1, UnescapedIsFinite
    <3> QED
      BY <1>6, <2>2, <2>3, <3>1, <3>2 DEF InOrder
  <2>5. NoSplit(end - 1)
    BY <1>6 DEF InOrder
  <2>6. CASE diff' % 2 = 0
    <3>1. pc' = "segment" /\ end' = end
      BY <1>6, <2>6 DEF CountQuotes, Goto
    <3>2. SplitsAt(start, end)
      BY <2>1, <2>4, <2>6, SplitsWhereEven
    <3>3. SplitsAt(start, end)' /\ NoSplit(end - 1)'
      BY <1>1, <2>5, <3>1, <3>2, HeaderStays DEF NoSplit
    <3>4. end \in start..Len(Type)
      BY <1>1, <2>1
    <3> QED
      BY <1>1, <1>2, <1>3, <3>1, <3>3, <3>4 DEF SplitInv
  <2>7. CASE diff' % 2 # 0
    <3>1. pc' = "quotes" /\ end' = ind /\ ind' = Find("semicolon", end + 1)
      BY <1>6, <2>7 DEF CountQuotes, Goto
    <3>2. ~SplitsAt(start, end)
      BY <2>4, <2>7, SplitsWhereEven
    <3>3. NoSplit(end)
      BY <1>1, <2>1, <2>5, <3>2 DEF NoSplit
    <3>4. diff' % 2 = 1
      BY <2>4, <2>7
    <3>5. ind < end
      <4>1. SUFFICES ASSUME ind = end PROVE FALSE
        BY <2>1
      <4>2. Unescaped(ind, end) = {}
        BY <1>1, <2>1, <4>1 DEF Unescaped
      <4>3. ind = start
        <5>1. SUFFICES ASSUME end = Find("semicolon", ind + 1) PROVE FALSE
          BY <1>6 DEF InOrder
        <5> QED
          BY <1>1, <1>6, <2>1, <4>1, <5>1, FindFinds
      <4>4. diff' = 0
        BY <2>4, <4>1, <4>2, <4>3, FS_EmptySet
      <4> QED
        BY <2>7, <4>4
    <3>6. end = Find("semicolon", ind + 1)
      <4>1. SUFFICES ASSUME ind = start, end = Find("semicolon", start)
                     PROVE  end = Find("semicolon", ind + 1)
        BY <1>6 DEF InOrder
      <4> DEFINE next == Find("semicolon", ind + 1)
      <4>2. \A k \in start..end - 1 : Type[k] # "semicolon"
        BY <1>1, <1>6, <4>1, FindFinds
      <4>3. /\ next \in 0..Len(Type)
            /\ next # 0 => next >= ind + 1 /\ Type[next] = "semicolon"
                           /\ \A k \in ind + 1..next - 1 : Type[k] # "semicolon"
            /\ next = 0 => \A k \in ind + 1..Len(Type) : Type[k] # "semicolon"
        BY <1>1, <2>1, FindFinds
      <4> HIDE DEF next
      <4>4. next # 0
        BY <2>1, <3>5, <4>3
      <4>5. ~(next < end) /\ ~(end < next)
        BY <1>1, <2>1, <3>5, <4>1, <4>2, <4>3, <4>4
      <4> QED
        BY <1>1, <4>3, <4>5 DEF next
    <3>7. ASSUME NEW at \in 1..Len(Type), at = end PROVE CrossedAt(at)'
      <4>1. end \in 1..Len(Type) /\ ind \in start..end - 1
        BY <1>1, <2>1, <3>5
      <4>2. /\ NoSplit(end)
            /\ diff' = Cardinality(Unescaped(start, end)) /\ diff' % 2 = 1
            /\ end = Find("semicolon", ind + 1) /\ Type[end] = "semicolon"
        BY <2>1, <2>4, <3>3, <3>4, <3>6
      <4> QED
        BY <1>1, <1>2, <3>1, <3>7, <4>1, <4>2, HeaderStays DEF CrossedAt, NoSplit
    <3>8. Crossed'
      <4>1. \E at \in 1..Len(Type) : at = end
        BY <1>1, <2>1
      <4>2. \E at \in 1..Len(Type') : CrossedAt(at)'
        BY <1>2, <3>7, <4>1
      <4> QED
        BY <4>2, Zenon DEF Crossed
    <3> QED
      BY <1>1, <1>2, <1>3, <3>1, <3>8 DEF SplitInv
  <2> QED
    BY <2>6, <2>7
<1>7. CASE end # 0 /\ Crossed
  <2>1. PICK at \in 1..Len(Type) : CrossedAt(at)
    BY <1>7 DEF Crossed
  <2>2. Quotes(ind, end) = 0
    <3>1. ind = 0 \/ ind >= end
      <4>0. ind = Find("semicolon", at + 1) /\ end \in start..at - 1
        BY <2>1, Zenon DEF CrossedAt
      <4>1. ind = Find("semicolon", at + 1) /\ end < at /\ at + 1 \in Nat \ {0}
        BY <1>1, <1>2, <4>0
      <4>2. ind = 0 \/ ind >= at + 1
        BY <1>1, <4>1, FindFinds
      <4> QED
        BY <1>1, <1>2, <4>1, <4>2
    <3> QED
      BY <1>1, <1>2, <1>7, <3>1, QuotesOfNothing
  <2>3. diff' = diff /\ pc' = "quotes" /\ end' = ind /\ ind' = at
    <3>1. diff % 2 = 1 /\ at = Find("semicolon", end + 1)
      BY <2>1 DEF CrossedAt
    <3>2. diff + Quotes(ind, end) = diff
      BY <1>1, <2>2
    <3>3. diff' = diff /\ diff' % 2 # 0
      BY <1>7, <3>1, <3>2 DEF CountQuotes
    <3> QED
      BY <1>7, <3>1, <3>3 DEF CountQuotes, Goto
  <2>4. InOrder'
    <3>1. NoSplit(IF ind = 0 THEN Len(Type) ELSE ind - 1)
      <4>0. ind = Find("semicolon", at + 1) /\ at + 1 \in Nat \ {0}
        BY <1>2, <2>1 DEF CrossedAt
      <4>1. ind = 0 => \A k \in at + 1..Len(Type) : Type[k] # "semicolon"
        BY <1>1, <4>0, FindFinds
      <4>2. ind # 0 => \A k \in at + 1..ind - 1 : Type[k] # "semicolon"
        BY <1>1, <4>0, FindFinds
      <4>3. ASSUME NEW k \in start..(IF ind = 0 THEN Len(Type) ELSE ind - 1)
            PROVE  ~SplitsAt(start, k)
        <5>1. CASE k <= at
          BY <1>1, <2>1, <5>1 DEF CrossedAt, NoSplit
        <5>2. CASE k > at
          <6>1. Type[k] # "semicolon"
            BY <1>1, <1>2, <4>1, <4>2, <5>2
          <6> QED
            BY <6>1, SplitsWhereEven
        <5> QED
          BY <1>1, <1>2, <5>1, <5>2
      <4> QED
        BY <4>3 DEF NoSplit
    <3>2. /\ at >= start /\ at <= Len(Type) /\ Type[at] = "semicolon"
          /\ ind = Find("semicolon", at + 1) /\ diff = Cardinality(Unescaped(start, at))
      BY <1>1, <2>1 DEF CrossedAt
    <3> QED
      BY <1>1, <1>2, <2>3, <3>1, <3>2, HeaderStays DEF InOrder, NoSplit
  <2> QED
    BY <1>1, <1>2, <1>3, <2>3, <2>4 DEF SplitInv
<1> QED
  BY <1>4, <1>5, <1>6, <1>7

(* A segment ends at its first split, or with the header. *)
LEMMA SegmentKeepsSplits ==
  ASSUME IInv, Segment
  PROVE  SplitInv' /\ SegmentsRespectQuotes'
<1> DEFINE behind == IF end = 0 THEN Len(Type) + 1 ELSE end
<1>1. /\ request \in Requests /\ start \in 1..Len(Type) + 1 /\ end \in 0..Len(Type)
      /\ request' = request /\ start' = behind /\ cuts' = Append(cuts, <<start, behind>>)
      /\ pc = "segment" /\ pc' = "params" /\ encoding' = "unknown" /\ encoding = "unknown"
      /\ cuts \in Seq(Nat \X Nat)
  BY DEF IInv, WordsInv, TypeOK, Segment, Goto, StagesInv, Heading, parser
<1>2. Type' = Type /\ Len(Type) \in Nat
  BY <1>1, HeaderStays, RequestIsRead
<1>3. behind \in Nat /\ start \in Nat /\ <<start, behind>> \in Nat \X Nat
  BY <1>1, <1>2
<1>4. \/ behind = Len(Type) + 1 /\ NoSplit(Len(Type))
      \/ behind \in start..Len(Type) /\ SplitsAt(start, behind) /\ NoSplit(behind - 1)
  BY <1>1, <1>2 DEF IInv, SplitInv
<1>5. start = Reached + 1
  BY <1>1 DEF IInv, SplitInv
<1> HIDE DEF behind
<1>6. /\ Len(cuts') = Len(cuts) + 1 /\ DOMAIN cuts' = 1..Len(cuts) + 1 /\ Len(cuts) \in Nat
      /\ cuts'[Len(cuts) + 1] = <<start, behind>>
      /\ \A n \in 1..Len(cuts) : cuts'[n] = cuts[n]
      /\ DOMAIN cuts = 1..Len(cuts)
  BY <1>1, <1>3
<1>7. cuts' # <<>> /\ cuts'[Len(cuts')][2] = behind
  BY <1>6
<1>8. SplitInv'
  <2>1. start' = Reached'
    BY <1>1, <1>7 DEF Reached
  <2>2. start' <= Len(Type) => Type[start'] = "semicolon"
    BY <1>1, <1>2, <1>4, SplitsWhereEven
  <2> QED
    BY <1>1, <1>2, <2>1, <2>2 DEF SplitInv
<1>9. ASSUME NEW n \in DOMAIN cuts'
      PROVE  /\ cuts'[n][1] = (IF n = 1 THEN 1 ELSE cuts'[n - 1][2]) + 1
             /\ cuts'[n][2] <= Len(Type) => SplitsAt(cuts'[n][1], cuts'[n][2])
             /\ \A k \in cuts'[n][1]..cuts'[n][2] - 1 : ~SplitsAt(cuts'[n][1], k)
  <2>1. CASE n \in 1..Len(cuts)
    <3>1. cuts'[n] = cuts[n] /\ (n # 1 => cuts'[n - 1] = cuts[n - 1])
      BY <1>6, <2>1
    <3>2. /\ cuts[n][1] = (IF n = 1 THEN 1 ELSE cuts[n - 1][2]) + 1
          /\ cuts[n][2] <= Len(Type) => SplitsAt(cuts[n][1], cuts[n][2])
          /\ \A k \in cuts[n][1]..cuts[n][2] - 1 : ~SplitsAt(cuts[n][1], k)
      BY <1>1, <1>6, <2>1 DEF IInv, SegmentsRespectQuotes
    <3> QED
      BY <3>1, <3>2
  <2>2. CASE n = Len(cuts) + 1
    <3>1. cuts'[n][1] = start /\ cuts'[n][2] = behind
      BY <1>6, <2>2
    <3>2. Reached = IF n = 1 THEN 1 ELSE cuts'[n - 1][2]
      <4>1. CASE cuts = <<>>
        BY <2>2, <4>1 DEF Reached
      <4>2. CASE cuts # <<>>
        <5>1. Len(cuts) # 0
          BY <1>1, <4>2
        <5> QED
          BY <1>6, <2>2, <4>2, <5>1 DEF Reached
      <4> QED
        BY <4>1, <4>2
    <3>3. behind <= Len(Type) => SplitsAt(start, behind)
      BY <1>2, <1>4
    <3>4. \A k \in start..behind - 1 : ~SplitsAt(start, k)
      BY <1>2, <1>4 DEF NoSplit
    <3> QED
      BY <1>5, <3>1, <3>2, <3>3, <3>4
  <2> QED
    BY <1>6, <2>1, <2>2
<1>10. SegmentsRespectQuotes'
  <2>1. start' <= Len(Type') => Type'[start'] = "semicolon"
    BY <1>1, <1>8 DEF SplitInv
  <2>2. \A x, y : SplitsAt(x, y)' = SplitsAt(x, y)
    BY <1>1, HeaderStays
  <2>3. ASSUME NEW n \in DOMAIN cuts'
        PROVE  /\ cuts'[n][2] <= Len(Type') => SplitsAt(cuts[n][1], cuts[n][2])'
               /\ \A k \in cuts'[n][1]..cuts'[n][2] - 1 : ~SplitsAt(cuts[n][1], k)'
    BY <1>2, <1>9, <2>2
  <2> QED
    BY <1>9, <2>1, <2>3 DEF SegmentsRespectQuotes
<1> QED
  BY <1>8, <1>10

(* What reads the header touches nothing else. *)
LEMMA HeadingKeepsBody ==
  ASSUME IInv, Heading, Heading', UNCHANGED <<parser, i, search, files, fields>>
  PROVE  StagesInv' /\ PartInv' /\ PartsAreDelimited'
<1>1. encoding' = "unknown" /\ i' = 1 /\ search' = 1 /\ files' = 0 /\ fields' = 0
  BY DEF IInv, StagesInv, parser
<1>2. pc' \in {"params", "quotes", "segment"}
  BY DEF Heading
<1> QED
  BY <1>1, <1>2 DEF StagesInv, PartInv, PartsAreDelimited, Heading

(* A segment begins behind the last semicolon, with no quote counted. *)
LEMMA NextSegmentStep ==
  ASSUME IInv, NextSegment
  PROVE  IInv'
<1>1. /\ UNCHANGED <<request, params, parser, i, part, counts, items, cuts, result>>
      /\ pc = "params" /\ pc' = "quotes" /\ start <= Len(Type)
      /\ start' = start + 1 /\ end' = Find("semicolon", start') /\ ind' = start' /\ diff' = 0
  BY DEF NextSegment, Goto
<1>2. request \in Requests /\ start \in 1..Len(Type) + 1 /\ Len(Type) \in Nat
  BY RequestIsRead DEF IInv, TypeOK, WordsInv
<1>3. Type' = Type /\ Body' = Body /\ Words' = Words
  BY <1>1, HeaderStays
<1>4. Heading /\ Heading'
  BY <1>1 DEF Heading
<1>5. StagesInv' /\ PartInv' /\ PartsAreDelimited'
  BY <1>1, <1>4, HeadingKeepsBody DEF part, counts
<1>6. start' \in 1..Len(Type) + 1 /\ end' \in 0..Len(Type) /\ ind' \in 0..Len(Type) + 1
  BY <1>1, <1>2, FindFinds
<1>7. TypeOK'
  BY <1>1, <1>3, <1>6 DEF IInv, TypeOK, parser, part, counts
<1>8. WordsInv'
  BY <1>1, <1>3 DEF IInv, WordsInv, Segments, parser
<1>9. SegmentsRespectQuotes'
  BY <1>1, <1>3, HeaderStays DEF IInv, SegmentsRespectQuotes, parser
<1> QED
  BY <1>5, <1>7, <1>8, <1>9, NextSegmentKeepsSplits DEF IInv

(* Each turn of the loop adds the quotes up to the next semicolon. *)
LEMMA CountQuotesStep ==
  ASSUME IInv, CountQuotes
  PROVE  IInv'
<1>1. /\ UNCHANGED <<request, start, params, parser, i, part, counts, items, cuts, result>>
      /\ pc = "quotes" /\ pc' \in {"quotes", "segment"}
  BY DEF CountQuotes, Goto
<1>2. /\ request \in Requests /\ start \in 1..Len(Type) + 1 /\ Len(Type) \in Nat
      /\ end \in 0..Len(Type) /\ ind \in 0..Len(Type) + 1 /\ diff \in Int
  BY RequestIsRead DEF IInv, TypeOK, WordsInv
<1>3. Type' = Type /\ Body' = Body /\ Words' = Words
  BY <1>1, HeaderStays
<1>4. Heading /\ Heading'
  BY <1>1 DEF Heading
<1>5. StagesInv' /\ PartInv' /\ PartsAreDelimited'
  BY <1>1, <1>4, HeadingKeepsBody DEF part, counts
<1>6. end' \in 0..Len(Type) /\ ind' \in 0..Len(Type) + 1 /\ diff' \in Int
  <2>1. CASE end = 0
    BY <1>2, <2>1 DEF CountQuotes
  <2>2. CASE end # 0
    <3>1. Quotes(ind, end) \in Int
      <4>1. CASE ind = 0
        BY <1>2, <2>2, <4>1, QuotesOfNothing
      <4>2. CASE ind # 0
        BY <1>2, <2>2, <4>2, QuotesCounts, UnescapedIsFinite
      <4> QED
        BY <4>1, <4>2
    <3>2. ind \in 0..Len(Type)
      <4>1. InOrder \/ Crossed
        BY <1>1 DEF IInv, SplitInv
      <4>2. CASE InOrder
        BY <1>2, <2>2, <4>2, FindFinds DEF InOrder
      <4>3. CASE Crossed
        <5>1. PICK at \in 1..Len(Type) : CrossedAt(at)
          BY <4>3 DEF Crossed
        <5>2. ind = Find("semicolon", at + 1) /\ at + 1 \in Nat \ {0}
          <6>1. ind = Find("semicolon", at + 1)
            BY <5>1, Zenon DEF CrossedAt
          <6> QED
            BY <1>2, <6>1
        <5>3. Find("semicolon", at + 1) \in 0..Len(Type)
          BY <1>2, <5>2, FindFinds
        <5> QED
          BY <5>2, <5>3
      <4> QED
        BY <4>1, <4>2, <4>3
    <3>3. end + 1 \in Nat \ {0}
      BY <1>2
    <3>4. Find("semicolon", end + 1) \in 0..Len(Type)
      BY <1>2, <3>3, FindFinds
    <3>5. /\ diff' = diff + Quotes(ind, end)
          /\ end' \in {end, ind} /\ ind' \in {ind, Find("semicolon", end + 1)}
      BY <2>2 DEF CountQuotes
    <3> QED
      BY <1>2, <3>1, <3>2, <3>4, <3>5
  <2> QED
    BY <2>1, <2>2
<1>7. TypeOK'
  BY <1>1, <1>3, <1>6 DEF IInv, TypeOK, parser, part, counts
<1>8. WordsInv'
  BY <1>1, <1>3 DEF IInv, WordsInv, Segments, parser
<1>9. SegmentsRespectQuotes'
  BY <1>1, <1>3, HeaderStays DEF IInv, SegmentsRespectQuotes, parser
<1> QED
  BY <1>5, <1>7, <1>8, <1>9, CountQuotesKeepsSplits DEF IInv

(* Lower-casing a text of the header gives words of the header. *)
LEMMA LowerKeeps ==
  ASSUME NEW s \in Seq(Symbols)
  PROVE  Lower(s) \in Seq(Words)
<1>1. \A w \in DOMAIN LowerOf : LowerOf[w] \in {"multipart", "boundary"}
  BY DEF LowerOf
<1>2. Len(s) \in Nat /\ DOMAIN s = 1..Len(s) /\ \A k \in 1..Len(s) : s[k] \in Symbols
  OBVIOUS
<1>3. \A k \in 1..Len(s) :
        (IF s[k] \in DOMAIN LowerOf THEN LowerOf[s[k]] ELSE s[k]) \in Words
  BY <1>1, <1>2 DEF Words
<1>4. Lower(s) = [k \in 1..Len(s) |-> IF s[k] \in DOMAIN LowerOf THEN LowerOf[s[k]] ELSE s[k]]
  BY <1>2 DEF Lower
<1> QED
  BY <1>2, <1>3, <1>4, IsASeq

(* The segment that ends at a semicolon outside quotes is kept. *)
LEMMA SegmentStep ==
  ASSUME IInv, Segment
  PROVE  IInv'
<1> DEFINE behind == IF end = 0 THEN Len(Type) + 1 ELSE end
           text == SubSeq(Type, start, behind - 1)
           equals == First(text, {"="}, 1)
           segment == IF equals > Len(text) THEN <<Strip(text)>>
                      ELSE <<Strip(Lower(SubSeq(text, 1, equals - 1))),
                             Strip(SubSeq(text, equals + 1, Len(text)))>>
<1>1. /\ UNCHANGED <<request, end, ind, diff, parser, i, part, counts, items, result>>
      /\ pc = "segment" /\ pc' = "params"
      /\ params' = Append(params, segment) /\ cuts' = Append(cuts, <<start, behind>>)
      /\ start' = behind
  BY DEF Segment, Goto
<1>2. /\ request \in Requests /\ start \in 1..Len(Type) + 1 /\ Len(Type) \in Nat
      /\ end \in 0..Len(Type) /\ Type \in Seq(Symbols)
      /\ params \in Seq(Segments) /\ cuts \in Seq(Nat \X Nat)
      /\ \A n \in DOMAIN cuts : cuts[n][1] <= cuts[n][2]
  BY RequestIsRead DEF IInv, TypeOK, WordsInv
<1>3. behind \in 1..Len(Type) + 1 /\ start <= behind
  BY <1>1, <1>2 DEF IInv, SplitInv
<1>4. Type' = Type /\ Body' = Body /\ Words' = Words
  BY <1>1, HeaderStays
<1>5. StagesInv' /\ PartInv' /\ PartsAreDelimited'
  <2>1. Heading /\ Heading'
    BY <1>1 DEF Heading
  <2> QED
    BY <1>1, <2>1, HeadingKeepsBody DEF part, counts
<1>6. segment \in Segments
  <2>1. behind - 1 \in 0..Len(Type)
    BY <1>2, <1>3
  <2>2. text \in Seq(Symbols) /\ Len(text) \in Nat
    <3> HIDE DEF behind
    <3> QED
      BY <1>2, <2>1, StretchKeeps, LenProperties
  <2>3. equals \in 1..Len(text) + 1
    <3> HIDE DEF text
    <3> QED
      BY <2>2, FirstIsFirst
  <2> HIDE DEF text, equals
  <2>4. Seq(Symbols) \subseteq Seq(Words)
    BY SeqMonotonic DEF Words
  <2>5. CASE equals > Len(text)
    <3>1. Strip(text) \in Seq(Words)
      BY <2>2, <2>4, StripKeeps
    <3>2. \A a \in Seq(Words) : <<a>> \in Segments
      BY DEF Segments
    <3> QED
      BY <2>5, <3>1, <3>2
  <2>6. CASE ~(equals > Len(text))
    <3>1. equals - 1 \in 0..Len(text) /\ equals + 1 \in 1..Len(text) + 1 /\ Len(text) \in 0..Len(text)
          /\ 1 \in 1..Len(text) + 1
      BY <2>2, <2>3, <2>6
    <3>2. SubSeq(text, 1, equals - 1) \in Seq(Symbols)
      BY <2>2, <3>1, StretchKeeps
    <3>3. SubSeq(text, equals + 1, Len(text)) \in Seq(Symbols)
      BY <2>2, <3>1, StretchKeeps
    <3>4. Strip(Lower(SubSeq(text, 1, equals - 1))) \in Seq(Words)
      BY <3>2, LowerKeeps, StripKeeps
    <3>5. Strip(SubSeq(text, equals + 1, Len(text))) \in Seq(Words)
      BY <2>4, <3>3, StripKeeps
    <3>6. \A a, b \in Seq(Words) : <<a, b>> \in Segments
      BY DEF Segments
    <3> QED
      BY <2>6, <3>4, <3>5, <3>6
  <2> QED
    BY <2>5, <2>6
<1>7. params' \in Seq(Segments) /\ cuts' \in Seq(Nat \X Nat)
  <2>1. <<start, behind>> \in Nat \X Nat
    BY <1>2, <1>3
  <2> HIDE DEF segment, behind
  <2> QED
    BY <1>1, <1>2, <1>6, <2>1
<1>8. \A n \in DOMAIN cuts' : cuts'[n][1] <= cuts'[n][2]
  <2>1. /\ DOMAIN cuts = 1..Len(cuts) /\ Len(cuts) \in Nat
        /\ DOMAIN cuts' = 1..Len(cuts) + 1 /\ \A n \in 1..Len(cuts) : cuts'[n] = cuts[n]
        /\ cuts'[Len(cuts) + 1] = <<start, behind>>
    <3> HIDE DEF behind
    <3> QED
      BY <1>1, <1>2
  <2> HIDE DEF behind
  <2>2. <<start, behind>>[1] <= <<start, behind>>[2]
    BY <1>3
  <2>3. \A n \in 1..Len(cuts) : cuts'[n][1] <= cuts'[n][2]
    BY <1>2, <2>1
  <2>4. \A n \in 1..Len(cuts) + 1 : n \in 1..Len(cuts) \/ n = Len(cuts) + 1
    BY <2>1
  <2> QED
    BY <2>1, <2>2, <2>3, <2>4, Zenon
<1>9. TypeOK'
  <2> HIDE DEF behind, segment
  <2> QED
    BY <1>1, <1>3, <1>4, <1>8 DEF IInv, TypeOK, parser, part, counts
<1>10. WordsInv'
  <2> HIDE DEF behind, segment
  <2> QED
    BY <1>1, <1>4, <1>7 DEF IInv, WordsInv, Segments, parser
<1> QED
  BY <1>5, <1>9, <1>10, SegmentKeepsSplits DEF IInv

-------------------------------------------------------------------------------
(* The parser is chosen *)

(* The value of a parameter is made of the symbols of the header. *)
LEMMA ParamKeeps ==
  ASSUME params \in Seq(Segments), NEW key, Param(key) # <<>>
  PROVE  Param(key)[1] \in Seq(Words)
<1> DEFINE with == {k \in 2..Len(params) : params[k][1] = <<key>>}
           last == params[Max(with)]
           value == IF Len(last) = 1 THEN <<>> ELSE Unquoted(last[2])
<1>1. Param(key) = IF with = {} THEN <<>> ELSE <<value>>
  BY Zenon DEF Param
<1>2. with # {} /\ Param(key) = <<value>>
  <2> HIDE DEF with, value
  <2> QED
    BY <1>1
<1>3. last \in Segments
  <2>0. Len(params) \in Nat
    BY LenProperties
  <2>1. with \in SUBSET Nat /\ \A n \in with : n <= Len(params) /\ n \in 1..Len(params)
    BY <2>0
  <2>2. Max(with) \in with
    <3> HIDE DEF with
    <3> QED
      BY <1>2, <2>0, <2>1, MaxIsGreatest
  <2>3. Max(with) \in 1..Len(params)
    <3> HIDE DEF with
    <3> QED
      BY <2>1, <2>2
  <2> HIDE DEF with
  <2> QED
    BY <2>3
<1>4. value \in Seq(Words)
  <2> HIDE DEF last
  <2>1. last \in Seq(Seq(Words)) /\ Len(last) \in {1, 2}
    BY <1>3 DEF Segments
  <2>2. CASE Len(last) = 1
    BY <2>2
  <2>3. CASE Len(last) = 2
    <3>1. 2 \in 1..Len(last)
      BY <2>3
    <3>2. last[2] \in Seq(Words)
      BY <2>1, <3>1, ElementOfSeq, Zenon
    <3> QED
      BY <2>3, <3>2, UnquotedKeeps
  <2> QED
    BY <2>1, <2>2, <2>3
<1> HIDE DEF value
<1> QED
  BY <1>2, <1>4

(* What reads the body leaves the header alone. *)
LEMMA BodyKeepsHeading ==
  ASSUME IInv, request' = request, params' = params, boundary' \in Seq(Words),
         ~Heading', encoding' = "unknown" => cuts' = <<>>,
         cuts' \in Seq(Nat \X Nat)
  PROVE  WordsInv' /\ SplitInv' /\ SegmentsRespectQuotes'
<1>1. Type' = Type /\ Words' = Words
  BY HeaderStays
<1>2. pc' \notin {"params", "quotes", "segment"}
  BY DEF Heading
<1>3. WordsInv'
  BY <1>1 DEF IInv, WordsInv, Segments
<1>4. SplitInv'
  BY <1>2 DEF SplitInv
<1>5. SegmentsRespectQuotes'
  BY <1>2 DEF SegmentsRespectQuotes
<1> QED
  BY <1>3, <1>4, <1>5

(* The parser starts at the front of the body, with nothing counted. *)
LEMMA ChooseParserStep ==
  ASSUME IInv, ChooseParser
  PROVE  IInv'
<1>1. /\ UNCHANGED <<request, scanner, i, part, counts, items>> /\ cuts' = <<>>
      /\ pc = "params" /\ encoding = "unknown" /\ i = 1 /\ search = 1 /\ files = 0 /\ fields = 0
      /\ params \in Seq(Segments) /\ boundary \in Seq(Words)
  BY DEF ChooseParser, IInv, StagesInv, Heading, WordsInv
<1>2. \/ pc' = "urlencoded" /\ encoding' = "urlencoded" /\ boundary' = boundary /\ result' = result
      \/ pc' = "done" /\ encoding' \in {"none", "unknown"} /\ boundary' = boundary
         /\ result' \in {200, 400}
      \/ /\ pc' = "start" /\ encoding' = "multipart" /\ result' = result
         /\ Param("boundary") # <<>> /\ boundary' = Param("boundary")[1]
  BY <1>1, Zenon DEF ChooseParser, Goto, Finish, Reject, parser
<1>3. boundary' \in Seq(Words)
  BY <1>1, <1>2, ParamKeeps
<1>4. ~Heading'
  BY <1>2 DEF Heading
<1>5. cuts' \in Seq(Nat \X Nat)
  BY <1>1
<1>6. WordsInv' /\ SplitInv' /\ SegmentsRespectQuotes'
  BY <1>1, <1>3, <1>4, <1>5, BodyKeepsHeading DEF scanner
<1>7. TypeOK'
  <2>1. Type' = Type /\ Body' = Body
    BY <1>1, HeaderStays
  <2>2. /\ pc' \in {"urlencoded", "start", "done"} /\ result' \in {0, 200, 400, 413}
        /\ encoding' \in {"unknown", "none", "urlencoded", "multipart"}
    BY <1>2 DEF IInv, TypeOK
  <2> QED
    BY <1>1, <2>1, <2>2 DEF IInv, TypeOK, scanner, part, counts
<1>8. StagesInv'
  BY <1>1, <1>2, <1>4 DEF StagesInv, part, counts
<1>9. PartInv' /\ PartsAreDelimited'
  <2>1. pc' \notin {"headers", "data"} /\ DOMAIN cuts' = {}
    BY <1>1, <1>2
  <2> QED
    BY <2>1 DEF PartInv, PartsAreDelimited
<1> QED
  BY <1>6, <1>7, <1>8, <1>9 DEF IInv

-------------------------------------------------------------------------------
(* The body is read *)

(* Nothing that is said of the body changes while request and boundary do  *)
(* not.                                                                    *)
LEMMA BodyStays ==
  ASSUME request' = request, boundary' = boundary
  PROVE  /\ Body' = Body /\ Delimiter' = Delimiter
         /\ \A k : IsBoundaryLine(k)' = IsBoundaryLine(k)
         /\ \A k, two : AreAt(k, two)' = AreAt(k, two)
<1>1. Body' = Body /\ Delimiter' = Delimiter
  BY Zenon DEF Body, Delimiter
<1>2. ASSUME NEW k, NEW two PROVE AreAt(k, two)' = AreAt(k, two)
  BY <1>1, Zenon DEF AreAt, At
<1>3. ASSUME NEW k PROVE IsBoundaryLine(k)' = IsBoundaryLine(k)
  BY <1>1, Zenon DEF IsBoundaryLine, AreAt, At, Occurs
<1> QED
  BY <1>1, <1>2, <1>3, Zenon

(* The end of the parser changes nothing else. *)
LEMMA DoneStep ==
  ASSUME IInv, ~Heading, pc # "done", pc' = "done", result' \in {200, 400, 413},
         UNCHANGED <<request, scanner, parser, i, search, counts, cuts>>,
         count' \in 0..MaxHeaderCount
  PROVE  IInv'
<1>1. Type' = Type /\ Body' = Body
  BY HeaderStays
<1>2. ~Heading' /\ encoding # "unknown"
  BY DEF Heading, IInv, StagesInv, TypeOK
<1>3. boundary' \in Seq(Words) /\ cuts' \in Seq(Nat \X Nat)
  BY DEF IInv, WordsInv, parser
<1>4. WordsInv' /\ SplitInv' /\ SegmentsRespectQuotes'
  BY <1>2, <1>3, BodyKeepsHeading DEF scanner, parser
<1>5. TypeOK'
  BY <1>1 DEF IInv, TypeOK, scanner, parser, counts
<1>6. StagesInv'
  BY <1>2 DEF StagesInv, Heading, parser
<1>7. PartInv'
  BY BodyStays DEF IInv, PartInv, parser
<1>8. PartsAreDelimited'
  BY BodyStays DEF IInv, PartsAreDelimited, parser
<1> QED
  BY <1>4, <1>5, <1>6, <1>7, <1>8 DEF IInv

(* The body is a list, and the scanner is within or just behind it. *)
LEMMA BodyIsRead ==
  ASSUME IInv
  PROVE  /\ Body \in Seq(ToSet(Body)) /\ Len(Body) \in Nat
         /\ i \in 1..Len(Body) + 2 /\ search \in 1..Len(Body) + 2
BY RequestIsRead DEF IInv, WordsInv, TypeOK

(* An urlencoded field ends behind its first byte. *)
LEMMA FieldStep ==
  ASSUME IInv, Field
  PROVE  IInv'
<1>1. /\ UNCHANGED <<request, scanner, parser, part, counts>> /\ i' = Behind(i) + 1
      /\ pc = "urlencoded" /\ i <= Len(Body) + 1
  BY DEF Field
<1>2. \/ pc' = "urlencoded" /\ result' = result /\ cuts' \in {cuts, Append(cuts, <<i, Behind(i)>>)}
      \/ pc' = "done" /\ result' = 413 /\ cuts' = cuts
  BY Zenon DEF Field, Goto, Reject
<1>3. encoding = "urlencoded"
  BY <1>1 DEF IInv, StagesInv
<1>4. Type' = Type /\ Body' = Body
  BY <1>1, HeaderStays
<1>5. Behind(i) \in i..Len(Body) + 1
  BY <1>1, BodyIsRead, FirstIsFirst DEF Behind
<1>6. /\ cuts' \in Seq(Nat \X Nat)
      /\ \A n \in DOMAIN cuts' : cuts'[n][1] <= cuts'[n][2]
  <2>1. cuts \in Seq(Nat \X Nat) /\ \A n \in DOMAIN cuts : cuts[n][1] <= cuts[n][2]
    BY DEF IInv, WordsInv, TypeOK
  <2>2. CASE cuts' = cuts
    BY <2>1, <2>2
  <2>3. CASE cuts' = Append(cuts, <<i, Behind(i)>>)
    BY <1>5, <2>1, <2>3, BodyIsRead, CutIsAdded
  <2> QED
    BY <1>2, <2>2, <2>3
<1>7. ~Heading'
  BY <1>2 DEF Heading
<1>8. WordsInv' /\ SplitInv' /\ SegmentsRespectQuotes'
  <2>1. boundary' \in Seq(Words) /\ encoding' # "unknown" /\ params' = params
    BY <1>1, <1>3 DEF IInv, WordsInv, parser, scanner
  <2> QED
    BY <1>1, <1>6, <1>7, <2>1, BodyKeepsHeading
<1>9. TypeOK'
  <2>1. i' \in 1..Len(Body) + 2
    BY <1>1, <1>5, BodyIsRead
  <2>2. pc' \in {"urlencoded", "done"} /\ result' \in {0, 200, 400, 413}
    <3>1. result \in {0, 200, 400, 413}
      BY DEF IInv, TypeOK
    <3> QED
      BY <1>2, <3>1
  <2> QED
    BY <1>1, <1>4, <1>6, <2>1, <2>2 DEF IInv, TypeOK, scanner, parser, part, counts
<1>10. StagesInv' /\ PartInv' /\ PartsAreDelimited'
  <2>1. encoding' = "urlencoded" /\ pc' \in {"urlencoded", "done"}
    BY <1>1, <1>2, <1>3 DEF parser
  <2> QED
    BY <1>7, <2>1 DEF StagesInv, PartInv, PartsAreDelimited
<1> QED
  BY <1>8, <1>9, <1>10 DEF IInv

(* Only the first symbol of the delimiter is a CR. *)
LEMMA DelimiterHasOneCR ==
  ASSUME WordsInv
  PROVE  /\ Len(Delimiter) \in Nat /\ Len(Delimiter) >= 4 /\ DOMAIN Delimiter = 1..Len(Delimiter)
         /\ Delimiter[1] = "CR" /\ Delimiter[2] = "LF"
         /\ \A n \in 2..Len(Delimiter) : Delimiter[n] # "CR"
<1> DEFINE S == Words \cup {"CR", "LF", "-"}
           head == CRLF \o Dashes
<1>1. boundary \in Seq(Words) /\ "CR" \notin Words /\ Len(boundary) \in Nat
      /\ \A n \in 1..Len(boundary) : boundary[n] \in Words
  BY RequestIsRead, LenProperties, ElementOfSeq DEF WordsInv
<1>2. boundary \in Seq(S)
  BY <1>1, SeqMonotonic
<1>3. /\ head \in Seq(S) /\ Len(head) = 4
      /\ head[1] = "CR" /\ head[2] = "LF" /\ head[3] = "-" /\ head[4] = "-"
  <2>1. /\ CRLF \in Seq(S) /\ Dashes \in Seq(S) /\ Len(CRLF) = 2 /\ Len(Dashes) = 2
        /\ CRLF[1] = "CR" /\ CRLF[2] = "LF" /\ Dashes[1] = "-" /\ Dashes[2] = "-"
    BY DEF CRLF, Dashes
  <2> HIDE DEF S
  <2>2. /\ CRLF \o Dashes \in Seq(S) /\ Len(CRLF \o Dashes) = Len(CRLF) + Len(Dashes)
        /\ \A n \in 1..Len(CRLF) + Len(Dashes) : (CRLF \o Dashes)[n] =
             IF n <= Len(CRLF) THEN CRLF[n] ELSE Dashes[n - Len(CRLF)]
    BY <2>1, ConcatProperties, Zenon
  <2>3. \A n \in {1, 2, 3, 4} : n \in 1..2 + 2
    OBVIOUS
  <2> QED
    BY <2>1, <2>2, <2>3
<1> HIDE DEF S, head
<1>4. /\ Delimiter \in Seq(S) /\ Len(Delimiter) = Len(head) + Len(boundary)
      /\ \A n \in 1..Len(head) + Len(boundary) :
           Delimiter[n] = IF n <= Len(head) THEN head[n] ELSE boundary[n - Len(head)]
  <2>1. Delimiter = head \o boundary
    BY Zenon DEF Delimiter, head
  <2> QED
    BY <1>2, <1>3, <2>1, ConcatProperties, Zenon
<1>5. /\ Len(Delimiter) = 4 + Len(boundary)
      /\ \A n \in 1..4 + Len(boundary) :
           Delimiter[n] = IF n <= 4 THEN head[n] ELSE boundary[n - 4]
  BY <1>3, <1>4
<1>6. ASSUME NEW n \in 2..Len(Delimiter) PROVE Delimiter[n] # "CR"
  <2>1. CASE n <= 4
    <3>1. n \in {2, 3, 4} /\ Delimiter[n] = head[n]
      BY <1>1, <1>5, <2>1
    <3> QED
      BY <1>3, <3>1
  <2>2. CASE n > 4
    <3>1. Delimiter[n] = boundary[n - 4] /\ n - 4 \in 1..Len(boundary)
      BY <1>1, <1>5, <2>2
    <3> QED
      BY <1>1, <3>1
  <2> QED
    BY <1>1, <1>5, <2>1, <2>2
<1>7. /\ Len(Delimiter) \in Nat /\ Len(Delimiter) >= 4 /\ DOMAIN Delimiter = 1..Len(Delimiter)
  BY <1>1, <1>4, <1>5, LenProperties
<1>8. Delimiter[1] = "CR" /\ Delimiter[2] = "LF"
  BY <1>1, <1>3, <1>5
<1> QED
  BY <1>6, <1>7, <1>8

(* What PartsAreDelimited says of one part. *)
Delimited(n) ==
  /\ AreAt(cuts[n][1] - 2, CRLF) /\ IsBoundaryLine(cuts[n][2])
  /\ \A k \in cuts[n][1]..cuts[n][2] - 1 : ~IsBoundaryLine(k)
  /\ n > 1 => cuts[n][1] >= cuts[n - 1][2] + Len(Delimiter) + 2

(* A step within the parts that adds no item keeps the invariant if it     *)
(* goes forward and its search passes no boundary line.                    *)
LEMMA MultipartStep ==
  ASSUME IInv, encoding = "multipart", UNCHANGED <<request, scanner, parser, cuts>>,
         i' \in i..Len(Body) + 2, search' \in 1..Len(Body) + 2,
         pc' \in {"headers", "data", "done"}, result' \in {0, 200, 400, 413},
         files' \in 0..Len(Body), fields' \in 0..Len(Body), count' \in 0..MaxHeaderCount,
         pc' # "done" => files' + fields' + 3 <= i',
         pc' = "data" => /\ AreAt(i' - 2, CRLF) /\ i' <= search'
                         /\ \A k \in i'..search' - 1 : ~IsBoundaryLine(k)
  PROVE  IInv'
<1>1. Type' = Type /\ Body' = Body
  BY HeaderStays
<1>2. Delimiter' = Delimiter /\ \A k : IsBoundaryLine(k)' = IsBoundaryLine(k)
      /\ \A n, two : AreAt(n, two)' = AreAt(n, two)
  BY BodyStays DEF parser
<1>3. ~Heading' /\ encoding' = "multipart" /\ Len(Body) \in Nat /\ i \in Nat
  BY BodyIsRead DEF Heading, parser
<1>4. boundary' \in Seq(Words) /\ cuts' \in Seq(Nat \X Nat)
  BY DEF IInv, WordsInv, parser
<1>5. WordsInv' /\ SplitInv' /\ SegmentsRespectQuotes'
  BY <1>3, <1>4, BodyKeepsHeading DEF scanner, parser
<1>6. TypeOK'
  BY <1>1, <1>3 DEF IInv, TypeOK, scanner, parser
<1>7. StagesInv'
  BY <1>3 DEF StagesInv, Heading
<1>8. PartInv'
  <2>1. Len(Delimiter) \in Nat
    BY DelimiterHasOneCR DEF IInv
  <2>2. \A n \in DOMAIN cuts : i >= cuts[n][2] + Len(Delimiter) + 2 /\ cuts[n][2] \in Nat
    BY DEF IInv, PartInv, WordsInv
  <2>3. ASSUME NEW n \in DOMAIN cuts PROVE i' >= cuts[n][2] + Len(Delimiter) + 2
    <3> DEFINE least == cuts[n][2] + Len(Delimiter) + 2
    <3>1. least \in Nat /\ i >= least
      BY <2>1, <2>2
    <3> HIDE DEF least
    <3>2. i' >= least
      BY <1>3, <3>1
    <3> QED
      BY <3>2 DEF least
  <2>4. cuts' = cuts /\ Delimiter' = Delimiter
    BY <1>2 DEF scanner
  <2>5. \A n \in DOMAIN cuts' : i' >= cuts'[n][2] + Len(Delimiter') + 2
    BY <2>3, <2>4
  <2>6. pc' = "data" => AreAt(i - 2, CRLF)' /\ i' <= search'
    BY <1>2
  <2>7. pc' \in {"headers", "data"} => files' + fields' + 3 <= i'
    OBVIOUS
  <2> QED
    BY <2>5, <2>6, <2>7 DEF PartInv
<1>9. PartsAreDelimited'
  <2>1. \A n \in DOMAIN cuts : Delimited(n)
    BY DEF IInv, PartsAreDelimited, Delimited
  <2>2. cuts' = cuts
    OBVIOUS
  <2>3. pc' = "data" => \A k \in i'..search' - 1 : ~IsBoundaryLine(k)'
    BY <1>2
  <2>4. \A n \in DOMAIN cuts' : Delimited(n)'
    BY <1>2, <2>1, <2>2 DEF Delimited
  <2> QED
    BY <2>3, <2>4, Zenon DEF PartsAreDelimited, Delimited
<1> QED
  BY <1>5, <1>6, <1>7, <1>8, <1>9 DEF IInv

(* The first symbol outside a set, as long as there is one. *)
LEMMA FirstOutside ==
  ASSUME NEW skipped, NEW from \in Nat \ {0}, NEW to \in Nat, from <= to, At(to) \notin skipped
  PROVE  \E k \in from..to : At(k) \notin skipped /\ \A j \in from..k - 1 : At(j) \in skipped
<1> DEFINE outside == {k \in from..to : At(k) \notin skipped}
<1>1. outside \in SUBSET Nat /\ to \in outside
  OBVIOUS
<1>2. Min(outside) \in outside /\ \A n \in outside : Min(outside) <= n
  <2> HIDE DEF outside
  <2> QED
    BY <1>1, MinIsLeast
<1>3. PICK k \in from..to : At(k) \notin skipped /\ \A n \in outside : k <= n
  BY <1>2
<1>4. ASSUME NEW j \in from..k - 1 PROVE At(j) \in skipped
  <2>1. j \in from..to /\ j \notin outside
    BY <1>3
  <2> QED
    BY <2>1
<1> QED
  BY <1>3, <1>4

(* The first part begins behind the first boundary line. *)
LEMMA StartStep ==
  ASSUME IInv, Start
  PROVE  IInv'
<1> DEFINE line  == Dashes \o boundary
           Leads(k) == At(k) \notin {"CR", "LF"} /\ \A j \in 1..k - 1 : At(j) \in {"CR", "LF"}
           first == CHOOSE k \in 1..Len(Body) + 1 : Leads(k)
           after == first + Len(line)
<1>1. /\ UNCHANGED <<request, scanner, parser, part, counts, items, cuts>> /\ pc = "start"
  BY DEF Start
<1>2. /\ encoding = "multipart" /\ i = 1 /\ search = 1 /\ files = 0 /\ fields = 0 /\ cuts = <<>>
      /\ Len(Body) \in Nat /\ boundary \in Seq(Words) /\ count \in 0..MaxHeaderCount
      /\ result \in {0, 200, 400, 413}
  BY <1>1, BodyIsRead DEF IInv, StagesInv, WordsInv, TypeOK
<1>3. \/ pc' = "done" /\ result' \in {200, 400} /\ i' = i
      \/ pc' = "headers" /\ result' = result /\ AreAt(after, CRLF) /\ i' = after + 2
  BY Zenon DEF Start, Goto, Finish, Reject
<1>4. CASE pc' = "done"
  <2>1. i' = i /\ result' \in {200, 400}
    BY <1>3, <1>4
  <2> QED
    BY <1>1, <1>2, <1>4, <2>1, DoneStep DEF Heading, part, counts
<1>5. CASE pc' = "headers"
  <2>1. first \in 1..Len(Body) + 1
    <3>1. At(Len(Body) + 1) \notin {"CR", "LF"}
      BY <1>2 DEF At
    <3>2. Len(Body) + 1 \in Nat /\ 1 <= Len(Body) + 1 /\ 1 \in Nat \ {0}
      BY <1>2
    <3>3. \E k \in 1..Len(Body) + 1 : Leads(k)
      BY <3>1, <3>2, FirstOutside, Zenon
    <3> HIDE DEF Leads
    <3> QED
      BY <3>3
  <2>2. Len(line) \in Nat /\ Len(line) >= 2
    <3>1. Dashes \in Seq({"-"}) /\ Len(Dashes) = 2
      BY DEF Dashes
    <3>2. Dashes \in Seq(Words \cup {"-"}) /\ boundary \in Seq(Words \cup {"-"})
      BY <1>2, <3>1, SeqMonotonic
    <3>3. Len(line) = Len(Dashes) + Len(boundary)
      BY <3>2, ConcatProperties, Zenon
    <3>4. Len(boundary) \in Nat
      BY <1>2, LenProperties
    <3> QED
      BY <3>1, <3>3, <3>4
  <2> HIDE DEF first, line
  <2>3. AreAt(after, CRLF) /\ i' = after + 2 /\ result' = result
    BY <1>3, <1>5
  <2>4. after + 1 <= Len(Body)
    <3>1. At(after + 1) = "LF"
      BY <2>3 DEF AreAt, CRLF
    <3> QED
      BY <1>2, <2>1, <2>2, <3>1 DEF At
  <2>5. i' \in i..Len(Body) + 2 /\ 3 <= i'
    BY <1>2, <2>1, <2>2, <2>3, <2>4
  <2>6. files' = 0 /\ fields' = 0 /\ search' = 1 /\ count' = count
    BY <1>1, <1>2 DEF part, counts
  <2> QED
    BY <1>1, <1>2, <1>5, <2>3, <2>5, <2>6, MultipartStep
<1> QED
  BY <1>3, <1>4, <1>5

(* A header line ends behind its first byte. *)
LEMMA HeaderStep ==
  ASSUME IInv, Header
  PROVE  IInv'
<1> DEFINE colon == First(Body, {":"}, i)
           Begins(k) == At(k) # "space" /\ \A j \in colon + 1..k - 1 : At(j) = "space"
           value == CHOOSE k \in colon + 1..Len(Body) + 2 : Begins(k)
           cr    == First(Body, {"CR"}, value)
<1>1. /\ UNCHANGED <<request, scanner, parser, search, counts, items, cuts>>
      /\ pc = "headers"
  BY DEF Header
<1>2. /\ encoding = "multipart" /\ files + fields + 3 <= i
      /\ Len(Body) \in Nat /\ Body \in Seq(ToSet(Body)) /\ i \in 1..Len(Body) + 2
      /\ search \in 1..Len(Body) + 2 /\ result \in {0, 200, 400, 413}
      /\ count \in 0..MaxHeaderCount /\ files \in 0..Len(Body) /\ fields \in 0..Len(Body)
  BY <1>1, BodyIsRead DEF IInv, StagesInv, PartInv, TypeOK
<1>3. colon \in 1..Len(Body) + 1 /\ (colon <= Len(Body) => colon >= i)
  BY <1>2, FirstIsFirst
<1>4. value \in colon + 1..Len(Body) + 2
  <2> HIDE DEF colon
  <2>1. At(Len(Body) + 2) \notin {"space"}
    BY <1>2 DEF At
  <2>2. Len(Body) + 2 \in Nat /\ colon + 1 <= Len(Body) + 2 /\ colon + 1 \in Nat \ {0}
    BY <1>2, <1>3
  <2>3. \E k \in colon + 1..Len(Body) + 2 :
          At(k) \notin {"space"} /\ \A j \in colon + 1..k - 1 : At(j) \in {"space"}
    BY <2>1, <2>2, FirstOutside, Zenon
  <2>4. \E k \in colon + 1..Len(Body) + 2 : Begins(k)
    BY <2>3
  <2> HIDE DEF Begins
  <2> QED
    BY <2>4
<1> HIDE DEF value
<1>5. cr \in 1..Len(Body) + 1 /\ (cr <= Len(Body) => cr >= value)
  <2>1. value \in Nat \ {0}
    BY <1>2, <1>3, <1>4
  <2> QED
    BY <1>2, <2>1, FirstIsFirst
<1>6. \/ pc' = "done" /\ result' \in {200, 400} /\ i' = i /\ count' = count
      \/ /\ pc' = "headers" /\ result' = result /\ i' = cr + 2 /\ count' = count + 1
         /\ ~(count + 1 > MaxHeaderCount) /\ ~(colon > Len(Body)) /\ ~(cr > Len(Body))
  BY Zenon DEF Header, Goto, Finish, Reject, value
<1> HIDE DEF colon, cr
<1>7. CASE pc' = "done"
  <2>1. result' \in {200, 400} /\ i' = i /\ count' = count
    BY <1>6, <1>7
  <2> QED
    BY <1>1, <1>2, <1>7, <2>1, DoneStep DEF Heading
<1>8. CASE pc' = "headers"
  <2>1. /\ result' = result /\ i' = cr + 2 /\ count' = count + 1
        /\ ~(count + 1 > MaxHeaderCount) /\ ~(colon > Len(Body)) /\ ~(cr > Len(Body))
    BY <1>6, <1>8
  <2>2. count' \in 0..MaxHeaderCount
    BY <1>2, <2>1, FormLimitsAssumption
  <2>3. i' \in i..Len(Body) + 2
    BY <1>2, <1>3, <1>4, <1>5, <2>1
  <2>4. files' + fields' + 3 <= i'
    BY <1>1, <1>2, <2>3 DEF counts
  <2> QED
    BY <1>1, <1>2, <1>8, <2>1, <2>2, <2>3, <2>4, MultipartStep DEF counts
<1> QED
  BY <1>6, <1>7, <1>8

(* The part is counted, and its data begins behind the empty line. *)
LEMMA HeadersEndStep ==
  ASSUME IInv, HeadersEnd
  PROVE  IInv'
<1>1. /\ UNCHANGED <<request, scanner, parser, count, disposition, contentType, items, cuts>>
      /\ pc = "headers" /\ At(i) = "CR" /\ i' = i + 2 /\ search' = i + 2
  BY DEF HeadersEnd
<1>2. /\ encoding = "multipart" /\ files + fields + 3 <= i
      /\ Len(Body) \in Nat /\ i \in 1..Len(Body) + 2
      /\ search \in 1..Len(Body) + 2 /\ result \in {0, 200, 400, 413}
      /\ count \in 0..MaxHeaderCount /\ files \in 0..Len(Body) /\ fields \in 0..Len(Body)
  BY <1>1, BodyIsRead DEF IInv, StagesInv, PartInv, TypeOK
<1>3. \/ files' = files + 1 /\ fields' = fields
      \/ files' = files /\ fields' = fields + 1
      \/ files' = files /\ fields' = fields
  BY Zenon DEF HeadersEnd
<1>4. \/ pc' = "done" /\ result' \in {400, 413}
      \/ pc' = "data" /\ result' = result /\ AreAt(i, CRLF)
  BY Zenon DEF HeadersEnd, Goto, Reject
<1>5. i <= Len(Body)
  BY <1>1, <1>2 DEF At
<1>6. /\ files' \in 0..Len(Body) /\ fields' \in 0..Len(Body) /\ files' + fields' + 3 <= i'
      /\ i' \in i..Len(Body) + 2 /\ search' \in 1..Len(Body) + 2 /\ i' <= search'
      /\ i' - 2 = i /\ search' - 1 < i'
  BY <1>1, <1>2, <1>3, <1>5
<1>7. pc' = "data" => AreAt(i' - 2, CRLF) /\ \A k \in i'..search' - 1 : ~IsBoundaryLine(k)
  <2>1. \A k \in i'..search' - 1 : FALSE
    <3>1. i \in Int
      BY <1>2
    <3>2. \A m \in Int : m + 2..(m + 2) - 1 = {}
      OBVIOUS
    <3>3. i'..search' - 1 = {}
      BY <1>1, <3>1, <3>2, Zenon
    <3> QED
      BY <3>3, Zenon
  <2> QED
    BY <1>4, <1>6, <2>1
<1>8. pc' \in {"headers", "data", "done"} /\ result' \in {0, 200, 400, 413} /\ count' = count
  BY <1>1, <1>2, <1>4
<1> QED
  BY <1>1, <1>2, <1>6, <1>7, <1>8, MultipartStep

(* The delimiter that is found is the first at or behind the search. *)
LEMMA FoundIsFirst ==
  ASSUME IInv, Found <= Len(Body)
  PROVE  /\ Found \in search..Len(Body) /\ Found + Len(Delimiter) <= Len(Body) + 1
         /\ \A n \in DOMAIN Delimiter : At(Found + n - 1) = Delimiter[n]
         /\ AreAt(Found, CRLF) /\ Occurs(Body, Delimiter, Found)
         /\ \A k \in search..Found - 1 : ~IsBoundaryLine(k)
<1> DEFINE found == {at \in search..Len(Body) : At(at) = "CR" /\ Occurs(Body, Delimiter, at)}
<1>1. Len(Body) \in Nat /\ search \in 1..Len(Body) + 2
  BY BodyIsRead
<1>2. Found = IF found = {} THEN Len(Body) + 1 ELSE Min(found)
  BY Zenon DEF Found, DelimiterFrom
<1>3. found # {} /\ Found = Min(found)
  <2> HIDE DEF found
  <2> QED
    BY <1>1, <1>2
<1>4. found \in SUBSET Nat
  BY <1>1
<1>5. Found \in found /\ \A at \in found : Found <= at
  <2> HIDE DEF found
  <2> QED
    BY <1>3, <1>4, MinIsLeast
<1>6. Found \in search..Len(Body) /\ Occurs(Body, Delimiter, Found)
  BY <1>5
<1>7. /\ Len(Delimiter) \in Nat /\ Len(Delimiter) >= 4 /\ DOMAIN Delimiter = 1..Len(Delimiter)
      /\ Delimiter[1] = "CR" /\ Delimiter[2] = "LF"
  BY DelimiterHasOneCR DEF IInv
<1>8. /\ Found + Len(Delimiter) <= Len(Body) + 1
      /\ \A n \in DOMAIN Delimiter : Body[Found + n - 1] = Delimiter[n]
  BY <1>6 DEF Occurs
<1>9. \A n \in DOMAIN Delimiter : At(Found + n - 1) = Delimiter[n]
  BY <1>1, <1>6, <1>7, <1>8 DEF At
<1>10. AreAt(Found, CRLF)
  <2>1. 1 \in DOMAIN Delimiter /\ 2 \in DOMAIN Delimiter
    BY <1>7
  <2>2. At(Found + 1 - 1) = "CR" /\ At(Found + 2 - 1) = "LF"
    BY <1>7, <1>9, <2>1
  <2>3. Found + 1 - 1 = Found /\ Found + 2 - 1 = Found + 1
    BY <1>1, <1>6
  <2> QED
    BY <2>2, <2>3 DEF AreAt, CRLF
<1>11. ASSUME NEW k \in search..Found - 1 PROVE ~IsBoundaryLine(k)
  <2>1. k \in search..Len(Body) /\ ~(Found <= k)
    BY <1>1, <1>6
  <2>2. k \notin found
    <3> HIDE DEF found
    <3> QED
      BY <1>5, <2>1
  <2>3. ~(At(k) = "CR" /\ Occurs(Body, Delimiter, k))
    BY <2>1, <2>2
  <2> QED
    BY <2>3 DEF IsBoundaryLine, AreAt, CRLF
<1> QED
  BY <1>6, <1>8, <1>9, <1>10, <1>11

(* What was taken for a delimiter hides no boundary line, so the search    *)
(* may go on behind it.                                                    *)
LEMMA NotADelimiterStep ==
  ASSUME IInv, NotADelimiter
  PROVE  IInv'
<1>1. /\ UNCHANGED <<request, pc, result, scanner, parser, i, count, disposition, contentType,
                     counts, items, cuts>>
      /\ pc = "data" /\ Found <= Len(Body) /\ ~EndsBefore(After, {"CR", "-"})
      /\ ~AreAt(After, CRLF) /\ ~AreAt(After, Dashes)
      /\ search' = IF At(After) \in {"CR", "-"} THEN After + 1 ELSE After
  BY DEF NotADelimiter
<1>2. /\ encoding = "multipart" /\ files + fields + 3 <= i /\ i <= search /\ AreAt(i - 2, CRLF)
      /\ Len(Body) \in Nat /\ i \in 1..Len(Body) + 2
      /\ search \in 1..Len(Body) + 2 /\ result \in {0, 200, 400, 413}
      /\ count \in 0..MaxHeaderCount /\ files \in 0..Len(Body) /\ fields \in 0..Len(Body)
  BY <1>1, BodyIsRead DEF IInv, StagesInv, PartInv, TypeOK
<1>3. \A k \in i..search - 1 : ~IsBoundaryLine(k)
  BY <1>1, <1>2 DEF IInv, PartsAreDelimited
<1>4. /\ Len(Delimiter) \in Nat /\ Len(Delimiter) >= 4 /\ DOMAIN Delimiter = 1..Len(Delimiter)
      /\ \A n \in 2..Len(Delimiter) : Delimiter[n] # "CR"
  BY DelimiterHasOneCR DEF IInv
<1>5. /\ Found \in search..Len(Body) /\ Found + Len(Delimiter) <= Len(Body) + 1
      /\ \A n \in DOMAIN Delimiter : At(Found + n - 1) = Delimiter[n]
      /\ \A k \in search..Found - 1 : ~IsBoundaryLine(k)
  BY <1>1, FoundIsFirst
<1>6. After = Found + Len(Delimiter)
  BY DEF After
<1>7. search' \in i..Len(Body) + 2 /\ search' \in {After, After + 1}
  BY <1>1, <1>2, <1>4, <1>5, <1>6
<1>8. \A k : IsBoundaryLine(k) => At(k) = "CR" /\ AreAt(k, CRLF)
  BY DEF IsBoundaryLine, AreAt, CRLF
<1>9. ~IsBoundaryLine(Found)
  BY <1>1, <1>6 DEF IsBoundaryLine
<1>10. ASSUME NEW k \in Found + 1..After - 1 PROVE ~IsBoundaryLine(k)
  <2>1. k - Found + 1 \in 2..Len(Delimiter) /\ Found + (k - Found + 1) - 1 = k
    BY <1>2, <1>4, <1>5, <1>6
  <2>2. At(k) = Delimiter[k - Found + 1]
    BY <1>4, <1>5, <2>1
  <2> QED
    BY <1>4, <1>8, <2>1, <2>2
<1>11. ~IsBoundaryLine(After)
  BY <1>1, <1>8
<1>12. ASSUME NEW k \in i..search' - 1 PROVE ~IsBoundaryLine(k)
  <2>1. \/ k \in i..search - 1 \/ k \in search..Found - 1 \/ k = Found
        \/ k \in Found + 1..After - 1 \/ k = After
    <3>1. /\ i \in Int /\ search \in Int /\ Found \in Int /\ After \in Int
          /\ search' = After \/ search' = After + 1
      BY <1>2, <1>4, <1>5, <1>6, <1>7
    <3>2. CASE search' = After
      <4>1. k \in i..After - 1
        BY <3>2
      <4> QED
        BY <3>1, <4>1
    <3>3. CASE search' = After + 1
      <4>1. k \in i..(After + 1) - 1
        BY <3>3
      <4> QED
        BY <3>1, <4>1
    <3> QED
      BY <3>1, <3>2, <3>3
  <2> QED
    BY <1>3, <1>5, <1>9, <1>10, <1>11, <2>1
<1>13. /\ i' = i /\ i' \in i..Len(Body) + 2 /\ search' \in 1..Len(Body) + 2 /\ i' <= search'
       /\ files' = files /\ fields' = fields /\ files' + fields' + 3 <= i'
  BY <1>1, <1>2, <1>7 DEF counts
<1>14. AreAt(i' - 2, CRLF) /\ \A k \in i'..search' - 1 : ~IsBoundaryLine(k)
  BY <1>2, <1>12, <1>13
<1> QED
  BY <1>1, <1>2, <1>13, <1>14, MultipartStep

(* The part ends at the first boundary line behind its headers. *)
LEMMA PartEndsStep ==
  ASSUME IInv, PartEnds
  PROVE  IInv'
<1>1. /\ UNCHANGED <<request, scanner, parser, search, counts>>
      /\ pc = "data" /\ Found <= Len(Body) /\ (AreAt(After, CRLF) \/ AreAt(After, Dashes))
      /\ i' = After + 2 /\ count' = 0
  BY DEF PartEnds
<1>2. /\ pc' \in {"headers", "done"} /\ result' \in {result, 200, 413}
      /\ cuts' \in {cuts, Append(cuts, <<i, Found>>)}
  BY Zenon DEF PartEnds, Goto, Finish, Reject
<1>3. /\ encoding = "multipart" /\ files + fields + 3 <= i /\ i <= search /\ AreAt(i - 2, CRLF)
      /\ Len(Body) \in Nat /\ i \in 1..Len(Body) + 2
      /\ search \in 1..Len(Body) + 2 /\ result \in {0, 200, 400, 413}
      /\ files \in 0..Len(Body) /\ fields \in 0..Len(Body)
      /\ cuts \in Seq(Nat \X Nat) /\ \A n \in DOMAIN cuts : cuts[n][1] <= cuts[n][2]
  BY <1>1, BodyIsRead DEF IInv, StagesInv, PartInv, TypeOK, WordsInv
<1>4. Len(Delimiter) \in Nat
  BY DelimiterHasOneCR DEF IInv
<1>5. /\ Found \in search..Len(Body) /\ After = Found + Len(Delimiter)
      /\ AreAt(Found, CRLF) /\ Occurs(Body, Delimiter, Found)
      /\ \A k \in search..Found - 1 : ~IsBoundaryLine(k)
  BY <1>1, FoundIsFirst DEF After
<1>6. After + 1 <= Len(Body)
  <2>1. At(After + 1) \in {"LF", "-"}
    BY <1>1 DEF AreAt, CRLF, Dashes
  <2>2. After \in Int
    BY <1>3, <1>4, <1>5
  <2> QED
    BY <1>3, <2>1, <2>2 DEF At
<1>7. IsBoundaryLine(Found)
  BY <1>1, <1>5 DEF IsBoundaryLine
<1>8. \A k \in i..Found - 1 : ~IsBoundaryLine(k)
  <2>1. \A k \in i..search - 1 : ~IsBoundaryLine(k)
    BY <1>1, <1>3 DEF IInv, PartsAreDelimited
  <2>2. \A k \in i..Found - 1 : k \in i..search - 1 \/ k \in search..Found - 1
    BY <1>3, <1>5
  <2> QED
    BY <1>5, <2>1, <2>2
<1>9. /\ i \in Nat /\ Found \in Nat /\ i <= Found /\ i <= i'
      /\ i' = Found + Len(Delimiter) + 2 /\ i' \in 1..Len(Body) + 2
  BY <1>1, <1>3, <1>4, <1>5, <1>6
<1>0. /\ Append(cuts, <<i, Found>>) \in Seq(Nat \X Nat)
      /\ \A n \in DOMAIN Append(cuts, <<i, Found>>) :
           Append(cuts, <<i, Found>>)[n][1] <= Append(cuts, <<i, Found>>)[n][2]
      /\ DOMAIN Append(cuts, <<i, Found>>) = 1..Len(cuts) + 1
      /\ DOMAIN cuts = 1..Len(cuts) /\ Len(cuts) \in Nat
      /\ \A n \in 1..Len(cuts) : Append(cuts, <<i, Found>>)[n] = cuts[n]
      /\ Append(cuts, <<i, Found>>)[Len(cuts) + 1] = <<i, Found>>
  <2>1. cuts \in Seq(Nat \X Nat) /\ \A n \in DOMAIN cuts : cuts[n][1] <= cuts[n][2]
    BY <1>3
  <2>2. i \in Nat /\ Found \in Nat /\ i <= Found
    BY <1>9
  <2> QED
    BY <2>1, <2>2, CutIsAdded, Zenon
<1>10. /\ cuts' \in Seq(Nat \X Nat) /\ \A n \in DOMAIN cuts' : cuts'[n][1] <= cuts'[n][2]
       /\ DOMAIN cuts = 1..Len(cuts) /\ Len(cuts) \in Nat
       /\ \A n \in 1..Len(cuts) : cuts'[n] = cuts[n]
  <2>1. CASE cuts' = cuts
    <3>1. DOMAIN cuts = 1..Len(cuts) /\ Len(cuts) \in Nat
      BY <1>3, LenProperties
    <3>2. cuts \in Seq(Nat \X Nat) /\ \A n \in DOMAIN cuts : cuts[n][1] <= cuts[n][2]
      BY <1>3
    <3> QED
      BY <2>1, <3>1, <3>2, Zenon
  <2>2. CASE cuts' = Append(cuts, <<i, Found>>)
    BY <1>0, <2>2, Zenon
  <2> QED
    BY <1>2, <2>1, <2>2
<1>11. \A n \in DOMAIN cuts' :
         n \in DOMAIN cuts \/ (n = Len(cuts) + 1 /\ cuts'[n] = <<i, Found>>)
  <2>1. CASE cuts' = cuts
    BY <2>1, Zenon
  <2>2. CASE cuts' = Append(cuts, <<i, Found>>)
    <3>1. /\ DOMAIN cuts' = 1..Len(cuts) + 1 /\ DOMAIN cuts = 1..Len(cuts) /\ Len(cuts) \in Nat
          /\ cuts'[Len(cuts) + 1] = <<i, Found>>
      BY <1>0, <2>2, Zenon
    <3>2. \A n \in 1..Len(cuts) + 1 : n \in 1..Len(cuts) \/ n = Len(cuts) + 1
      BY <3>1
    <3> QED
      BY <3>1, <3>2, Zenon
  <2> QED
    BY <1>2, <2>1, <2>2
<1>12. \A n \in DOMAIN cuts : cuts[n][2] \in Nat /\ i >= cuts[n][2] + Len(Delimiter) + 2
  BY <1>3 DEF IInv, PartInv
<1>13. /\ Type' = Type /\ Body' = Body /\ Delimiter' = Delimiter
       /\ \A k : IsBoundaryLine(k)' = IsBoundaryLine(k)
       /\ \A k, two : AreAt(k, two)' = AreAt(k, two)
  BY <1>1, HeaderStays, BodyStays DEF parser
<1>14. ~Heading' /\ encoding' = "multipart"
  BY <1>1, <1>2, <1>3 DEF Heading, parser
<1>15. WordsInv' /\ SplitInv' /\ SegmentsRespectQuotes'
  <2>1. boundary' \in Seq(Words) /\ params' = params
    BY <1>1 DEF IInv, WordsInv, parser, scanner
  <2> QED
    BY <1>1, <1>10, <1>14, <2>1, BodyKeepsHeading
<1>16. TypeOK'
  <2>1. pc' \in {"headers", "done"} /\ result' \in {0, 200, 400, 413} /\ count' \in 0..MaxHeaderCount
    BY <1>1, <1>2, <1>3, FormLimitsAssumption
  <2> QED
    BY <1>1, <1>9, <1>10, <1>13, <2>1 DEF IInv, TypeOK, scanner, parser, counts
<1>17. StagesInv'
  BY <1>2, <1>14 DEF StagesInv
<1>18. PartInv'
  <2>1. files' + fields' + 3 <= i'
    BY <1>1, <1>3, <1>9 DEF counts
  <2>2. ASSUME NEW n \in DOMAIN cuts' PROVE i' >= cuts'[n][2] + Len(Delimiter) + 2
    <3>1. CASE n \in DOMAIN cuts
      <4>1. cuts'[n][2] = cuts[n][2]
        BY <1>10, <3>1
      <4>2. cuts[n][2] \in Nat /\ i >= cuts[n][2] + Len(Delimiter) + 2
        BY <1>12, <3>1
      <4> QED
        BY <1>4, <1>9, <4>1, <4>2
    <3>2. CASE cuts'[n] = <<i, Found>>
      <4>1. cuts'[n][2] = Found
        BY <3>2
      <4> QED
        BY <1>4, <1>9, <4>1
    <3> QED
      BY <1>11, <3>1, <3>2
  <2> QED
    BY <1>2, <1>13, <2>1, <2>2 DEF PartInv
<1>19. PartsAreDelimited'
  <2>1. ASSUME NEW n \in DOMAIN cuts'
        PROVE  /\ AreAt(cuts'[n][1] - 2, CRLF) /\ IsBoundaryLine(cuts'[n][2])
               /\ \A k \in cuts'[n][1]..cuts'[n][2] - 1 : ~IsBoundaryLine(k)
               /\ n > 1 => cuts'[n][1] >= cuts'[n - 1][2] + Len(Delimiter) + 2
    <3>0. n - 1 # 0 /\ n \in DOMAIN cuts => n - 1 \in 1..Len(cuts)
      BY <1>10
    <3>1. CASE n \in DOMAIN cuts
      <4>1. cuts'[n] = cuts[n] /\ (n > 1 => cuts'[n - 1] = cuts[n - 1])
        BY <1>10, <3>0, <3>1
      <4>2. Delimited(n)
        BY <1>3, <3>1 DEF IInv, PartsAreDelimited, Delimited
      <4> QED
        BY <4>1, <4>2 DEF Delimited
    <3>2. CASE n = Len(cuts) + 1 /\ cuts'[n] = <<i, Found>>
      <4>1. cuts'[n][1] = i /\ cuts'[n][2] = Found
        BY <3>2
      <4>2. ASSUME n > 1 PROVE i >= cuts'[n - 1][2] + Len(Delimiter) + 2
        <5>1. n - 1 = Len(cuts) /\ n - 1 \in 1..Len(cuts)
          BY <1>10, <3>2, <4>2
        <5>2. cuts'[n - 1] = cuts[n - 1] /\ i >= cuts[n - 1][2] + Len(Delimiter) + 2
          BY <1>10, <1>12, <5>1, Zenon
        <5> QED
          BY <5>2
      <4> QED
        BY <1>3, <1>7, <1>8, <4>1, <4>2
    <3> QED
      BY <1>11, <3>1, <3>2
  <2>2. \A n \in DOMAIN cuts' : Delimited(n)'
    BY <1>13, <2>1 DEF Delimited
  <2>3. pc' # "data"
    BY <1>2
  <2> QED
    BY <2>2, <2>3, Zenon DEF PartsAreDelimited, Delimited
<1> QED
  BY <1>15, <1>16, <1>17, <1>18, <1>19 DEF IInv

-------------------------------------------------------------------------------
(* The theorems *)

(* The invariant holds at the start, *)
LEMMA InitIInv == Init => IInv
<1> SUFFICES ASSUME Init PROVE IInv
  OBVIOUS
<1>1. /\ request \in Requests /\ pc = "params" /\ result = 0
      /\ start = 1 /\ end = 0 /\ ind = 1 /\ diff = 0 /\ params = <<>>
      /\ encoding = "unknown" /\ boundary = <<>> /\ i = 1 /\ search = 1
      /\ count = 0 /\ files = 0 /\ fields = 0 /\ cuts = <<>>
  BY DEF Init
<1>2. Len(Type) \in Nat \ {0} /\ Type[1] = "semicolon" /\ Len(Body) \in Nat
  BY <1>1, RequestIsRead
<1>3. DOMAIN cuts = {}
  BY <1>1
<1>4. TypeOK
  BY <1>1, <1>2, <1>3, FormLimitsAssumption DEF TypeOK
<1>5. StagesInv
  BY <1>1 DEF StagesInv, Heading
<1>6. WordsInv
  BY <1>1 DEF WordsInv
<1>7. SplitInv
  BY <1>1, <1>2 DEF SplitInv, Reached
<1>8. PartInv /\ PartsAreDelimited
  BY <1>1 DEF PartInv, PartsAreDelimited
<1>9. SegmentsRespectQuotes
  BY <1>1, <1>2, <1>3 DEF SegmentsRespectQuotes
<1> QED
  BY <1>4, <1>5, <1>6, <1>7, <1>8, <1>9 DEF IInv

(* every step keeps it, *)
LEMMA NextIInv == IInv /\ [Next]_vars => IInv'
<1> SUFFICES ASSUME IInv, [Next]_vars PROVE IInv'
  OBVIOUS
<1>1. CASE FieldsEnd
  <2>1. /\ pc' = "done" /\ result' = 200 /\ pc = "urlencoded" /\ count' = count
        /\ UNCHANGED <<request, scanner, parser, i, search, counts, cuts>>
    BY <1>1 DEF FieldsEnd, Finish, part
  <2> QED
    BY <2>1, DoneStep DEF Heading, IInv, TypeOK
<1>2. CASE HeadersCut
  <2>1. /\ pc' = "done" /\ result' = 200 /\ pc = "headers" /\ count' = count
        /\ UNCHANGED <<request, scanner, parser, i, search, counts, cuts>>
    BY <1>2 DEF HeadersCut, Finish, part
  <2> QED
    BY <2>1, DoneStep DEF Heading, IInv, TypeOK
<1>3. CASE DataCut
  <2>1. /\ pc' = "done" /\ result' = 200 /\ pc = "data" /\ count' = count
        /\ UNCHANGED <<request, scanner, parser, i, search, counts, cuts>>
    BY <1>3 DEF DataCut, Finish, part
  <2> QED
    BY <2>1, DoneStep DEF Heading, IInv, TypeOK
<1>4. CASE UNCHANGED vars
  <2>1. UNCHANGED <<request, pc, result, start, end, ind, diff, params, encoding, boundary, i,
                    search, count, files, fields, cuts>>
    BY <1>4 DEF vars, scanner, parser, part, counts
  <2>2. /\ Type' = Type /\ Body' = Body /\ Words' = Words /\ Delimiter' = Delimiter
        /\ \A x, y : /\ Find(x, y)' = Find(x, y) /\ Unescaped(x, y)' = Unescaped(x, y)
                     /\ SplitsAt(x, y)' = SplitsAt(x, y) /\ AreAt(x, y)' = AreAt(x, y)
                     /\ IsBoundaryLine(x)' = IsBoundaryLine(x)
    BY <2>1, HeaderStays, BodyStays
  <2>3. TypeOK'
    BY <2>1, <2>2 DEF IInv, TypeOK
  <2>4. StagesInv'
    BY <2>1 DEF IInv, StagesInv, Heading
  <2>5. WordsInv'
    BY <2>1, <2>2 DEF IInv, WordsInv, Segments
  <2>6. SplitInv'
    <3>1. InOrder' = InOrder
      BY <2>1, <2>2 DEF InOrder, NoSplit
    <3>2. \A at : CrossedAt(at)' = CrossedAt(at)
      BY <2>1, <2>2 DEF CrossedAt, NoSplit
    <3>3. Crossed' = Crossed
      BY <2>2, <3>2, Zenon DEF Crossed
    <3>4. Reached' = Reached /\ \A k : NoSplit(k)' = NoSplit(k)
      BY <2>1, <2>2, Zenon DEF Reached, NoSplit
    <3> QED
      BY <2>1, <2>2, <3>1, <3>3, <3>4 DEF IInv, SplitInv
  <2>7. PartInv'
    BY <2>1, <2>2 DEF IInv, PartInv
  <2>8. PartsAreDelimited'
    BY <2>1, <2>2 DEF IInv, PartsAreDelimited
  <2>9. SegmentsRespectQuotes'
    BY <2>1, <2>2 DEF IInv, SegmentsRespectQuotes
  <2> QED
    BY <2>3, <2>4, <2>5, <2>6, <2>7, <2>8, <2>9 DEF IInv
<1> QED
  BY <1>1, <1>2, <1>3, <1>4, NextSegmentStep, CountQuotesStep, SegmentStep, ChooseParserStep,
     FieldStep, StartStep, HeaderStep, HeadersEndStep, NotADelimiterStep, PartEndsStep DEF Next

(* and so it holds in every reachable state. *)
LEMMA Invariance == Spec => []IInv
BY InitIInv, NextIInv, PTL DEF Spec

(* The scanners stay within header and body, and the counters within what  *)
(* the body can hold.                                                      *)
THEOREM TypeCorrect == Spec => []TypeOK
<1>1. IInv => TypeOK
  BY DEF IInv
<1> QED
  BY <1>1, Invariance, PTL

(* Each part ends at the first boundary line behind its headers, whatever  *)
(* its bytes are (form.rs, multipart).                                     *)
THEOREM PartsDelimited == Spec => []PartsAreDelimited
<1>1. IInv => PartsAreDelimited
  BY DEF IInv
<1> QED
  BY <1>1, Invariance, PTL

(* The header is split at the semicolons outside quotes and nowhere else,  *)
(* although the loop of parseparam meets them in an odd order (form.rs).   *)
THEOREM SegmentsRespect == Spec => []SegmentsRespectQuotes
<1>1. IInv => SegmentsRespectQuotes
  BY DEF IInv
<1> QED
  BY <1>1, Invariance, PTL

-------------------------------------------------------------------------------
(* What the items take of the body *)

(* A list of items that have a size. *)
Sized(list) ==
  /\ list \in Seq(Range(list))
  /\ \A n \in DOMAIN list : Len(list[n].data) \in Nat

(* An item more is one more member. *)
LEMMA ItemIsAdded ==
  ASSUME NEW list, Sized(list), NEW item, Len(item.data) \in Nat
  PROVE  /\ Sized(Append(list, item)) /\ Len(list) \in Nat /\ Len(Append(list, item)) = Len(list) + 1
         /\ DOMAIN list = 1..Len(list) /\ DOMAIN Append(list, item) = 1..Len(list) + 1
         /\ Append(list, item)[Len(list) + 1] = item
         /\ \A n \in 1..Len(list) : Append(list, item)[n] = list[n]
<1> DEFINE more == Append(list, item)
           R == Range(list) \cup {item}
<1>1. list \in Seq(Range(list)) /\ \A n \in DOMAIN list : Len(list[n].data) \in Nat
  BY DEF Sized
<1>2. list \in Seq(R) /\ item \in R
  <2>1. Range(list) \subseteq R
    OBVIOUS
  <2> HIDE DEF R
  <2> QED
    BY <1>1, <2>1, SeqMonotonic DEF R
<1>3. /\ more \in Seq(R) /\ Len(more) = Len(list) + 1 /\ Len(list) \in Nat
      /\ DOMAIN list = 1..Len(list) /\ DOMAIN more = 1..Len(list) + 1
      /\ more[Len(list) + 1] = item /\ \A n \in 1..Len(list) : more[n] = list[n]
  <2> HIDE DEF R
  <2> QED
    BY <1>2, AppendProperties, LenProperties
<1> HIDE DEF more
<1>4. more \in Seq(Range(more))
  <2> DEFINE V == Range(more)
  <2>1. \A n \in 1..Len(more) : more[n] \in V
    BY <1>3 DEF Range
  <2>2. more = [n \in 1..Len(more) |-> more[n]] /\ Len(more) \in Nat
    <3> HIDE DEF R
    <3> QED
      BY <1>3
  <2> HIDE DEF V
  <2>3. more \in Seq(V)
    BY <2>1, <2>2, IsASeq
  <2> QED
    BY <2>3 DEF V
<1>5. \A n \in DOMAIN more : Len(more[n].data) \in Nat
  <2>1. \A n \in 1..Len(list) + 1 : n \in 1..Len(list) \/ n = Len(list) + 1
    BY <1>3
  <2> QED
    BY <1>1, <1>3, <2>1
<1> QED
  BY <1>3, <1>4, <1>5, Zenon DEF more, Sized

(* The weight of a list is the last of its running sums. *)
LEMMA WeightIsLast ==
  ASSUME NEW list, Len(list) \in Nat, NEW f \in [0..Len(list) -> Nat], f[0] = 0,
         \A n \in 1..Len(list) : f[n] = f[n - 1] + (Len(list[n].data) + 1)
  PROVE  Weight(list) = f[Len(list)]
<1> DEFINE last == Len(list)
           Upto == CHOOSE g : g = [n \in 0..last |->
                                     IF n = 0 THEN 0 ELSE g[n - 1] + (Len(list[n].data) + 1)]
<1>1. f = [n \in 0..last |-> IF n = 0 THEN 0 ELSE f[n - 1] + (Len(list[n].data) + 1)]
  <2>1. \A n \in 0..last : f[n] = IF n = 0 THEN 0 ELSE f[n - 1] + (Len(list[n].data) + 1)
    OBVIOUS
  <2> QED
    BY <2>1
<1>2. Upto = [n \in 0..last |-> IF n = 0 THEN 0 ELSE Upto[n - 1] + (Len(list[n].data) + 1)]
  <2> HIDE DEF last
  <2> QED
    BY <1>1, Zenon
<1>3. Weight(list) = Upto[last]
  BY DEF Weight
<1> HIDE DEF Upto
<1> DEFINE Same == {n \in 0..last : Upto[n] = f[n]}
<1>4. Same = 0..last
  <2>1. Same \in SUBSET (0..last) /\ 0 \in Same
    BY <1>2
  <2>2. ASSUME NEW n \in 1..last, n - 1 \in Same PROVE n \in Same
    <3>1. n \in 0..last /\ Upto[n] = Upto[n - 1] + (Len(list[n].data) + 1)
      BY <1>2
    <3>2. f[n] = f[n - 1] + (Len(list[n].data) + 1) /\ Upto[n - 1] = f[n - 1]
      BY <2>2
    <3> QED
      BY <3>1, <3>2
  <2> HIDE DEF Same
  <2> QED
    BY <2>1, <2>2, StepByStep
<1> QED
  BY <1>3, <1>4

(* An item more adds a byte and its data. *)
LEMMA WeightGrows ==
  ASSUME NEW list, Sized(list), NEW item, Len(item.data) \in Nat
  PROVE  /\ Weight(list) \in Nat
         /\ Weight(Append(list, item)) = Weight(list) + Len(item.data) + 1
<1> DEFINE n == Len(list)
           more == Append(list, item)
           size == [m \in 1..n |-> Len(list[m].data) + 1]
<1>1. /\ n \in Nat /\ Len(more) = n + 1 /\ more[n + 1] = item
      /\ \A m \in 1..n : more[m] = list[m]
      /\ \A m \in 1..n : Len(list[m].data) \in Nat
  BY ItemIsAdded DEF Sized
<1> HIDE DEF n, more
<1>2. size \in [1..n -> Nat]
  BY <1>1
<1>3. PICK f \in [0..n -> Nat] : f[0] = 0 /\ \A m \in 1..n : f[m] = f[m - 1] + size[m]
  <2> HIDE DEF size
  <2> QED
    BY <1>1, <1>2, RunningSums
<1>4. \A m \in 1..n : f[m] = f[m - 1] + (Len(list[m].data) + 1)
  BY <1>3
<1>5. Weight(list) = f[n]
  <2> USE DEF n
  <2> QED
    BY <1>1, <1>3, <1>4, WeightIsLast
<1> DEFINE g == [m \in 0..n + 1 |-> IF m = n + 1 THEN f[n] + (Len(item.data) + 1) ELSE f[m]]
<1>6. g \in [0..n + 1 -> Nat] /\ g[0] = 0 /\ g[n + 1] = f[n] + (Len(item.data) + 1)
  BY <1>1, <1>3
<1>7. ASSUME NEW m \in 1..n + 1 PROVE g[m] = g[m - 1] + (Len(more[m].data) + 1)
  <2>1. g[m - 1] = f[m - 1]
    BY <1>1
  <2>2. CASE m = n + 1
    BY <1>1, <2>1, <2>2
  <2>3. CASE m # n + 1
    <3>1. m \in 1..n /\ g[m] = f[m] /\ more[m] = list[m]
      BY <1>1, <2>3
    <3> QED
      BY <1>4, <2>1, <3>1
  <2> QED
    BY <2>2, <2>3
<1>8. Weight(more) = g[n + 1]
  <2> HIDE DEF g
  <2>1. Len(more) \in Nat
    BY <1>1
  <2>2. g \in [0..Len(more) -> Nat] /\ g[0] = 0
    BY <1>1, <1>6
  <2>3. \A m \in 1..Len(more) : g[m] = g[m - 1] + (Len(more[m].data) + 1)
    BY <1>1, <1>7
  <2>4. Weight(more) = g[Len(more)]
    BY <2>1, <2>2, <2>3, WeightIsLast
  <2> QED
    BY <1>1, <2>4
<1>9. f[n] \in Nat
  BY <1>1, <1>3
<1> QED
  BY <1>5, <1>6, <1>8, <1>9 DEF more

(* It is counted among the files or among the texts. *)
LEMMA CountsGrow ==
  ASSUME NEW list, Sized(list), NEW item, Len(item.data) \in Nat
  PROVE  /\ Cardinality(FilesAmong(list)) \in Nat /\ Cardinality(TextsAmong(list)) \in Nat
         /\ item.file => /\ Cardinality(FilesAmong(Append(list, item))) =
                              Cardinality(FilesAmong(list)) + 1
                         /\ TextsAmong(Append(list, item)) = TextsAmong(list)
         /\ ~item.file => /\ Cardinality(TextsAmong(Append(list, item))) =
                               Cardinality(TextsAmong(list)) + 1
                          /\ FilesAmong(Append(list, item)) = FilesAmong(list)
<1> DEFINE n == Len(list)
           more == Append(list, item)
<1>1. /\ n \in Nat /\ DOMAIN list = 1..n /\ DOMAIN more = 1..n + 1 /\ more[n + 1] = item
      /\ \A m \in 1..n : more[m] = list[m]
  BY ItemIsAdded
<1> HIDE DEF n, more
<1>2. 1..n + 1 = 1..n \cup {n + 1} /\ n + 1 \notin 1..n
  BY <1>1
<1>3. /\ item.file => FilesAmong(more) = FilesAmong(list) \cup {n + 1}
                      /\ TextsAmong(more) = TextsAmong(list)
      /\ ~item.file => FilesAmong(more) = FilesAmong(list)
                       /\ TextsAmong(more) = TextsAmong(list) \cup {n + 1}
  BY <1>1, <1>2 DEF FilesAmong, TextsAmong
<1>4. /\ FilesAmong(list) \subseteq 1..n /\ TextsAmong(list) \subseteq 1..n
      /\ n + 1 \notin FilesAmong(list) /\ n + 1 \notin TextsAmong(list)
  BY <1>1, <1>2 DEF FilesAmong, TextsAmong
<1>5. IsFiniteSet(FilesAmong(list)) /\ IsFiniteSet(TextsAmong(list))
  <2>1. IsFiniteSet(1..n)
    BY <1>1, FS_Interval
  <2> QED
    BY <1>4, <2>1, FS_Subset
<1>6. /\ Cardinality(FilesAmong(list) \cup {n + 1}) = Cardinality(FilesAmong(list)) + 1
      /\ Cardinality(TextsAmong(list) \cup {n + 1}) = Cardinality(TextsAmong(list)) + 1
      /\ Cardinality(FilesAmong(list)) \in Nat /\ Cardinality(TextsAmong(list)) \in Nat
  BY <1>4, <1>5, FS_AddElement, FS_CardinalityType
<1> QED
  BY <1>3, <1>6 DEF more

(* The weight of a list is a number. *)
LEMMA WeightIsNat == ASSUME NEW list, Sized(list) PROVE Weight(list) \in Nat
<1> DEFINE none == [data |-> <<>>]
<1>1. Len(none.data) \in Nat
  OBVIOUS
<1> HIDE DEF none
<1> QED
  BY <1>1, WeightGrows, Zenon

-------------------------------------------------------------------------------
(* What has been read so far *)

(* There are no items before the body, no result before the end, and the   *)
(* urlencoded parser knows neither files nor malformed bodies.             *)
ItemsInv ==
  /\ Sized(items)
  /\ pc # "done" => result = 0
  /\ Heading \/ pc = "start" \/ encoding \in {"unknown", "none"} => items = <<>>
  /\ encoding = "urlencoded" => FilesAmong(items) = {} /\ result # 400

(* Parts are counted before their data is read: the counters are one ahead *)
(* of the items while it is, and the one that counts the part is within    *)
(* its limit.                                                              *)
CountsInv ==
  /\ pc = "headers" => /\ Cardinality(FilesAmong(items)) = files
                       /\ Cardinality(TextsAmong(items)) = fields
  /\ pc = "data" /\ IsFile => /\ Cardinality(FilesAmong(items)) = files - 1 /\ files <= MaxFiles
                              /\ Cardinality(TextsAmong(items)) = fields
  /\ pc = "data" /\ ~IsFile => /\ Cardinality(FilesAmong(items)) = files
                               /\ Cardinality(TextsAmong(items)) = fields - 1 /\ fields <= MaxFields

(* The items have taken what lies before the scanner: two bytes behind     *)
(* each item are a separator and the first byte of what follows, or the    *)
(* end.                                                                    *)
WeightInv ==
  /\ pc # "done" => Weight(items) = 0 \/ Weight(items) + 2 <= i
  /\ Weight(items) <= Len(Body)

FitInv == ItemsInv /\ CountsInv /\ WeightInv /\ FitsIntake

(* What is said of the items stays true while they are the same. *)
LEMMA ItemsStay ==
  ASSUME items' = items
  PROVE  /\ Sized(items)' = Sized(items) /\ Weight(items)' = Weight(items)
         /\ FilesAmong(items)' = FilesAmong(items) /\ TextsAmong(items)' = TextsAmong(items)
BY DEF Sized, Weight, FilesAmong, TextsAmong

(* Whatever ends without an item leaves those that there are. *)
LEMMA EndFits ==
  ASSUME FitInv, UNCHANGED <<request, items, encoding>>, pc' = "done",
         encoding = "urlencoded" => result' # 400
  PROVE  FitInv'
<1>1. Len(Body)' = Len(Body)
  BY DEF Body
<1>2. ItemsInv'
  <2>1. ~Heading'
    BY DEF Heading
  <2> QED
    BY ItemsStay, <2>1 DEF FitInv, ItemsInv
<1>3. CountsInv'
  BY DEF CountsInv
<1>4. WeightInv'
  BY <1>1, ItemsStay DEF FitInv, WeightInv
<1>5. FitsIntake'
  BY <1>1, ItemsStay DEF FitInv, FitsIntake
<1> QED
  BY <1>2, <1>3, <1>4, <1>5 DEF FitInv

(* Nor does a step that moves the scanner forward. *)
LEMMA MoveFits ==
  ASSUME FitInv, UNCHANGED <<request, items, encoding, result>>, pc # "done", pc' # "done",
         i \in Nat, i' \in Nat, i <= i', Heading' \/ pc' = "start" => items = <<>>, CountsInv'
  PROVE  FitInv'
<1>1. Len(Body)' = Len(Body)
  BY DEF Body
<1>2. ItemsInv'
  BY ItemsStay DEF FitInv, ItemsInv
<1>3. WeightInv'
  <2>1. Weight(items) \in Nat
    BY WeightIsNat DEF FitInv, ItemsInv
  <2> QED
    BY <1>1, <2>1, ItemsStay DEF FitInv, WeightInv
<1>4. FitsIntake'
  BY <1>1, ItemsStay DEF FitInv, FitsIntake
<1> QED
  BY <1>2, <1>3, <1>4 DEF FitInv

(* An item within the limits, from the bytes the scanner passes.           *)
LEMMA ItemFits ==
  ASSUME FitInv, NEW item, items' = Append(items, item), Len(item.data) \in Nat,
         UNCHANGED <<request, encoding>>, encoding \in {"urlencoded", "multipart"}, pc # "done",
         pc' \in {"urlencoded", "headers", "done"},
         pc' # "done" => result' = result,
         encoding = "urlencoded" => ~item.file /\ result' = result,
         item.file => Cardinality(FilesAmong(items)) + 1 <= MaxFiles,
         ~item.file => Cardinality(TextsAmong(items)) + 1 <= MaxFields,
         Len(Body) \in Nat, i \in Nat \ {0}, i' \in 1..Len(Body) + 2,
         i + Len(item.data) + 2 <= i', CountsInv'
  PROVE  FitInv'
<1>1. Len(Body)' = Len(Body)
  BY DEF Body
<1>2. Sized(items)
  BY DEF FitInv, ItemsInv
<1>3. /\ Sized(items)' /\ Weight(items) \in Nat
      /\ Weight(items)' = Weight(items) + Len(item.data) + 1
  <2>1. Sized(Append(items, item))
    BY <1>2, ItemIsAdded
  <2>2. Weight(items) \in Nat /\ Weight(Append(items, item)) = Weight(items) + Len(item.data) + 1
    BY <1>2, WeightGrows
  <2> QED
    BY <2>1, <2>2
<1>4. /\ item.file => Cardinality(FilesAmong(items))' = Cardinality(FilesAmong(items)) + 1
                      /\ TextsAmong(items)' = TextsAmong(items)
      /\ ~item.file => Cardinality(TextsAmong(items))' = Cardinality(TextsAmong(items)) + 1
                       /\ FilesAmong(items)' = FilesAmong(items)
  BY <1>2, CountsGrow
<1>5. ItemsInv'
  <2>1. ~Heading' /\ pc' # "start" /\ encoding' \notin {"unknown", "none"}
    BY DEF Heading
  <2>2. encoding = "urlencoded" => FilesAmong(items) = {} /\ result # 400 /\ ~item.file
    BY DEF FitInv, ItemsInv
  <2>3. result = 0
    BY DEF FitInv, ItemsInv
  <2> QED
    BY <1>3, <1>4, <2>1, <2>2, <2>3 DEF ItemsInv
<1>6. WeightInv'
  <2>1. Weight(items) = 0 \/ Weight(items) + 2 <= i
    BY DEF FitInv, WeightInv
  <2> DEFINE old == Weight(items)
             new == Weight(items)'
             l   == Len(item.data)
  <2>2. /\ old \in Nat /\ new = old + l + 1 /\ (old = 0 \/ old + 2 <= i)
        /\ l \in Nat /\ i + l + 2 <= i' /\ i' <= Len(Body) + 2
    <3>1. l \in Nat
      OBVIOUS
    <3> QED
      BY <1>3, <2>1, <3>1
  <2> HIDE DEF old, new, l
  <2>3. new + 2 <= i' /\ new <= Len(Body)
    BY <2>2
  <2> QED
    BY <1>1, <2>3 DEF WeightInv, new
<1>7. FitsIntake'
  <2>1. Weight(items)' <= Len(Body)'
    BY <1>6 DEF WeightInv
  <2>2. /\ FilesAmong(items)' # {} => Cardinality(FilesAmong(items))' <= MaxFiles
        /\ TextsAmong(items)' # {} => Cardinality(TextsAmong(items))' <= MaxFields
    <3>1. CASE item.file
      BY <1>4, <3>1 DEF FitInv, FitsIntake
    <3>2. CASE ~item.file
      BY <1>4, <3>2 DEF FitInv, FitsIntake
    <3> QED
      BY <3>1, <3>2
  <2> QED
    BY <1>5, <2>1, <2>2 DEF ItemsInv, FitsIntake
<1> QED
  BY <1>5, <1>6, <1>7 DEF FitInv

-------------------------------------------------------------------------------
(* Every step keeps it *)

(* What is left without some positions is no longer. *)
LEMMA DropShrinks ==
  ASSUME NEW n \in Nat, NEW s, DOMAIN s = 1..n, NEW positions
  PROVE  Len(Drop(s, positions)) \in 0..n
<1> DEFINE kept == DOMAIN s \ positions
           nth(m) == CHOOSE k \in kept : Cardinality({j \in kept : j <= k}) = m
           left == [m \in 1..Cardinality(kept) |-> s[nth(m)]]
<1>1. /\ IsFiniteSet(kept) /\ Cardinality(kept) \in Nat /\ Cardinality(kept) <= n
  <2>1. IsFiniteSet(1..n) /\ Cardinality(1..n) = n
    BY FS_Interval
  <2>2. kept \subseteq 1..n
    OBVIOUS
  <2> HIDE DEF kept
  <2>3. IsFiniteSet(kept) /\ Cardinality(kept) <= Cardinality(1..n)
    BY <2>1, <2>2, FS_Subset
  <2> QED
    BY <2>1, <2>3, FS_CardinalityType
<1>2. Drop(s, positions) = left
  BY DEF Drop
<1>3. Len(left) = Cardinality(kept)
  <2> DEFINE c == Cardinality(kept)
             S == {s[nth(m)] : m \in 1..c}
  <2>1. c \in Nat /\ left = [m \in 1..c |-> s[nth(m)]]
    BY <1>1
  <2>2. \A m \in 1..c : s[nth(m)] \in S
    OBVIOUS
  <2> HIDE DEF nth, kept, c, S, left
  <2>3. left \in Seq(S) /\ DOMAIN left = 1..c
    BY <2>1, <2>2, IsASeq
  <2>4. Len(left) = c
    <3> HIDE DEF left
    <3>1. Len(left) \in Nat /\ DOMAIN left = 1..Len(left)
      BY <2>3, LenProperties
    <3> QED
      BY <2>1, <2>3, <3>1
  <2> QED
    BY <2>4 DEF c
<1> QED
  BY <1>1, <1>2, <1>3

(* Decoding makes no text longer. *)
LEMMA UnquotePlusShrinks ==
  ASSUME NEW n \in Nat, NEW s, Len(s) = n, DOMAIN s = 1..n
  PROVE  Len(UnquotePlus(s)) \in 0..n
<1> DEFINE escapes == {k \in 1..Len(s) - 2 : s[k] = "%" /\ s[k + 1] \in Hex /\ s[k + 2] \in Hex}
           decoded == [k \in DOMAIN s |-> CASE k \in escapes -> ByteOf(s[k + 1], s[k + 2])
                                            [] s[k] = "+"    -> "space"
                                            [] OTHER         -> s[k]]
           gone == {k + 1 : k \in escapes} \cup {k + 2 : k \in escapes}
<1>1. DOMAIN decoded = 1..n
  OBVIOUS
<1>2. UnquotePlus(s) = Drop(decoded, gone)
  BY Zenon DEF UnquotePlus
<1> HIDE DEF decoded, gone
<1> QED
  BY <1>1, <1>2, DropShrinks

(* An urlencoded field leaves a byte for its separator or the end of the   *)
(* body, and one for what is not its value.                                *)
LEMMA FieldFits == ASSUME IInv, IInv', FitInv, Field PROVE FitInv'
<1> DEFINE field  == SubSeq(Body, i, Behind(i) - 1)
           equals == First(field, {"="}, 1)
           name   == SubSeq(field, 1, equals - 1)
           value  == SubSeq(field, equals + 1, Len(field))
           item   == Item(UnquotePlus(name), FALSE, <<>>, UnquotePlus(value))
<1>1. /\ UNCHANGED <<request, encoding>> /\ i' = Behind(i) + 1 /\ Body' = Body
      /\ pc = "urlencoded" /\ i <= Len(Body) + 1
  BY DEF Field, parser, Body
<1>2. \/ field = <<>> /\ pc' = "urlencoded" /\ result' = result /\ items' = items
      \/ pc' = "done" /\ result' = 413 /\ items' = items
      \/ /\ field # <<>> /\ ~exceeds(Len(items) + 1, MaxFields)
         /\ pc' = "urlencoded" /\ result' = result /\ items' = Append(items, item)
  BY Zenon DEF Field, Goto, Reject
<1>3. encoding = "urlencoded" /\ Len(Body) \in Nat /\ i \in 1..Len(Body) + 2
      /\ Body \in Seq(ToSet(Body)) /\ i' \in 1..Len(Body) + 2
  BY <1>1, BodyIsRead DEF IInv, StagesInv, TypeOK
<1>4. Behind(i) \in i..Len(Body) + 1
  BY <1>1, <1>3, FirstIsFirst DEF Behind
<1>5. CountsInv'
  BY <1>2 DEF CountsInv
<1>6. CASE pc' = "done" /\ result' = 413 /\ items' = items
  BY <1>1, <1>6, EndFits
<1>7. CASE pc' = "urlencoded" /\ result' = result /\ items' = items
  BY <1>1, <1>3, <1>4, <1>5, <1>7, MoveFits DEF Heading
<1>8. CASE /\ field # <<>> /\ ~exceeds(Len(items) + 1, MaxFields)
           /\ pc' = "urlencoded" /\ result' = result /\ items' = Append(items, item)
  <2>1. field \in Seq(ToSet(Body)) /\ Len(field) = Behind(i) - i
    <3>1. i \in 1..Len(Body) + 1 /\ Behind(i) - 1 \in 0..Len(Body)
      BY <1>1, <1>3, <1>4
    <3> QED
      BY <1>3, <1>4, <3>1, StretchKeeps
  <2> HIDE DEF field
  <2>2. Len(field) \in Nat \ {0}
    BY <1>8, <2>1
  <2>3. equals \in 1..Len(field) + 1
    BY <2>1, FirstIsFirst
  <2>4. value \in Seq(ToSet(Body)) /\ Len(value) \in 0..Len(field) - 1
    <3>1. CASE equals = Len(field) + 1
      <4>1. value = <<>>
        BY <2>2, <3>1, <2>1
      <4>2. <<>> \in Seq(ToSet(Body)) /\ Len(<<>>) = 0 /\ 0 \in 0..Len(field) - 1
        BY <2>2
      <4> QED
        BY <4>1, <4>2, Zenon
    <3>2. CASE equals <= Len(field)
      <4> HIDE DEF equals
      <4>1. equals + 1 \in 1..Len(field) + 1 /\ Len(field) \in 0..Len(field)
        BY <2>2, <2>3, <3>2
      <4> QED
        BY <2>1, <2>2, <2>3, <3>2, <4>1, StretchKeeps
    <3> QED
      BY <2>2, <2>3, <3>1, <3>2
  <2> HIDE DEF equals, name, value
  <2>5. Len(UnquotePlus(value)) \in 0..Len(value)
    <3>1. DOMAIN value = 1..Len(value) /\ Len(value) \in Nat
      BY <2>4, LenProperties
    <3> QED
      BY <3>1, UnquotePlusShrinks
  <2>6. item.data = UnquotePlus(value) /\ item.file = FALSE
    BY DEF Item
  <2> HIDE DEF item
  <2>7. Cardinality(TextsAmong(items)) + 1 <= MaxFields
    <3>1. TextsAmong(items) = 1..Len(items) /\ Len(items) \in Nat
      <4>1. FilesAmong(items) = {} /\ Sized(items)
        BY <1>3 DEF FitInv, ItemsInv
      <4>2. DOMAIN items = 1..Len(items) /\ Len(items) \in Nat
        BY <4>1, LenProperties DEF Sized
      <4> QED
        BY <4>1, <4>2 DEF TextsAmong
    <3>2. Cardinality(1..Len(items)) = Len(items)
      BY <3>1, FS_Interval
    <3> QED
      BY <1>8, <3>1, <3>2, FormLimitsAssumption DEF exceeds
  <2>8. Len(item.data) \in Nat /\ i + Len(item.data) + 2 <= i' /\ i \in Nat \ {0}
    BY <1>1, <1>3, <1>4, <2>1, <2>2, <2>4, <2>5, <2>6
  <2> QED
    BY <1>1, <1>3, <1>5, <1>8, <2>6, <2>7, <2>8, ItemFits
<1> QED
  BY <1>2, <1>6, <1>7, <1>8

(* While the header is read there are no items. *)
LEMMA HeadingFits == ASSUME IInv, FitInv, NextSegment \/ CountQuotes \/ Segment PROVE FitInv'
<1>1. /\ UNCHANGED <<request, items, encoding, result, i>> /\ Heading /\ Heading'
  BY DEF NextSegment, CountQuotes, Segment, Goto, parser, Heading
<1>2. CountsInv' /\ pc # "done" /\ pc' # "done"
  BY <1>1 DEF CountsInv, Heading
<1>3. items = <<>> /\ i \in Nat
  BY <1>1, BodyIsRead DEF FitInv, ItemsInv
<1> QED
  BY <1>1, <1>2, <1>3, MoveFits

(* The parser that is chosen starts without any. *)
LEMMA ChooseParserFits == ASSUME IInv, FitInv, ChooseParser PROVE FitInv'
<1>1. /\ UNCHANGED <<request, items, i>> /\ pc = "params" /\ items = <<>> /\ result = 0
  BY DEF ChooseParser, FitInv, ItemsInv, Heading
<1>2. \/ pc' = "urlencoded" /\ encoding' = "urlencoded" /\ result' = result
      \/ pc' = "start" /\ encoding' = "multipart" /\ result' = result
      \/ pc' = "done" /\ encoding' = encoding
      \/ pc' = "done" /\ encoding' = "none"
  BY Zenon DEF ChooseParser, Goto, Reject, Finish, parser
<1>3. encoding = "unknown"
  BY <1>1 DEF IInv, StagesInv, Heading
<1>4. FilesAmong(items) = {} /\ TextsAmong(items) = {}
  BY <1>1 DEF FilesAmong, TextsAmong
<1>5. ItemsInv'
  BY <1>1, <1>2, <1>3, <1>4, ItemsStay DEF FitInv, ItemsInv, Heading
<1>6. CountsInv'
  BY <1>2 DEF CountsInv
<1>7. WeightInv' /\ Weight(items)' <= Len(Body)'
  <2>1. Len(Body)' = Len(Body) /\ Weight(items)' = Weight(items)
    BY <1>1, ItemsStay DEF Body
  <2> QED
    BY <1>1, <2>1 DEF FitInv, WeightInv
<1>8. FitsIntake'
  BY <1>1, <1>4, <1>5, <1>7, ItemsStay DEF ItemsInv, FitsIntake
<1> QED
  BY <1>5, <1>6, <1>7, <1>8 DEF FitInv

(* A body that ends here has the items it had. *)
LEMMA EndsFit == ASSUME FitInv, FieldsEnd \/ HeadersCut \/ DataCut PROVE FitInv'
<1>1. UNCHANGED <<request, items, encoding>> /\ pc' = "done" /\ result' = 200
  BY DEF FieldsEnd, HeadersCut, DataCut, Finish, parser
<1> QED
  BY <1>1, EndFits

(* The first part begins behind the first boundary line. *)
LEMMA StartFits == ASSUME IInv, IInv', FitInv, Start PROVE FitInv'
<1>1. UNCHANGED <<request, items, encoding, counts>> /\ pc = "start"
  BY DEF Start, parser
<1>2. \/ pc' = "done"
      \/ pc' = "headers" /\ result' = result
  BY Zenon DEF Start, Goto, Finish, Reject
<1>3. /\ encoding = "multipart" /\ i = 1 /\ files = 0 /\ fields = 0 /\ items = <<>>
      /\ i' \in Nat /\ i <= i'
  <2>1. i = 1 /\ i' \in 1..Len(Body') + 2 /\ Len(Body') = Len(Body) /\ Len(Body) \in Nat
    BY <1>1, BodyIsRead DEF IInv, StagesInv, TypeOK, Body
  <2> QED
    BY <1>1, <2>1 DEF IInv, StagesInv, FitInv, ItemsInv
<1>4. CountsInv'
  <2>1. FilesAmong(items) = {} /\ TextsAmong(items) = {}
    BY <1>3 DEF FilesAmong, TextsAmong
  <2>2. Cardinality(FilesAmong(items)') = 0 /\ Cardinality(TextsAmong(items)') = 0
    BY <1>1, <2>1, ItemsStay, FS_EmptySet
  <2> QED
    BY <1>1, <1>2, <1>3, <2>2 DEF CountsInv, counts
<1>5. CASE pc' = "done"
  BY <1>1, <1>3, <1>5, EndFits
<1>6. CASE pc' = "headers" /\ result' = result
  BY <1>1, <1>3, <1>4, <1>6, MoveFits
<1> QED
  BY <1>2, <1>5, <1>6

(* A header line moves the scanner and nothing else that counts. *)
LEMMA HeaderFits == ASSUME IInv, FitInv, Header PROVE FitInv'
<1> DEFINE colon == First(Body, {":"}, i)
           Begins(k) == At(k) # "space" /\ \A j \in colon + 1..k - 1 : At(j) = "space"
           value == CHOOSE k \in colon + 1..Len(Body) + 2 : Begins(k)
           cr    == First(Body, {"CR"}, value)
<1>1. UNCHANGED <<request, items, encoding, files, fields>> /\ pc = "headers"
  BY DEF Header, parser, counts
<1>2. /\ encoding = "multipart" /\ Len(Body) \in Nat /\ Body \in Seq(ToSet(Body))
      /\ i \in 1..Len(Body) + 2
  BY <1>1, BodyIsRead DEF IInv, StagesInv, TypeOK
<1>3. colon \in 1..Len(Body) + 1 /\ (colon <= Len(Body) => colon >= i)
  BY <1>2, FirstIsFirst
<1>4. value \in colon + 1..Len(Body) + 2
  <2> HIDE DEF colon
  <2>1. At(Len(Body) + 2) \notin {"space"}
    BY <1>2 DEF At
  <2>2. Len(Body) + 2 \in Nat /\ colon + 1 <= Len(Body) + 2 /\ colon + 1 \in Nat \ {0}
    BY <1>2, <1>3
  <2>3. \E k \in colon + 1..Len(Body) + 2 :
          At(k) \notin {"space"} /\ \A j \in colon + 1..k - 1 : At(j) \in {"space"}
    BY <2>1, <2>2, FirstOutside, Zenon
  <2>4. \E k \in colon + 1..Len(Body) + 2 : Begins(k)
    BY <2>3
  <2> HIDE DEF Begins
  <2> QED
    BY <2>4
<1> HIDE DEF value
<1>5. cr \in 1..Len(Body) + 1 /\ (cr <= Len(Body) => cr >= value)
  <2>1. value \in Nat \ {0}
    BY <1>2, <1>3, <1>4
  <2> QED
    BY <1>2, <2>1, FirstIsFirst
<1>6. \/ pc' = "done"
      \/ /\ pc' = "headers" /\ result' = result /\ i' = cr + 2
         /\ ~(colon > Len(Body)) /\ ~(cr > Len(Body))
  BY Zenon DEF Header, Goto, Finish, Reject, value
<1> HIDE DEF colon, cr
<1>7. CASE pc' = "done"
  BY <1>1, <1>2, <1>7, EndFits
<1>8. CASE /\ pc' = "headers" /\ result' = result /\ i' = cr + 2
           /\ ~(colon > Len(Body)) /\ ~(cr > Len(Body))
  <2>1. CountsInv'
    BY <1>1, <1>8, ItemsStay DEF FitInv, CountsInv
  <2>2. i \in Nat /\ i' \in Nat /\ i <= i'
    BY <1>2, <1>3, <1>4, <1>5, <1>8
  <2> QED
    BY <1>1, <1>8, <2>1, <2>2, MoveFits DEF Heading
<1> QED
  BY <1>6, <1>7, <1>8

(* A part is counted, and goes on within the limit only. *)
LEMMA HeadersEndFits == ASSUME IInv, IInv', FitInv, HeadersEnd PROVE FitInv'
<1>1. /\ UNCHANGED <<request, items, encoding, disposition>> /\ pc = "headers" /\ i' = i + 2
  BY DEF HeadersEnd, parser
<1>2. IsFile' = IsFile
  BY <1>1 DEF IsFile, Given
<1>3. \/ pc' = "done"
      \/ /\ pc' = "data" /\ result' = result
         /\ \/ IsFile /\ files' = files + 1 /\ fields' = fields /\ ~exceeds(files', MaxFiles)
            \/ ~IsFile /\ files' = files /\ fields' = fields + 1 /\ ~exceeds(fields', MaxFields)
  BY Zenon DEF HeadersEnd, Goto, Reject
<1>4. encoding = "multipart" /\ i \in Nat /\ i' \in Nat /\ i <= i' /\ files \in Nat /\ fields \in Nat
  BY <1>1, BodyIsRead DEF IInv, StagesInv, TypeOK
<1> HIDE DEF IsFile
<1>5. CASE pc' = "done"
  BY <1>1, <1>4, <1>5, EndFits
<1>6. CASE pc' = "data"
  <2>1. CountsInv'
    BY <1>1, <1>2, <1>3, <1>4, <1>6, ItemsStay, FormLimitsAssumption DEF FitInv, CountsInv, exceeds
  <2>2. result' = result
    BY <1>3, <1>6
  <2> QED
    BY <1>1, <1>4, <1>6, <2>1, <2>2, MoveFits DEF Heading
<1> QED
  BY <1>3, <1>5, <1>6

(* The search goes on in the same part. *)
LEMMA NotADelimiterFits == ASSUME IInv, FitInv, NotADelimiter PROVE FitInv'
<1>1. /\ UNCHANGED <<request, items, encoding, disposition, files, fields, result, pc, i>>
      /\ pc = "data"
  BY DEF NotADelimiter, parser, counts
<1>2. IsFile' = IsFile
  BY <1>1 DEF IsFile, Given
<1>3. CountsInv'
  BY <1>1, <1>2, ItemsStay DEF FitInv, CountsInv
<1> QED
  BY <1>1, <1>3, BodyIsRead, MoveFits DEF Heading

(* The part that was counted becomes an item, from bytes of its own. *)
LEMMA PartEndsFits == ASSUME IInv, IInv', FitInv, PartEnds PROVE FitInv'
<1> DEFINE data == SubSeq(Body, i, Found - 1)
           item == Item(Given(NameParams), IsFile, contentType, data)
<1>1. /\ UNCHANGED <<request, encoding, files, fields>> /\ Body' = Body
      /\ pc = "data" /\ Found <= Len(Body) /\ i' = After + 2
  BY DEF PartEnds, parser, counts, Body
<1>2. \/ pc' = "done" /\ items' = items
      \/ pc' \in {"headers", "done"} /\ items' = Append(items, item)
  BY Zenon DEF PartEnds, Goto, Finish, Reject
<1>3. /\ encoding = "multipart" /\ i <= search /\ Len(Body) \in Nat /\ i \in 1..Len(Body) + 2
      /\ Body \in Seq(ToSet(Body)) /\ i' \in 1..Len(Body) + 2
  BY <1>1, BodyIsRead DEF IInv, StagesInv, PartInv, TypeOK
<1>4. Found \in search..Len(Body) /\ After = Found + Len(Delimiter) /\ Len(Delimiter) \in Nat
  BY <1>1, FoundIsFirst, DelimiterHasOneCR DEF After, IInv
<1>5. CASE pc' = "done" /\ items' = items
  BY <1>1, <1>3, <1>5, EndFits
<1>6. CASE pc' \in {"headers", "done"} /\ items' = Append(items, item)
  <2>1. Len(data) = Found - i /\ Found - i \in Nat
    <3>1. search \in Nat /\ i \in 1..Len(Body) + 1 /\ Found - 1 \in 0..Len(Body) /\ i <= Found
      BY <1>3, <1>4, BodyIsRead
    <3>2. Len(data) = IF Found - 1 < i THEN 0 ELSE Found - 1 + 1 - i
      BY <1>3, <3>1, StretchKeeps
    <3>3. Found \in Int /\ i \in Int /\ i <= Found
      BY <1>3, <1>4, <3>1
    <3> HIDE DEF data
    <3>4. CASE Found - 1 < i
      <4>1. Found = i
        BY <3>3, <3>4
      <4> QED
        BY <3>2, <3>3, <3>4, <4>1
    <3>5. CASE ~(Found - 1 < i)
      BY <3>2, <3>3, <3>5
    <3> QED
      BY <3>4, <3>5
  <2>2. item.data = data /\ item.file = IsFile
    BY DEF Item
  <2>3. pc' # "done" => result' = result
    BY <1>1, Zenon DEF PartEnds, Goto, Finish, Reject
  <2> HIDE DEF item, data
  <2>4. i + Len(item.data) + 2 <= i' /\ Len(item.data) \in Nat
    BY <1>1, <1>3, <1>4, <2>1, <2>2
  <2>5. /\ Sized(items) /\ Cardinality(FilesAmong(items)) \in Nat
        /\ Cardinality(TextsAmong(items)) \in Nat /\ files \in Nat /\ fields \in Nat
    <3>1. Sized(items) /\ files \in Nat /\ fields \in Nat
      BY BodyIsRead DEF FitInv, ItemsInv, IInv, TypeOK
    <3>2. Len(item.data) \in Nat
      BY <2>4
    <3>3. Cardinality(FilesAmong(items)) \in Nat /\ Cardinality(TextsAmong(items)) \in Nat
      BY <3>1, <3>2, CountsGrow, Zenon
    <3> QED
      BY <3>1, <3>3
  <2>6. /\ IsFile => /\ Cardinality(FilesAmong(items)) + 1 = files /\ files <= MaxFiles
                     /\ Cardinality(TextsAmong(items)) = fields
        /\ ~IsFile => /\ Cardinality(TextsAmong(items)) + 1 = fields /\ fields <= MaxFields
                      /\ Cardinality(FilesAmong(items)) = files
    BY <1>1, <2>5 DEF FitInv, CountsInv
  <2>7. CountsInv'
    <3>1. /\ IsFile => /\ Cardinality(FilesAmong(items)') = Cardinality(FilesAmong(items)) + 1
                       /\ TextsAmong(items)' = TextsAmong(items)
          /\ ~IsFile => /\ Cardinality(TextsAmong(items)') = Cardinality(TextsAmong(items)) + 1
                        /\ FilesAmong(items)' = FilesAmong(items)
      BY <1>6, <2>2, <2>4, <2>5, CountsGrow
    <3> QED
      BY <1>1, <1>6, <2>6, <3>1 DEF CountsInv
  <2>8. i \in Nat \ {0} /\ pc' \in {"urlencoded", "headers", "done"}
    BY <1>3, <1>6
  <2> QED
    BY <1>1, <1>3, <1>6, <2>2, <2>3, <2>4, <2>6, <2>7, <2>8, ItemFits
<1> QED
  BY <1>2, <1>5, <1>6

(* Before anything is read there is nothing to fit. *)
LEMMA InitFits == Init => FitInv
<1> SUFFICES ASSUME Init PROVE FitInv
  OBVIOUS
<1>1. FilesAmong(items) = {} /\ TextsAmong(items) = {}
  BY DEF Init, FilesAmong, TextsAmong
<1>2. Weight(items) = 0
  <2> DEFINE f == [n \in 0..Len(items) |-> 0]
  <2>1. Len(items) = 0
    BY DEF Init
  <2>2. f \in [0..Len(items) -> Nat] /\ f[0] = 0 /\ f[Len(items)] = 0
    BY <2>1
  <2>3. \A n \in 1..Len(items) : f[n] = f[n - 1] + (Len(items[n].data) + 1)
    BY <2>1
  <2>4. Len(items) \in Nat
    BY <2>1
  <2> HIDE DEF f
  <2>5. Weight(items) = f[Len(items)]
    BY <2>2, <2>3, <2>4, WeightIsLast
  <2> QED
    BY <2>2, <2>5
<1>3. Len(Body) \in Nat
  BY RequestIsRead DEF Init
<1>4. Sized(items)
  BY DEF Init, Sized
<1> QED
  BY <1>1, <1>2, <1>3, <1>4 DEF Init, FitInv, ItemsInv, CountsInv, WeightInv, FitsIntake

(* What Intake draws its items within is what this parser lets through: no *)
(* form has more files or fields than the limits, and its items take no    *)
(* more of the body than there is (form.rs, urlencoded and multipart).     *)
THEOREM FitsWithinLimits == Spec => []FitsIntake
<1>1. IInv /\ IInv' /\ FitInv /\ [Next]_vars => FitInv'
  <2> SUFFICES ASSUME IInv, IInv', FitInv, Next \/ UNCHANGED vars PROVE FitInv'
    OBVIOUS
  <2>1. CASE UNCHANGED vars
    BY <2>1, ItemsStay DEF vars, scanner, parser, part, counts, FitInv, ItemsInv, CountsInv,
       WeightInv, FitsIntake, Heading, IsFile, Given, Body
  <2> QED
    BY <2>1, HeadingFits, ChooseParserFits, EndsFit, FieldFits, StartFits, HeaderFits,
       HeadersEndFits, NotADelimiterFits, PartEndsFits DEF Next
<1>2. FitInv => FitsIntake
  BY DEF FitInv
<1> QED
  BY <1>1, <1>2, InitFits, Invariance, PTL DEF Spec

=================================================================================

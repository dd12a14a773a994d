---------------------------------- MODULE Form ----------------------------------
(***************************************************************************)
(* The request body as the Rust relay reads it (rust/src/form.rs): the     *)
(* Content-Type header is split into its parameters, they choose the       *)
(* parser, and the parser turns the buffered body into the ordered items   *)
(* of the form or into 400 or 413.                                         *)
(*                                                                         *)
(* Header and body are sequences of symbols.  A symbol is a byte where the *)
(* scanners look at bytes (CR, LF, "-", quotes, "%" and so on) and a       *)
(* whole word where they do not ("content-disposition", "boundary").  A    *)
(* parameter of a Content-Disposition is one symbol.  Every symbol counts  *)
(* as one byte for the limits.  Texts are kept as bytes: their charset is  *)
(* a conversion that never fails.                                          *)
(***************************************************************************)
EXTENDS Integers, Sequences, FiniteSets, SequencesExt

CONSTANTS
  Requests,            (* the requests: content type (type), body, and for *)
                       (* the properties what the client meant: the items  *)
                       (* of its form (meant), whether they are within the *)
                       (* limits (fits), and how they were sent: "whole",  *)
                       (* "cut" off, "malformed" or in any "other" way     *)
  Tokens,              (* symbols made of RFC 7230 token characters        *)
  NameParams,          (* the name parameters of a Content-Disposition ... *)
  FilenameParams,      (* ... and its filename parameters                  *)
  MaxFiles, MaxFields, MaxPartSize,                            (* Limits   *)
  MaxBoundaryLength, MaxHeaderCount, MaxHeaderSize

ASSUME FormLimitsAssumption ==
  /\ MaxFiles \in Int /\ MaxFields \in Int /\ MaxPartSize \in Int
  /\ MaxBoundaryLength \in Nat /\ MaxHeaderCount \in Nat /\ MaxHeaderSize \in Nat

(* No header value holds a CR: the HTTP library does not let it through. *)
ASSUME RequestsAssumption ==
  \A r \in Requests : /\ r.type \in Seq(ToSet(r.type)) /\ r.body \in Seq(ToSet(r.body))
                      /\ "CR" \notin ToSet(r.type)

VARIABLES
  request,    (* never changes *)
  pc, result, (* what comes next; 0, 200 (parsed), 400 or 413 *)
  start, end, ind, diff, params,                          (* parseparam    *)
  encoding, boundary,                                     (* Encoding      *)
  i, search,                                              (* urlencoded    *)
  count, disposition, contentType, files, fields, items,  (* and multipart *)
  cuts        (* history: the segments of the header, then the bytes of    *)
              (* the body each item was cut from, as <<first, behind>>     *)

scanner == <<start, end, ind, diff, params>>
parser  == <<encoding, boundary>>
part    == <<search, count, disposition, contentType>>
counts  == <<files, fields>>
vars    == <<request, pc, result, scanner, parser, i, part, counts, items, cuts>>

Type == <<"semicolon">> \o request.type
Body == request.body

-------------------------------------------------------------------------------
(* Sequences of symbols *)

(* The first of some symbols at or after a position, else Len(s) + 1. *)
First(s, symbols, from) ==
  LET found == {k \in from..Len(s) : s[k] \in symbols}
  IN IF found = {} THEN Len(s) + 1 ELSE Min(found)

(* What is left without some positions, in its order. *)
Drop(s, positions) ==
  LET kept   == DOMAIN s \ positions
      nth(n) == CHOOSE k \in kept : Cardinality({j \in kept : j <= k}) = n
  IN [n \in 1..Cardinality(kept) |-> s[nth(n)]]

Strip(s) ==
  LET inner == {k \in DOMAIN s : s[k] # "space"}
  IN IF inner = {} THEN <<>> ELSE SubSeq(s, Min(inner), Max(inner))

LowerOf == [w \in {"Multipart", "Boundary"} |->
              IF w = "Multipart" THEN "multipart" ELSE "boundary"]
Lower(s) == [k \in DOMAIN s |-> IF s[k] \in DOMAIN LowerOf THEN LowerOf[s[k]] ELSE s[k]]

(* Where a sequence of symbols occurs. *)
Occurs(s, word, k) ==
  k + Len(word) <= Len(s) + 1 /\ \A n \in DOMAIN word : s[k + n - 1] = word[n]

(* One level of quotes removed: first each doubled backslash becomes one,  *)
(* then each backslash in front of a quote goes.                           *)
Unquoted(s) ==
  LET inner   == SubSeq(s, 2, Len(s) - 1)
      run(k)  == {j \in 1..k : \A m \in j..k : inner[m] = "backslash"}
      doubled == {k \in 1..Len(inner) - 1 :
                    Cardinality(run(k)) % 2 = 1 /\ inner[k + 1] = "backslash"}
      single  == Drop(inner, doubled)
  IN IF Len(s) >= 2 /\ s[1] = "quote" /\ s[Len(s)] = "quote"
     THEN Drop(single, {k \in 1..Len(single) - 1 :
                          single[k] = "backslash" /\ single[k + 1] = "quote"})
     ELSE s

(* Percent decoding.  Hex digits are never "%", so escapes do not overlap. *)
Hex == {"2", "5", "6", "B"}
ByteOf(high, low) == CASE high = "2" /\ low = "6" -> "&"
                       [] high = "2" /\ low = "5" -> "%"
                       [] high = "2" /\ low = "B" -> "+"
                       [] OTHER                   -> "other"
UnquotePlus(s) ==
  LET escapes == {k \in 1..Len(s) - 2 : s[k] = "%" /\ s[k + 1] \in Hex /\ s[k + 2] \in Hex}
      decoded == [k \in DOMAIN s |-> CASE k \in escapes -> ByteOf(s[k + 1], s[k + 2])
                                       [] s[k] = "+"    -> "space"
                                       [] OTHER         -> s[k]]
  IN Drop(decoded, {k + 1 : k \in escapes} \cup {k + 2 : k \in escapes})

-------------------------------------------------------------------------------
Init ==
  /\ request \in Requests
  /\ pc = "params" /\ result = 0
  /\ start = 1 /\ end = 0 /\ ind = 1 /\ diff = 0 /\ params = <<>>
  /\ encoding = "unknown" /\ boundary = <<>>
  /\ i = 1 /\ search = 1
  /\ count = 0 /\ disposition = <<>> /\ contentType = <<>>
  /\ files = 0 /\ fields = 0 /\ items = <<>>
  /\ cuts = <<>>

Goto(step)    == pc' = step /\ UNCHANGED result
Finish        == pc' = "done" /\ result' = 200
Reject(code)  == pc' = "done" /\ result' = code
(* Mutant: one more is let through. *)
exceedsLate(n, max) == n > max + 1
exceeds(n, max) == n > max

-------------------------------------------------------------------------------
(* parseparam: the header is split at the semicolons outside quotes.       *)
(* Positions are those of Type, where 0 stands for "not found".            *)

(* Mutant: what is not found is behind the end. *)
FindBehind(symbol, from) == First(Type, {symbol}, from)
Find(symbol, from) == LET at == First(Type, {symbol}, from) IN IF at > Len(Type) THEN 0 ELSE at

(* Quotes that are not escaped, from a position up to (not including)      *)
(* another one; a position that was not found is the last one.             *)
Quotes(from, to) ==
  LET first == IF from = 0 THEN Len(Type) ELSE from
  IN Cardinality({k \in first..to - 1 : Type[k] = "quote"})
       - Cardinality({k \in first..to - 2 : Type[k] = "backslash" /\ Type[k + 1] = "quote"})

NextSegment ==
  /\ pc = "params" /\ start <= Len(Type) /\ Type[start] = "semicolon"
  /\ start' = start + 1
  /\ end' = Find("semicolon", start') /\ ind' = start' /\ diff' = 0
  /\ Goto("quotes")
  /\ UNCHANGED <<request, params, parser, i, part, counts, items, cuts>>

(* Mutant: the quotes of this stretch alone decide. *)
CountQuotesAnew ==
  /\ pc = "quotes"
  /\ IF end = 0 THEN Goto("segment") /\ UNCHANGED <<end, ind, diff>>
     ELSE /\ diff' = Quotes(ind, end)
          /\ IF diff' % 2 = 0 THEN Goto("segment") /\ UNCHANGED <<end, ind>>
             ELSE Goto("quotes") /\ end' = ind /\ ind' = Find("semicolon", end + 1)
  /\ UNCHANGED <<request, start, params, parser, i, part, counts, items, cuts>>

(* While the quotes are odd, end and ind swap: every second round looks at *)
(* an empty stretch before the next semicolon is reached.                  *)
CountQuotes ==
  /\ pc = "quotes"
  /\ IF end = 0 THEN Goto("segment") /\ UNCHANGED <<end, ind, diff>>
     ELSE /\ diff' = diff + Quotes(ind, end)
          /\ IF diff' % 2 = 0 THEN Goto("segment") /\ UNCHANGED <<end, ind>>
             ELSE Goto("quotes") /\ end' = ind /\ ind' = Find("semicolon", end + 1)
  /\ UNCHANGED <<request, start, params, parser, i, part, counts, items, cuts>>

(* A segment is <<key, value>>, or <<text>> if it has no "=". *)
Segment ==
  /\ pc = "segment"
  /\ LET behind == IF end = 0 THEN Len(Type) + 1 ELSE end
         text   == SubSeq(Type, start, behind - 1)
         equals == First(text, {"="}, 1)
     IN /\ params' = Append(params,
                       IF equals > Len(text) THEN <<Strip(text)>>
                       ELSE <<Strip(Lower(SubSeq(text, 1, equals - 1))),
                              Strip(SubSeq(text, equals + 1, Len(text)))>>)
        /\ cuts' = Append(cuts, <<start, behind>>)
        /\ start' = behind
  /\ Goto("params")
  /\ UNCHANGED <<request, end, ind, diff, parser, i, part, counts, items>>

-------------------------------------------------------------------------------
(* encoding *)

(* The last parameter with a key, as <<value>>, else <<>>.  Keys with a    *)
(* "*" are skipped.                                                        *)
Param(key) ==
  LET with == {k \in 2..Len(params) : params[k][1] = <<key>>}
      last == params[Max(with)]
  IN IF with = {} THEN <<>>
     ELSE <<IF Len(last) = 1 THEN <<>> ELSE Unquoted(last[2])>>

(* Lowercased only if there is no parameter. *)
Essence ==
  IF \E k \in DOMAIN request.type : request.type[k] = "semicolon" THEN params[1]
  ELSE <<Strip(Lower(request.type))>>

Charsets == {<<"utf-8">>, <<"latin-1">>}

ChooseParser ==
  /\ pc = "params" /\ start > Len(Type)
  /\ LET malformed == \/ Param("charset") # <<>> /\ Param("charset")[1] \notin Charsets
                      \/ Param("boundary") = <<>>
                      \/ Len(Param("boundary")[1]) > MaxBoundaryLength
     IN \/ /\ Essence = <<<<"urlencoded">>>>
           /\ encoding' = "urlencoded" /\ Goto("urlencoded") /\ UNCHANGED boundary
        \/ /\ Essence = <<<<"multipart">>>>
           /\ IF malformed THEN Reject(400) /\ UNCHANGED parser
              ELSE /\ encoding' = "multipart" /\ boundary' = Param("boundary")[1]
                   /\ Goto("start")
        \/ /\ Essence \notin {<<<<"urlencoded">>>>, <<<<"multipart">>>>}
           /\ encoding' = "none" /\ Finish /\ UNCHANGED boundary
  /\ cuts' = <<>>
  /\ UNCHANGED <<request, scanner, i, part, counts, items>>

-------------------------------------------------------------------------------
(* urlencoded: the fields between "&", one action per field. *)

Item(name, file, type, data) == [name |-> name, file |-> file, type |-> type, data |-> data]
Behind(field) == First(Body, {"&"}, field)

Field ==
  /\ pc = "urlencoded" /\ i <= Len(Body) + 1
  /\ LET field  == SubSeq(Body, i, Behind(i) - 1)
         equals == First(field, {"="}, 1)
         name   == SubSeq(field, 1, equals - 1)
         value  == SubSeq(field, equals + 1, Len(field))
         large  == \/ name # <<>> /\ exceeds(Len(name), MaxPartSize)
                   \/ value # <<>> /\ exceeds(Len(name) + Len(value), MaxPartSize)
     IN CASE field = <<>> -> Goto("urlencoded") /\ UNCHANGED <<items, cuts>>
          [] field # <<>> /\ (large \/ exceeds(Len(items) + 1, MaxFields)) ->
               Reject(413) /\ UNCHANGED <<items, cuts>>
          [] OTHER ->
               /\ items' = Append(items, Item(UnquotePlus(name), FALSE, <<>>, UnquotePlus(value)))
               /\ cuts' = Append(cuts, <<i, Behind(i)>>)
               /\ Goto("urlencoded")
  /\ i' = Behind(i) + 1
  /\ UNCHANGED <<request, scanner, parser, part, counts>>

FieldsEnd ==
  /\ pc = "urlencoded" /\ i > Len(Body) + 1
  /\ Finish
  /\ UNCHANGED <<request, scanner, parser, i, part, counts, items, cuts>>

-------------------------------------------------------------------------------
(* multipart *)

At(k) == IF k <= Len(Body) THEN Body[k] ELSE "behind"
AreAt(k, two) == At(k) = two[1] /\ At(k + 1) = two[2]
CRLF   == <<"CR", "LF">>
Dashes == <<"-", "-">>
Delimiter == CRLF \o Dashes \o boundary

(* The body ends before it is clear whether CRLF or "--" is at a position. *)
EndsBefore(k, breaks) == At(k) = "behind" \/ (At(k) \in breaks /\ At(k + 1) = "behind")

(* Leading CR and LF are skipped, then comes the first boundary line. *)
Start ==
  /\ pc = "start"
  /\ LET line     == Dashes \o boundary
         first    == CHOOSE k \in 1..Len(Body) + 1 : /\ At(k) \notin {"CR", "LF"}
                                                     /\ \A j \in 1..k - 1 : At(j) \in {"CR", "LF"}
         differ   == {k \in DOMAIN line : At(first + k - 1) # line[k]}
         after    == first + Len(line)
     IN CASE first > 1 /\ At(first) \notin {"behind", "-"} -> Reject(400) /\ UNCHANGED i
          [] differ # {} -> /\ IF At(first + Min(differ) - 1) = "behind" THEN Finish ELSE Reject(400)
                            /\ UNCHANGED i
          [] differ = {} /\ (EndsBefore(after, {"CR", "-"}) \/ AreAt(after, Dashes)) ->
               Finish /\ UNCHANGED i
          [] differ = {} /\ AreAt(after, CRLF) -> Goto("headers") /\ i' = after + 2
          [] OTHER -> Reject(400) /\ UNCHANGED i
  /\ UNCHANGED <<request, scanner, parser, part, counts, items, cuts>>

(* One header line.  Its value is taken up to the next CR. *)
Header ==
  /\ pc = "headers" /\ ~EndsBefore(i, {"CR"}) /\ At(i) # "CR"
  /\ LET colon == First(Body, {":"}, i)
         name  == SubSeq(Body, i, colon - 1)
         value == CHOOSE k \in colon + 1..Len(Body) + 2 :
                    At(k) # "space" /\ \A j \in colon + 1..k - 1 : At(j) = "space"
         cr    == First(Body, {"CR"}, value)
         wrong == \/ count + 1 > MaxHeaderCount
                  \/ cr - i > MaxHeaderSize
                  \/ \E k \in DOMAIN name : name[k] \notin Tokens
                  \/ colon <= Len(Body) /\ name = <<>>
                  \/ colon <= Len(Body) /\ cr <= Len(Body) /\ At(cr + 1) \notin {"LF", "behind"}
         cut   == colon > Len(Body) \/ cr > Len(Body) \/ At(cr + 1) = "behind"
         text  == SubSeq(Body, value, cr - 1)
     IN CASE wrong        -> Reject(400) /\ UNCHANGED <<i, count, disposition, contentType>>
          [] ~wrong /\ cut -> Finish /\ UNCHANGED <<i, count, disposition, contentType>>
          [] OTHER ->
               /\ count' = count + 1
               /\ disposition' = IF name = <<"content-disposition">> THEN text ELSE disposition
               /\ contentType' = IF name = <<"content-type">> /\ contentType = <<>>
                                 THEN <<text>> ELSE contentType
               /\ i' = cr + 2
               /\ Goto("headers")
  /\ UNCHANGED <<request, scanner, parser, search, counts, items, cuts>>

(* A parameter of the disposition, the last one if it repeats. *)
Given(parameters) ==
  LET with == {k \in DOMAIN disposition : disposition[k] \in parameters}
  IN IF with = {} THEN <<>> ELSE <<disposition[Max(with)]>>
IsFile == Given(FilenameParams) # <<>>

(* The name is required, then the part is counted, before its data is read. *)
HeadersEnd ==
  /\ pc = "headers" /\ At(i) = "CR" /\ At(i + 1) # "behind"
  /\ files'  = IF IsFile /\ AreAt(i, CRLF) /\ Given(NameParams) # <<>> THEN files + 1 ELSE files
  /\ fields' = IF ~IsFile /\ AreAt(i, CRLF) /\ Given(NameParams) # <<>> THEN fields + 1 ELSE fields
  /\ IF ~AreAt(i, CRLF) \/ Given(NameParams) = <<>> THEN Reject(400)
     ELSE IF IF IsFile THEN exceeds(files', MaxFiles) ELSE exceeds(fields', MaxFields)
          THEN Reject(413) ELSE Goto("data")
  /\ i' = i + 2 /\ search' = i + 2
  /\ UNCHANGED <<request, scanner, parser, count, disposition, contentType, items, cuts>>

(* The body ends within the headers: the part is dropped. *)
HeadersCut ==
  /\ pc = "headers" /\ EndsBefore(i, {"CR"})
  /\ Finish
  /\ UNCHANGED <<request, scanner, parser, i, part, counts, items, cuts>>

DelimiterFrom(k) ==
  LET delimiter == Delimiter
      found     == {at \in k..Len(Body) : At(at) = "CR" /\ Occurs(Body, delimiter, at)}
  IN IF found = {} THEN Len(Body) + 1 ELSE Min(found)
(* The next delimiter, and what follows it. *)
Found == DelimiterFrom(search)
After == Found + Len(Delimiter)

(* Mutant: the unfinished part is kept. *)
DataCutKept ==
  /\ pc = "data" /\ (Found > Len(Body) \/ EndsBefore(After, {"CR", "-"}))
  /\ items' = Append(items, Item(Given(NameParams), IsFile, contentType,
                                 SubSeq(Body, i, Len(Body))))
  /\ Finish
  /\ UNCHANGED <<request, scanner, parser, i, part, counts, cuts>>

(* No delimiter, or the body ends with it: the part is dropped. *)
DataCut ==
  /\ pc = "data" /\ (Found > Len(Body) \/ EndsBefore(After, {"CR", "-"}))
  /\ Finish
  /\ UNCHANGED <<request, scanner, parser, i, part, counts, items, cuts>>

(* Mutant: the search goes on two bytes further. *)
NotADelimiterSkips ==
  /\ pc = "data" /\ Found <= Len(Body) /\ ~EndsBefore(After, {"CR", "-"})
  /\ ~AreAt(After, CRLF) /\ ~AreAt(After, Dashes)
  /\ search' = IF At(After) \in {"CR", "-"} THEN After + 2 ELSE After
  /\ UNCHANGED <<request, pc, result, scanner, parser, i, count, disposition, contentType,
                 counts, items, cuts>>
(* Mutant: the search starts again at what it has found. *)
NotADelimiterStays ==
  /\ pc = "data" /\ Found <= Len(Body) /\ ~EndsBefore(After, {"CR", "-"})
  /\ ~AreAt(After, CRLF) /\ ~AreAt(After, Dashes)
  /\ search' = Found
  /\ UNCHANGED <<request, pc, result, scanner, parser, i, count, disposition, contentType,
                 counts, items, cuts>>

(* A delimiter followed by anything else is data. *)
NotADelimiter ==
  /\ pc = "data" /\ Found <= Len(Body) /\ ~EndsBefore(After, {"CR", "-"})
  /\ ~AreAt(After, CRLF) /\ ~AreAt(After, Dashes)
  /\ search' = IF At(After) \in {"CR", "-"} THEN After + 1 ELSE After
  /\ UNCHANGED <<request, pc, result, scanner, parser, i, count, disposition, contentType,
                 counts, items, cuts>>

(* Only texts have a size limit here, the files have theirs in parse_form. *)
PartEnds ==
  /\ pc = "data" /\ Found <= Len(Body) /\ (AreAt(After, CRLF) \/ AreAt(After, Dashes))
  /\ LET data == SubSeq(Body, i, Found - 1)
     IN IF ~IsFile /\ data # <<>> /\ exceeds(Len(data), MaxPartSize)
        THEN Reject(413) /\ UNCHANGED <<items, cuts>>
        ELSE /\ items' = Append(items, Item(Given(NameParams), IsFile, contentType, data))
             /\ cuts' = Append(cuts, <<i, Found>>)
             /\ IF AreAt(After, Dashes) THEN Finish ELSE Goto("headers")
  /\ i' = After + 2
  /\ count' = 0 /\ disposition' = <<>> /\ contentType' = <<>>
  /\ UNCHANGED <<request, scanner, parser, search, counts>>

Next ==
  \/ NextSegment \/ CountQuotes \/ Segment \/ ChooseParser
  \/ Field \/ FieldsEnd
  \/ Start \/ Header \/ HeadersEnd \/ HeadersCut \/ NotADelimiter \/ DataCut \/ PartEnds

Spec == Init /\ [][Next]_vars /\ WF_vars(Next)

-------------------------------------------------------------------------------
TypeOK ==
  /\ pc \in {"params", "quotes", "segment", "urlencoded", "start", "headers", "data", "done"}
  /\ result \in {0, 200, 400, 413}
  /\ start \in 1..Len(Type) + 1 /\ end \in 0..Len(Type) /\ ind \in 0..Len(Type) + 1
  /\ diff \in Int
  /\ encoding \in {"unknown", "none", "urlencoded", "multipart"}
  /\ i \in 1..Len(Body) + 2 /\ search \in 1..Len(Body) + 2
  /\ count \in 0..MaxHeaderCount /\ files \in 0..Len(Body) /\ fields \in 0..Len(Body)
  /\ \A n \in DOMAIN cuts : cuts[n][1] <= cuts[n][2]

(* Whatever a client encodes is read back: names, values and files with    *)
(* data that looks like a boundary, an escape or a separator come out as   *)
(* they were meant and in their order, or the form is refused with 413     *)
(* because of its limits.  A body that is cut off yields the whole parts   *)
(* that came before the cut, never a part of a part, and is not refused as *)
(* malformed (rust/src/form.rs, the comment of multipart).  What exceeds   *)
(* the limits on headers and boundaries by one is malformed.               *)
ReadsBack ==
  /\ request.sent \in {"whole", "cut"} =>
       /\ IsPrefix(items, request.meant)
       /\ pc = "done" => \/ result = 200 /\ (request.sent = "whole" => items = request.meant)
                         \/ result = 413
       /\ pc = "done" /\ request.sent = "whole" => (result = 200 <=> request.fits)
  /\ request.sent = "malformed" /\ pc = "done" => result = 400

(* Whatever the bytes are: a part ends at the first delimiter behind its   *)
(* headers that CRLF or "--" follows, and nowhere else, so no boundary     *)
(* line is swallowed into the data of a part and none is seen where there  *)
(* is only something like it.                                              *)
IsBoundaryLine(k) ==
  /\ AreAt(k, CRLF) /\ Occurs(Body, Delimiter, k)
  /\ AreAt(k + Len(Delimiter), CRLF) \/ AreAt(k + Len(Delimiter), Dashes)
PartsAreDelimited ==
  encoding = "multipart" =>
    /\ \A n \in DOMAIN cuts :
         /\ AreAt(cuts[n][1] - 2, CRLF) /\ IsBoundaryLine(cuts[n][2])
         /\ \A k \in cuts[n][1]..cuts[n][2] - 1 : ~IsBoundaryLine(k)
         /\ n > 1 => cuts[n][1] >= cuts[n - 1][2] + Len(Delimiter) + 2
    /\ pc = "data" => \A k \in i..search - 1 : ~IsBoundaryLine(k)

(* The header is split at a semicolon exactly where the quotes before it,  *)
(* in its segment, are closed; the segments follow on each other up to the *)
(* end, so nothing of the header is left out, whatever its quotes.         *)
ClosedAt(from, k) ==
  Cardinality({q \in from..k - 1 : Type[q] = "quote" /\ ~(q > from /\ Type[q - 1] = "backslash")}) % 2 = 0
SplitsAt(from, k) == Type[k] = "semicolon" /\ ClosedAt(from, k)
SegmentsRespectQuotes ==
  encoding = "unknown" =>
    /\ \A n \in DOMAIN cuts :
         /\ cuts[n][1] = (IF n = 1 THEN 1 ELSE cuts[n - 1][2]) + 1
         /\ cuts[n][2] <= Len(Type) => SplitsAt(cuts[n][1], cuts[n][2])
         /\ \A k \in cuts[n][1]..cuts[n][2] - 1 : ~SplitsAt(cuts[n][1], k)
    /\ pc = "params" /\ start <= Len(Type) => Type[start] = "semicolon"

(* What Intake takes for granted of the items of a form (its action Take): *)
(* they are within the parser limits and each takes a byte of the body     *)
(* besides its data.                                                       *)
FilesAmong(list) == {n \in DOMAIN list : list[n].file}
TextsAmong(list) == DOMAIN list \ FilesAmong(list)
Weight(list) ==
  LET Upto[n \in 0..Len(list)] == IF n = 0 THEN 0 ELSE Upto[n - 1] + (Len(list[n].data) + 1)
  IN Upto[Len(list)]
FitsIntake ==
  /\ FilesAmong(items) # {} => Cardinality(FilesAmong(items)) <= MaxFiles
  /\ TextsAmong(items) # {} => Cardinality(TextsAmong(items)) <= MaxFields
  /\ Weight(items) <= Len(Body)
  /\ encoding = "urlencoded" => FilesAmong(items) = {} /\ result # 400
  /\ encoding \in {"unknown", "none"} => items = <<>>

(* The scanners come to an end: each of the searches starts again behind   *)
(* where the last one stopped, and the swap of end and ind does not turn   *)
(* in circles.                                                             *)
Terminates == <>(pc = "done")

===============================================================================

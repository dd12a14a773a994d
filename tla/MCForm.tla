-------------------------------- MODULE MCForm --------------------------------
(***************************************************************************)
(* Form for TLC: forms as clients encode them, with data that is as near   *)
(* to a boundary line as it can be, the same bodies cut off at every byte  *)
(* or with one byte replaced, urlencoded forms with escapes, and every     *)
(* short content type and urlencoded body there is.                        *)
(***************************************************************************)
EXTENDS Form

Strings(symbols, n) == UNION {[1..k -> symbols] : k \in 0..n}
Flat(seqs) == FlattenSeq(seqs)

Request(type, body, meant, fits, sent) ==
  [type |-> type, body |-> body, meant |-> meant, fits |-> fits, sent |-> sent]

Multipart == <<"multipart", "semicolon", "space", "Boundary", "=", "B">>
Line      == <<"CR", "LF", "-", "-", "B">>

(* Data that is nearly a boundary line, and data that is not. *)
NearLines == {Line \o <<"x">>, Line \o <<"-">>, Line \o <<"CR">>, Line \o <<"-", "CR", "LF">>}
Data      == {<<>>, <<"x">>, <<"CR">>} \cup NearLines

Disposition(given) == <<"content-disposition", ":", "space">> \o given \o <<"CR", "LF">>
ContentType(type)   == <<"content-type", ":", type, "CR", "LF">>

(* The headers of a part and what they mean: of two dispositions the last, *)
(* of two content types the first counts.                                  *)
Headers == {
  [lines |-> Disposition(<<"name=a">>), name |-> "name=a", file |-> FALSE, type |-> <<>>],
  [lines |-> Disposition(<<"filename=f">>) \o Disposition(<<"name=b", "name=a">>),
   name |-> "name=a", file |-> FALSE, type |-> <<>>],
  [lines |-> ContentType("x") \o Disposition(<<"name=b", "filename=f">>) \o ContentType("t"),
   name |-> "name=b", file |-> TRUE, type |-> <<<<"x">>>>]}

Part(header, data) == [header |-> header, data |-> data]
Meant(p) == Item(<<p.header.name>>, p.header.file, p.header.type, p.data)
Encoded(p) == p.header.lines \o CRLF \o p.data \o Line
EncodedForm(parts) ==
  SubSeq(Line, 3, 5) \o
  (IF parts = <<>> THEN <<>>
   ELSE Flat([n \in DOMAIN parts |-> CRLF \o Encoded(parts[n])])) \o <<"-", "-">>
Fits(parts) ==
  /\ Len(SelectSeq(parts, LAMBDA p : p.header.file)) <= MaxFiles
  /\ Len(SelectSeq(parts, LAMBDA p : ~p.header.file)) <= MaxFields
  /\ \A n \in DOMAIN parts : ~parts[n].header.file => Len(parts[n].data) <= MaxPartSize

Whole(parts) == Request(Multipart, EncodedForm(parts), [n \in DOMAIN parts |-> Meant(parts[n])],
                        Fits(parts), "whole")
Cut(r, k) == [r EXCEPT !.body = SubSeq(@, 1, k), !.sent = "cut"]
Replaced(r, k, symbol) == [r EXCEPT !.body[k] = symbol, !.sent = "other"]

Parts == {Part(h, d) : h \in Headers, d \in Data}
Plain == {Part(h, <<>>) : h \in Headers}
Small == Part(CHOOSE h \in Headers : h.type = <<>>, <<"x">>)
Forms == {<<>>} \cup {<<p>> : p \in Parts} \cup {<<p, q>> : p, q \in Parts}
         \cup {<<p, q, r>> : p, q, r \in Plain}
WholeForms   == {Whole(f) : f \in Forms}
LeadingForms == {[Whole(<<p>>) EXCEPT !.body = s \o @] : p \in Parts, s \in {<<"CR", "LF">>, <<"LF">>}}
CutForms     == UNION {{Cut(r, k) : k \in 0..Len(r.body)} :
                         r \in {Whole(<<p, Small>>) : p \in Parts}}
NoisyForms   == UNION {{Replaced(r, k, s) : k \in DOMAIN r.body, s \in {"CR", "-", ":", "x"}} :
                         r \in {Whole(<<p, Small>>) : p \in Parts}}

(* Parts at the limits on headers, and one beyond them; no name; bytes in  *)
(* front of the first boundary line.                                       *)
Field1(lines) == [lines |-> lines, name |-> "name=a", file |-> FALSE, type |-> <<>>]
Named == Disposition(<<"name=a">>)
Limited(lines, sent) == [Whole(<<Part(Field1(lines), <<"x">>)>>) EXCEPT !.sent = sent]
Times(n, lines) == Flat([k \in 1..n |-> lines])
Edges ==
  {Limited(Times(3, Named), "whole"), Limited(Times(4, Named), "malformed"),
   Limited(<<"x", ":", "x", "x", "x", "x", "CR", "LF">> \o Named, "whole"),
   Limited(<<"x", ":", "x", "x", "x", "x", "x", "CR", "LF">> \o Named, "malformed"),
   Limited(<<"x", ":", "space", "space", "space", "space", "space", "CR", "LF">> \o Named, "malformed"),
   Limited(Disposition(<<"filename=f">>), "malformed"),
   Limited(<<":", "x", "CR", "LF">> \o Named, "malformed"),
   Limited(<<"space", ":", "x", "CR", "LF">> \o Named, "malformed")}
  \cup {[r EXCEPT !.body = <<"LF", "x">> \o @] : r \in {Limited(Named, "malformed")}}

(* Urlencoded forms. *)
Escape(c) == CASE c = "&" -> <<"%", "2", "6">>
               [] c = "%" -> <<"%", "2", "5">>
               [] c = "+" -> <<"%", "2", "B">>
               [] c = "space" -> <<"+">>
               [] OTHER   -> <<c>>
Escaped(s) == IF s = <<>> THEN <<>> ELSE Flat([k \in DOMAIN s |-> Escape(s[k])])
FieldNames  == {<<"a">>, <<"&">>}
FieldValues == Strings({"a", "&", "%", "+", "space", "="}, 1) \cup {<<"%", "2">>, <<"&", "=">>, <<"+", "+">>}
Pair(name, value) == Escaped(name) \o <<"=">> \o Escaped(value)
FitsPair(name, value) == Len(Pair(name, value)) - 1 <= MaxPartSize
UrlForms ==
  {Request(<<"urlencoded">>, Pair(n, v) \o <<"&">> \o Pair(m, w),
           <<Item(n, FALSE, <<>>, v), Item(m, FALSE, <<>>, w)>>,
           2 <= MaxFields /\ FitsPair(n, v) /\ FitsPair(m, w), "whole") :
     n, m \in FieldNames, v, w \in FieldValues}
UrlBodies == {Request(<<"urlencoded">>, b, <<>>, FALSE, "other") :
                b \in Strings({"&", "=", "%", "2"}, 5)}

(* Content types.  An empty form is read with every boundary. *)
TypeOf(key, value) == <<"multipart", "semicolon">> \o key \o <<"=">> \o value
Quoted(s) == <<"quote">> \o s \o <<"quote">>
Types ==
  {Request(TypeOf(<<"space", "Boundary", "space">>, q) \o rest, <<"-", "-">> \o b \o <<"-", "-">>, <<>>, TRUE, "whole") :
     <<b, q>> \in {<<b, Quoted(b)>> : b \in Strings({"B", "semicolon", "space"}, 3)} \cup {<<<<"B">>, <<"space", "B", "space">>>>},
     rest \in {<<>>, <<"semicolon", "charset", "=", "utf-8">>, <<"semicolon", "semicolon", "charset">> \o <<"=">> \o Quoted(<<"latin-1">>)}}
  \cup {Request(<<"multipart", "semicolon", "boundary">>, <<"-", "-", "-", "-">>, <<>>, TRUE, "whole"),
        Request(<<"multipart", "semicolon", "Boundary">>, <<"-", "-", "-", "-">>, <<>>, TRUE, "malformed"),
        Request(<<"multipart", "semicolon", "boundary", "=", "B", "semicolon", "charset", "=", "cp1252">>, <<"-">>, <<>>, TRUE, "malformed"),
        Request(<<"multipart", "semicolon", "boundary", "=", "B", "B", "B", "B">>, <<"-">>, <<>>, TRUE, "malformed"),
        Request(<<"Multipart">>, <<"-">>, <<>>, TRUE, "malformed"),
        Request(<<"Multipart", "semicolon", "boundary", "=", "B">>, <<"-">>, <<>>, TRUE, "other")}
  \cup {Request(t, <<>>, <<>>, TRUE, "other") : t \in Strings({"semicolon", "=", "quote", "backslash", "k"}, 5)}

SomeRequests == WholeForms \cup LeadingForms \cup CutForms \cup NoisyForms \cup Edges
                \cup UrlForms \cup UrlBodies \cup Types
SomeTokens == {"content-disposition", "content-type", "x", "-", "B", "form-data"}

===============================================================================

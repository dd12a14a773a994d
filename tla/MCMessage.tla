------------------------------- MODULE MCMessage -------------------------------
(***************************************************************************)
(* Message for TLC: recipients with every short display name, as clients   *)
(* quote them and in every other short form, texts made of characters and  *)
(* of encoded words that are short, long, unreadable or adjacent, and      *)
(* every small combination of bodies and uploads.                          *)
(***************************************************************************)
EXTENDS Message

Strings(symbols, n) == UNION {[1..m -> symbols] : m \in 0..n}
Times(n, s) == FlattenSeq([m \in 1..n |-> s])

SomeAddressOf == "a@x" :> "a@x" @@ "b@x" :> "b@x" @@ "i@u" :> "i@xn" @@ "i@xn" :> "i@xn"
                 @@ "=@x" :> "=@x"
SomeWithAt    == DOMAIN SomeAddressOf \cup {"@"}
SomeControls  == {"CR", "LF", "CTL"}
SomeBase64Of ==
  "a" :> "64a" @@ " " :> "64s" @@ "=" :> "64e" @@ "?" :> "64q" @@ "," :> "64k" @@ "." :> "64d"
  @@ "<" :> "64<" @@ ">" :> "64>" @@ "(" :> "64(" @@ ")" :> "64)" @@ "\"" :> "64z" @@ "\\" :> "64x"
  @@ "LF" :> "64n" @@ "CR" :> "64r" @@ "TAB" :> "64b" @@ "CTL" :> "64t" @@ "l" :> "64l" @@ "c" :> "64c"
Digits    == {"0", "A", "C", "3", "2"}
SomeHexOf == [d \in Digits \X Digits |-> CASE d = <<"0", "A">> -> "LF" [] d = <<"C", "3">> -> "l"
                                           [] d = <<"A", "0">> -> "c" [] d = <<"2", "C">> -> ","
                                           [] d = <<"2", "0">> -> " " [] OTHER -> "CTL"]
SomeCharsetName == "utf-8" :> "utf_8" @@ "latin1" :> "latin_1"
SomeLowerName == "X" :> "x" @@ "Long" :> "long" @@ "Reply-To" :> "reply-to" @@ "REPLY-TO" :> "reply-to"
                 @@ "References" :> "references" @@ "Orig-Date" :> "orig-date"

(* Encoded words. *)
EW(charset, cte, text) == <<"=", "?">> \o charset \o <<"?", cte, "?">> \o text \o <<"?", "=">>
U    == <<"utf-8">>
AGr  == <<"=", "C", "3", "=", "A", "0">>
EncodedTexts == {
  EW(U, "q", <<"a">>), EW(U, "q", <<"_", "a">>), EW(U, "q", <<"=", "?", "a">>),
  EW(U, "q", <<"=", "2", "C">>), EW(U, "q", <<"=", "0", "A">>), EW(U, "q", AGr),
  EW(U, "q", AGr \o AGr \o <<"a">>), EW(U, "q", <<"a">> \o AGr \o AGr),
  EW(<<"latin1">>, "q", AGr \o AGr), EW(U, "q", <<"=", "C", "3">>),
  EW(<<"other">>, "q", <<"a">>), EW(U, "x", <<"a">>), EW(U, "b", <<"64a">>),
  EW(<<"utf-8", "*", "a">>, "q", AGr), EW(<<"utf-8", "*", "a">>, "q", <<"a">>),
  EW(U, "b", Base64(<<"l", "c", "a", "l", "c">>)), EW(U, "b", <<"64a", "+">>)}
EncodedPairs == {v \o blank \o w : v, w \in EncodedTexts, blank \in {<<>>, <<" ">>}}
Overlapping  == {SubSeq(v, 1, Len(v) - 1) \o w : v, w \in EncodedTexts}
Texts == EncodedTexts \cup EncodedPairs \cup Overlapping
         \cup {s \o v \o t : v \in EncodedTexts, s, t \in Strings({"a", " ", "l"}, 1) \cup {<<"a", " ">>}}
         \cup Strings({"a", " ", "?", "=", "TAB"}, 4)
         \cup {s \o <<"l", "c">> \o t : s, t \in Strings({"a", " ", "?"}, 2)}
         \cup {Times(n, <<"l", "c">>) \o Times(m, <<"a">>) : n \in 1..4, m \in 0..3}
         \cup {Times(n, <<"a">>) \o t : n \in {36, 37, 38}, t \in {<<>>, <<" ", "a">>, <<"TAB", "a">>}}
         \cup {Times(n, <<" ">>) \o <<"a">> : n \in {36, 37}}

(* Display names, and values as clients write them. *)
Client(name) == Quote(name) \o <<" ", "<", "a@x", ">">>
Escaped(s)   == FlattenSeq([n \in DOMAIN s |-> <<"\\", s[n]>>])
QuotedNames  == {Client(s) : s \in Strings({"a", " ", "\"", "\\", ",", "<"}, 3)}
                \cup {Client(<<"a", " ">> \o v) : v \in EncodedTexts}
                \cup {Client(s \o <<"l", "c">> \o t) : s, t \in {<<>>, <<"a">>, <<" ", " ">>, <<",">>, <<"\\">>}}
                \cup {Client(Times(n, <<"a">>)) : n \in {26, 27, 28, 29}}
                \cup {Client(Times(n, <<"a">>) \o <<".">>) : n \in {23, 24, 25, 26}}
                \cup {<<"\"">> \o Escaped(v) \o <<"\"", " ", "<", "a@x", ">">> : v \in EncodedTexts}
PlainNames   == {v \o <<"<", "a@x", ">">> : v \in EncodedTexts \cup EncodedPairs}
                \cup {s \o <<"<", "a@x", ">">> : s \in Strings({"a", " ", "(", ")", "\"", ","}, 3)}
                \cup {<<"a">> \o s \o <<"<", "a@x", ">", "(", "a", ")">> : s \in Strings({"a", " ", "(", ")", "b@x"}, 3)}
Bare         == {<<a>> \o s : a \in SomeWithAt, s \in Strings({"a", " ", "(", ")", ">"}, 3)}
                \cup {<<" ", "(", "a", ")", "a@x", " ">>, <<"<", " ", "i@u", " ", ">">>, <<"a@x", "TAB">>,
                      <<"LF", "a@x">>, <<>>, <<"a">>}
Values       == QuotedNames \cup PlainNames \cup Bare

Lists == {v \o <<",">> \o w : v, w \in {<<"a@x">>, <<" ", "b@x", "(", "a", ")">>, Client(<<",">>), Client(<<"\"", ",">>),
                                  Client(<<"\\">>), <<>>, EW(U, "q", AGr) \o <<"<", "b@x", ">">>}}
         \cup {EW(U, "q", <<"=", "0", "A">>) \o <<"<", "b@x", ">">>, <<"\"", "a", ",", "b@x">>}

Plain == [from |-> [name |-> <<>>, address |-> "a@x"], to |-> <<<<"a@x">>>>, cc |-> <<>>, bcc |-> <<>>,
          subject |-> <<"a">>, text |-> <<"a">>, html |-> <<>>, amp |-> <<>>, headers |-> <<>>,
          inline |-> <<>>, attachments |-> <<>>]

ToInputs   == {[Plain EXCEPT !.to = <<v>>] : v \in Values}
FromInputs == {[Plain EXCEPT !.from = m] : m \in UNION {ParseMailbox(v) : v \in Values}}
Someone    == {<<"a@x">>, <<"b@x">>, <<"i@u">>, <<"i@xn">>}
UpTo(n)    == UNION {[1..m -> Someone] : m \in 0..n}
Everywhere == {[Plain EXCEPT !.to = t, !.cc = c, !.bcc = b] : t \in UpTo(2), c, b \in UpTo(1)}
              \cup {[Plain EXCEPT !.cc = <<v>>, !.bcc = <<v>>] : v \in Lists \cup EncodedTexts}
TextInputs == {[Plain EXCEPT !.subject = v] : v \in Texts}
              \cup {[Plain EXCEPT !.headers = <<<<n, v>>>>] :
                      n \in {"X", "Long", "Orig-Date"}, v \in EncodedTexts \cup {<<>>, <<"a">>}}
              \cup {[Plain EXCEPT !.headers = <<<<"Reply-To", v>>>>] : v \in Lists}
              \cup {[Plain EXCEPT !.headers = <<<<n, <<"a@x">>>>, <<m, <<"a@x">>>>>>] :
                      n, m \in {"X", "Reply-To", "REPLY-TO"}}
              \cup {[Plain EXCEPT !.headers = <<<<"References", v>>>>] :
                      v \in {s \o t : s \in {<<>>, <<" ", "<", "id", ">", "TAB">>, <<"<", "id", ">">>},
                                      t \in {<<>>, <<"<", "id", ">">>, <<"id">>}}}

Upload(name, type, data) == [name |-> name, type |-> type, data |-> data]
Png == <<"image", "png">>
Fine == Upload(<<"l", "c">>, Png, <<"CTL">>)
Uploads == {Upload(<<"a">>, Png, <<"LF">>), Upload(<<"l", "c", "LF">>, <<"multipart", "png">>, <<>>),
            Upload(<<"a", "LF">>, Png, <<"a">>), Upload(<<"a", "LS">>, <<"bad", "png">>, <<"a">>),
            Upload(<<" ", "a">>, <<"image", "bad">>, <<"CR">>), Upload(<<"<">>, Png, <<>>), Fine}
UploadLists == {<<>>} \cup {<<u>> : u \in Uploads} \cup {<<u, v>> : u, v \in Uploads}
BodyInputs ==
  {[Plain EXCEPT !.text = t] : t \in Strings({"a", "CR", "LF", "CTL"}, 4)}
  \cup {[Plain EXCEPT !.text = t, !.html = h, !.amp = m, !.inline = i] :
          t, h, m \in {<<>>, <<"a">>}, i \in UploadLists}
  \cup {[Plain EXCEPT !.text = t, !.html = h, !.inline = i, !.attachments = u] :
          t, h \in {<<>>, <<"a">>}, i \in {<<>>, <<Fine>>, <<Fine, Fine>>}, u \in UploadLists}

SomeInputs == ToInputs \cup FromInputs \cup Everywhere \cup TextInputs \cup BodyInputs

===============================================================================

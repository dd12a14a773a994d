-------------------------------- MODULE Message --------------------------------
(***************************************************************************)
(* How the Rust relay builds the message (rust/src/mime.rs): the recipient *)
(* values are parsed, each header is written as received where it is plain *)
(* ASCII and as encoded words (RFC 2047) otherwise, bodies and uploads are *)
(* put into the MIME tree, and the envelope is everyone once.              *)
(*                                                                         *)
(* Texts are sequences of symbols as in Mailbox; a symbol is one byte, a   *)
(* character beyond ASCII two of them, a lead and a continuation.  What an *)
(* operator returns is a set: {} for a refusal (always 400), {v} for v.    *)
(* Folding, the transfer encodings of the bodies and the encoding of file  *)
(* names are the library's and not modelled.                               *)
(***************************************************************************)
EXTENDS Mailbox, TLC

CONSTANTS
  Inputs,          (* the validated requests (MessageInput)                *)
  CharsetName,     (* the charsets that keep ASCII, and their names        *)
  Lead, Continuation,         (* the bytes of a character beyond ASCII     *)
  Base64Of,        (* a base64 symbol for each byte                        *)
  HexOf,           (* the byte two hex digits stand for                    *)
  EncodedLocals,   (* addr-specs whose local part holds an encoded word    *)
  LowerName,       (* header names in lower case                           *)
  LongNames,       (* header names that are too long                       *)
  MessageIds,      (* dot-atom@dot-atom                                    *)
  Containers, TypeTokens,     (* of content types                          *)
  MaxLine, AddressRoom, MaxEncodedWord

ASSUME MessageLimitsAssumption ==
  MaxLine \in Nat /\ AddressRoom \in Nat /\ MaxEncodedWord \in Nat
ASSUME Base64Assumption ==
  /\ \A a, b \in DOMAIN Base64Of : Base64Of[a] = Base64Of[b] => a = b
  /\ {"CR", "LF"} \subseteq DOMAIN Base64Of \ Range(Base64Of)
ASSUME TypesAssumption == "application" \notin Containers
ASSUME InputsAssumption ==
  \A i \in Inputs :
    /\ i.headers \in Seq(Range(i.headers))
    /\ \A n \in DOMAIN i.headers : i.headers[n][1] \in DOMAIN LowerName
    /\ {i.text, i.html, i.amp} \subseteq Seq(DOMAIN Base64Of)
    /\ i.inline \in Seq(Range(i.inline)) /\ i.attachments \in Seq(Range(i.attachments))

VARIABLES
  input,       (* never changes                                            *)
  pc, k,       (* the next step, and its next value, header or upload      *)
  parsed,      (* the mailboxes of to, cc and bcc                          *)
  header,      (* the lines written, as <<name, value>>                    *)
  inline,      (* the inline parts                                         *)
  tree,        (* the MIME tree                                            *)
  single,      (* the body of a message of one part as it is sent          *)
  envelope
body == <<inline, tree, single>>
vars == <<input, pc, k, parsed, header, body, envelope>>

Fields == {"to", "cc", "bcc"}
Special == Specials \cup WithAt \cup {"."}
Has(s, symbols) == ToSet(s) \cap symbols # {}
IsAscii(s)      == ~Has(s, {Lead, Continuation, "LS"})
LineBreaks      == {"CR", "LF"}

(* The words between blanks, and a text without the blanks in front.       *)
IsInk(c) == ~IsWsp(c)
Words(s) ==
  LET starts == {p \in DOMAIN s : IsInk(s[p]) /\ (p = 1 \/ IsWsp(s[p - 1]))}
      from   == Ascending(s, starts)
  IN [n \in DOMAIN from |-> Taken(s, from[n], IsInk)]
TrimStart(s) == SubSeq(s, Behind(s, 1, IsWsp), Len(s))

-------------------------------------------------------------------------------
(* Encoded words: "=?charset?b?text?=" wherever it occurs. *)

(* Three bytes are four symbols. *)
Base64(bytes) ==
  LET group(g) == [n \in 1..Min({3, Len(bytes) - 3 * g}) |-> Base64Of[bytes[3 * g + n]]]
      padded(s) == s \o <<"+">> \o [n \in 1..3 - Len(s) |-> "="]
  IN FlattenSeq([g \in 1..(Len(bytes) + 2) \div 3 |-> padded(group(g - 1))])
TrimEnd(s) == SubSeq(s, 1, Max({0} \cup {p \in DOMAIN s : s[p] # "="}))
Debase64(text) ==
  LET data  == SelectSeq(text, LAMBDA c : c \in Range(Base64Of))
      bytes == [n \in DOMAIN data |-> CHOOSE b \in DOMAIN Base64Of : Base64Of[b] = data[n]]
  IN {b \in {bytes} : TrimEnd(Base64(b)) = TrimEnd(text)}

DecodeQ(text) ==
  LET escapes == {p \in 1..Len(text) - 2 :
                    text[p] = "=" /\ <<text[p + 1], text[p + 2]>> \in DOMAIN HexOf}
  IN FlattenSeq([p \in DOMAIN text |->
       CASE p \in escapes -> <<HexOf[<<text[p + 1], text[p + 2]>>]>>
         [] p - 1 \in escapes \/ p - 2 \in escapes -> <<>>
         [] OTHER -> <<IF text[p] = "_" THEN " " ELSE text[p]>>])

(* Without the language behind the "*". *)
Name(charset) == Taken(charset, 1, LAMBDA c : c # "*")
NameIn(charset) == {CharsetName[c] : c \in {x \in DOMAIN CharsetName : Name(charset) = <<x>>}}
DecodeWord(charset, base64, text) ==
  IF NameIn(charset) = {} THEN {}
  ELSE IF base64 THEN Debase64(text) ELSE {DecodeQ(text)}

(* The words of a text, with what each decodes to.                         *)
EncodedWords(s) ==
  LET mark == Ascending(s, {p \in DOMAIN s : s[p] = "?"})
      between(m) == SubSeq(s, mark[m] + 1, mark[m + 1] - 1)
      IsWord(m) == /\ mark[m] > 1 /\ s[mark[m] - 1] = "="
                   /\ At(s, mark[m + 3] + 1, "=")
                   /\ between(m + 1) \in {<<"b">>, <<"q">>}
      Word(m) == [start |-> mark[m] - 1, behind |-> mark[m + 3] + 2, charset |-> between(m),
                  bytes |-> DecodeWord(between(m), between(m + 1) = <<"b">>, between(m + 2))]
  IN FlattenSeq([m \in 1..Max({0, Len(mark) - 3}) |-> IF IsWord(m) THEN <<Word(m)>> ELSE <<>>])
HasWords(s) == EncodedWords(s) # <<>>

(* A word that cannot be read counts as a line break. *)
MayDecodeToLineBreak(s) ==
  \E word \in ToSet(EncodedWords(s)) : \A bytes \in word.bytes : Has(bytes, LineBreaks)

IsWhole(bytes) ==
  \A p \in 1..Len(bytes) + 1 :
    (p > 1 /\ bytes[p - 1] = Lead) <=> (p <= Len(bytes) /\ bytes[p] = Continuation)

-------------------------------------------------------------------------------
(* Writing texts *)

WordOf(charset, text) == <<"=", "?">> \o charset \o <<"?", "b", "?">> \o text \o <<"?", "=">>

(* Mutant: the bytes are cut where the room ends. *)
CutAnywhere(bytes, p, room, utf8) == Min({room, Len(bytes) + 1 - p})
(* The most bytes from p on that fit and end with a character. *)
Cut(bytes, p, room, utf8) ==
  Max({0} \cup {n \in 0..Min({room, Len(bytes) + 1 - p}) :
                  utf8 => (p + n > Len(bytes) \/ bytes[p + n] # Continuation)})

(* Bytes as base64 words of at most MaxEncodedWord symbols. *)
Split(charset, bytes) ==
  LET space == MaxEncodedWord - (Len(charset) + 7)
      room  == (space \div 4) * 3
      utf8  == "utf_8" \in NameIn(charset)
      From[p \in 1..Len(bytes) + 1] ==
        LET n == Cut(bytes, p, room, utf8) IN
        IF p > Len(bytes) THEN {<<>>}
        ELSE IF n = 0 THEN {}
        ELSE {<<WordOf(charset, Base64(SubSeq(bytes, p, p + n - 1)))>> \o w : w \in From[p + n]}
  IN IF space < 0 \/ (utf8 /\ ~IsWhole(bytes)) THEN {} ELSE {Joined(w) : w \in From[1]}

(* email_encoding's rfc2047::encode. *)
Encoded(text) == Split(<<"utf-8">>, text)

(* Printable, and every word with the spaces before it fits on a line.     *)
RunStart(s, p) == Max({1} \cup {q \in 2..p : s[q] = " " /\ s[q - 1] # " "})
IsPlain(s, reserve) ==
  /\ IsAscii(s) /\ ~Has(s, Controls)
  /\ \A p \in DOMAIN s : reserve + p - RunStart(s, p) + 1 <= MaxLine

(* What a receiver would read as something else. *)
Changes(bytes, phrase) ==
  \/ \E p \in 1..Len(bytes) - 1 : bytes[p] = "=" /\ bytes[p + 1] = "?"
  \/ bytes # <<>> /\ (IsWsp(bytes[1]) \/ IsWsp(bytes[Len(bytes)]))
  \/ phrase /\ IsAscii(bytes) /\ Has(bytes, Special)
IsLong(word) == word.behind - word.start > MaxEncodedWord
Delimited(s, word) == /\ word.start = 1 \/ IsWsp(s[word.start - 1])
                      /\ word.behind = Len(s) + 1 \/ IsWsp(s[word.behind])
Overlap(v, w) == v.start < w.start /\ w.start < v.behind

(* Every word can be read, and the long ones stand alone. *)
CanForward(s, words, phrase, quoted) ==
  \A w \in words :
    /\ \E bytes \in w.bytes : ~Changes(bytes, phrase)
    /\ IsLong(w) => /\ ~quoted /\ Delimited(s, w)
                    /\ ~\E v \in words : IsLong(v) /\ Overlap(v, w)

(* Parts replaces words of s. *)
Replaced(s, parts) ==
  FlattenSeq([p \in DOMAIN s |->
    IF \E w \in DOMAIN parts : w.start < p /\ p < w.behind THEN <<>>
    ELSE IF \E w \in DOMAIN parts : w.start = p
         THEN parts[CHOOSE w \in DOMAIN parts : w.start = p]
    ELSE <<s[p]>>])

(* A plain text with its long encoded words split.                         *)
SplitLong(words) ==
  [w \in {v \in words : IsLong(v)} |-> UNION {Split(w.charset, bytes) : bytes \in w.bytes}]
Forwardable(s, phrase, quoted) ==
  UNION {{Replaced(s, parts) : parts \in Each(SplitLong(words))} :
           words \in {ws \in {ToSet(EncodedWords(s))} : CanForward(s, ws, phrase, quoted)}}

(* The space "Name: " takes. *)
Prefix == 3

(* Mutant: backslashes are not escaped. *)
EscapeQuotes(c) == IF c = "\"" THEN <<"\\", c>> ELSE <<c>>
Escape(c) == IF c \in {"\"", "\\"} THEN <<"\\", c>> ELSE <<c>>
Quote(s) == <<"\"">> \o FlattenSeq([p \in DOMAIN s |-> Escape(s[p])]) \o <<"\"">>

DisplayName(name) ==
  LET quoted   == Has(name, Special)
      shown(s) == IF quoted THEN Quote(s) ELSE s
  IN IF IsPlain(shown(name), Prefix + AddressRoom)
     THEN {shown(s) : s \in Forwardable(name, TRUE, quoted)}
     ELSE IF HasWords(name) THEN {}
     ELSE Encoded(IF quoted THEN name ELSE Joined(Words(name)))

WriteMailbox(m) ==
  IF m.address \in EncodedLocals THEN {}
  ELSE IF m.name = <<>> THEN {<<m.address>>}
  ELSE {n \o <<" ", "<", m.address, ">">> : n \in DisplayName(m.name)}

AddressHeader(mailboxes) ==
  {FlattenSeq([n \in DOMAIN t |-> IF n = 1 THEN t[n] ELSE <<",", " ">> \o t[n]]) :
     t \in Each([n \in DOMAIN mailboxes |-> WriteMailbox(mailboxes[n])])}

UnstructuredHeader(name, value) ==
  IF name \in LongNames THEN {}
  ELSE IF IsPlain(value, Prefix) THEN Forwardable(value, FALSE, FALSE)
  ELSE IF HasWords(value) THEN {}
  ELSE Encoded(TrimStart(value))

IsMessageIdList(value) ==
  /\ Words(value) # <<>>
  /\ \A n \in DOMAIN Words(value) : \E id \in MessageIds : Words(value)[n] = <<"<", id, ">">>

-------------------------------------------------------------------------------
Init ==
  /\ input \in Inputs
  /\ pc = "bodies" /\ k = 1
  /\ parsed = [f \in Fields |-> <<>>]
  /\ header = <<>> /\ envelope = <<>>
  /\ inline = <<>> /\ tree = <<>> /\ single = <<>>

Goto(step) == pc' = step /\ k' = 1
Again      == pc' = pc /\ k' = k + 1
Refuse     == pc' = "refused" /\ k' = 1
Following  == [step \in Fields \cup {"From", "To", "Cc"} |->
                CASE step = "to" -> "cc" [] step = "cc" -> "bcc" [] step = "bcc" -> "breaks"
                  [] step = "From" -> "To" [] step = "To" -> "Cc" [] step = "Cc" -> "Subject"]

CheckBodies ==
  /\ pc = "bodies"
  /\ IF input.text = <<>> /\ input.html = <<>> THEN Refuse ELSE Goto("to")
  /\ UNCHANGED <<input, parsed, header, body, envelope>>

(* One value of to, cc or bcc. *)
ParseRecipient ==
  /\ pc \in Fields
  /\ IF k > Len(input[pc]) THEN Goto(Following[pc]) /\ UNCHANGED parsed
     ELSE LET read == ParseMailbox(input[pc][k]) IN
          \/ \E m \in read : parsed' = [parsed EXCEPT ![pc] = Append(@, m)] /\ Again
          \/ read = {} /\ Refuse /\ UNCHANGED parsed
  /\ UNCHANGED <<input, header, body, envelope>>

CheckLineBreaks ==
  /\ pc = "breaks"
  /\ LET shown == ToSet(input.to) \cup ToSet(input.cc)
     IN IF \E value \in shown : MayDecodeToLineBreak(value) THEN Refuse ELSE Goto("From")
  /\ UNCHANGED <<input, parsed, header, body, envelope>>

(* A header that is refused is not written. *)
Write(name, values) ==
  header' = IF values = {} THEN header ELSE Append(header, <<name, CHOOSE v \in values : TRUE>>)

Mailboxes == [name \in {"From", "To", "Cc"} |->
                CASE name = "From" -> <<input.from>>
                  [] name = "To" -> parsed["to"] [] name = "Cc" -> parsed["cc"]]
WriteAddresses ==
  /\ pc \in {"From", "To", "Cc"}
  /\ LET value == AddressHeader(Mailboxes[pc]) IN
     /\ IF Mailboxes[pc] = <<>> THEN UNCHANGED header ELSE Write(pc, value)
     /\ IF value = {} THEN Refuse ELSE Goto(Following[pc])
  /\ UNCHANGED <<input, parsed, body, envelope>>

WriteSubject ==
  /\ pc = "Subject"
  /\ Write("Subject", UnstructuredHeader("Subject", input.subject))
  /\ IF header' = header THEN Refuse ELSE Goto("custom")
  /\ UNCHANGED <<input, parsed, body, envelope>>

(* One custom header.  Some may occur once, under whatever spelling.       *)
Once == {"reply-to", "in-reply-to", "references"}
Lower(n) == LowerName[input.headers[n][1]]
WriteCustom ==
  /\ pc = "custom" /\ k <= Len(input.headers)
  /\ LET name  == input.headers[k][1]
         value == input.headers[k][2]
         refused == \/ Lower(k) = "orig-date"
                    \/ Lower(k) \in Once /\ \E n \in 1..k - 1 : Lower(n) = Lower(k)
                    \/ /\ Lower(k) \in {"in-reply-to", "references"}
                       /\ ~IsMessageIdList(value) \/ HasWords(value)
                    \/ Lower(k) = "reply-to" /\ MayDecodeToLineBreak(value)
     IN /\ IF refused THEN UNCHANGED header
           ELSE IF Lower(k) = "reply-to"
                THEN Write("Reply-To", UNION {AddressHeader(m) : m \in ParseMailboxList(value)})
                ELSE Write(name, UnstructuredHeader(name, value))
        /\ IF header' = header THEN Refuse ELSE Again
  /\ UNCHANGED <<input, parsed, body, envelope>>
(* No custom header is left. *)
HeadersEnd ==
  /\ pc = "custom" /\ k > Len(input.headers)
  /\ Goto("inline")
  /\ UNCHANGED <<input, parsed, header, body, envelope>>

-------------------------------------------------------------------------------
(* Body and uploads *)

CRLF == <<"CR", "LF">>
EndsWith(s, t) == Len(s) >= Len(t) /\ SubSeq(s, Len(s) - Len(t) + 1, Len(s)) = t

(* Every line break becomes CRLF, and the text ends with one. *)
Canonical(text) ==
  LET lines == FlattenSeq([p \in DOMAIN text |->
        CASE text[p] = "CR" -> CRLF
          [] text[p] = "LF" -> IF p > 1 /\ text[p - 1] = "CR" THEN <<>> ELSE CRLF
          [] OTHER          -> <<text[p]>>])
  IN IF EndsWith(lines, CRLF) THEN lines ELSE lines \o CRLF

Leaf(type, name, id, bytes) ==
  [kind |-> "leaf", type |-> type, name |-> name, id |-> id, bytes |-> bytes]
Multipart(kind, children) == [kind |-> kind, children |-> children]
TextPart(type, text) == IF text = <<>> THEN <<>> ELSE <<Leaf(type, <<>>, <<>>, Canonical(text))>>

LeafContentType(type) ==
  IF type[1] \in TypeTokens \ Containers /\ type[2] \in TypeTokens THEN type
  ELSE <<"application", "octet-stream">>

(* Beyond ASCII an attachment's name is encoded whatever it holds. *)
HasLineBoundary(name, isInline) ==
  \/ (isInline \/ IsAscii(name)) /\ Has(name, LineBreaks)
  \/ isInline /\ Has(name, {"LS"})
IsMalformed(name) ==
  \/ name # <<>> /\ (IsWsp(name[1]) \/ IsWsp(name[Len(name)]))
  \/ Has(name, {"<", ">", "TAB"} \cup Controls)

(* The name of an inline part is its Content-ID. *)
ContentId(name) ==
  IF HasLineBoundary(name, TRUE) \/ IsMalformed(name) THEN {}
  ELSE UnstructuredHeader("Content-ID", <<"<">> \o name \o <<">">>)

AddInline ==
  /\ pc = "inline" /\ k <= Len(input.inline)
  /\ LET u == input.inline[k] IN
     IF ContentId(u.name) = {} THEN Refuse /\ UNCHANGED inline
     ELSE \E id \in ContentId(u.name) :
            inline' = Append(inline, Leaf(LeafContentType(u.type), u.name, id, u.data)) /\ Again
  /\ UNCHANGED <<input, parsed, header, tree, single, envelope>>

(* Inline parts belong to the html part, or to the whole body without one. *)
BuildBody ==
  /\ pc = "inline" /\ k > Len(input.inline)
  /\ LET html == TextPart(<<"text", "html">>, input.html)
         related == IF html = <<>> \/ inline = <<>> THEN html
                    ELSE <<Multipart("related", html \o inline)>>
         alternatives == TextPart(<<"text", "plain">>, input.text) \o related
                           \o TextPart(<<"text", "x-amp-html">>, input.amp)
         text == IF Len(alternatives) = 1 THEN alternatives[1]
                 ELSE Multipart("alternative", alternatives)
     IN tree' = IF html = <<>> /\ inline # <<>> THEN Multipart("mixed", <<text>> \o inline)
                ELSE text
  /\ Goto("attachments")
  /\ UNCHANGED <<input, parsed, header, inline, single, envelope>>

(* Mutant: each attachment wraps what there is. *)
AddAttachmentWraps ==
  /\ pc = "attachments" /\ k <= Len(input.attachments)
  /\ LET u == input.attachments[k] IN
     IF HasLineBoundary(u.name, FALSE) THEN Refuse /\ UNCHANGED tree
     ELSE /\ tree' = Multipart("mixed",
                       <<tree, Leaf(LeafContentType(u.type), u.name, <<>>, u.data)>>)
          /\ Again
  /\ UNCHANGED <<input, parsed, header, inline, single, envelope>>

AddAttachment ==
  /\ pc = "attachments" /\ k <= Len(input.attachments)
  /\ LET u == input.attachments[k]
         others == IF tree.kind = "mixed" THEN tree.children ELSE <<tree>>
     IN IF HasLineBoundary(u.name, FALSE) THEN Refuse /\ UNCHANGED tree
        ELSE /\ tree' = Multipart("mixed", others \o
                          <<Leaf(LeafContentType(u.type), u.name, <<>>, u.data)>>)
             /\ Again
  /\ UNCHANGED <<input, parsed, header, inline, single, envelope>>

(* A part ends with a line break that belongs to the next boundary: a      *)
(* message of one part is sent without it.  Other control characters force *)
(* base64, which has no line break of its own at its end.                  *)
IsBase64(text) == Has(text, Controls \ LineBreaks)
Single(leaf) ==
  LET sent == (IF IsBase64(leaf.bytes) THEN Base64(leaf.bytes) ELSE leaf.bytes) \o CRLF
  IN IF EndsWith(sent, CRLF \o CRLF) THEN SubSeq(sent, 1, Len(sent) - 2) ELSE sent

Everyone == [n \in 1..Len(parsed["to"] \o parsed["cc"] \o parsed["bcc"]) |->
               (parsed["to"] \o parsed["cc"] \o parsed["bcc"])[n].address]
(* Mutant: only neighbours are compared. *)
FirstsOfRuns(s) ==
  LET first == Ascending(s, {p \in DOMAIN s : p = 1 \/ s[p - 1] # s[p]})
  IN [n \in DOMAIN first |-> s[first[n]]]
(* Each address where it first occurs. *)
Firsts(s) ==
  LET first == Ascending(s, {p \in DOMAIN s : \A q \in 1..p - 1 : s[q] # s[p]})
  IN [n \in DOMAIN first |-> s[first[n]]]

Finish ==
  /\ pc = "attachments" /\ k > Len(input.attachments)
  /\ single' = IF tree.kind = "leaf" THEN Single(tree) ELSE <<>>
  /\ envelope' = Firsts(Everyone)
  /\ Goto("built")
  /\ UNCHANGED <<input, parsed, header, inline, tree>>

Next ==
  \/ CheckBodies \/ ParseRecipient \/ CheckLineBreaks
  \/ WriteAddresses \/ WriteSubject \/ WriteCustom \/ HeadersEnd
  \/ AddInline \/ BuildBody \/ AddAttachment \/ Finish

Spec == Init /\ [][Next]_vars

-------------------------------------------------------------------------------
(* What a receiver reads *)

(* A text with its encoded words decoded; blanks between two of them are   *)
(* dropped.                                                                *)
DecodedWith(s, words) ==
  LET at(p) == {w \in words : w.start = p /\ w.bytes # {}}
      From[p \in 1..Len(s) + 1] ==
        IF p > Len(s) THEN <<>>
        ELSE IF at(p) = {} THEN <<s[p]>> \o From[p + 1]
        ELSE LET word == CHOOSE w \in at(p) : TRUE
                 next == Behind(s, word.behind, IsWsp)
             IN (CHOOSE b \in word.bytes : TRUE)
                  \o From[IF at(next) # {} THEN next ELSE word.behind]
  IN From[1]
Decoded(s) == CHOOSE text \in {DecodedWith(s, words) : words \in {ToSet(EncodedWords(s))}} : TRUE

WordsAreWhole(s) ==
  \A word \in ToSet(EncodedWords(s)) :
    "utf_8" \in NameIn(word.charset) => \A bytes \in word.bytes : IsWhole(bytes)

SameText(value, written) ==
  /\ TrimStart(Decoded(written)) = TrimStart(Decoded(value))
  /\ WordsAreWhole(value) => WordsAreWhole(written)

(* Blanks around and between the words of a name do not matter. *)
SameMailbox(m, read) ==
  m.address = read.address /\ Words(Decoded(m.name)) = Words(Decoded(read.name))

(* Where the custom headers start. *)
Custom == Len(header) - Len(input.headers)
ReplyTo == {n \in DOMAIN input.headers : Lower(n) = "reply-to"}
(* The mailboxes a header stands for. *)
MeantBy(n) ==
  IF n > Custom /\ n - Custom \in ReplyTo THEN ParseMailboxList(input.headers[n - Custom][2])
  ELSE {Mailboxes[name] : name \in DOMAIN Mailboxes \cap {header[n][1]}}

(* The parts in the order a reader sees them. *)
Opened(nodes) ==
  FlattenSeq([n \in DOMAIN nodes |->
    IF nodes[n].kind = "leaf" THEN <<nodes[n]>> ELSE nodes[n].children])
Nodes  == UNION {ToSet(l) : l \in {<<tree>>, Opened(<<tree>>), Opened(Opened(<<tree>>))}}
Leaves == Opened(Opened(Opened(<<tree>>)))

(* Line breaks in front of each other symbol, and at all. *)
Breaks(s, p) ==
  Cardinality({q \in 1..p : s[q] = "CR" \/ (s[q] = "LF" /\ (q = 1 \/ s[q - 1] # "CR"))})
Lines(s) ==
  LET ink == Ascending(s, {p \in DOMAIN s : s[p] \notin LineBreaks})
  IN [n \in DOMAIN ink |-> <<s[ink[n]], Breaks(s, ink[n])>>]
SameLines(text, sent) ==
  /\ Lines(sent) = Lines(text)
  /\ Breaks(sent, Len(sent)) = Breaks(text, Len(text))
                                 + (IF text[Len(text)] \in LineBreaks THEN 0 ELSE 1)
  /\ \A p \in DOMAIN sent : (sent[p] = "CR") <=> (p < Len(sent) /\ sent[p + 1] = "LF")

(* The parts a request asks for, in the order of the message. *)
TextMeant(type, text) ==
  IF text = <<>> THEN <<>> ELSE <<[text |-> TRUE, type |-> type, bytes |-> text]>>
FilesMeant(uploads) ==
  [n \in DOMAIN uploads |-> [text |-> FALSE, type |-> uploads[n].type, bytes |-> uploads[n].data]]
Meant ==
  LET html  == TextMeant(<<"text", "html">>, input.html)
      files == FilesMeant(input.inline)
  IN TextMeant(<<"text", "plain">>, input.text)
       \o (IF html = <<>> THEN <<>> ELSE html \o files)
       \o TextMeant(<<"text", "x-amp-html">>, input.amp)
       \o (IF html = <<>> THEN files ELSE <<>>)
       \o FilesMeant(input.attachments)
SamePart(part, leaf) ==
  IF part.text THEN leaf.type = part.type /\ SameLines(part.bytes, leaf.bytes)
  ELSE leaf.bytes = part.bytes /\ leaf.type[1] \notin Containers

-------------------------------------------------------------------------------
(* Types, and that addresses are used in the form a mail server takes:     *)
(* their domains are A-labels (rust/src/address.rs, Mailbox).              *)
TypeOK ==
  /\ pc \in Fields \cup {"bodies", "breaks", "From", "To", "Cc", "Subject", "custom",
                         "inline", "attachments", "built", "refused"}
  /\ k \in Nat
  /\ \A f \in Fields : \A n \in DOMAIN parsed[f] : parsed[f][n].address \in Range(AddressOf)
  /\ \A n \in DOMAIN header : header[n][1] \in {"From", "To", "Cc", "Subject", "Reply-To"}
                                           \cup DOMAIN LowerName
  /\ \A n \in DOMAIN inline : inline[n].kind = "leaf"
  /\ ToSet(envelope) \subseteq Range(AddressOf)

(* The envelope has every recipient of to, cc and bcc once, where it first *)
(* occurs (rust/src/mime.rs, BuiltMessage::envelope).                      *)
EnvelopeIsEveryoneOnce ==
  pc = "built" =>
    /\ ToSet(envelope) = ToSet(Everyone)
    /\ \A m, n \in DOMAIN envelope : m < n =>
         \E p \in DOMAIN Everyone :
           /\ Everyone[p] = envelope[m]
           /\ \A q \in 1..p : Everyone[q] # envelope[n]

(* A receiver reads from From, To, Cc and Reply-To the addresses and the   *)
(* display names that were parsed from the request: no quoting, escaping,  *)
(* comment or comma makes it read another list.  Each is printable ASCII   *)
(* on lines that fit.                                                      *)
AddressesReadBack ==
  pc = "built" =>
    \A n \in DOMAIN header : \A meant \in MeantBy(n) :
      /\ IsPlain(header[n][2], Prefix)
      /\ \E list \in ParseMailboxList(header[n][2]) :
           /\ Len(list) = Len(meant)
           /\ \A m \in DOMAIN list : SameMailbox(meant[m], list[m])

(* A receiver decodes from Subject, the custom headers and the Content-IDs *)
(* what it would decode from the values of the request.  No encoded word   *)
(* that is written is longer than RFC 2047 allows, none splits a character *)
(* (rust/src/mime.rs, forwardable and split_word), and everything is       *)
(* printable ASCII on lines that fit.                                      *)
TextsReadBack ==
  pc = "built" =>
    /\ SameText(input.subject, header[Custom][2])
    /\ \A n \in DOMAIN input.headers \ ReplyTo :
         /\ header[Custom + n][1] = input.headers[n][1]
         /\ SameText(input.headers[n][2], header[Custom + n][2])
    /\ \A n \in DOMAIN inline : SameText(<<"<">> \o inline[n].name \o <<">">>, inline[n].id)
    /\ \A written \in {header[n][2] : n \in DOMAIN header} \cup {inline[n].id : n \in DOMAIN inline} :
         /\ IsPlain(written, Prefix)
         /\ \A word \in ToSet(EncodedWords(written)) : word.behind - word.start <= MaxEncodedWord

(* Every body and upload of the request is in the message once and in      *)
(* order, the inline parts beside the html they belong to, the attachments *)
(* on top; no multipart has less than two parts; and the lines of a text   *)
(* are those of the request, without one that only a multipart needs       *)
(* (rust/src/mime.rs, Tree::formatted).                                    *)
PartsReadBack ==
  pc = "built" =>
    /\ Len(Leaves) = Len(Meant) /\ \A n \in DOMAIN Meant : SamePart(Meant[n], Leaves[n])
    /\ \A node \in Nodes : node.kind # "leaf" => Len(node.children) >= 2
    /\ \A node \in Nodes : node.kind = "related" =>
         node.children[1].type = <<"text", "html">> /\ Tail(node.children) = inline
    /\ (input.html # <<>> /\ inline # <<>>) => \E node \in Nodes : node.kind = "related"
    /\ input.attachments # <<>> =>
         Len(tree.children) = Len(input.attachments) + 1
           + (IF input.html = <<>> THEN Len(inline) ELSE 0)
    /\ tree.kind = "leaf" =>
         single \in {tree.bytes, Base64(tree.bytes) \o CRLF}

(* A To, Cc or Reply-To display name that decodes to a line break is       *)
(* refused (rust/src/mime.rs, the comment of the module).                  *)
NamesHoldNoLineBreak ==
  pc = "built" =>
    \A n \in DOMAIN header : header[n][1] \in {"To", "Cc", "Reply-To"} =>
      \A meant \in MeantBy(n) : \A m \in DOMAIN meant : ~Has(Decoded(meant[m].name), LineBreaks)

===============================================================================

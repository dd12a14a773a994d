------------------------------- MODULE MCStartup -------------------------------
(***************************************************************************)
(* Startup for TLC: one thing at a time is unusual.  Every short text and  *)
(* many spellings of the boundary numbers for the numeric settings, every  *)
(* setting said twice; secrets files of one or two policies written in     *)
(* every style, cut off after each item, or with a flaw at each item;      *)
(* every state of the CA file; hosts with up to two addresses.             *)
(***************************************************************************)
EXTENDS Startup

Strings(symbols, n) == UNION {[1..k -> symbols] : k \in 0..n}

-------------------------------------------------------------------------------
(* Settings *)

SomeDefaults == [f \in ToSet(Fields) |->
  CASE f \in {"SMTP_STARTTLS"}                           -> <<"true">>
    [] f \in {"FAIL_ON_PARTIAL_REFUSAL"}                 -> <<"false">>
    [] f \in {"ENVELOPE_SENDER", "SMTP_CA_FILE"}         -> <<>>
    [] f \in {"LOG_LEVEL"}                               -> <<"INFO">>
    [] f \in {"BIND_HOST", "PUBLIC_HOST", "SECRETS_PATH", "SMTP_HOST"} -> <<"host">>
    [] OTHER                                             -> <<"8">>]

SomeWords == [w \in {"YES", "Off", "INFO", "Critical"} |->
  CASE w = "YES" -> "yes" [] w = "Off" -> "off" [] w = "INFO" -> "info" [] OTHER -> "critical"]
SomeSenders == <<"relay@a">> :> <<"relay@a">> @@ <<"relay@u">> :> <<"relay@xn--a">>
SomeFloats == <<"8">> :> 8 @@ <<"1">> :> 1 @@ <<"1", "1">> :> 11 @@ <<"1", "2">> :> 12
              @@ <<"nan">> :> -1 @@ <<"inf">> :> 99

(* The decimal digits of a number with leading zeros, underscores in gaps, *)
(* a sign, a fraction and spaces around it.                                *)
Decimal(m) == IF m < 10 THEN <<Digits[m + 1]>> ELSE <<"1", Digits[m - 9]>>
Gapped(digits, gaps) ==
  FlattenSeq([k \in DOMAIN digits |-> IF k \in gaps THEN <<digits[k], "_">> ELSE <<digits[k]>>])
Grouped(digits) == {Gapped(digits, gaps) : gaps \in SUBSET (1..Len(digits) - 1)}
Zeros(k) == [j \in 1..k |-> "0"]
SignsOf(n) == IF n < 0 THEN {<<"-">>} ELSE IF n = 0 THEN {<<>>, <<"+">>, <<"-">>} ELSE {<<>>, <<"+">>}
Spelled(n, fractions) ==
  {l \o s \o g \o f \o r : l \in {<<>>, <<" ">>, <<" ", " ">>}, s \in SignsOf(n),
     g \in UNION {Grouped(Zeros(k) \o Decimal(IF n < 0 THEN -n ELSE n)) : k \in 0..2},
     f \in fractions, r \in {<<>>, <<" ">>, <<" ", " ">>}}

Fractions(field) == IF field = "BIND_PORT" THEN {<<>>} ELSE {<<>>, <<".", "0">>, <<".", "0", "0">>}
Lowest(field)  == CASE field = "MAX_BODY_BYTES"       -> -MaxInt - 1
                    [] field = "SMTP_MAX_CONCURRENCY" -> 1
                    [] OTHER                          -> 0
Highest(field) == CASE field = "MAX_BODY_BYTES"       -> MaxInt
                    [] field = "SMTP_MAX_CONCURRENCY" -> MaxCount
                    [] OTHER                          -> MaxPort

Var(field, text, means) == [field |-> field, text |-> text, utf8 |-> TRUE, means |-> means]

Numbers(field, n) == {Var(field, t, IF n \in Lowest(field)..Highest(field) THEN {n} ELSE {}) :
                        t \in Spelled(n, Fractions(field))}
ShortNumbers(field) ==
  LET spelled == {<<t, n>> \in UNION {Spelled(n, Fractions(field)) \X {n} :
                                        n \in Lowest(field)..Highest(field)} : Len(t) <= 3}
  IN {Var(field, t, {p[2] : p \in {q \in spelled : q[1] = t}}) :
        t \in Strings({"-", "_", "0", "1", ".", " "}, 3)}

NumericFields == {"BIND_PORT", "SMTP_PORT", "SMTP_MAX_CONCURRENCY", "MAX_BODY_BYTES"}
NumericVars ==
  UNION {ShortNumbers(f) \cup Numbers(f, Lowest(f)) \cup Numbers(f, Highest(f))
           \cup Numbers(f, Highest(f) + 1) : f \in NumericFields}
WordVars == {
  Var("SMTP_STARTTLS", <<"YES">>, {TRUE}), Var("SMTP_STARTTLS", <<"Off">>, {FALSE}),
  Var("SMTP_STARTTLS", <<"yes", " ">>, {}), Var("FAIL_ON_PARTIAL_REFUSAL", <<>>, {}),
  Var("ENVELOPE_SENDER", <<"relay@u">>, {<<"relay@xn--a">>}), Var("ENVELOPE_SENDER", <<"u">>, {}),
  Var("ENVELOPE_SENDER", <<>>, {<<>>}),
  Var("LOG_LEVEL", <<"Critical">>, {6}), Var("LOG_LEVEL", <<"off">>, {}),
  Var("BIND_HOST", <<>>, {<<>>}), Var("PUBLIC_HOST", <<>>, {<<>>}),
  [Var("SMTP_HOST", <<"host">>, {}) EXCEPT !.utf8 = FALSE],
  [Var("none", <<"host">>, {}) EXCEPT !.utf8 = FALSE]}
  \cup {Var("SMTP_TIMEOUT_S", t, {11}) : t \in {<<"1", "1">>, <<" ", "1", "_", "1">>}}
  \cup {Var("SMTP_TIMEOUT_S", t, {}) : t \in {<<>>, <<"nan">>, <<"inf">>, <<"1", "2">>,
          <<"_", "1">>, <<"1", "_">>, <<"1", "_", "_", "1">>}}

(* Two variables of a field, each of which alone would mean its default. *)
Twice(field) == LET v == Var(field, SomeDefaults[field], Parse(field, SomeDefaults[field])) IN
  {<<v, v>>} \cup {<<v, Var("none", <<"x">>, {}), w>> : w \in {u \in WordVars : u.field = field}}
SomeEnvironments ==
  {<<v>> : v \in NumericVars \cup WordVars}
  \cup {<<v, w>> : v, w \in WordVars}
  \cup UNION {Twice(f) : f \in ToSet(Fields)}

-------------------------------------------------------------------------------
(* Secrets: documents as trees, and the events of a tree *)

Keys == {"smtp", "tokens", "username", "password", "label", "token_sha256", "mailgun_domains",
         "allowed_from_domains", "allowed_from_addresses"}
SomeTexts == Keys \cup {"one", "two", "h1", "H1", "h2", "a", "A", "b", "x@a", "nonsense", "secret",
                        "", " ", "~", "CHANGEME", "yes", "<<"}
SomeTypes == [t \in SomeTexts |-> CASE t \in {"", "~"} -> "null" [] t = "yes" -> "other"
                                    [] t = "<<" -> "error" [] OTHER -> "str"]
SomeNormal == [t \in SomeTexts |-> CASE t = "H1" -> "h1" [] t = "A" -> "a"
                                     [] t \in {"h1", "h2", "a", "b", "x@a"} -> t
                                     [] OTHER -> "refused"]

Event(kind, text, style, tag, anchor) ==
  [kind |-> kind, text |-> text, style |-> style, tag |-> tag, anchor |-> anchor]
Mark(kind)  == Event(kind, "", "", "none", "none")
Plain(text) == Event("scalar", text, "plain", "none", "none")
Quoted(text) == Event("scalar", text, "quoted", "none", "none")
Tagged(text) == Event("scalar", text, "plain", "str", "none")
Ref(name)   == Event("alias", name, "", "none", "none")

Collection(kind, nodes, anchor) ==
  <<Event(kind, "", "", "none", anchor)>> \o FlattenSeq(nodes) \o <<Mark("end")>>
Map(nodes) == Collection("map", nodes, "none")
List(nodes) == Collection("seq", nodes, "none")

File(events, meant, sent) ==
  [mode |-> [group |-> {"r"}, world |-> {}], readable |-> TRUE, characters |-> "fine",
   directive |-> FALSE, events |-> events, meant |-> meant, sent |-> sent]
Whole(node, meant) == File(<<Mark("document")>> \o node \o <<Mark("stream end")>>, meant, "whole")
Flawed(f) == [f EXCEPT !.sent = "flawed"]

One == [label |-> "one", hash |-> "h1", paths |-> {"a"}, domains |-> {"a"}, addresses |-> {}]
Two == [label |-> "two", hash |-> "h2", paths |-> {"a", "b"}, domains |-> {"a"},
        addresses |-> {"x@a"}]

(* How a file is written: style of the values, the spelling of domains and *)
(* hashes, whether lists are shared by alias, whether a list of addresses  *)
(* that is not wanted is missing, empty or null, and whether wrong values  *)
(* of the same keys precede the right ones.                                *)
Leaf(text, w) ==
  LET t == IF w.upper /\ text = "a" THEN "A" ELSE IF w.upper /\ text = "h1" THEN "H1" ELSE text
  IN CASE w.style = "plain" -> <<Plain(t)>> [] w.style = "quoted" -> <<Quoted(t)>>
       [] OTHER -> <<Tagged(t)>>
Key(text) == <<Plain(text)>>
ListOf(set, w) == LET s == SetToSeq(set) IN [n \in DOMAIN s |-> Leaf(s[n], w)]
Entry(p, w) == Map(
  (IF w.doubled THEN <<Key("label"), Key("~"), Key("token_sha256"), Key("yes"),
                       Key("~"), Key("b"), Key("yes"), Key("b")>> ELSE <<>>)
  \o <<Key("label"), Leaf(p.label, w), Key("token_sha256"), Leaf(p.hash, w),
       Key("mailgun_domains"), Collection("seq", ListOf(p.paths, w), "D-" \o p.label),
       Key("allowed_from_domains"),
       IF w.shared /\ p.domains = p.paths THEN <<Ref("D-" \o p.label)>>
       ELSE List(ListOf(p.domains, w))>>
  \o (IF p.addresses = {} /\ w.none = "missing" THEN <<>>
      ELSE <<Key("allowed_from_addresses"),
             IF p.addresses = {} /\ w.none = "null" THEN Key("~")
             ELSE List(ListOf(p.addresses, w))>>))
Smtp(w) == Map(<<Key("username"), Leaf("one", w), Key("password"), Leaf("secret", w)>>)
Document(ps, w) == Collection("map",
  <<Key("smtp"), Smtp(w), Key("tokens"), List([n \in DOMAIN ps |-> Entry(ps[n], w)])>>, "root")

Writings == [style : {"plain", "quoted", "tagged"}, upper : BOOLEAN, shared : BOOLEAN,
             none : {"missing", "null", "empty"}, doubled : BOOLEAN]
Simple == [style |-> "plain", upper |-> FALSE, shared |-> FALSE, none |-> "missing",
           doubled |-> FALSE]

WholeFiles == {Whole(Document(ps, w), ps) : ps \in {<<Two, One>>}, w \in Writings}
              \cup {Whole(Document(ps, Simple), ps) : ps \in {<<One>>, <<Two>>, <<One, Two>>}}

(* What an unexpected end of a block-style file leaves: the collections    *)
(* end, and a key that waits for its value gets an empty one.              *)
Open(events) ==
  LET Toggle(frames) ==
        IF frames = <<>> \/ Last(frames) = "seq" THEN frames
        ELSE Front(frames) \o <<IF Last(frames) = "key" THEN "value" ELSE "key">>
      Step(frames, e) ==
        CASE e.kind = "seq"               -> Append(frames, "seq")
          [] e.kind = "map"               -> Append(frames, "key")
          [] e.kind = "end"               -> Toggle(Front(frames))
          [] e.kind \in {"scalar", "alias"} -> Toggle(frames)
          [] OTHER                        -> frames
  IN FoldLeft(Step, <<>>, events)
Cut(f, k) ==
  LET kept   == SubSeq(f.events, 1, k)
      frames == Open(kept)
  IN [f EXCEPT !.sent = "cut",
        !.events = kept \o (IF frames # <<>> /\ Last(frames) = "value" THEN <<Plain("")>> ELSE <<>>)
                     \o [n \in DOMAIN frames |-> Mark("end")] \o <<Mark("stream end")>>]
CutFiles == UNION {{Cut(f, k) : k \in 0..Len(f.events) - 1} :
  f \in {Whole(Document(<<One, Two>>, w), <<One, Two>>) : w \in {Simple, [Simple EXCEPT !.shared = TRUE]}}}

(* One item replaced by one that cannot be right there. *)
Sound == Whole(Document(<<One, Two>>, Simple), <<One, Two>>)
Replace(n, e) == Flawed([Sound EXCEPT !.events[n] = e])
ValuesOf(f) == {n \in DOMAIN f.events : f.events[n].kind = "scalar" /\ f.events[n].text \notin Keys}
KeysOf(f) == {n \in DOMAIN f.events : f.events[n].kind = "scalar" /\ f.events[n].text \in Keys}
BadValues == {Plain("yes"), Plain("<<"), Plain("~"), Quoted(""), Ref("root"), Mark("invalid"),
              [Quoted("a") EXCEPT !.tag = "other"]}
BadFor(text) == CASE text \in {"one", "two"} -> {Quoted(" "), Plain("CHANGEME")}
                  [] text = "secret"         -> {Plain("CHANGEME")}
                  [] OTHER                   -> {Quoted(" "), Plain("nonsense")}
FlawedFiles ==
  UNION {{Replace(n, e) : e \in BadValues \cup BadFor(Sound.events[n].text)} : n \in ValuesOf(Sound)}
  \cup {Replace(n, Plain(t)) : t \in {"nonsense", ""},
          n \in {k \in KeysOf(Sound) : Sound.events[k].text # "allowed_from_addresses"}}
  \cup {Replace(n, [Sound.events[n] EXCEPT !.tag = "other"]) :
          n \in {k \in DOMAIN Sound.events : Sound.events[k].kind \in {"seq", "map"}}}

RECURSIVE Nested(_)
Nested(k) == IF k = 0 THEN <<Plain("a")>> ELSE List(<<Nested(k - 1)>>)
With(key, node) == Map(<<key, node, Key("smtp"), Smtp(Simple),
                         Key("tokens"), List(<<Entry(One, Simple)>>)>>)
OddFiles ==
  {Whole(With(Key("nonsense"), Nested(MaxDepth - 1)), <<One>>),
   Whole(With(<<Quoted("")>>, Key("a")), <<One>>)}
  \cup {Flawed(f) : f \in {
    Whole(With(Key("nonsense"), Nested(MaxDepth)), <<One>>),
    Whole(With(Nested(1), Key("a")), <<One>>),
    Whole(With(Key(""), Key("a")), <<One>>),
    Whole(Document(<<One, [Two EXCEPT !.label = "one"]>>, Simple), <<One>>),
    Whole(Document(<<One, One>>, Simple), <<One>>),
    Whole(Document(<<>>, Simple), <<>>),
    Whole(Nested(1), <<One>>),
    [Sound EXCEPT !.events = Front(@) \o @],
    [Sound EXCEPT !.directive = TRUE], [Sound EXCEPT !.readable = FALSE],
    [Sound EXCEPT !.characters = "tab"], [Sound EXCEPT !.mode.group = {"r", "w"}],
    [Sound EXCEPT !.mode.world = {"r"}]}}

-------------------------------------------------------------------------------
World(env, f, invoked, ca, hosts) ==
  [environment |-> env, file |-> f, invocation |-> invoked, caFile |-> ca,
   resolution |-> hosts]

Unreadable == [File(<<>>, <<>>, "flawed") EXCEPT !.readable = FALSE]
Small      == Whole(Document(<<One>>, Simple), <<One>>)

SomeWorlds ==
  {World(e, Unreadable, "check", "usable", <<"v4">>) : e \in SomeEnvironments}
  \cup {World(<<>>, f, "check", "usable", <<"v4">>) :
          f \in WholeFiles \cup CutFiles \cup FlawedFiles \cup OddFiles}
  \cup {World(c \o s, Small, i, ca, <<"v4">>) :
          c \in {<<>>, <<Var("SMTP_CA_FILE", <<"file">>, {<<"file">>})>>},
          s \in {<<>>, <<Var("SMTP_STARTTLS", <<"Off">>, {FALSE})>>},
          i \in {"serve", "check"}, ca \in {"usable", "missing", "malformed", "empty"}}
  \cup {World(l, Small, i, "usable", hosts) :
          l \in {<<>>, <<Var("LOG_LEVEL", <<"Critical">>, {6})>>},
          i \in {"serve", "version", "other"},
          hosts \in {<<"v4">>, <<"v4", "v6">>, <<"v4", "v4", "v6">>, <<"v6", "v4", "v6">>}}

(* What the worlds say a variable means is what its text is read as. *)
ASSUME MeaningsAssumption == \A w \in SomeWorlds : ReadAsMeant(w.environment)

===============================================================================

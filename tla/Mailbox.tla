-------------------------------- MODULE Mailbox --------------------------------
(***************************************************************************)
(* How the Rust relay reads an address or a list of addresses              *)
(* (rust/src/address.rs).                                                  *)
(*                                                                         *)
(* A value is a sequence of symbols: a symbol is a character, or a whole   *)
(* addr-spec.  Which tokens are valid addresses, and the form in which     *)
(* they are used, is a function of the token.  What a parser returns is a  *)
(* set: {} for a value it refuses, {v} for one it reads as v.  Positions   *)
(* are those of the cursor; position 0 is an error.                        *)
(***************************************************************************)
EXTENDS Integers, Sequences, FiniteSets, SequencesExt

CONSTANTS
  AddressOf,   (* valid tokens, and their addr-spec: local part as sent,   *)
               (* domain as A-label                                        *)
  WithAt,      (* the symbols that hold an "@"                             *)
  Controls     (* the symbols no header value may hold                     *)

Specials == {"(", ")", "<", ">", ",", ":", ";", "\"", "[", "]", "\\"}
IsWsp(c)         == c \in {" ", "TAB"}
IsAddrChar(c)    == ~IsWsp(c) /\ c \notin Specials
IsWordChar(c)    == IsAddrChar(c) /\ c \notin WithAt
IsCommentChar(c) == c \notin {"(", ")", "\\", "\"", ","}

(* take_while: the position behind the symbols that are accepted.          *)
Behind(s, p, Accept(_)) == Min({k \in p..Len(s) + 1 : k > Len(s) \/ ~Accept(s[k])})

At(s, p, c) == p <= Len(s) /\ s[p] = c
Taken(s, p, Accept(_)) == SubSeq(s, p, Behind(s, p, Accept) - 1)

(* Positions of a sequence in ascending order. *)
Ascending(s, positions) ==
  LET Upto[n \in 0..Len(s)] ==
        IF n = 0 THEN <<>>
        ELSE IF n \in positions THEN Append(Upto[n - 1], n) ELSE Upto[n - 1]
  IN Upto[Len(s)]

(* What each of some readers returns, or {} if one of them refuses. *)
Each(results) ==
  IF \E k \in DOMAIN results : results[k] = {} THEN {}
  ELSE {[k \in DOMAIN results |-> CHOOSE r \in results[k] : TRUE]}

(* Texts joined by a space. *)
Joined(texts) ==
  FlattenSeq([k \in DOMAIN texts |-> IF k = 1 THEN texts[k] ELSE <<" ">> \o texts[k]])

Fail == [pos |-> 0, comments |-> <<>>, words |-> <<>>]
Here(p) == [pos |-> p, comments |-> <<>>, words |-> <<>>]

(* Whitespace and comments. *)
SkipCfws(s, p) ==
  LET Skip[q \in 1..Len(s) + 1] ==
        IF q > Len(s) THEN Here(q)
        ELSE IF IsWsp(s[q]) THEN Skip[q + 1]
        ELSE IF s[q] # "(" THEN Here(q)
        ELSE LET close == Behind(s, q + 1, IsCommentChar) IN
             IF ~At(s, close, ")") THEN Fail
             ELSE [Skip[close + 1] EXCEPT !.comments = <<SubSeq(s, q + 1, close - 1)>> \o @]
  IN Skip[p]

(* A quoted string from behind its opening quote; words holds its text.    *)
QuotedString(s, p) ==
  LET Rest[q \in 1..Len(s) + 2] ==
        IF q > Len(s) THEN Fail
        ELSE IF s[q] = "\"" THEN [Here(q + 1) EXCEPT !.words = <<<<>>>>]
        ELSE LET taken == IF s[q] = "\\" THEN q + 1 ELSE q
                 rest  == Rest[taken + 1]
             IN IF taken > Len(s) \/ rest.pos = 0 THEN Fail
                ELSE [rest EXCEPT !.words[1] = <<s[taken]>> \o @]
  IN Rest[p]

(* A word or a quoted string. *)
PhraseItem(s, p) ==
  IF At(s, p, "\"") THEN QuotedString(s, p + 1)
  ELSE [Here(Behind(s, p, IsWordChar)) EXCEPT !.words = <<Taken(s, p, IsWordChar)>>]

(* An item and the rest of its phrase, or the "<".                         *)
PhraseOf(s, cfws, item, rest) ==
  IF cfws.pos = 0 \/ cfws.pos > Len(s) THEN Fail
  ELSE IF s[cfws.pos] = "<" THEN cfws
  ELSE IF ~(s[cfws.pos] = "\"" \/ IsWordChar(s[cfws.pos])) \/ item.pos = 0 THEN Fail
  ELSE IF rest.pos = 0 THEN Fail
  ELSE [rest EXCEPT !.words = item.words \o @, !.comments = cfws.comments \o @]

(* Words and quoted strings up to the "<".                                 *)
Phrase(s, p) ==
  LET More[q \in 1..Len(s) + 1] ==
        LET cfws == SkipCfws(s, q)
            item == PhraseItem(s, cfws.pos)
        IN PhraseOf(s, cfws, item, More[item.pos])
  IN More[p]

(* Mutant: the address is used as it was sent. *)
ValidateAsSent(token, name) ==
  {[name |-> name, address |-> t] : t \in {x \in DOMAIN AddressOf : token = <<x>>}}

Validate(token, name) ==
  {[name |-> name, address |-> AddressOf[t]] : t \in {x \in DOMAIN AddressOf : token = <<x>>}}

(* addr [CFWS]: the display name is the comments.                          *)
BareMailbox(s, lead) ==
  LET token == Taken(s, lead.pos, IsAddrChar)
      tail  == SkipCfws(s, lead.pos + Len(token))
  IN IF tail.pos # Len(s) + 1 THEN {}
     ELSE Validate(token, Joined(lead.comments \o tail.comments))

(* [phrase] <addr> [CFWS]: comments before the "<" belong to the name, in  *)
(* parentheses, those behind the ">" are dropped.                          *)
NamedMailbox(s, lead, phrase) ==
  LET comments == lead.comments \o phrase.comments
      name     == Joined(phrase.words) \o (IF comments = <<>> THEN <<>>
                                           ELSE <<" ", "(">> \o Joined(comments) \o <<")">>)
      start == Behind(s, phrase.pos + 1, IsWsp)
      token == Taken(s, start, IsAddrChar)
      close == Behind(s, start + Len(token), IsWsp)
  IN IF phrase.pos = 0 THEN {}
     ELSE IF ~At(s, close, ">") THEN {}
     ELSE IF SkipCfws(s, close + 1).pos # Len(s) + 1 THEN {}
     ELSE Validate(token, name)

ReadMailbox(s) ==
  LET lead == SkipCfws(s, 1) IN
  IF lead.pos = 0 THEN {}
  ELSE IF ToSet(Taken(s, lead.pos, IsAddrChar)) \cap WithAt # {} THEN BareMailbox(s, lead)
  ELSE NamedMailbox(s, lead, Phrase(s, lead.pos))

HasControl(s) == ToSet(s) \cap Controls # {}
ParseMailbox(s) == IF HasControl(s) THEN {} ELSE ReadMailbox(s)

(* The list is split at the commas outside quoted strings, where a symbol  *)
(* behind a backslash is not looked at.                                    *)
Scanned(s) ==
  LET Before[k \in 1..Len(s) + 1] ==
        IF k = 1 THEN [quoted |-> FALSE, escaped |-> FALSE]
        ELSE LET b == Before[k - 1]
                 c == s[k - 1]
             IN IF b.escaped THEN [b EXCEPT !.escaped = FALSE]
                ELSE IF c = "\\" /\ b.quoted THEN [b EXCEPT !.escaped = TRUE]
                ELSE IF c = "\"" THEN [b EXCEPT !.quoted = ~@]
                ELSE b
  IN Before
Separators(s) == LET before == Scanned(s) IN
  {k \in DOMAIN s : s[k] = "," /\ ~before[k].quoted /\ ~before[k].escaped}

ParseMailboxList(s) ==
  LET ends == <<0>> \o Ascending(s, Separators(s)) \o <<Len(s) + 1>>
  IN IF HasControl(s) THEN {}
     ELSE Each([k \in 1..Len(ends) - 1 |-> ReadMailbox(SubSeq(s, ends[k] + 1, ends[k + 1] - 1))])

===============================================================================

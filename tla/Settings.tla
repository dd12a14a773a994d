-------------------------------- MODULE Settings --------------------------------
(***************************************************************************)
(* The settings of the Rust relay, read from its environment one by one    *)
(* (rust/src/config.rs).                                                   *)
(*                                                                         *)
(* The text of a variable is a sequence of symbols: characters where it is *)
(* a number, whole words elsewhere.  What is read is a set: {} for a text  *)
(* that is refused, {v} for one that means v.                              *)
(***************************************************************************)
EXTENDS Integers, Sequences, FiniteSets, SequencesExt, TLC

CONSTANTS
  DefaultOf,       (* the default text of each setting                     *)
  LowerOf,         (* words and their lower-case form                      *)
  SenderOf,        (* addresses and the address sent for them              *)
  FloatOf,         (* texts that are an f64; inf and nan out of range      *)
  MaxInt,          (* i64::MAX, of MaxDigits digits                        *)
  MaxDigits, MaxPort, MaxCount, MaxTimeout

VARIABLES
  environment,     (* never changes: the variables, each with its field    *)
                   (* ("none" if it is no setting's), its text, whether    *)
                   (* that is utf8, and for the properties what the        *)
                   (* administrator means by it                            *)
  reading,         (* "fields", "read" or "refused" *)
  settings         (* the settings read so far, by field *)

settingsVars == <<environment, reading, settings>>

-------------------------------------------------------------------------------
(* The parsers *)

Digits   == <<"0", "1", "2", "3", "4", "5", "6", "7", "8", "9">>
IsDigit(c) == c \in ToSet(Digits)
NumberOf(digits) ==
  FoldLeft(LAMBDA n, c : 10 * n + SelectInSeq(Digits, LAMBDA d : d = c) - 1, 0, digits)

Trim(text) ==
  LET inner == {k \in DOMAIN text : text[k] # " "}
  IN IF inner = {} THEN <<>> ELSE SubSeq(text, Min(inner), Max(inner))

Unsigned(text) == IF text # <<>> /\ text[1] \in {"-", "+"} THEN Tail(text) ELSE text

(* Digits with single underscores between them. *)
IsGrouped(text) ==
  /\ text # <<>> /\ IsDigit(text[1]) /\ IsDigit(Last(text))
  /\ \A k \in DOMAIN text : IsDigit(text[k]) \/ (text[k] = "_" /\ text[k + 1] # "_")

Significant(text) ==
  LET digits == SelectSeq(text, IsDigit)
      first  == SelectInSeq(digits, LAMBDA d : d # "0")
  IN IF first = 0 THEN <<>> ELSE SubSeq(digits, first, Len(digits))

ParseIntStrict(text) ==
  LET digits == Unsigned(Trim(text))
      size   == NumberOf(Significant(digits))
      signed == IF Head(Trim(text)) = "-" THEN -size ELSE size
  IN IF ~IsGrouped(digits) THEN {}
     ELSE IF Len(Significant(digits)) > MaxDigits THEN {}
     ELSE {signed} \cap (-MaxInt - 1 .. MaxInt)

(* Also 8085.0 and 8085.00. *)
ParseInt(text) ==
  LET trimmed == Trim(text)
      dot     == SelectLastInSeq(trimmed, LAMBDA c : c = ".")
      int     == SubSeq(trimmed, 1, dot - 1)
      zeros   == SubSeq(trimmed, dot + 1, Len(trimmed))
  IN IF ParseIntStrict(text) # {} \/ dot = 0 THEN ParseIntStrict(text)
     ELSE IF zeros # <<>> /\ ToSet(zeros) = {"0"} /\ Trim(int) = int
     THEN ParseIntStrict(int)
     ELSE {}

InRange(values, min, max) == {v \in values : min <= v /\ v <= max}

Lower(text) == [k \in DOMAIN text |-> IF text[k] \in DOMAIN LowerOf THEN LowerOf[text[k]]
                                                                  ELSE text[k]]
ParseBool(text) ==
  CASE Lower(text) \in {<<w>> : w \in {"1", "on", "t", "true", "y", "yes"}}  -> {TRUE}
    [] Lower(text) \in {<<w>> : w \in {"0", "off", "f", "false", "n", "no"}} -> {FALSE}
    [] OTHER -> {}

ParseTimeout(text) ==
  LET trimmed == Trim(text)
      plain   == SelectSeq(trimmed, LAMBDA c : c # "_")
      misplaced == {k \in DOMAIN trimmed : trimmed[k] = "_" /\
                      (k \in {1, Len(trimmed)} \/ trimmed[k + 1] = "_")}
  IN IF misplaced # {} \/ plain \notin DOMAIN FloatOf THEN {}
     ELSE InRange({FloatOf[plain]}, 0, MaxTimeout)

EnvelopeSender(text) ==
  IF text = <<>> THEN {<<>>}
  ELSE IF text \in DOMAIN SenderOf THEN {SenderOf[text]} ELSE {}

Levels == <<"trace", "debug", "info", "warning", "error", "critical">>
ParseLevel(text) == {n \in DOMAIN Levels : Lower(text) = <<Levels[n]>>}

Parse(field, text) ==
  CASE field = "BIND_PORT"               -> InRange(ParseIntStrict(text), 0, MaxPort)
    [] field = "SMTP_PORT"               -> InRange(ParseInt(text), 0, MaxPort)
    [] field = "SMTP_MAX_CONCURRENCY"    -> InRange(ParseInt(text), 1, MaxCount)
    [] field \in {"MAX_BODY_BYTES", "MAX_ATTACHMENTS", "MAX_ATTACHMENT_BYTES",
                  "MAX_RECIPIENTS", "MAX_HEADER_VALUE_LENGTH"} -> ParseInt(text)
    [] field \in {"SMTP_STARTTLS", "FAIL_ON_PARTIAL_REFUSAL"}  -> ParseBool(text)
    [] field = "SMTP_TIMEOUT_S"          -> ParseTimeout(text)
    [] field = "ENVELOPE_SENDER"         -> EnvelopeSender(text)
    [] field = "LOG_LEVEL"               -> ParseLevel(text)
    [] OTHER                             -> {text}

-------------------------------------------------------------------------------
(* from_env *)

Fields == <<"BIND_HOST", "BIND_PORT", "PUBLIC_HOST", "SECRETS_PATH", "SMTP_HOST", "SMTP_PORT",
            "SMTP_STARTTLS", "SMTP_TIMEOUT_S", "SMTP_CA_FILE", "SMTP_MAX_CONCURRENCY",
            "ENVELOPE_SENDER", "FAIL_ON_PARTIAL_REFUSAL", "MAX_BODY_BYTES", "MAX_ATTACHMENTS",
            "MAX_ATTACHMENT_BYTES", "MAX_RECIPIENTS", "MAX_HEADER_VALUE_LENGTH", "LOG_LEVEL">>

ASSUME DefaultsAssumption ==
  \A k \in DOMAIN Fields : Parse(Fields[k], DefaultOf[Fields[k]]) # {}

SettingsInit(e) ==
  /\ environment = e
  /\ reading = "fields" /\ settings = <<>>

(* Names are compared without case. *)
Matches(field) == {k \in DOMAIN environment : environment[k].field = field}

(* Mutant: two spellings with the same value pass. *)
AmbiguousText(matches) == \E j, k \in matches : environment[j].text # environment[k].text
(* Several spellings of a name are an error, whatever their values.        *)
Ambiguous(matches) == Cardinality(matches) > 1

Lookup(field) ==
  LET found == environment[CHOOSE k \in Matches(field) : TRUE] IN
  IF Matches(field) = {} THEN Parse(field, DefaultOf[field])
  ELSE IF Ambiguous(Matches(field)) \/ ~found.utf8 THEN {}
  ELSE Parse(field, found.text)

ReadField ==
  LET field == Fields[Cardinality(DOMAIN settings) + 1] IN
  /\ reading = "fields" /\ Cardinality(DOMAIN settings) < Len(Fields)
  /\ IF Lookup(field) = {} THEN reading' = "refused" /\ settings' = settings
     ELSE /\ \E v \in Lookup(field) :
               settings' = [f \in DOMAIN settings \cup {field} |->
                              IF f = field THEN v ELSE settings[f]]
          /\ reading' = reading
  /\ UNCHANGED environment

(* An empty BIND_HOST would bind every interface. *)
CheckBindHost ==
  /\ reading = "fields" /\ Cardinality(DOMAIN settings) = Len(Fields)
  /\ reading' = IF settings["BIND_HOST"] = <<>> THEN "refused" ELSE "read"
  /\ UNCHANGED <<environment, settings>>

SettingsNext == ReadField \/ CheckBindHost

-------------------------------------------------------------------------------
(* The parsers read a variable as the administrator means it. *)
ReadAsMeant(variables) ==
  \A k \in DOMAIN variables :
    LET v == variables[k]
    IN v.field \in ToSet(Fields) => v.means = IF v.utf8 THEN Parse(v.field, v.text) ELSE {}

(* Every setting has one source: the only variable of its name, in any     *)
(* spelling, with the value the administrator means by it, or else the     *)
(* default.  What means nothing, is out of range or is said twice stops    *)
(* the start, and nothing else does.                                       *)
Means(field) ==
  CASE Matches(field) = {} -> Parse(field, DefaultOf[field])
    [] Cardinality(Matches(field)) = 1 -> environment[CHOOSE k \in Matches(field) : TRUE].means
    [] OTHER -> {}
EachSettingHasOneSource ==
  /\ \A field \in DOMAIN settings : Means(field) = {settings[field]}
  /\ reading = "read" => DOMAIN settings = ToSet(Fields) /\ settings["BIND_HOST"] # <<>>
  /\ reading = "refused" =>
       \E k \in DOMAIN Fields : Means(Fields[k]) \subseteq
                                  IF Fields[k] = "BIND_HOST" THEN {<<>>} ELSE {}

===============================================================================

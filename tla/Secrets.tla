-------------------------------- MODULE Secrets --------------------------------
(***************************************************************************)
(* The secrets file as the Rust relay loads it: its mode, its YAML         *)
(* (rust/src/yaml.rs) and the SMTP credentials and token policies in it    *)
(* (rust/src/secrets.rs).                                                  *)
(*                                                                         *)
(* The file is what the scanner and the parser of yaml-rust2 report of it: *)
(* a sequence of events, each with the anchor it defines.  A text is one   *)
(* symbol; what YAML 1.1 makes of it when it is plain, and the normal form *)
(* of a domain or an address (domain.rs), are functions of the symbol.     *)
(***************************************************************************)
EXTENDS Integers, Sequences, FiniteSets, SequencesExt

CONSTANTS
  Texts,         (* symbols                                                *)
  TypeOf,        (* what resolve_plain makes of a text: "str", "null",     *)
                 (* "other" or "error"                                     *)
  Hashes,        (* 64 hex digits, up to case and surrounding whitespace   *)
  Normal,        (* the normal form of a domain or address, or "refused"   *)
  Blank,         (* whitespace only                                        *)
  Placeholders,  (* FORBIDDEN_VALUES                                       *)
  MaxDepth       (* MAX_DEPTH                                              *)

ASSUME TextsAssumption ==
  /\ TypeOf \in [Texts -> {"str", "null", "other", "error"}]
  /\ DOMAIN Normal = Texts
  /\ Hashes \subseteq Texts /\ Blank \subseteq Texts /\ Placeholders \subseteq Texts
  /\ MaxDepth \in Nat

VARIABLES
  file,        (* never changes: mode, readable, characters ("fine" or     *)
               (* not), directive (has one), events, and for the           *)
               (* properties what the author meant: the policies (meant),  *)
               (* and how they were written (sent): "whole", "cut" or      *)
               (* "flawed"                                                 *)
  load,        (* the step that comes next, "loaded" or "refused"          *)
  position,    (* events read                                              *)
  stack,       (* the open collections                                     *)
  anchors,     (* the anchored nodes                                       *)
  documents, root,
  policies     (* Secrets::tokens                                          *)

reader      == <<position, stack, anchors, documents, root>>
secretsVars == <<file, load, reader, policies>>

Str(text) == [type |-> "str", text |-> text]
Null      == [type |-> "null"]
Other     == [type |-> "other"]
Missing   == [type |-> "missing"]

NoKey   == "no key"      (* the frame does not wait for a value            *)
NotText == "not a text"  (* the key of an entry that no lookup finds       *)

SecretsInit(f) ==
  /\ file = f
  /\ load = "mode"
  /\ position = 0 /\ stack = <<>> /\ anchors = <<>> /\ documents = 0
  /\ root = Null
  /\ policies = <<>>

RefuseFile == load' = "refused" /\ UNCHANGED <<file, reader, policies>>
Go(step)   == load' = step /\ UNCHANGED <<file, reader, policies>>

-------------------------------------------------------------------------------
(* load, and the checks before the parser runs *)

(* mode & 0o037: write or execute for the group, anything for the world.   *)
ModeIsForbidden(mode) == mode.group \cap {"w", "x"} # {} \/ mode.world # {}

CheckMode ==
  /\ load = "mode"
  /\ IF ModeIsForbidden(file.mode) \/ ~file.readable THEN RefuseFile ELSE Go("characters")

CheckCharacters ==
  /\ load = "characters"
  /\ IF file.characters = "fine" THEN Go("tokens") ELSE RefuseFile

Anchored == {n \in DOMAIN file.events : file.events[n].anchor # "none"}

CheckTokens ==
  /\ load = "tokens"
  /\ IF \/ file.directive
        \/ \E m, n \in Anchored : m # n /\ file.events[m].anchor = file.events[n].anchor
     THEN RefuseFile ELSE Go("events")

-------------------------------------------------------------------------------
(* parse: one action for each kind of event *)

event == file.events[position + 1]
Reads(kinds) == load = "events" /\ event.kind \in kinds

Frame(kind, anchor) == [kind |-> kind, anchor |-> anchor, items |-> <<>>, entries |-> <<>>,
                        key |-> NoKey]

(* A finished node goes into the collection that is open; in a mapping it  *)
(* is a key or the value of the key that waits.                            *)
Put(frame, node) ==
  IF frame.kind = "seq" THEN [frame EXCEPT !.items = Append(@, node)]
  ELSE IF frame.key = NoKey
  THEN [frame EXCEPT !.key = IF node.type = "str" THEN node.text ELSE NotText]
  ELSE [frame EXCEPT !.entries = Append(@, [key |-> frame.key, value |-> node]), !.key = NoKey]

IsKey(frames) == frames # <<>> /\ Last(frames).kind = "map" /\ Last(frames).key = NoKey

Add(frames, node, anchor) ==
  IF IsKey(frames) /\ node.type \in {"seq", "map"} THEN RefuseFile
  ELSE /\ position' = position + 1
       /\ anchors' = IF anchor = "none" THEN anchors
                     ELSE Append(anchors, [name |-> anchor, node |-> node])
       /\ IF frames = <<>> THEN root' = node /\ stack' = frames
          ELSE root' = root /\ stack' = Front(frames) \o <<Put(Last(frames), node)>>
       /\ UNCHANGED <<file, load, documents, policies>>

DocumentStart ==
  /\ Reads({"document"})
  /\ IF documents = 1 THEN RefuseFile
     ELSE /\ documents' = documents + 1 /\ position' = position + 1
          /\ UNCHANGED <<file, load, stack, anchors, root, policies>>

(* Mutant: one level more. *)
TooDeepLate(frames) == Len(frames) > MaxDepth
TooDeep(frames) == Len(frames) >= MaxDepth

CollectionStart ==
  /\ Reads({"seq", "map"})
  /\ IF event.tag # "none" \/ TooDeep(stack) THEN RefuseFile
     ELSE /\ stack' = Append(stack, Frame(event.kind, event.anchor))
          /\ position' = position + 1
          /\ UNCHANGED <<file, load, anchors, documents, root, policies>>

Closed(frame) == IF frame.kind = "seq" THEN [type |-> "seq", items |-> frame.items]
                                       ELSE [type |-> "map", entries |-> frame.entries]

CollectionEnd ==
  /\ Reads({"end"})
  /\ IF Last(stack).key # NoKey THEN RefuseFile
     ELSE Add(Front(stack), Closed(Last(stack)), Last(stack).anchor)

Resolved(text) == CASE TypeOf[text] = "str"   -> Str(text)
                    [] TypeOf[text] = "null"  -> Null
                    [] TypeOf[text] = "other" -> Other

IsPlain(e) == e.style = "plain" /\ e.tag = "none"

Scalar ==
  /\ Reads({"scalar"})
  /\ IF \/ event.tag \notin {"none", "str"}
        \/ IsPlain(event) /\ TypeOf[event.text] = "error"
        \/ IsPlain(event) /\ event.text = "" /\ IsKey(stack)
     THEN RefuseFile
     ELSE Add(stack, IF IsPlain(event) THEN Resolved(event.text) ELSE Str(event.text),
              event.anchor)

(* The anchor of a node that is still open is not known yet. *)
Known(name) == {n \in DOMAIN anchors : anchors[n].name = name}

Alias ==
  /\ Reads({"alias"})
  /\ IF Known(event.text) = {} THEN RefuseFile
     ELSE Add(stack, anchors[Max(Known(event.text))].node, "none")

NotYaml == Reads({"invalid"}) /\ RefuseFile

StreamEnd == Reads({"stream end"}) /\ IF root.type = "map" THEN Go("smtp") ELSE RefuseFile

-------------------------------------------------------------------------------
(* from_yaml: the sections of the file *)

(* The last of several entries with one key counts. *)
(* Mutant: the first of them. *)
FoundFirst(map, key) ==
  LET all == {n \in DOMAIN map.entries : map.entries[n].key = key}
  IN IF all = {} THEN {} ELSE {Min(all)}
Found(map, key) == {n \in DOMAIN map.entries : map.entries[n].key = key}
Get(map, key) == IF map.type # "map" \/ Found(map, key) = {} THEN Missing
                 ELSE map.entries[Max(Found(map, key))].value

IsText(node) == node.type = "str" /\ node.text \notin Blank
IsOwnText(node) == IsText(node) /\ node.text \notin Placeholders

LoadSmtp ==
  LET smtp == Get(root, "smtp") IN
  /\ load = "smtp"
  /\ IF /\ smtp.type = "map" /\ IsOwnText(Get(smtp, "username"))
        /\ Get(smtp, "password").type = "str" /\ Get(smtp, "password").text \notin Placeholders
        /\ Get(root, "tokens").type = "seq" /\ Get(root, "tokens").items # <<>>
     THEN Go("policies") ELSE RefuseFile

(* string_list; no list and an empty list are the same. *)
Listed(raw, key) == IF Get(raw, key).type = "seq" THEN Get(raw, key).items ELSE <<>>
IsFine(items)    == \A n \in DOMAIN items : IsText(items[n]) /\ Normal[items[n].text] # "refused"
Values(items)    == {Normal[items[n].text] : n \in DOMAIN items}

(* load_policy: what a complete entry of tokens is and has ... *)
IsComplete(raw) ==
  /\ raw.type = "map"
  /\ IsOwnText(Get(raw, "label"))
  /\ Get(raw, "token_sha256").type = "str" /\ Get(raw, "token_sha256").text \in Hashes
  /\ \A key \in {"mailgun_domains", "allowed_from_domains"} :
       Listed(raw, key) # <<>> /\ IsFine(Listed(raw, key))
  /\ Get(raw, "allowed_from_addresses").type \in {"missing", "null", "seq"}
  /\ IsFine(Listed(raw, "allowed_from_addresses"))

(* ... and the policy made of it; no addresses means any address.          *)
PolicyOf(raw) ==
  [label     |-> Get(raw, "label").text,
   hash      |-> Normal[Get(raw, "token_sha256").text],
   paths     |-> Values(Listed(raw, "mailgun_domains")),
   domains   |-> Values(Listed(raw, "allowed_from_domains")),
   addresses |-> Values(Listed(raw, "allowed_from_addresses"))]

HasLabel(label) == \E n \in DOMAIN policies : policies[n].label = label

LoadPolicy ==
  LET entries == Get(root, "tokens").items
      raw     == entries[Len(policies) + 1]
  IN
  /\ load = "policies"
  /\ IF IsComplete(raw) => HasLabel(PolicyOf(raw).label) THEN RefuseFile
     ELSE /\ policies' = Append(policies, PolicyOf(raw))
          /\ load' = IF Len(policies') = Len(entries) THEN "loaded" ELSE "policies"
          /\ UNCHANGED <<file, reader>>

SecretsNext ==
  \/ CheckMode \/ CheckCharacters \/ CheckTokens
  \/ DocumentStart \/ CollectionStart \/ CollectionEnd \/ Scalar \/ Alias \/ NotYaml \/ StreamEnd
  \/ LoadSmtp \/ LoadPolicy

-------------------------------------------------------------------------------
(* The policies of a whole file are those its author meant, however they   *)
(* are written: quoted or plain, with aliases, with keys twice; a flawed   *)
(* file is refused.  Of a file that was cut off between two of its items   *)
(* no incomplete policy is loaded: what is loaded are the first policies,  *)
(* of which the last may have lost addresses of its allow-list or, if the  *)
(* list is gone, the restriction to it.                                    *)
Keeps(policy, meant) ==
  /\ policy.label = meant.label /\ policy.hash = meant.hash
  /\ policy.paths \subseteq meant.paths /\ policy.domains \subseteq meant.domains
  /\ policy.addresses \subseteq meant.addresses
SecretsReadBack ==
  /\ load = "loaded" =>
       \/ file.sent = "whole" /\ policies = file.meant
       \/ /\ file.sent = "cut"
          /\ Len(policies) <= Len(file.meant)
          /\ \A n \in 1..Len(policies) - 1 : policies[n] = file.meant[n]
          /\ Keeps(Last(policies), file.meant[Len(policies)])
  /\ load = "refused" => file.sent # "whole"

===============================================================================

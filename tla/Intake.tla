--------------------------------- MODULE Intake ---------------------------------
(***************************************************************************)
(* One request task of the Rust relay from its first poll to the message   *)
(* being handed to a blocking thread: steps 2 to 8 of decide               *)
(* (rust/src/pipeline.rs) with everything they call, in their order.       *)
(*                                                                         *)
(* What the client sends is chosen when the task looks at it: the token,   *)
(* the content type, the frames of the body one by one, the items of the   *)
(* form one by one, the path domain.  items remembers the form, so that    *)
(* what parse_form has collected can be compared with it.                  *)
(*                                                                         *)
(* The framing of the form (form.rs) is a verdict here.  A value is what   *)
(* the checks tell apart: a mailbox for from, "fine" or "refused" for a    *)
(* header value (control characters, too long), a size for texts and       *)
(* files.                                                                  *)
(***************************************************************************)
EXTENDS Integers, Sequences, FiniteSets

CONSTANTS
  Policies,            (* the token policies, in file order: token, paths  *)
                       (* (mailgun_domains), domains, addresses (of the    *)
                       (* from header; all if there is no list)            *)
  Tokens, Paths,       (* passwords and path domains clients send          *)
  Mailboxes,           (* what parse_mailbox accepts ...                   *)
  DomainOf,            (* ... and the domain of each                       *)
  Names, RefusedNames, (* header names; invalid or dangerous ones          *)
  Keys,                (* the form fields clients send                     *)
  FrameSizes,          (* sizes of body frames                             *)
  TextSizes,           (* of text, html, amp-html: as sent, decoded        *)
  FileSizes,           (* of attachment, inline: as sent, decoded          *)
  MaxBodyBytes, MaxAttachments, MaxAttachmentBytes, MaxRecipients,
  FieldHeadroom        (* FORM_FIELD_HEADROOM                              *)

Texts == {"text", "html", "amp-html"}
Files == {"attachment", "inline"}

ASSUME KeysAssumption ==
  Keys \subseteq {"from", "to", "subject", "header", "unsupported", "unknown"}
                   \cup Texts \cup Files
(* An item takes at least one byte of the body besides its data; a byte of *)
(* latin-1 becomes two of UTF-8, so a text may grow, a file may not.       *)
ASSUME SizesAssumption ==
  /\ FrameSizes \subseteq Nat
  /\ TextSizes \subseteq (Nat \ {0}) \X Nat /\ \A t \in TextSizes : t[2] <= 2 * (t[1] - 1)
  /\ FileSizes \subseteq (Nat \ {0}) \X Nat /\ \A t \in FileSizes : t[2] <= t[1] - 1
ASSUME LimitsAssumption ==
  /\ MaxBodyBytes \in Int /\ MaxAttachments \in Int /\ MaxAttachmentBytes \in Int
  /\ MaxRecipients \in Int /\ FieldHeadroom \in Nat
ASSUME PoliciesAssumption ==
  Policies \in Seq([token : Tokens, paths : SUBSET Paths,
                    domains : SUBSET {DomainOf[m] : m \in Mailboxes},
                    addresses : SUBSET Mailboxes])
ASSUME NamesAssumption == RefusedNames \subseteq Names
(* The marks of what cannot be read or is of the wrong kind are no values. *)
ASSUME MarksAssumption == {"malformed", "mistyped"} \cap (Paths \cup Mailboxes) = {}

VARIABLES
  pc,         (* the check that comes next                                 *)
  result,     (* the status of a rejected request, else 0                  *)
  token,      (* the password, "none" for any unusable Authorization       *)
  encoding,   (* from the Content-Type header                              *)
  path,       (* the path domain                                           *)
  bytes,      (* length of the body read so far                            *)
  form,       (* what became of the body: "unread", "broken", "malformed", *)
              (* "large" or "parsed"                                       *)
  left,       (* bytes of the body the items so far do not account for     *)
  items,      (* the items of the form so far                              *)
  from,       (* ParsedForm: from ...                                      *)
  rcpts,      (* ... how many to, cc and bcc                               *)
  subject,    (* ... "fine", "refused", or "none" if missing               *)
  bodies,     (* ... which of text, html and amp-html are present          *)
  headers,    (* ... the custom headers                                    *)
  files,      (* ... how many attachments and inline files                 *)
  total       (* aggregate size of texts and files                         *)

control == <<pc, result>>
request == <<token, encoding, path>>
body    == <<bytes, form>>
scan    == <<left, items>>
parsed  == <<from, rcpts, subject, bodies, headers, files, total>>
vars    == <<control, request, body, scan, parsed>>

Values == {"fine", "refused"}
Headers == [name : Names, value : Values]

(* The items of a form; "to" stands for to, cc and bcc.  A file in the     *)
(* place of a text, or a text in the place of a file, is "mistyped".       *)
Items ==
  {item \in [key : {"from"}, value : Mailboxes \cup {"malformed"}, size : {<<1, 0>>}]
      \cup [key : {"to"}, value : {"address"}, size : {<<1, 0>>}]
      \cup [key : {"subject"}, value : Values, size : {<<1, 0>>}]
      \cup [key : {"header"}, name : Names, value : Values, size : {<<1, 0>>}]
      \cup [key : Texts, value : {"text"}, size : TextSizes]
      \cup [key : Files, value : {"file"}, size : FileSizes]
      \cup [key : {"unsupported", "unknown"}, value : {"text"}, size : {<<1, 0>>}]
      \cup [key : Keys \ {"unsupported", "unknown"}, value : {"mistyped"}, size : {<<1, 0>>}]
   : item.key \in Keys}

(* Part of the file count of the parser, not of the field count. *)
IsFile(item) == (item.key \in Files) # (item.value = "mistyped")

ItemsWith(test(_)) == {i \in DOMAIN items : test(items[i])}

TypeOK ==
  /\ pc \in {"token", "type", "body", "form", "items", "policy", "headers", "counts",
             "accepted", "rejected"}
  /\ result \in {0, 400, 401, 403, 413}
  /\ token \in Tokens \cup {"none"}
  /\ encoding \in {"unknown", "none", "urlencoded", "multipart", "malformed"}
  /\ path \in Paths \cup {"unknown", "malformed"}
  /\ bytes \in Nat
  /\ form \in {"unread", "broken", "malformed", "large", "parsed"}
  /\ left \in Nat
  /\ items \in Seq(Items)
  /\ from \in Seq(Mailboxes \cup {"malformed"})
  /\ rcpts \in Nat
  /\ subject \in Values \cup {"none"}
  /\ bodies \in SUBSET Texts
  /\ headers \in Seq(Headers)
  /\ files \in Nat
  /\ total \in Nat

Init ==
  /\ pc = "token" /\ result = 0
  /\ token = "none" /\ encoding = "unknown" /\ path = "unknown"
  /\ bytes = 0 /\ form = "unread"
  /\ left = 0 /\ items = <<>>
  /\ from = <<>> /\ rcpts = 0 /\ subject = "none"
  /\ bodies = {} /\ headers = <<>> /\ files = 0 /\ total = 0

-------------------------------------------------------------------------------
Goto(step) == pc' = step /\ UNCHANGED result
Reject(code) == pc' = "rejected" /\ result' = code
Check(refused, code, step) == IF refused THEN Reject(code) ELSE Goto(step)

(* Every policy is compared, the last match wins. *)
Matches(secret) == {i \in DOMAIN Policies : Policies[i].token = secret}
(* Mutant: the first match wins. *)
PolicyFirst == Policies[CHOOSE i \in Matches(token) : \A j \in Matches(token) : i <= j]

Policy == Policies[CHOOSE i \in Matches(token) : \A j \in Matches(token) : j <= i]

(* Mutant: a wrong token is forbidden. *)
AuthenticateForbids ==
  /\ pc = "token"
  /\ token' \in Tokens \cup {"none"}
  /\ Check(Matches(token') = {}, 403, "type")
  /\ UNCHANGED <<encoding, path, body, scan, parsed>>

Authenticate ==
  /\ pc = "token"
  /\ token' \in Tokens \cup {"none"}
  /\ Check(Matches(token') = {}, 401, "type")
  /\ UNCHANGED <<encoding, path, body, scan, parsed>>

(* Of another content type the form is empty and the body is not read. *)
ContentType ==
  /\ pc = "type"
  /\ encoding' \in {"none", "urlencoded", "multipart", "malformed"}
  /\ Check(encoding' = "malformed", 400, IF encoding' = "none" THEN "items" ELSE "body")
  /\ UNCHANGED <<token, path, body, scan, parsed>>

(* Mutant: only the complete body is measured. *)
ReadFrameUnchecked ==
  /\ pc = "body" /\ bytes <= MaxBodyBytes
  /\ \E n \in FrameSizes : bytes' = bytes + n
  /\ UNCHANGED <<control, request, form, scan, parsed>>

ReadFrame ==
  /\ pc = "body"
  /\ \E n \in FrameSizes : bytes' = bytes + n
  /\ Check(bytes' > MaxBodyBytes, 413, "body")
  /\ UNCHANGED <<request, form, scan, parsed>>

ReadEnds ==
  /\ pc = "body"
  /\ Check(bytes > MaxBodyBytes, 413, "form")
  /\ UNCHANGED <<request, body, scan, parsed>>

(* The client goes away, or the chunks are malformed. *)
ReadFails ==
  /\ pc = "body"
  /\ form' = "broken"
  /\ Reject(400)
  /\ UNCHANGED <<request, bytes, scan, parsed>>

(* The whole body is parsed before the first item is looked at. *)
Parse ==
  /\ pc = "form"
  /\ \/ form' = "malformed" /\ encoding = "multipart" /\ bytes > 0 /\ Reject(400)
     \/ form' = "large" /\ bytes > 0 /\ Reject(413)
     \/ form' = "parsed" /\ Goto("items")
  /\ left' = bytes
  /\ UNCHANGED <<request, bytes, items, parsed>>

-------------------------------------------------------------------------------
(* The loop of parse_form, one action per kind of item. *)

(* Mutant: an item may end behind the end of the body. *)
TakeOverrun(item) ==
  /\ pc = "items" /\ left > 0
  /\ left' = left - item.size[1] - 1
  /\ items' = Append(items, item)
  /\ UNCHANGED <<request, body>>

(* The next item, within what is left of the body and the parser limits.   *)
Take(item) ==
  /\ pc = "items"
  /\ item.size[1] <= left
  /\ encoding = "urlencoded" => ~IsFile(item)
  /\ LET filesSoFar == Cardinality(ItemsWith(IsFile))
     IN IF IsFile(item) THEN filesSoFar <= MaxAttachments
        ELSE Len(items) - filesSoFar < MaxRecipients + FieldHeadroom
  /\ left' = left - item.size[1]
  /\ items' = Append(items, item)
  /\ UNCHANGED <<request, body>>

BadItem(item) ==
  /\ item.key \in {"unsupported", "unknown"} \/ item.value = "mistyped"
  /\ Take(item)
  /\ Reject(400)
  /\ UNCHANGED parsed

(* Mutant: a repeated header is kept twice. *)
HeaderItemAppends(item) ==
  /\ item.key = "header" /\ item.value # "mistyped"
  /\ Take(item)
  /\ headers' = Append(headers, [name |-> item.name, value |-> item.value])
  /\ UNCHANGED <<control, from, rcpts, subject, bodies, files, total>>

(* As in Python's dict: the first position, the last value. *)
HeaderItem(item) ==
  /\ item.key = "header" /\ item.value # "mistyped"
  /\ Take(item)
  /\ headers' = IF \E i \in DOMAIN headers : headers[i].name = item.name
                THEN [i \in DOMAIN headers |->
                        IF headers[i].name = item.name
                        THEN [name |-> item.name, value |-> item.value] ELSE headers[i]]
                ELSE Append(headers, [name |-> item.name, value |-> item.value])
  /\ UNCHANGED <<control, from, rcpts, subject, bodies, files, total>>

FromItem(item) ==
  /\ item.key = "from" /\ item.value # "mistyped"
  /\ Take(item)
  /\ from' = Append(from, item.value)
  /\ UNCHANGED <<control, rcpts, subject, bodies, headers, files, total>>

RecipientItem(item) ==
  /\ item.key = "to" /\ item.value # "mistyped"
  /\ Take(item)
  /\ rcpts' = rcpts + 1
  /\ UNCHANGED <<control, from, subject, bodies, headers, files, total>>

SubjectItem(item) ==
  /\ item.key = "subject" /\ item.value # "mistyped"
  /\ Take(item)
  /\ subject' = item.value
  /\ UNCHANGED <<control, from, rcpts, bodies, headers, files, total>>

TextItem(item) ==
  /\ item.key \in Texts /\ item.value # "mistyped"
  /\ Take(item)
  /\ total' = total + item.size[2]
  /\ Check(total' > MaxBodyBytes, 413, "items")
  /\ bodies' = IF total' > MaxBodyBytes THEN bodies ELSE bodies \cup {item.key}
  /\ UNCHANGED <<from, rcpts, subject, headers, files>>

(* Mutant: files have their own limit, but are no part of the aggregate.   *)
FileItemUncounted(item) ==
  /\ item.key \in Files /\ item.value # "mistyped"
  /\ Take(item)
  /\ IF item.size[2] > MaxAttachmentBytes
     THEN Reject(413) /\ UNCHANGED files
     ELSE files' = files + 1 /\ Check(files' > MaxAttachments, 413, "items")
  /\ UNCHANGED <<from, rcpts, subject, bodies, headers, total>>

(* Attachments and inline files share the cap. *)
FileItem(item) ==
  /\ item.key \in Files /\ item.value # "mistyped"
  /\ Take(item)
  /\ IF item.size[2] > MaxAttachmentBytes
     THEN Reject(413) /\ UNCHANGED <<total, files>>
     ELSE /\ total' = total + item.size[2]
          /\ files' = IF total' > MaxBodyBytes THEN files ELSE files + 1
          /\ Check(total' > MaxBodyBytes \/ files' > MaxAttachments, 413, "items")
  /\ UNCHANGED <<from, rcpts, subject, bodies, headers>>

ItemsEnd ==
  /\ pc = "items"
  /\ Check(Len(from) # 1 \/ subject = "none" \/ bodies \cap {"text", "html"} = {}, 400, "policy")
  /\ UNCHANGED <<request, body, scan, parsed>>

-------------------------------------------------------------------------------
(* enforce_policy: the path domain, then the from header.  A from value    *)
(* with a non-ASCII local part is malformed whatever the policy says.      *)
EnforcePolicy ==
  /\ pc = "policy"
  /\ path' \in Paths \cup {"malformed"}
  /\ LET sender == from[1]
     IN CASE path' = "malformed"                    -> Reject(400)
          [] path' \in Paths \ Policy.paths         -> Reject(403)
          [] path' \in Policy.paths ->
               CASE sender = "malformed"                     -> Reject(400)
                 [] sender \in Mailboxes ->
                      Check(DomainOf[sender] \notin Policy.domains
                              \/ sender \notin Policy.addresses, 403, "headers")
  /\ UNCHANGED <<token, encoding, body, scan, parsed>>

(* Mutant: the values are not looked at. *)
ValidateNames ==
  /\ pc = "headers"
  /\ Check(\E i \in DOMAIN headers : headers[i].name \in RefusedNames, 400, "counts")
  /\ UNCHANGED <<request, body, scan, parsed>>

ValidateHeaders ==
  /\ pc = "headers"
  /\ Check(\/ subject = "refused"
           \/ \E i \in DOMAIN headers : headers[i].name \in RefusedNames
                                          \/ headers[i].value = "refused",
           400, "counts")
  /\ UNCHANGED <<request, body, scan, parsed>>

(* Counted before the envelope is freed of duplicates. *)
CountRecipients ==
  /\ pc = "counts"
  /\ IF rcpts = 0 THEN Reject(400) ELSE Check(rcpts > MaxRecipients, 413, "accepted")
  /\ UNCHANGED <<request, body, scan, parsed>>

-------------------------------------------------------------------------------
NextItem(item) ==
  \/ BadItem(item) \/ HeaderItem(item) \/ FromItem(item) \/ RecipientItem(item)
  \/ SubjectItem(item) \/ TextItem(item) \/ FileItem(item)

Next ==
  \/ Authenticate \/ ContentType
  \/ ReadFrame \/ ReadEnds \/ ReadFails \/ Parse
  \/ \E item \in Items : NextItem(item)
  \/ ItemsEnd
  \/ EnforcePolicy \/ ValidateHeaders \/ CountRecipients

Spec == Init /\ [][Next]_vars

-------------------------------------------------------------------------------
(* The grounds of each status, from the request as a whole instead of the  *)
(* first check that fails (docs/api-compatibility.md, error mapping).      *)

(* The policy of the token, where a later one replaces an earlier one.     *)
Own == {i \in DOMAIN Policies : /\ Policies[i].token = token
                               /\ \A j \in DOMAIN Policies : j > i => Policies[j].token # token}
Unknown == Own = {}

With(key) == {i \in DOMAIN items : items[i].key = key}
LastIs(indices, value) ==
  \E i \in indices : items[i].value = value /\ \A j \in indices : j <= i

Forbidden == \E i \in Own :
  \/ path \in Paths \ Policies[i].paths
  \/ \E k \in With("from") :
       /\ items[k].value \in Mailboxes
       /\ \/ DomainOf[items[k].value] \notin Policies[i].domains
          \/ items[k].value \notin Policies[i].addresses

Bad ==
  \/ encoding = "malformed" \/ form \in {"broken", "malformed"} \/ path = "malformed"
  \/ \E i \in DOMAIN items : \/ items[i].key \in {"unsupported", "unknown"}
                             \/ items[i].value \in {"mistyped", "malformed"}
  \/ Cardinality(With("from")) # 1 \/ With("subject") = {} \/ With("to") = {}
  \/ With("text") \cup With("html") = {}
  \/ LastIs(With("subject"), "refused")
  \/ \E name \in Names :
       LET named == {i \in With("header") : items[i].name = name}
       IN named # {} /\ (name \in RefusedNames \/ LastIs(named, "refused"))

Size(item) == IF item.key \in Texts \cup Files THEN item.size[2] ELSE 0
TotalSize(fields) ==
  LET Upto[n \in 0..Len(fields)] == IF n = 0 THEN 0 ELSE Upto[n - 1] + Size(fields[n])
  IN Upto[Len(fields)]
Uploads == {i \in DOMAIN items : items[i].key \in Files}
Excessive ==
  \/ bytes > MaxBodyBytes \/ form = "large"
  \/ \E i \in DOMAIN items : items[i].key \in Files /\ Size(items[i]) > MaxAttachmentBytes
  \/ Uploads # {} /\ Cardinality(Uploads) > MaxAttachments
  \/ TotalSize(items) > MaxBodyBytes
  \/ Cardinality(With("to")) > MaxRecipients

(* The token and its policy decide alone who may send: 401 and 403 are not *)
(* given for anything else, and nothing else gets a request past them.     *)
RightsDecide ==
  /\ result = 401 => Unknown
  /\ result = 403 => Forbidden
  /\ pc = "accepted" => ~(Unknown \/ Forbidden)

(* A status is never given without one of its grounds, whichever check was *)
(* reached first, and a request with a ground for any of them is never     *)
(* accepted: no order of the fields gets past a check.                     *)
AnswerHasItsGround ==
  /\ RightsDecide
  /\ result = 400 => Bad
  /\ result = 413 => Excessive
  /\ pc = "accepted" => ~(Bad \/ Excessive)

(* While parse_form runs, the custom headers are what Python's dict would  *)
(* hold: one entry per name, in the order of their first occurrence, each  *)
(* with its last value.  Names that differ in case only are different.     *)
Given(name, fields) ==
  {i \in DOMAIN fields : /\ fields[i].key = "header" /\ fields[i].value # "mistyped"
                         /\ fields[i].name = name}
HeadersAreTheMap ==
  /\ \A name \in Names :
       Given(name, items) # {} => \E k \in DOMAIN headers : headers[k].name = name
  /\ \A k \in DOMAIN headers : LastIs(Given(headers[k].name, items), headers[k].value)
  /\ \A k, m \in DOMAIN headers : k < m =>
       \E i \in Given(headers[k].name, items) :
         \A j \in Given(headers[m].name, items) : i < j

(* Without a valid token the task does not even wait for the body; with    *)
(* one it stops reading with the frame that passes the limit, so a chunked *)
(* body without a length cannot fill the memory either.  Of a body that    *)
(* breaks off, or that the parser gives up on, no item is looked at: it is *)
(* rejected whatever its beginning holds.                                  *)
ReadsNoMoreThanItMust ==
  /\ Unknown => bytes = 0 /\ items = <<>> /\ result \in {0, 401}
  /\ bytes > 0 /\ bytes > MaxBodyBytes => result = 413 /\ form = "unread"
  /\ form \in {"broken", "malformed", "large"} =>
       result \in {400, 413} /\ items = <<>> /\ from = <<>> /\ headers = <<>>

(* What Relay says of a task between its first poll and the blocking       *)
(* threads: which awaits there are, and which status can come out of each. *)
One(value) == [r \in {"r"} |-> value]
StageOfTask == CASE pc \in {"token", "type"} -> "spawned"
                 [] pc = "accepted"          -> "building"
                 [] pc = "rejected"          -> "done"
                 [] OTHER                    -> "reading"
Task == INSTANCE Relay WITH
  Requests <- {"r"}, Recipients <- {}, MaxConcurrency <- 1, BlockingThreads <- 1,
  strict <- FALSE, phase <- "serving", conn <- One("open"), post <- One(TRUE),
  answered <- One(0), permits <- 1, waiters <- <<>>, running <- {}, taken <- One({}),
  outcome <- One("pending"), refused <- One({}),
  stage <- One(StageOfTask), status <- One(result),
  logged <- One(IF pc = "rejected" THEN <<result>> ELSE <<>>),
  jobs <- IF pc = "accepted" THEN <<"r">> ELSE <<>>
StepsOfTask == [][Task!Start("r") \/ Task!BodyEnds("r")]_(Task!vars)

===============================================================================

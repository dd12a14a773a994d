----------------------------- MODULE IntakeProofs -----------------------------
(***************************************************************************)
(* Theorems about Intake for every list of policies, every set of values   *)
(* and all limits.                                                         *)
(*                                                                         *)
(* The argument is the loop invariant of parse_form: what it has collected *)
(* so far, against the items it has seen.  Around it stands what each      *)
(* check that was passed has established.                                  *)
(***************************************************************************)
EXTENDS Intake, SequenceTheorems, WellFoundedInduction, TLAPS

(* A status and the end come together; the token was checked first. *)
TokenInv ==
  /\ pc = "rejected" <=> result # 0
  /\ result = 401 <=> pc # "token" /\ Matches(token) = {}

(* Nothing is read before its time. *)
ReadInv ==
  /\ pc \in {"token", "type"} \/ result = 401 => bytes = 0
  /\ pc \in {"token", "type", "body", "form"} \/ result = 401 =>
       form = "unread" /\ items = <<>> /\ from = <<>> /\ headers = <<>>
  /\ pc # "rejected" /\ bytes > 0 => bytes <= MaxBodyBytes
  /\ bytes > 0 /\ bytes > MaxBodyBytes => result = 413 /\ form = "unread"
  /\ form \in {"broken", "malformed", "large"} =>
       result \in {400, 413} /\ items = <<>> /\ from = <<>> /\ headers = <<>>

(* The from fields collected are those of the form. *)
FromInv ==
  /\ \A n \in DOMAIN from : \E k \in With("from") : items[k].value = from[n]
  /\ pc # "rejected" =>
       \A k \in With("from") : \E n \in DOMAIN from : from[n] = items[k].value
  /\ pc \in {"policy", "headers", "counts", "accepted"} => Len(from) = 1

(* What enforce_policy leaves behind: the rights of the token's policy. *)
Allowed ==
  /\ path \in Policy.paths
  /\ DomainOf[from[1]] \in Policy.domains
  /\ from[1] \in Policy.addresses
PolicyInv ==
  /\ pc \in {"headers", "counts", "accepted"} => Allowed
  /\ result = 403 => Forbidden

IInv ==
  /\ TypeOK
  /\ TokenInv
  /\ ReadInv
  /\ FromInv
  /\ PolicyInv
  /\ HeadersAreTheMap

-------------------------------------------------------------------------------

(* A set of positions has a last one. *)
LEMMA GreatestMember ==
  ASSUME NEW n \in Nat, NEW S \in SUBSET (1..n), S # {}
  PROVE  \E i \in S : \A j \in S : j <= i
<1> DEFINE T == {n - i : i \in S}
<1>1. T \subseteq Nat /\ T # {}
  <2>1. \A i \in S : n - i \in Nat
    OBVIOUS
  <2> QED
    BY <2>1, Zenon
<1>2. PICK x \in T : \A y \in T : ~ (<<y, x>> \in OpToRel(<, Nat))
  <2> HIDE DEF T
  <2> QED
    BY <1>1, WFMin, NatLessThanWellFounded, Zenon
<1>3. \A y \in T : ~(y < x)
  <2> HIDE DEF T
  <2> QED
    BY <1>1, <1>2, Zenon DEF OpToRel
<1>4. PICK i \in S : x = n - i
  OBVIOUS
<1>5. \A j \in S : n - j \in T
  OBVIOUS
<1> HIDE DEF T
<1> QED
  BY <1>3, <1>4, <1>5

(* The last match is the policy of the token: authenticate's loop over all *)
(* policies finds it, and Own names it without an order.                   *)
LEMMA PolicyIsOwn ==
  /\ \A i \in Own : Policy = Policies[i]
  /\ Own = {} <=> Matches(token) = {}
  /\ Matches(token) # {} => Policy \in [token : Tokens, paths : SUBSET Paths,
                                        domains : SUBSET {DomainOf[m] : m \in Mailboxes},
                                        addresses : SUBSET Mailboxes]
<1>1. Matches(token) \in SUBSET (1..Len(Policies)) /\ Len(Policies) \in Nat
  BY PoliciesAssumption, LenProperties DEF Matches
<1>2. Own = {i \in Matches(token) : \A j \in Matches(token) : j <= i}
  BY PoliciesAssumption, LenProperties DEF Own, Matches
<1>3. \A i, k \in Own : i = k
  BY <1>1, <1>2
<1>4. Matches(token) # {} => Own # {}
  BY <1>1, <1>2, GreatestMember
<1>5. \A i \in Own : Policy = Policies[i]
  BY <1>2, <1>3 DEF Policy
<1>6. \A i \in Own : i \in 1..Len(Policies)
  BY <1>1, <1>2
<1>7. \A i \in Own : Policies[i] \in [token : Tokens, paths : SUBSET Paths,
                                     domains : SUBSET {DomainOf[m] : m \in Mailboxes},
                                     addresses : SUBSET Mailboxes]
  BY <1>6, PoliciesAssumption, ElementOfSeq
<1>8. Own = {} <=> Matches(token) = {}
  BY <1>2, <1>4
<1> QED
  BY <1>5, <1>7, <1>8

(* The fields of an item, by its key. *)
LEMMA ItemFields ==
  ASSUME NEW item \in Items
  PROVE  /\ item.size[1] \in Nat /\ item.size[2] \in Nat
         /\ item.value # "mistyped" =>
              /\ item.key = "from" => item.value \in Mailboxes \cup {"malformed"}
              /\ item.key = "subject" => item.value \in Values
              /\ item.key = "header" => item.value \in Values /\ item.name \in Names
BY SizesAssumption DEF Items, Texts, Files

(* One item is taken: the form seen so far grows by it. *)
LEMMA TakeAppends ==
  ASSUME TypeOK, NEW item \in Items, Take(item)
  PROVE  /\ pc = "items" /\ left' \in Nat
         /\ items' \in Seq(Items)
         /\ DOMAIN items' = 1..(Len(items) + 1) /\ DOMAIN items = 1..Len(items)
         /\ Len(items) \in Nat
         /\ items'[Len(items) + 1] = item
         /\ \A i \in DOMAIN items : items'[i] = items[i]
         /\ UNCHANGED <<request, body>>
<1>1. items \in Seq(Items) /\ left \in Nat
  BY DEF TypeOK
<1>2. items' = Append(items, item)
  BY DEF Take
<1>3. left' \in Nat
  BY <1>1, ItemFields DEF Take
<1> QED
  BY <1>1, <1>2, <1>3, AppendProperties, LenProperties DEF Take

-------------------------------------------------------------------------------

(* The initial state satisfies the inductive invariant. *)
LEMMA InitInv == Init => IInv
<1> SUFFICES ASSUME Init PROVE IInv
  OBVIOUS
<1> USE DEF Init
<1>1. TypeOK
  BY DEF TypeOK
<1>2. TokenInv /\ ReadInv /\ PolicyInv
  BY DEF TokenInv, ReadInv, PolicyInv
<1>3. FromInv
  BY DEF FromInv, With
<1>4. HeadersAreTheMap
  BY DEF HeadersAreTheMap, Given, With
<1> QED
  BY <1>1, <1>2, <1>3, <1>4 DEF IInv

(* What becomes of a request at enforce_policy, and why. *)
LEMMA PolicyStep ==
  ASSUME TypeOK, TokenInv, FromInv, EnforcePolicy
  PROVE  /\ path' \in Paths \cup {"malformed"}
         /\ \/ pc' = "rejected" /\ result' = 400
            \/ pc' = "rejected" /\ result' = 403
                 /\ \/ path' \in Paths \ Policy.paths
                    \/ from[1] \in Mailboxes /\ (DomainOf[from[1]] \notin Policy.domains
                                                   \/ from[1] \notin Policy.addresses)
            \/ pc' = "headers" /\ UNCHANGED result
                 /\ path' \in Policy.paths /\ DomainOf[from[1]] \in Policy.domains
                 /\ from[1] \in Policy.addresses
         /\ UNCHANGED <<token, encoding, body, scan, parsed>>
<1>1. from[1] \in Mailboxes \cup {"malformed"}
  <2>1. Len(from) = 1
    BY DEF FromInv, EnforcePolicy
  <2>2. from \in Seq(Mailboxes \cup {"malformed"})
    BY DEF TypeOK
  <2> QED
    BY <2>1, <2>2, ElementOfSeq
<1>2. Policy.paths \subseteq Paths
  BY PolicyIsOwn DEF TokenInv, EnforcePolicy
<1> QED
  BY <1>1, <1>2 DEF EnforcePolicy, Check, Goto, Reject

(* Every step keeps the types: no item takes more of the body than is left. *)
LEMMA TypeOKStep == TypeOK /\ TokenInv /\ FromInv /\ [Next]_vars => TypeOK'
<1> SUFFICES ASSUME TypeOK, TokenInv, FromInv, [Next]_vars PROVE TypeOK'
  OBVIOUS
<1> USE DEF TypeOK, Check, Goto, Reject, control, request, body, scan, parsed
<1>1. ASSUME Authenticate PROVE TypeOK'
  BY <1>1 DEF Authenticate
<1>2. ASSUME ContentType PROVE TypeOK'
  BY <1>2 DEF ContentType
<1>3. ASSUME ReadFrame PROVE TypeOK'
  BY <1>3, SizesAssumption DEF ReadFrame
<1>4. ASSUME ReadEnds PROVE TypeOK'
  BY <1>4 DEF ReadEnds
<1>5. ASSUME ReadFails PROVE TypeOK'
  BY <1>5 DEF ReadFails
<1>6. ASSUME Parse PROVE TypeOK'
  BY <1>6 DEF Parse
<1>7. ASSUME NEW item \in Items, BadItem(item) PROVE TypeOK'
  <2>1. Take(item)
    BY <1>7 DEF BadItem
  <2> QED
    BY <1>7, <2>1, TakeAppends DEF BadItem
<1>8. ASSUME NEW item \in Items, HeaderItem(item) PROVE TypeOK'
  <2>1. Take(item)
    BY <1>8 DEF HeaderItem
  <2>2. [name |-> item.name, value |-> item.value] \in Headers
    BY <1>8, ItemFields DEF HeaderItem, Headers
  <2>3. headers' \in Seq(Headers)
    BY <1>8, <2>2, AppendProperties DEF HeaderItem
  <2> QED
    BY <1>8, <2>1, <2>3, TakeAppends DEF HeaderItem
<1>9. ASSUME NEW item \in Items, FromItem(item) PROVE TypeOK'
  <2>1. Take(item)
    BY <1>9 DEF FromItem
  <2>2. from' \in Seq(Mailboxes \cup {"malformed"})
    BY <1>9, ItemFields, AppendProperties DEF FromItem
  <2> QED
    BY <1>9, <2>1, <2>2, TakeAppends DEF FromItem
<1>10. ASSUME NEW item \in Items, RecipientItem(item) PROVE TypeOK'
  <2>1. Take(item)
    BY <1>10 DEF RecipientItem
  <2> QED
    BY <1>10, <2>1, TakeAppends DEF RecipientItem
<1>11. ASSUME NEW item \in Items, SubjectItem(item) PROVE TypeOK'
  <2>1. Take(item)
    BY <1>11 DEF SubjectItem
  <2> QED
    BY <1>11, <2>1, TakeAppends, ItemFields DEF SubjectItem
<1>12. ASSUME NEW item \in Items, TextItem(item) PROVE TypeOK'
  <2>1. Take(item)
    BY <1>12 DEF TextItem
  <2>2. item.size[2] \in Nat /\ item.key \in Texts
    BY <1>12, ItemFields DEF TextItem
  <2>3. total' \in Nat /\ bodies' \in SUBSET Texts
    BY <1>12, <2>2 DEF TextItem
  <2>4. pc' \in {"items", "rejected"} /\ result' \in {result, 413}
    BY <1>12 DEF TextItem
  <2> QED
    BY <1>12, <2>1, <2>3, <2>4, TakeAppends DEF TextItem
<1>13. ASSUME NEW item \in Items, FileItem(item) PROVE TypeOK'
  <2>1. Take(item)
    BY <1>13 DEF FileItem
  <2>2. item.size[2] \in Nat
    BY ItemFields
  <2>3. total' \in Nat /\ files' \in Nat
    BY <1>13, <2>2 DEF FileItem
  <2>4. pc' \in {"items", "rejected"} /\ result' \in {result, 413}
    BY <1>13 DEF FileItem
  <2> QED
    BY <1>13, <2>1, <2>3, <2>4, TakeAppends DEF FileItem
<1>14. ASSUME ItemsEnd PROVE TypeOK'
  BY <1>14 DEF ItemsEnd
<1>15. ASSUME EnforcePolicy PROVE TypeOK'
  <2>1. path' \in Paths \cup {"malformed"}
    BY <1>15 DEF EnforcePolicy
  <2>2. /\ pc' \in {"headers", "rejected"} /\ result' \in {result, 400, 403}
        /\ UNCHANGED <<token, encoding, body, scan, parsed>>
    BY <1>15, PolicyStep
  <2> QED
    BY <2>1, <2>2
<1>16. ASSUME ValidateHeaders PROVE TypeOK'
  BY <1>16 DEF ValidateHeaders
<1>17. ASSUME CountRecipients PROVE TypeOK'
  BY <1>17 DEF CountRecipients
<1>18. ASSUME UNCHANGED vars PROVE TypeOK'
  BY <1>18 DEF vars
<1> HIDE DEF TypeOK
<1> QED
  BY <1>1, <1>2, <1>3, <1>4, <1>5, <1>6, <1>7, <1>8, <1>9, <1>10, <1>11, <1>12, <1>13,
     <1>14, <1>15, <1>16, <1>17, <1>18 DEF Next, NextItem

(* The items leave control to their own step: 400 or 413, or the next one. *)
LEMMA ItemOutcome ==
  ASSUME NEW item \in Items, NextItem(item)
  PROVE  /\ Take(item)
         /\ \/ pc' = "items" /\ UNCHANGED result /\ item.value # "mistyped"
            \/ pc' = "rejected" /\ result' \in {400, 413}
         /\ item.key = "from" /\ item.value # "mistyped" => from' = Append(from, item.value)
         /\ item.key # "from" \/ item.value = "mistyped" => UNCHANGED from
         /\ item.key # "header" \/ item.value = "mistyped" => UNCHANGED headers
         /\ item.key = "header" /\ item.value # "mistyped" => HeaderItem(item)
<1> USE DEF parsed, control, Check, Goto, Reject, Texts, Files
<1>1. CASE BadItem(item)
  <2>1. item.value = "mistyped" \/ item.key \notin {"from", "header"}
    BY <1>1 DEF BadItem
  <2> QED
    BY <1>1, <2>1 DEF BadItem
<1>2. CASE HeaderItem(item)
  <2>1. item.key = "header" /\ item.value # "mistyped" /\ Take(item)
    BY <1>2 DEF HeaderItem
  <2>2. pc' = "items"
    BY <1>2, <2>1 DEF HeaderItem, Take
  <2> QED
    BY <1>2, <2>1, <2>2 DEF HeaderItem
<1>3. CASE FromItem(item)
  BY <1>3 DEF FromItem, Take
<1>4. CASE RecipientItem(item)
  BY <1>4 DEF RecipientItem, Take
<1>5. CASE SubjectItem(item)
  BY <1>5 DEF SubjectItem, Take
<1>6. CASE TextItem(item)
  BY <1>6 DEF TextItem
<1>7. CASE FileItem(item)
  BY <1>7 DEF FileItem
<1> QED
  BY <1>1, <1>2, <1>3, <1>4, <1>5, <1>6, <1>7 DEF NextItem

(* A status is set when the task ends; 401 for a token without a policy.   *)
LEMMA TokenInvStep == IInv /\ [Next]_vars => TokenInv'
<1> SUFFICES ASSUME IInv, [Next]_vars PROVE TokenInv'
  OBVIOUS
<1> USE DEF IInv, TokenInv, Matches, Check, Goto, Reject, control, request, body
<1>1. ASSUME Authenticate PROVE TokenInv'
  BY <1>1 DEF Authenticate
<1>2. ASSUME ContentType \/ ReadFrame \/ ReadEnds \/ ReadFails \/ Parse PROVE TokenInv'
  BY <1>2 DEF ContentType, ReadFrame, ReadEnds, ReadFails, Parse
<1>3. ASSUME NEW item \in Items, NextItem(item) PROVE TokenInv'
  <2>0. Take(item)
    BY <1>3, ItemOutcome
  <2>1. pc = "items" /\ UNCHANGED token
    BY <2>0 DEF Take
  <2>2. \/ pc' = "items" /\ UNCHANGED result
        \/ pc' = "rejected" /\ result' \in {400, 413}
    BY <1>3, ItemOutcome
  <2> QED
    BY <2>1, <2>2
<1>4. ASSUME ItemsEnd \/ ValidateHeaders \/ CountRecipients PROVE TokenInv'
  BY <1>4 DEF ItemsEnd, ValidateHeaders, CountRecipients
<1>5. ASSUME EnforcePolicy PROVE TokenInv'
  <2>1. pc = "policy"
    BY <1>5 DEF EnforcePolicy
  <2> QED
    BY <1>5, <2>1, PolicyStep
<1>6. ASSUME UNCHANGED vars PROVE TokenInv'
  BY <1>6 DEF vars
<1> QED
  BY <1>1, <1>2, <1>3, <1>4, <1>5, <1>6 DEF Next

(* The body is read after the token, and no further than the limit. *)
LEMMA ReadInvStep == IInv /\ [Next]_vars => ReadInv'
<1> SUFFICES ASSUME IInv, [Next]_vars PROVE ReadInv'
  OBVIOUS
<1> USE LimitsAssumption
    DEF IInv, TokenInv, ReadInv, Check, Goto, Reject, control, request, body, scan, parsed
<1>1. ASSUME Authenticate PROVE ReadInv'
  BY <1>1 DEF Authenticate
<1>2. ASSUME ContentType PROVE ReadInv'
  BY <1>2 DEF ContentType
<1>3. ASSUME ReadFrame PROVE ReadInv'
  <2>1. bytes' \in Int
    BY <1>3, SizesAssumption DEF ReadFrame, TypeOK
  <2> QED
    BY <1>3, <2>1 DEF ReadFrame
<1>4. ASSUME ReadEnds \/ ReadFails \/ Parse PROVE ReadInv'
  BY <1>4 DEF ReadEnds, ReadFails, Parse, TypeOK
<1>5. ASSUME NEW item \in Items, NextItem(item) PROVE ReadInv'
  <2>1. pc = "items" /\ UNCHANGED <<bytes, form>>
    BY <1>5, ItemOutcome DEF Take
  <2>2. \/ pc' = "items" /\ UNCHANGED result
        \/ pc' = "rejected" /\ result' \in {400, 413}
    BY <1>5, ItemOutcome
  <2> QED
    BY <2>1, <2>2
<1>6. ASSUME ItemsEnd \/ ValidateHeaders \/ CountRecipients PROVE ReadInv'
  BY <1>6 DEF ItemsEnd, ValidateHeaders, CountRecipients
<1>7. ASSUME EnforcePolicy PROVE ReadInv'
  <2>1. pc = "policy"
    BY <1>7 DEF EnforcePolicy
  <2> QED
    BY <1>7, <2>1, PolicyStep
<1>8. ASSUME UNCHANGED vars PROVE ReadInv'
  BY <1>8 DEF vars
<1> QED
  BY <1>1, <1>2, <1>3, <1>4, <1>5, <1>6, <1>7, <1>8 DEF Next

(* The positions of a field after one more item. *)
LEMMA WithGrows ==
  ASSUME TypeOK, NEW item \in Items, Take(item), NEW key
  PROVE  /\ With(key) \subseteq DOMAIN items
         /\ item.key = key => With(key)' = With(key) \cup {Len(items) + 1}
         /\ item.key # key => With(key)' = With(key)
<1>1. /\ DOMAIN items' = DOMAIN items \cup {Len(items) + 1}
      /\ items'[Len(items) + 1] = item
      /\ \A i \in DOMAIN items : items'[i] = items[i]
  <2>1. \A n \in Nat : 1..(n + 1) = 1..n \cup {n + 1}
    OBVIOUS
  <2> QED
    BY <2>1, TakeAppends
<1> QED
  BY <1>1 DEF With

(* The loop of parse_form keeps every from field, also when it repeats. *)
LEMMA FromInvStep == IInv /\ [Next]_vars => FromInv'
<1> SUFFICES ASSUME IInv, [Next]_vars PROVE FromInv'
  OBVIOUS
<1> USE DEF IInv, Check, Goto, Reject, control, request, body, scan, parsed
<1>1. ASSUME Authenticate \/ ContentType \/ ReadFrame \/ ReadEnds \/ ReadFails \/ Parse
      PROVE  FromInv'
  <2>1. UNCHANGED <<items, from>> /\ pc' \in {"type", "items", "body", "form", "rejected"}
    BY <1>1 DEF Authenticate, ContentType, ReadFrame, ReadEnds, ReadFails, Parse
  <2>2. pc # "rejected"
    BY <1>1 DEF Authenticate, ContentType, ReadFrame, ReadEnds, ReadFails, Parse
  <2> QED
    BY <2>1, <2>2 DEF FromInv, With
<1>2. ASSUME NEW item \in Items, NextItem(item) PROVE FromInv'
  <2>1. /\ Take(item) /\ pc = "items" /\ pc' \in {"items", "rejected"}
        /\ item.value = "mistyped" => pc' = "rejected"
    <3>1. /\ Take(item)
          /\ \/ pc' = "items" /\ item.value # "mistyped"
             \/ pc' = "rejected"
      BY <1>2, ItemOutcome, Zenon
    <3>2. pc = "items"
      BY <3>1 DEF Take
    <3> QED
      BY <3>1, <3>2
  <2>2. /\ DOMAIN items' = 1..(Len(items) + 1) /\ DOMAIN items = 1..Len(items)
        /\ Len(items) \in Nat /\ items'[Len(items) + 1] = item
        /\ \A i \in DOMAIN items : items'[i] = items[i]
    BY <2>1, TakeAppends
  <2>3. /\ With("from") \subseteq DOMAIN items
        /\ item.key = "from" => With("from")' = With("from") \cup {Len(items) + 1}
        /\ item.key # "from" => With("from")' = With("from")
    BY <2>1, WithGrows
  <2>4. /\ \A n \in DOMAIN from : \E k \in With("from") : items'[k].value = from[n]
        /\ \A k \in With("from") : \E n \in DOMAIN from : from[n] = items'[k].value
    BY <2>1, <2>2, <2>3 DEF FromInv
  <2>5. CASE item.key = "from" /\ item.value # "mistyped"
    <3>1. from \in Seq(Mailboxes \cup {"malformed"}) /\ item.value \in Mailboxes \cup {"malformed"}
      BY <2>5, ItemFields DEF TypeOK
    <3>2. from' = Append(from, item.value)
      BY <1>2, <2>5, ItemOutcome
    <3>3. /\ DOMAIN from' = DOMAIN from \cup {Len(from) + 1}
          /\ from'[Len(from) + 1] = item.value
          /\ \A n \in DOMAIN from : from'[n] = from[n]
      BY <3>1, <3>2, AppendProperties, LenProperties
    <3>4. \A n \in DOMAIN from' : \E k \in With("from")' : items'[k].value = from'[n]
      <4>1. ASSUME NEW n \in DOMAIN from
            PROVE  \E k \in With("from")' : items'[k].value = from'[n]
        BY <2>3, <2>4, <2>5, <3>3
      <4>2. items'[Len(items) + 1].value = from'[Len(from) + 1]
        BY <2>2, <3>3
      <4>3. Len(items) + 1 \in With("from")'
        BY <2>3, <2>5
      <4> QED
        BY <3>3, <4>1, <4>2, <4>3
    <3>5. \A k \in With("from")' : \E n \in DOMAIN from' : from'[n] = items'[k].value
      BY <2>2, <2>3, <2>4, <2>5, <3>3
    <3> QED
      BY <2>1, <3>4, <3>5 DEF FromInv
  <2>6. CASE ~(item.key = "from" /\ item.value # "mistyped")
    <3>1. UNCHANGED from
      BY <1>2, <2>6, ItemOutcome
    <3> QED
      BY <2>1, <2>3, <2>4, <2>6, <3>1 DEF FromInv
  <2> QED
    BY <2>5, <2>6
<1>3. ASSUME ItemsEnd \/ ValidateHeaders \/ CountRecipients PROVE FromInv'
  BY <1>3 DEF FromInv, With, ItemsEnd, ValidateHeaders, CountRecipients
<1>4. ASSUME EnforcePolicy PROVE FromInv'
  <2>1. pc = "policy" /\ UNCHANGED <<items, from>>
    BY <1>4 DEF EnforcePolicy
  <2> QED
    BY <2>1 DEF FromInv, With
<1>5. ASSUME UNCHANGED vars PROVE FromInv'
  BY <1>5 DEF FromInv, With, vars
<1> QED
  BY <1>1, <1>2, <1>3, <1>4, <1>5 DEF Next

(* Only enforce_policy forbids, and what it lets through stays allowed. *)
LEMMA PolicyInvStep == IInv /\ [Next]_vars => PolicyInv'
<1> SUFFICES ASSUME IInv, [Next]_vars PROVE PolicyInv'
  OBVIOUS
<1> USE DEF IInv, Check, Goto, Reject, control, request, body, scan, parsed
<1>1. ASSUME Authenticate \/ ContentType \/ ReadFrame \/ ReadEnds \/ ReadFails \/ Parse \/ ItemsEnd
      PROVE  PolicyInv'
  <2>1. pc # "rejected" /\ pc' \notin {"headers", "counts", "accepted"}
    BY <1>1 DEF Authenticate, ContentType, ReadFrame, ReadEnds, ReadFails, Parse, ItemsEnd
  <2>2. result' = result \/ result' \in {400, 401, 413}
    BY <1>1 DEF Authenticate, ContentType, ReadFrame, ReadEnds, ReadFails, Parse, ItemsEnd
  <2> QED
    BY <2>1, <2>2 DEF PolicyInv, TokenInv
<1>2. ASSUME NEW item \in Items, NextItem(item) PROVE PolicyInv'
  <2>1. pc = "items"
    BY <1>2, ItemOutcome DEF Take
  <2>2. pc' \in {"items", "rejected"} /\ (result' = result \/ result' \in {400, 413})
    BY <1>2, ItemOutcome
  <2> QED
    BY <2>1, <2>2 DEF PolicyInv, TokenInv
<1>3. ASSUME ValidateHeaders \/ CountRecipients PROVE PolicyInv'
  <2>1. pc \in {"headers", "counts"} /\ UNCHANGED <<token, path, from, items>>
    BY <1>3 DEF ValidateHeaders, CountRecipients
  <2>2. result' = result \/ result' \in {400, 413}
    BY <1>3 DEF ValidateHeaders, CountRecipients
  <2>3. Policy' = Policy
    BY <2>1 DEF Policy, Matches
  <2>4. Allowed'
    BY <2>1, <2>3 DEF PolicyInv, Allowed
  <2> QED
    BY <2>1, <2>2, <2>4 DEF PolicyInv, TokenInv
<1>4. ASSUME EnforcePolicy PROVE PolicyInv'
  <2>1. pc = "policy" /\ UNCHANGED <<token, from, items>>
    BY <1>4 DEF EnforcePolicy
  <2>2. Policy' = Policy /\ Own' = Own /\ With("from")' = With("from")
    BY <2>1 DEF Policy, Own, Matches, With
  <2>3. PICK i \in Own : Policy = Policies[i]
    BY <2>1, PolicyIsOwn DEF TokenInv
  <2>4. \E k \in With("from") : items[k].value = from[1]
    <3>1. 1 \in DOMAIN from
      BY <2>1, LenProperties DEF FromInv, TypeOK
    <3> QED
      BY <3>1 DEF FromInv
  <2>5. result' = 403 => Forbidden'
    BY <1>4, <2>1, <2>2, <2>3, <2>4, PolicyStep DEF Forbidden, TokenInv
  <2>6. pc' = "headers" => Allowed'
    BY <1>4, <2>1, <2>2, PolicyStep DEF Allowed, TokenInv
  <2> QED
    BY <1>4, <2>1, <2>5, <2>6, PolicyStep DEF PolicyInv
<1>5. ASSUME UNCHANGED vars PROVE PolicyInv'
  BY <1>5 DEF PolicyInv, Allowed, Policy, Own, Matches, Forbidden, With, vars
<1> QED
  BY <1>1, <1>2, <1>3, <1>4, <1>5 DEF Next

(* The positions of a header name after one more item. *)
LEMMA GivenGrows ==
  ASSUME TypeOK, NEW item \in Items, Take(item), NEW name
  PROVE  /\ Given(name, items) \subseteq 1..Len(items) /\ Len(items) \in Nat
         /\ item.key = "header" /\ item.value # "mistyped" /\ item.name = name =>
              Given(name, items') = Given(name, items) \cup {Len(items) + 1}
         /\ ~(item.key = "header" /\ item.value # "mistyped" /\ item.name = name) =>
              Given(name, items') = Given(name, items)
<1>1. /\ DOMAIN items = 1..Len(items) /\ Len(items) \in Nat
      /\ DOMAIN items' = DOMAIN items \cup {Len(items) + 1}
      /\ items'[Len(items) + 1] = item
      /\ \A i \in DOMAIN items : items'[i] = items[i]
  <2>1. \A n \in Nat : 1..(n + 1) = 1..n \cup {n + 1}
    OBVIOUS
  <2> QED
    BY <2>1, TakeAppends
<1> QED
  BY <1>1 DEF Given

(* One more header keeps the list what Python's dict would be. *)
LEMMA HeaderItemStep ==
  ASSUME TypeOK, HeadersAreTheMap, NEW item \in Items, HeaderItem(item)
  PROVE  HeadersAreTheMap'
<1> DEFINE last == Len(items) + 1
           Ends(S, value) == \E i \in S : items'[i].value = value /\ \A j \in S : j <= i
<1>1. Take(item) /\ item.key = "header" /\ item.value # "mistyped"
  BY DEF HeaderItem
<1>2. /\ Len(items) \in Nat /\ items'[last] = item
      /\ \A i \in 1..Len(items) : items'[i] = items[i]
  BY <1>1, TakeAppends
<1>3. /\ \A name : Given(name, items) \subseteq 1..Len(items)
      /\ Given(item.name, items') = Given(item.name, items) \cup {last}
      /\ \A name : name # item.name => Given(name, items') = Given(name, items)
  BY <1>1, GivenGrows
<1>4. headers \in Seq(Headers) /\ DOMAIN headers = 1..Len(headers) /\ Len(headers) \in Nat
  BY LenProperties DEF TypeOK
<1>5. item.name \in Names /\ \A k \in DOMAIN headers : headers[k].name \in Names
  <2>1. \A k \in DOMAIN headers : headers[k] \in Headers
    BY <1>4, ElementOfSeq
  <2> QED
    BY <1>1, <2>1, ItemFields DEF Headers
<1>6. /\ \A name \in Names :
           Given(name, items) # {} => \E k \in DOMAIN headers : headers[k].name = name
      /\ \A k \in DOMAIN headers :
           \E i \in Given(headers[k].name, items) :
             /\ items[i].value = headers[k].value
             /\ \A j \in Given(headers[k].name, items) : j <= i
  BY DEF HeadersAreTheMap, LastIs
<1>7. Ends(Given(item.name, items'), item.value)
  BY <1>2, <1>3
<1>8. ASSUME NEW k \in DOMAIN headers, headers[k].name # item.name
      PROVE  Ends(Given(headers[k].name, items'), headers[k].value)
  <2>1. PICK i \in Given(headers[k].name, items) :
          items[i].value = headers[k].value /\ \A j \in Given(headers[k].name, items) : j <= i
    <3>1. \A a \in DOMAIN headers :
            \E i \in Given(headers[a].name, items) :
              /\ items[i].value = headers[a].value
              /\ \A j \in Given(headers[a].name, items) : j <= i
      BY DEF HeadersAreTheMap, LastIs
    <3> QED
      BY <3>1, Zenon
  <2>2. Given(headers[k].name, items') = Given(headers[k].name, items)
    BY <1>3, <1>8
  <2>3. items'[i].value = headers[k].value
    BY <1>2, <1>3, <2>1
  <2> QED
    BY <2>1, <2>2, <2>3
<1>9. ASSUME NEW k \in DOMAIN headers, NEW m \in DOMAIN headers, k < m
      PROVE  \E i \in Given(headers[k].name, items') : \A j \in Given(headers[m].name, items') : i < j
  <2>1. PICK i \in Given(headers[k].name, items) : \A j \in Given(headers[m].name, items) : i < j
    <3>1. \A a, b \in DOMAIN headers : a < b =>
            \E i \in Given(headers[a].name, items) : \A j \in Given(headers[b].name, items) : i < j
      BY DEF HeadersAreTheMap
    <3> QED
      BY <3>1, <1>9, Zenon
  <2>2. i \in Given(headers[k].name, items') /\ i < last
    BY <1>2, <1>3
  <2>3. \A j \in Given(headers[m].name, items') : j \in Given(headers[m].name, items) \/ j = last
    BY <1>3
  <2> QED
    BY <2>1, <2>2, <2>3
<1>10. CASE \E k \in DOMAIN headers : headers[k].name = item.name
  <2>1. headers' = [k \in DOMAIN headers |->
                      IF headers[k].name = item.name
                      THEN [name |-> item.name, value |-> item.value] ELSE headers[k]]
    BY <1>10 DEF HeaderItem
  <2>2. /\ DOMAIN headers' = DOMAIN headers
        /\ \A k \in DOMAIN headers : headers'[k].name = headers[k].name
        /\ \A k \in DOMAIN headers : headers'[k].value =
             IF headers[k].name = item.name THEN item.value ELSE headers[k].value
    BY <2>1
  <2>3. \A name \in Names :
          Given(name, items') # {} => \E k \in DOMAIN headers' : headers'[k].name = name
    BY <1>3, <1>6, <1>10, <2>2
  <2>4. \A k \in DOMAIN headers' : Ends(Given(headers'[k].name, items'), headers'[k].value)
    BY <1>7, <1>8, <2>2
  <2>5. \A k, m \in DOMAIN headers' : k < m =>
          \E i \in Given(headers'[k].name, items') : \A j \in Given(headers'[m].name, items') : i < j
    BY <1>9, <2>2
  <2> QED
    BY <2>3, <2>4, <2>5 DEF HeadersAreTheMap, LastIs
<1>11. CASE ~\E k \in DOMAIN headers : headers[k].name = item.name
  <2>1. headers' = Append(headers, [name |-> item.name, value |-> item.value])
    BY <1>11 DEF HeaderItem
  <2>2. [name |-> item.name, value |-> item.value] \in Headers
    BY <1>1, ItemFields DEF Headers
  <2>3. /\ DOMAIN headers' = DOMAIN headers \cup {Len(headers) + 1}
        /\ \A k \in DOMAIN headers : headers'[k] = headers[k] /\ k < Len(headers) + 1
        /\ headers'[Len(headers) + 1].name = item.name
        /\ headers'[Len(headers) + 1].value = item.value
    BY <1>4, <2>1, <2>2, AppendProperties, LenProperties
  <2>4. Given(item.name, items) = {} /\ Given(item.name, items') = {last}
    BY <1>3, <1>5, <1>6, <1>11
  <2>5. \A name \in Names :
          Given(name, items') # {} => \E k \in DOMAIN headers' : headers'[k].name = name
    BY <1>3, <1>6, <2>3
  <2>6. \A k \in DOMAIN headers' : Ends(Given(headers'[k].name, items'), headers'[k].value)
    BY <1>7, <1>8, <1>11, <2>3
  <2>7. ASSUME NEW k \in DOMAIN headers', NEW m \in DOMAIN headers', k < m
        PROVE  \E i \in Given(headers'[k].name, items') : \A j \in Given(headers'[m].name, items') : i < j
    <3>1. k \in DOMAIN headers
      BY <1>4, <2>3, <2>7
    <3>2. CASE m \in DOMAIN headers
      BY <1>9, <2>3, <2>7, <3>1, <3>2
    <3>3. CASE m = Len(headers) + 1
      <4>1. PICK i \in Given(headers[k].name, items) : TRUE
        BY <1>6, <3>1
      <4>2. i \in Given(headers'[k].name, items') /\ i < last
        BY <1>2, <1>3, <1>11, <2>3, <3>1
      <4> QED
        BY <2>3, <2>4, <3>3, <4>2
    <3> QED
      BY <2>3, <3>2, <3>3
  <2> QED
    BY <2>5, <2>6, <2>7 DEF HeadersAreTheMap, LastIs
<1> QED
  BY <1>10, <1>11

(* The other items, and the other steps, leave the list of headers alone. *)
LEMMA HeadersStep == IInv /\ [Next]_vars => HeadersAreTheMap'
<1> SUFFICES ASSUME IInv, [Next]_vars PROVE HeadersAreTheMap'
  OBVIOUS
<1> USE DEF IInv
<1>1. ASSUME UNCHANGED <<items, headers>> PROVE HeadersAreTheMap'
  BY <1>1 DEF HeadersAreTheMap, LastIs, Given, With
<1>2. ASSUME NEW item \in Items, NextItem(item) PROVE HeadersAreTheMap'
  <2>1. CASE item.key = "header" /\ item.value # "mistyped"
    BY <1>2, <2>1, ItemOutcome, HeaderItemStep
  <2>2. CASE ~(item.key = "header" /\ item.value # "mistyped")
    <3>1. Take(item) /\ UNCHANGED headers
      BY <1>2, <2>2, ItemOutcome
    <3>2. \A i \in 1..Len(items) : items'[i] = items[i]
      BY <3>1, TakeAppends
    <3>3. \A name : Given(name, items') = Given(name, items) /\ Given(name, items) \subseteq 1..Len(items)
      BY <2>2, <3>1, GivenGrows
    <3>4. \A name \in Names :
            Given(name, items') # {} => \E k \in DOMAIN headers' : headers'[k].name = name
      BY <3>1, <3>3 DEF HeadersAreTheMap
    <3>5. ASSUME NEW k \in DOMAIN headers'
          PROVE  \E i \in Given(headers'[k].name, items') :
                   /\ items'[i].value = headers'[k].value
                   /\ \A j \in Given(headers'[k].name, items') : j <= i
      <4>1. PICK i \in Given(headers[k].name, items) :
              items[i].value = headers[k].value /\ \A j \in Given(headers[k].name, items) : j <= i
        BY <3>1 DEF HeadersAreTheMap, LastIs
      <4>2. items'[i].value = headers[k].value
        BY <3>2, <3>3, <4>1
      <4> QED
        BY <3>1, <3>3, <4>1, <4>2
    <3>6. ASSUME NEW k \in DOMAIN headers', NEW m \in DOMAIN headers', k < m
          PROVE  \E i \in Given(headers'[k].name, items') :
                   \A j \in Given(headers'[m].name, items') : i < j
      <4>1. \A a, b \in DOMAIN headers : a < b =>
              \E i \in Given(headers[a].name, items) :
                \A j \in Given(headers[b].name, items) : i < j
        BY DEF HeadersAreTheMap
      <4>2. \E i \in Given(headers[k].name, items) : \A j \in Given(headers[m].name, items) : i < j
        BY <3>1, <3>6, <4>1, Zenon
      <4>3. /\ Given(headers'[k].name, items') = Given(headers[k].name, items)
            /\ Given(headers'[m].name, items') = Given(headers[m].name, items)
        BY <3>1, <3>3
      <4> QED
        BY <4>2, <4>3, Zenon
    <3> QED
      BY <3>4, <3>5, <3>6 DEF HeadersAreTheMap, LastIs
  <2> QED
    BY <2>1, <2>2
<1>3. ASSUME Authenticate \/ ContentType \/ ReadFrame \/ ReadEnds \/ ReadFails \/ Parse
      PROVE  UNCHANGED <<items, headers>>
  BY <1>3 DEF Authenticate, ContentType, ReadFrame, ReadEnds, ReadFails, Parse, scan, parsed
<1>4. ASSUME ItemsEnd \/ EnforcePolicy \/ ValidateHeaders \/ CountRecipients
      PROVE  UNCHANGED <<items, headers>>
  BY <1>4 DEF ItemsEnd, EnforcePolicy, ValidateHeaders, CountRecipients, scan, parsed
<1>5. ASSUME UNCHANGED vars PROVE UNCHANGED <<items, headers>>
  BY <1>5 DEF vars, scan, parsed
<1> QED
  BY <1>1, <1>2, <1>3, <1>4, <1>5 DEF Next

-------------------------------------------------------------------------------
(* The inductive invariant holds in every reachable state. *)
THEOREM Invariance == Spec => []IInv
<1>1. IInv /\ [Next]_vars => IInv'
  BY TypeOKStep, TokenInvStep, ReadInvStep, FromInvStep, PolicyInvStep, HeadersStep DEF IInv
<1> QED
  BY InitInv, <1>1, PTL DEF Spec

(* The state has the declared types, whatever the client sends. *)
THEOREM TypeCorrect == Spec => []TypeOK
<1>1. IInv => TypeOK
  BY DEF IInv
<1> QED
  BY Invariance, <1>1, PTL

(* read_body neither waits for the body of a request without a token nor   *)
(* goes on behind the limit, and no item of a body that is not complete    *)
(* and well formed is looked at.                                           *)
THEOREM ReadsBounded == Spec => []ReadsNoMoreThanItMust
<1>1. IInv => ReadsNoMoreThanItMust
  <2> SUFFICES ASSUME IInv PROVE ReadsNoMoreThanItMust
    OBVIOUS
  <2>1. Unknown <=> Matches(token) = {}
    BY PolicyIsOwn DEF Unknown
  <2> QED
    BY <2>1 DEF IInv, TokenInv, ReadInv, ReadsNoMoreThanItMust
<1> QED
  BY Invariance, <1>1, PTL

(* The custom headers are Python's dict, for every form. *)
THEOREM HeadersMap == Spec => []HeadersAreTheMap
<1>1. IInv => HeadersAreTheMap
  BY DEF IInv
<1> QED
  BY Invariance, <1>1, PTL

(* No token gets rights another one has, in any list of policies: the one  *)
(* loop of authenticate and the checks of enforce_policy agree with the    *)
(* grounds, which know no order.                                           *)
THEOREM Rights == Spec => []RightsDecide
<1>1. IInv => RightsDecide
  <2> SUFFICES ASSUME IInv PROVE RightsDecide
    OBVIOUS
  <2>1. Unknown <=> Matches(token) = {}
    BY PolicyIsOwn DEF Unknown
  <2>2. result = 401 => Unknown
    BY <2>1 DEF IInv, TokenInv
  <2>3. result = 403 => Forbidden
    BY DEF IInv, PolicyInv
  <2>4. ASSUME pc = "accepted" PROVE ~Unknown /\ ~Forbidden
    <3>1. ~Unknown
      BY <2>1, <2>4 DEF IInv, TokenInv
    <3>2. DOMAIN from = {1}
      <4>1. from \in Seq(Mailboxes \cup {"malformed"}) /\ Len(from) = 1
        BY <2>4 DEF IInv, TypeOK, FromInv
      <4> QED
        BY <4>1, LenProperties
    <3>3. \A k \in With("from") : items[k].value = from[1]
      BY <2>4, <3>2 DEF IInv, FromInv
    <3>4. \A i \in Own : Policies[i] = Policy
      BY PolicyIsOwn
    <3> QED
      BY <2>4, <3>1, <3>3, <3>4 DEF IInv, PolicyInv, Allowed, Forbidden
  <2> QED
    BY <2>2, <2>3, <2>4 DEF RightsDecide
<1> QED
  BY Invariance, <1>1, PTL

-------------------------------------------------------------------------------
(* Before the first poll has ended, and while the body is awaited or judged. *)
Spawned == {"token", "type"}
Reading == {"body", "form", "items", "policy", "headers", "counts"}

(* What the moves of pc are in Relay: nothing, ... *)
LEMMA MapsToNothing ==
  ASSUME \/ pc \in Spawned /\ pc' \in Spawned
         \/ pc \in Reading /\ pc' \in Reading
         \/ pc' = pc,
         UNCHANGED result
  PROVE  UNCHANGED Task!vars
BY DEF Spawned, Reading, StageOfTask, One, Task!vars,
       Task!clients, Task!tasks, Task!slots, Task!pool, Task!mail

(* ... the first poll, ... *)
LEMMA MapsToStart ==
  ASSUME pc \in Spawned, result = 0,
         \/ pc' = "rejected" /\ result' \in {400, 401}
         \/ pc' \in Reading /\ UNCHANGED result
  PROVE  Task!Start("r")
<1> DEFINE logged == IF pc = "rejected" THEN <<result>> ELSE <<>>
           jobs == IF pc = "accepted" THEN <<"r">> ELSE <<>>
<1>1. StageOfTask = "spawned" /\ logged = <<>> /\ jobs = <<>> /\ jobs' = <<>>
  BY DEF StageOfTask, Spawned, Reading
<1> USE DEF One, Task!Start, Task!Conclude, Task!Move, Task!Holding,
            Task!clients, Task!tasks, Task!slots, Task!pool, Task!mail
<1>2. CASE pc' = "rejected" /\ result' \in {400, 401}
  <2>1. StageOfTask' = "done" /\ logged' = <<result'>>
    BY <1>2 DEF StageOfTask
  <2>2. \A value, new : /\ [One(value) EXCEPT !["r"] = new] = One(new)
                        /\ One(value)["r"] = value
    OBVIOUS
  <2>3. Append(logged, result') = logged'
    <3>1. \A code : Append(<<>>, code) = <<code>>
      OBVIOUS
    <3> HIDE DEF logged
    <3> QED
      BY <1>1, <2>1, <3>1
  <2>4. /\ One(result)' = [One(result) EXCEPT !["r"] = result']
        /\ One(logged)' = [One(logged) EXCEPT !["r"] = Append(One(logged)["r"], result')]
        /\ One(StageOfTask)' = [One(StageOfTask) EXCEPT !["r"] = "done"]
        /\ One(StageOfTask)["r"] = "spawned"
    BY <1>1, <2>1, <2>2, <2>3
  <2>5. Task!Conclude("r", result')
    BY <2>4
  <2>6. \E code \in {401, 400} : Task!Conclude("r", code)
    <3> HIDE DEF Task!Conclude
    <3> QED
      BY <1>2, <2>5
  <2> QED
    BY <1>1, <2>6
<1>3. CASE pc' \in Reading /\ UNCHANGED result
  <2>1. StageOfTask' = "reading" /\ logged' = <<>>
    BY <1>3 DEF StageOfTask, Reading
  <2> QED
    BY <1>1, <1>3, <2>1
<1> QED
  BY <1>2, <1>3

(* ... or the end of the body. *)
LEMMA MapsToBodyEnds ==
  ASSUME pc \in Reading, result = 0,
         \/ pc' = "rejected" /\ result' \in {400, 403, 413}
         \/ pc' = "accepted" /\ UNCHANGED result
  PROVE  Task!BodyEnds("r")
<1> DEFINE logged == IF pc = "rejected" THEN <<result>> ELSE <<>>
           jobs == IF pc = "accepted" THEN <<"r">> ELSE <<>>
<1>1. StageOfTask = "reading" /\ logged = <<>> /\ jobs = <<>>
  BY DEF StageOfTask, Reading
<1>2. \A value, new : /\ [One(value) EXCEPT !["r"] = new] = One(new)
                      /\ One(value)["r"] = value
  BY DEF One
<1>3. \A value : Append(<<>>, value) = <<value>>
  OBVIOUS
<1> USE DEF One, Task!BodyEnds, Task!Conclude, Task!Enqueue, Task!Move, Task!Holding,
            Task!clients, Task!tasks, Task!slots, Task!pool, Task!mail
<1>4. CASE pc' = "rejected" /\ result' \in {400, 403, 413}
  <2>1. StageOfTask' = "done" /\ logged' = <<result'>> /\ jobs' = <<>>
    BY <1>4 DEF StageOfTask
  <2>2. Append(logged, result') = logged'
    <3> HIDE DEF logged
    <3> QED
      BY <1>1, <1>3, <2>1
  <2>3. /\ One(result)' = [One(result) EXCEPT !["r"] = result']
        /\ One(logged)' = [One(logged) EXCEPT !["r"] = Append(One(logged)["r"], result')]
        /\ One(StageOfTask)' = [One(StageOfTask) EXCEPT !["r"] = "done"]
        /\ One(StageOfTask)["r"] = "reading"
    BY <1>1, <1>2, <2>1, <2>2
  <2>4. Task!Conclude("r", result')
    BY <2>3
  <2>5. \E code \in {400, 403, 413} : Task!Conclude("r", code) /\ UNCHANGED <<jobs, {}>>
    <3> HIDE DEF Task!Conclude
    <3> QED
      BY <1>1, <1>4, <2>1, <2>4
  <2> HIDE DEF Task!Conclude
  <2> QED
    BY <2>3, <2>5
<1>5. CASE pc' = "accepted" /\ UNCHANGED result
  <2>1. StageOfTask' = "building" /\ logged' = <<>> /\ jobs' = <<"r">>
    BY <1>5 DEF StageOfTask
  <2> QED
    BY <1>1, <1>2, <1>5, <2>1
<1> QED
  BY <1>4, <1>5

(* The checks of decide are what Relay takes them for: a task that polls   *)
(* the body after the first ones, and ends with one of the statuses there. *)
THEOREM TaskSteps == Spec => StepsOfTask
<1> USE DEF Spawned, Reading
<1>1. IInv /\ [Next]_vars => [Task!Start("r") \/ Task!BodyEnds("r")]_(Task!vars)
  <2> SUFFICES ASSUME IInv, [Next]_vars
               PROVE  Task!Start("r") \/ Task!BodyEnds("r") \/ UNCHANGED Task!vars
    OBVIOUS
  <2> USE DEF Check, Goto, Reject, control
  <2>1. pc # "rejected" => result = 0
    BY DEF IInv, TokenInv
  <2>2. CASE Authenticate
    <3>1. pc = "token" /\ \/ pc' = "type" /\ UNCHANGED result
                          \/ pc' = "rejected" /\ result' = 401
      BY <2>2 DEF Authenticate
    <3> QED
      BY <2>1, <3>1, MapsToNothing, MapsToStart
  <2>3. CASE ContentType
    <3>1. pc = "type" /\ \/ pc' \in {"items", "body"} /\ UNCHANGED result
                         \/ pc' = "rejected" /\ result' = 400
      BY <2>3 DEF ContentType
    <3> QED
      BY <2>1, <3>1, MapsToStart
  <2>4. CASE ReadFrame \/ ReadEnds \/ ReadFails \/ Parse
    <3>1. pc \in {"body", "form"} /\ \/ pc' \in {"body", "form", "items"} /\ UNCHANGED result
                                     \/ pc' = "rejected" /\ result' \in {400, 413}
      BY <2>4 DEF ReadFrame, ReadEnds, ReadFails, Parse
    <3> QED
      BY <2>1, <3>1, MapsToNothing, MapsToBodyEnds
  <2>5. CASE \E item \in Items : NextItem(item)
    <3>1. pc = "items" /\ \/ pc' = "items" /\ UNCHANGED result
                          \/ pc' = "rejected" /\ result' \in {400, 413}
      BY <2>5, ItemOutcome DEF Take
    <3> QED
      BY <2>1, <3>1, MapsToNothing, MapsToBodyEnds
  <2>6. CASE ItemsEnd \/ ValidateHeaders \/ CountRecipients
    <3>1. /\ pc \in {"items", "headers", "counts"}
          /\ \/ pc' \in {"policy", "counts", "accepted"} /\ UNCHANGED result
             \/ pc' = "rejected" /\ result' \in {400, 413}
      BY <2>6 DEF ItemsEnd, ValidateHeaders, CountRecipients
    <3> QED
      BY <2>1, <3>1, MapsToNothing, MapsToBodyEnds
  <2>7. CASE EnforcePolicy
    <3>1. pc = "policy" /\ \/ pc' = "headers" /\ UNCHANGED result
                           \/ pc' = "rejected" /\ result' \in {400, 403}
      <4>1. pc = "policy"
        BY <2>7 DEF EnforcePolicy
      <4> QED
        BY <2>7, <4>1, PolicyStep DEF IInv
    <3> QED
      BY <2>1, <3>1, MapsToNothing, MapsToBodyEnds
  <2>8. CASE UNCHANGED vars
    BY <2>8, MapsToNothing DEF vars
  <2> QED
    BY <2>2, <2>3, <2>4, <2>5, <2>6, <2>7, <2>8 DEF Next
<1> QED
  BY Invariance, <1>1, PTL DEF Spec, StepsOfTask

===============================================================================

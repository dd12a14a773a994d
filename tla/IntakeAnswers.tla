----------------------------- MODULE IntakeAnswers -----------------------------
(***************************************************************************)
(* Why a request is answered with the status it gets, for every list of    *)
(* policies, every form and all limits: what parse_form has counted is     *)
(* what a look at the whole form counts, so a check that fails has its     *)
(* ground in the request, and a request with such a ground does not get    *)
(* past the check for it.                                                  *)
(***************************************************************************)
EXTENDS IntakeProofs, Numbers

(* What parse_form has collected is what the items so far say. *)
CollectedInv ==
  /\ \A i \in DOMAIN items : /\ items[i].key \notin {"unsupported", "unknown"}
                             /\ items[i].value # "mistyped"
  /\ Len(from) = Cardinality(With("from"))
  /\ rcpts = Cardinality(With("to"))
  /\ With("subject") = {} => subject = "none"
  /\ With("subject") # {} => LastIs(With("subject"), subject)
  /\ bodies = {key \in Texts : With(key) # {}}
  /\ files = Cardinality(Uploads)
  /\ total = TotalSize(items)

(* Nothing collected is above its limit. *)
WithinInv ==
  /\ left <= bytes
  /\ items # <<>> => bytes > 0 /\ total <= MaxBodyBytes
  /\ Uploads # {} => files <= MaxAttachments
  /\ \A i \in Uploads : Size(items[i]) <= MaxAttachmentBytes

(* What the checks that were passed have established. *)
PassedInv ==
  /\ pc \notin {"token", "type"} => encoding # "malformed"
  /\ form \in {"unread", "parsed"}
  /\ pc \in {"policy", "headers", "counts", "accepted"} =>
       subject # "none" /\ bodies \cap {"text", "html"} # {}
  /\ pc \in {"headers", "counts", "accepted"} => path # "malformed"
  /\ pc \in {"counts", "accepted"} =>
       /\ subject # "refused"
       /\ \A k \in DOMAIN headers : /\ headers[k].name \notin RefusedNames
                                    /\ headers[k].value # "refused"
  /\ pc = "accepted" => rcpts # 0 /\ rcpts <= MaxRecipients

AnswerInv ==
  /\ pc # "rejected" => CollectedInv /\ WithinInv /\ PassedInv
  /\ result = 400 => Bad
  /\ result = 413 => Excessive

-------------------------------------------------------------------------------
(* The aggregate size *)

(* The running sums are what TotalSize adds up, and it is the last of them. *)
LEMMA TotalSizeIsLast ==
  ASSUME NEW fields \in Seq(Items), NEW f \in [0..Len(fields) -> Nat], f[0] = 0,
         \A i \in 1..Len(fields) : f[i] = f[i - 1] + Size(fields[i])
  PROVE  TotalSize(fields) = f[Len(fields)]
<1> DEFINE n == Len(fields)
           Upto == CHOOSE g : g = [i \in 0..n |->
                                     IF i = 0 THEN 0 ELSE g[i - 1] + Size(fields[i])]
<1>1. n \in Nat
  OBVIOUS
<1>2. f = [i \in 0..n |-> IF i = 0 THEN 0 ELSE f[i - 1] + Size(fields[i])]
  <2>1. \A i \in 0..n : f[i] = IF i = 0 THEN 0 ELSE f[i - 1] + Size(fields[i])
    BY <1>1
  <2> QED
    BY <2>1
<1>3. Upto = [i \in 0..n |-> IF i = 0 THEN 0 ELSE Upto[i - 1] + Size(fields[i])]
  <2> HIDE DEF n
  <2> QED
    BY <1>2, Zenon
<1>4. TotalSize(fields) = Upto[n]
  BY DEF TotalSize
<1> HIDE DEF Upto
<1> DEFINE Same == {i \in 0..n : Upto[i] = f[i]}
<1>5. Same = 0..n
  <2>1. Same \in SUBSET (0..n) /\ 0 \in Same
    BY <1>1, <1>3
  <2>2. ASSUME NEW i \in 1..n, i - 1 \in Same PROVE i \in Same
    <3>1. i \in 0..n /\ Upto[i] = Upto[i - 1] + Size(fields[i])
      BY <1>1, <1>3
    <3>2. f[i] = f[i - 1] + Size(fields[i]) /\ Upto[i - 1] = f[i - 1]
      BY <2>2
    <3> QED
      BY <3>1, <3>2
  <2> HIDE DEF Same
  <2> QED
    BY <1>1, <2>1, <2>2, StepByStep
<1> QED
  BY <1>1, <1>4, <1>5

(* The size of an item is a number. *)
LEMMA SizeIsNat == \A item \in Items : Size(item) \in Nat
BY ItemFields DEF Size

(* One item more adds its size. *)
LEMMA TotalSizeGrows ==
  ASSUME NEW fields \in Seq(Items)
  PROVE  /\ TotalSize(fields) \in Nat
         /\ fields = <<>> => TotalSize(fields) = 0
         /\ \A item \in Items : TotalSize(Append(fields, item)) = TotalSize(fields) + Size(item)
<1> DEFINE size == [i \in 1..Len(fields) |-> Size(fields[i])]
<1>1. size \in [1..Len(fields) -> Nat] /\ Len(fields) \in Nat
  BY SizeIsNat
<1>2. PICK f \in [0..Len(fields) -> Nat] :
        f[0] = 0 /\ \A i \in 1..Len(fields) : f[i] = f[i - 1] + size[i]
  <2> HIDE DEF size
  <2> QED
    BY <1>1, RunningSums
<1>3. TotalSize(fields) = f[Len(fields)]
  BY <1>2, TotalSizeIsLast
<1>4. ASSUME NEW item \in Items
      PROVE  TotalSize(Append(fields, item)) = TotalSize(fields) + Size(item)
  <2> DEFINE more == Append(fields, item)
             last == Len(fields) + 1
             g == [i \in 0..last |-> IF i = last THEN f[Len(fields)] + Size(item) ELSE f[i]]
  <2>1. /\ more \in Seq(Items) /\ Len(more) = last /\ more[last] = item
        /\ \A i \in 1..Len(fields) : more[i] = fields[i]
    OBVIOUS
  <2>2. g \in [0..last -> Nat] /\ g[0] = 0
    <3>1. /\ Len(fields) \in Nat /\ Size(item) \in Nat
          /\ f[Len(fields)] \in Nat /\ f[0] = 0
      <4>1. Len(fields) \in Nat /\ Len(fields) \in 0..Len(fields)
        BY <1>1
      <4>2. f[Len(fields)] \in Nat
        BY <1>2, <4>1
      <4> QED
        BY <1>2, <4>1, <4>2, SizeIsNat
    <3>2. f[Len(fields)] + Size(item) \in Nat
      BY <3>1
    <3>3. /\ \A i \in 0..last : i # last => i \in 0..Len(fields)
          /\ 0 \in 0..last /\ 0 # last
      BY <3>1
    <3>4. ASSUME NEW i \in 0..last
          PROVE  (IF i = last THEN f[Len(fields)] + Size(item) ELSE f[i]) \in Nat
      BY <1>2, <3>2, <3>3, Zenon
    <3> QED
      BY <3>1, <3>3, <3>4, Zenon
  <2>3. ASSUME NEW i \in 1..last PROVE g[i] = g[i - 1] + Size(more[i])
    <3>1. g[i - 1] = f[i - 1]
      BY <1>1
    <3>2. CASE i = last
      BY <1>1, <2>1, <3>1, <3>2
    <3>3. CASE i # last
      <4>1. i \in 1..Len(fields) /\ g[i] = f[i] /\ size[i] = Size(more[i])
        BY <1>1, <2>1, <3>3
      <4> QED
        BY <1>2, <3>1, <4>1
    <3> QED
      BY <3>2, <3>3
  <2>4. TotalSize(more) = g[last]
    <3> HIDE DEF g, more
    <3> QED
      BY <2>1, <2>2, <2>3, TotalSizeIsLast
  <2> QED
    BY <1>1, <1>3, <2>4
<1> QED
  BY <1>1, <1>2, <1>3, <1>4

-------------------------------------------------------------------------------
(* The loop of parse_form *)

(* The fields with a key are counted one by one. *)
LEMMA CountsGrow ==
  ASSUME TypeOK, NEW item \in Items, Take(item), NEW key
  PROVE  /\ Cardinality(With(key)) \in Nat
         /\ item.key = key => Cardinality(With(key)') = Cardinality(With(key)) + 1
         /\ item.key # key => Cardinality(With(key)') = Cardinality(With(key))
<1>1. /\ With(key) \subseteq 1..Len(items) /\ Len(items) \in Nat
      /\ item.key = key => With(key)' = With(key) \cup {Len(items) + 1}
      /\ item.key # key => With(key)' = With(key)
  BY WithGrows, TakeAppends
<1>2. IsFiniteSet(With(key)) /\ Len(items) + 1 \notin With(key)
  <2>1. IsFiniteSet(1..Len(items))
    BY <1>1, FS_Interval
  <2> QED
    BY <1>1, <2>1, FS_Subset
<1>3. Cardinality(With(key) \cup {Len(items) + 1}) = Cardinality(With(key)) + 1
  BY <1>2, FS_AddElement
<1> QED
  BY <1>1, <1>2, <1>3, FS_CardinalityType

(* So are the attachments and inline files. *)
LEMMA UploadsGrow ==
  ASSUME TypeOK, NEW item \in Items, Take(item)
  PROVE  /\ Cardinality(Uploads) \in Nat
         /\ Uploads \subseteq DOMAIN items
         /\ item.key \in Files => /\ Uploads' = Uploads \cup {Len(items) + 1}
                                  /\ Cardinality(Uploads') = Cardinality(Uploads) + 1
         /\ item.key \notin Files => Uploads' = Uploads
<1>1. /\ DOMAIN items = 1..Len(items) /\ Len(items) \in Nat
      /\ DOMAIN items' = DOMAIN items \cup {Len(items) + 1}
      /\ items'[Len(items) + 1] = item
      /\ \A i \in DOMAIN items : items'[i] = items[i]
  <2>1. \A n \in Nat : 1..(n + 1) = 1..n \cup {n + 1}
    OBVIOUS
  <2> QED
    BY <2>1, TakeAppends
<1>2. /\ Uploads \subseteq DOMAIN items
      /\ item.key \in Files => Uploads' = Uploads \cup {Len(items) + 1}
      /\ item.key \notin Files => Uploads' = Uploads
  BY <1>1 DEF Uploads
<1>3. IsFiniteSet(Uploads) /\ Len(items) + 1 \notin Uploads
  <2>1. IsFiniteSet(DOMAIN items)
    BY <1>1, FS_Interval
  <2> QED
    BY <1>1, <1>2, <2>1, FS_Subset
<1>4. Cardinality(Uploads \cup {Len(items) + 1}) = Cardinality(Uploads) + 1
  BY <1>3, FS_AddElement
<1> QED
  BY <1>2, <1>3, <1>4, FS_CardinalityType

(* An item that does not end the request is collected under its key ... *)
LEMMA ItemAccepted ==
  ASSUME TypeOK, NEW item \in Items, NextItem(item), pc' # "rejected"
  PROVE  /\ Take(item) /\ pc' = "items" /\ UNCHANGED result
         /\ item.key \notin {"unsupported", "unknown"} /\ item.value # "mistyped"
         /\ from' = IF item.key = "from" THEN Append(from, item.value) ELSE from
         /\ rcpts' = IF item.key = "to" THEN rcpts + 1 ELSE rcpts
         /\ subject' = IF item.key = "subject" THEN item.value ELSE subject
         /\ bodies' = IF item.key \in Texts THEN bodies \cup {item.key} ELSE bodies
         /\ files' = IF item.key \in Files THEN files + 1 ELSE files
         /\ total' = total + Size(item)
         /\ item.key \in Files => Size(item) <= MaxAttachmentBytes /\ files' <= MaxAttachments
         /\ item.key \in Texts \cup Files => total' <= MaxBodyBytes
<1>1. total \in Nat /\ files \in Nat /\ item.size[2] \in Nat /\ (Take(item) => pc = "items")
  BY ItemFields DEF TypeOK, Take
<1> USE LimitsAssumption DEF control, Check, Goto, Reject, Texts, Files, Size
<1>2. CASE BadItem(item)
  BY <1>2 DEF BadItem
<1>3. CASE HeaderItem(item)
  BY <1>1, <1>3 DEF HeaderItem
<1>4. CASE FromItem(item)
  BY <1>1, <1>4 DEF FromItem
<1>5. CASE RecipientItem(item)
  BY <1>1, <1>5 DEF RecipientItem
<1>6. CASE SubjectItem(item)
  BY <1>1, <1>6 DEF SubjectItem
<1>7. CASE TextItem(item)
  BY <1>1, <1>7 DEF TextItem
<1>8. CASE FileItem(item)
  BY <1>1, <1>8 DEF FileItem
<1> QED
  BY <1>2, <1>3, <1>4, <1>5, <1>6, <1>7, <1>8 DEF NextItem

(* ... and one that does is unsupported, of the wrong kind, or too much. *)
LEMMA ItemRefused ==
  ASSUME TypeOK, NEW item \in Items, NextItem(item), pc' = "rejected"
  PROVE  /\ Take(item)
         /\ \/ /\ result' = 400
               /\ item.key \in {"unsupported", "unknown"} \/ item.value = "mistyped"
            \/ /\ result' = 413
               /\ \/ item.key \in Files /\ Size(item) > MaxAttachmentBytes
                  \/ total + Size(item) > MaxBodyBytes
                  \/ item.key \in Files /\ files + 1 > MaxAttachments
<1>0. Take(item) => pc = "items"
  BY DEF Take
<1> USE DEF control, Check, Goto, Reject, Texts, Files, Size
<1>1. CASE BadItem(item)
  BY <1>1 DEF BadItem
<1>2. CASE HeaderItem(item) \/ FromItem(item) \/ RecipientItem(item) \/ SubjectItem(item)
  BY <1>0, <1>2 DEF HeaderItem, FromItem, RecipientItem, SubjectItem
<1>3. CASE TextItem(item)
  BY <1>3 DEF TextItem
<1>4. CASE FileItem(item)
  BY <1>4 DEF FileItem
<1> QED
  BY <1>1, <1>2, <1>3, <1>4 DEF NextItem

(* The form after one more item: the new one is the last. *)
LEMMA LastItem ==
  ASSUME TypeOK, NEW item \in Items, Take(item)
  PROVE  /\ Len(items) \in Nat /\ DOMAIN items = 1..Len(items)
         /\ DOMAIN items' = DOMAIN items \cup {Len(items) + 1}
         /\ items'[Len(items) + 1] = item
         /\ \A i \in DOMAIN items : items'[i] = items[i] /\ i <= Len(items) + 1
         /\ TotalSize(items)' = TotalSize(items) + Size(item)
<1>1. \A n \in Nat : 1..(n + 1) = 1..n \cup {n + 1}
  OBVIOUS
<1>2. TotalSize(Append(items, item)) = TotalSize(items) + Size(item)
  BY TotalSizeGrows DEF TypeOK
<1>3. TotalSize(items)' = TotalSize(Append(items, item))
  BY DEF TotalSize, Size, Take
<1>4. TotalSize(items)' = TotalSize(items) + Size(item)
  BY <1>2, <1>3
<1>5. /\ Len(items) \in Nat /\ DOMAIN items = 1..Len(items)
      /\ DOMAIN items' = 1..(Len(items) + 1)
      /\ items'[Len(items) + 1] = item
      /\ \A i \in DOMAIN items : items'[i] = items[i]
  BY TakeAppends
<1>6. \A i \in DOMAIN items : i <= Len(items) + 1
  BY <1>5
<1> QED
  BY <1>1, <1>4, <1>5, <1>6, Zenon

(* What is collected grows with the form. *)
LEMMA CollectedStep ==
  ASSUME TypeOK, CollectedInv, NEW item \in Items, NextItem(item), pc' # "rejected"
  PROVE  CollectedInv'
<1> DEFINE last == Len(items) + 1
<1>1. Take(item)
  BY ItemAccepted
<1>2. /\ Len(items) \in Nat /\ DOMAIN items = 1..Len(items)
      /\ DOMAIN items' = DOMAIN items \cup {last}
      /\ items'[last] = item
      /\ \A i \in DOMAIN items : items'[i] = items[i] /\ i <= last
  BY <1>1, LastItem
<1>3. (\A i \in DOMAIN items : /\ items[i].key \notin {"unsupported", "unknown"}
                              /\ items[i].value # "mistyped")'
  BY <1>2, ItemAccepted DEF CollectedInv
<1>4. Len(from') = Cardinality(With("from")')
  <2>1. from \in Seq(Mailboxes \cup {"malformed"}) /\ Len(from) = Cardinality(With("from"))
    BY DEF TypeOK, CollectedInv
  <2>2. CASE item.key = "from"
    <3>1. item.value \in Mailboxes \cup {"malformed"} /\ from' = Append(from, item.value)
      BY <2>2, ItemAccepted, ItemFields
    <3>2. Len(from') = Len(from) + 1
      BY <2>1, <3>1, AppendProperties
    <3> QED
      BY <1>1, <2>1, <2>2, <3>2, CountsGrow
  <2>3. CASE item.key # "from"
    <3>1. from' = from
      BY <2>3, ItemAccepted
    <3> QED
      BY <1>1, <2>1, <2>3, <3>1, CountsGrow
  <2> QED
    BY <2>2, <2>3
<1>5. rcpts' = Cardinality(With("to")')
  <2>1. rcpts = Cardinality(With("to"))
    BY DEF CollectedInv
  <2>2. rcpts' = IF item.key = "to" THEN rcpts + 1 ELSE rcpts
    BY ItemAccepted
  <2> QED
    BY <1>1, <2>1, <2>2, CountsGrow
<1>6. /\ With("subject")' = {} => subject' = "none"
      /\ With("subject")' # {} => LastIs(With("subject"), subject)'
  <2>1. /\ With("subject") \subseteq DOMAIN items
        /\ item.key = "subject" => With("subject")' = With("subject") \cup {last}
        /\ item.key # "subject" => With("subject")' = With("subject")
    BY <1>1, WithGrows
  <2>2. /\ With("subject") = {} => subject = "none"
        /\ With("subject") # {} =>
             \E i \in With("subject") : items[i].value = subject /\ \A j \in With("subject") : j <= i
    BY DEF CollectedInv, LastIs
  <2>3. subject' = IF item.key = "subject" THEN item.value ELSE subject
    BY ItemAccepted
  <2>4. With("subject")' # {} =>
          \E i \in With("subject")' :
            items'[i].value = subject' /\ \A j \in With("subject")' : j <= i
    BY <1>2, <2>1, <2>2, <2>3
  <2> QED
    BY <2>1, <2>2, <2>3, <2>4 DEF LastIs
<1>7. bodies' = {key \in Texts : With(key)' # {}}
  <2>1. bodies = {key \in Texts : With(key) # {}}
    BY DEF CollectedInv
  <2>2. \A key : /\ item.key = key => With(key)' = With(key) \cup {last}
                 /\ item.key # key => With(key)' = With(key)
    BY <1>1, WithGrows
  <2>3. bodies' = IF item.key \in Texts THEN bodies \cup {item.key} ELSE bodies
    BY ItemAccepted
  <2> HIDE DEF last
  <2> QED
    BY <2>1, <2>2, <2>3
<1>8. files' = Cardinality(Uploads')
  <2>1. files = Cardinality(Uploads)
    BY DEF CollectedInv
  <2>2. files' = IF item.key \in Files THEN files + 1 ELSE files
    BY ItemAccepted
  <2> QED
    BY <1>1, <2>1, <2>2, UploadsGrow
<1>9. total' = TotalSize(items)'
  <2>1. total = TotalSize(items)
    BY DEF CollectedInv
  <2>2. total' = total + Size(item)
    BY ItemAccepted
  <2> QED
    BY <1>1, <2>1, <2>2, LastItem
<1> QED
  BY <1>3, <1>4, <1>5, <1>6, <1>7, <1>8, <1>9 DEF CollectedInv

(* Each limit is tested where what it limits grows. *)
LEMMA WithinStep ==
  ASSUME TypeOK, CollectedInv, WithinInv, ReadInv, NEW item \in Items, NextItem(item),
         pc' # "rejected"
  PROVE  WithinInv'
<1>1. Take(item) /\ pc' = "items"
  BY ItemAccepted
<1>2. /\ Len(items) \in Nat /\ DOMAIN items = 1..Len(items)
      /\ DOMAIN items' = DOMAIN items \cup {Len(items) + 1}
      /\ items'[Len(items) + 1] = item
      /\ \A i \in DOMAIN items : items'[i] = items[i]
  BY <1>1, LastItem
<1>3. item.size[1] \in Nat \ {0}
  BY SizesAssumption DEF Items, Texts, Files
<1>4. left \in Nat /\ bytes \in Nat /\ bytes' = bytes /\ pc = "items"
  BY <1>1 DEF TypeOK, Take, body
<1>5. left' <= bytes' /\ bytes' > 0
  <2>1. item.size[1] <= left /\ left' = left - item.size[1] /\ left <= bytes
    BY <1>1 DEF Take, WithinInv
  <2> QED
    BY <1>3, <1>4, <2>1
<1>6. MaxBodyBytes > 0
  BY <1>4, <1>5, LimitsAssumption DEF ReadInv
<1>7. total' <= MaxBodyBytes
  <2>1. CASE item.key \in Texts \cup Files
    BY <2>1, ItemAccepted
  <2>2. CASE item.key \notin Texts \cup Files
    <3>1. total' = total
      BY <2>2, ItemAccepted DEF Size, TypeOK
    <3>2. CASE items = <<>>
      <4>1. total = 0
        BY <3>2, TotalSizeGrows DEF CollectedInv, TypeOK
      <4> QED
        BY <1>6, <3>1, <4>1, LimitsAssumption
    <3>3. CASE items # <<>>
      BY <3>1, <3>3 DEF WithinInv
    <3> QED
      BY <3>2, <3>3
  <2> QED
    BY <2>1, <2>2
<1>8. Uploads' # {} => files' <= MaxAttachments
  BY <1>1, ItemAccepted, UploadsGrow DEF WithinInv
<1>9. \A i \in Uploads' : Size(items'[i]) <= MaxAttachmentBytes
  <2>1. \A i \in Uploads : items'[i] = items[i] /\ Size(items[i]) <= MaxAttachmentBytes
    BY <1>1, <1>2, UploadsGrow DEF WithinInv
  <2>2. item.key \in Files => Size(item) <= MaxAttachmentBytes
    BY ItemAccepted
  <2>3. \A i \in Uploads' : i \in Uploads \/ (i = Len(items) + 1 /\ item.key \in Files)
    BY <1>1, UploadsGrow
  <2> QED
    BY <1>2, <2>1, <2>2, <2>3
<1>10. (\A i \in Uploads : Size(items[i]) <= MaxAttachmentBytes)'
  BY <1>9 DEF Size
<1> QED
  BY <1>5, <1>7, <1>8, <1>10 DEF WithinInv

(* The ground of an item that ends the request is the item, or what it adds *)
(* up to.                                                                   *)
LEMMA RefusedItemHasGround ==
  ASSUME TypeOK, CollectedInv, NEW item \in Items, NextItem(item), pc' = "rejected"
  PROVE  (result' = 400 => Bad') /\ (result' = 413 => Excessive')
<1> DEFINE last == Len(items) + 1
<1>1. Take(item)
  BY ItemRefused
<1>2. last \in DOMAIN items' /\ items'[last] = item
  BY <1>1, LastItem
<1>3. ASSUME result' = 400 PROVE Bad'
  <2>1. item.key \in {"unsupported", "unknown"} \/ item.value = "mistyped"
    BY <1>3, ItemRefused
  <2>2. \E i \in DOMAIN items' : \/ items'[i].key \in {"unsupported", "unknown"}
                                 \/ items'[i].value \in {"mistyped", "malformed"}
    BY <1>2, <2>1
  <2> QED
    BY <2>2 DEF Bad
<1>4. ASSUME result' = 413 PROVE Excessive'
  <2>1. CASE item.key \in Files /\ Size(item) > MaxAttachmentBytes
    <3>1. \E i \in DOMAIN items' : items'[i].key \in Files /\ Size(items'[i]) > MaxAttachmentBytes
      BY <1>2, <2>1
    <3>2. (\E i \in DOMAIN items : items[i].key \in Files /\ Size(items[i]) > MaxAttachmentBytes)'
      BY <3>1 DEF Size
    <3> QED
      BY <3>2 DEF Excessive
  <2>2. CASE total + Size(item) > MaxBodyBytes
    <3>1. TotalSize(items)' > MaxBodyBytes
      BY <1>1, <2>2, LastItem DEF CollectedInv
    <3> QED
      BY <3>1 DEF Excessive
  <2>3. CASE item.key \in Files /\ files + 1 > MaxAttachments
    <3>1. Uploads' # {} /\ Cardinality(Uploads') > MaxAttachments
      BY <1>1, <2>3, UploadsGrow DEF CollectedInv
    <3> QED
      BY <3>1 DEF Excessive
  <2> QED
    BY <1>4, <2>1, <2>2, <2>3, ItemRefused
<1> QED
  BY <1>3, <1>4

-------------------------------------------------------------------------------
(* The checks before and after the loop *)

(* Outside the loop nothing is collected. *)
LEMMA CollectedStays ==
  ASSUME CollectedInv, UNCHANGED <<items, from, rcpts, subject, bodies, files, total>>
  PROVE  CollectedInv'
<1>1. \A key : With(key)' = With(key)
  BY DEF With
<1>2. Uploads' = Uploads
  BY DEF Uploads
<1>3. TotalSize(items)' = TotalSize(items)
  BY DEF TotalSize, Size
<1>4. With("from")' = With("from") /\ With("to")' = With("to") /\ With("subject")' = With("subject")
  BY <1>1
<1>5. LastIs(With("subject"), subject) => LastIs(With("subject"), subject)'
  BY <1>4 DEF LastIs
<1>6. {key \in Texts : With(key) # {}} = {key \in Texts : With(key)' # {}}
  BY <1>1
<1> QED
  BY <1>2, <1>3, <1>4, <1>5, <1>6 DEF CollectedInv

(* What nothing is read into stays within the limits. *)
LEMMA WithinStays ==
  ASSUME WithinInv, UNCHANGED <<left, bytes, items, files, total>>
  PROVE  WithinInv'
BY DEF WithinInv, Uploads, Size

(* Up to the form. *)
LEMMA EarlyStep ==
  ASSUME IInv, AnswerInv,
         Authenticate \/ ContentType \/ ReadFrame \/ ReadEnds \/ ReadFails \/ Parse
  PROVE  AnswerInv'
<1> USE DEF Check, Goto, Reject, control, request, body, scan, parsed
<1>1. /\ pc \in {"token", "type", "body", "form"} /\ result = 0
      /\ UNCHANGED <<items, from, rcpts, subject, bodies, headers, files, total>>
  BY DEF IInv, TokenInv, Authenticate, ContentType, ReadFrame, ReadEnds, ReadFails, Parse
<1>2. CollectedInv /\ WithinInv /\ PassedInv /\ items = <<>>
  BY <1>1 DEF AnswerInv, IInv, ReadInv
<1>3. CollectedInv'
  BY <1>1, <1>2, CollectedStays
<1>4. WithinInv'
  <2>1. left' <= bytes'
    <3>1. left \in Nat /\ bytes \in Nat /\ left <= bytes
      BY <1>2 DEF IInv, TypeOK, WithinInv
    <3> QED
      BY <3>1, SizesAssumption DEF Authenticate, ContentType, ReadFrame, ReadEnds, ReadFails, Parse
  <2>2. items' = <<>> /\ Uploads' = {}
    BY <1>1, <1>2 DEF Uploads
  <2> QED
    BY <2>1, <2>2 DEF WithinInv
<1>5. pc' # "rejected" => PassedInv'
  BY <1>1, <1>2 DEF PassedInv, Authenticate, ContentType, ReadFrame, ReadEnds, ReadFails, Parse
<1>6. result' = 400 => Bad'
  <2>1. result' = 400 => encoding' = "malformed" \/ form' \in {"broken", "malformed"}
    BY <1>1 DEF Authenticate, ContentType, ReadFrame, ReadEnds, ReadFails, Parse
  <2> QED
    BY <2>1 DEF Bad
<1>7. result' = 413 => Excessive'
  <2>1. result' = 413 => bytes' > MaxBodyBytes \/ form' = "large"
    BY <1>1 DEF Authenticate, ContentType, ReadFrame, ReadEnds, ReadFails, Parse
  <2> QED
    BY <2>1 DEF Excessive
<1> QED
  BY <1>3, <1>4, <1>5, <1>6, <1>7 DEF AnswerInv

(* Each item. *)
LEMMA ItemStep ==
  ASSUME IInv, AnswerInv, NEW item \in Items, NextItem(item)
  PROVE  AnswerInv'
<1>1. /\ Take(item) /\ pc = "items" /\ result = 0
      /\ UNCHANGED <<encoding, form>>
  <2>1. Take(item)
    BY ItemOutcome, Zenon
  <2>2. pc = "items" /\ UNCHANGED <<request, body>>
    BY <2>1 DEF Take
  <2>3. TokenInv
    BY DEF IInv
  <2> QED
    BY <2>1, <2>2, <2>3 DEF TokenInv, request, body
<1>2. TypeOK /\ ReadInv /\ CollectedInv /\ WithinInv /\ PassedInv
  BY <1>1 DEF IInv, AnswerInv
<1>3. CASE pc' = "rejected"
  <2>1. result' \in {400, 413}
    BY <1>2, <1>3, ItemRefused
  <2> QED
    BY <1>2, <1>3, RefusedItemHasGround DEF AnswerInv
<1>4. CASE pc' # "rejected"
  <2>1. pc' = "items" /\ result' = 0
    BY <1>1, <1>2, <1>4, ItemAccepted
  <2>2. PassedInv'
    BY <1>1, <1>2, <2>1 DEF PassedInv
  <2> QED
    BY <1>2, <1>4, <2>1, <2>2, CollectedStep, WithinStep DEF AnswerInv
<1> QED
  BY <1>3, <1>4

(* The end of the loop: what is required is there. *)
LEMMA ItemsEndStep == ASSUME IInv, AnswerInv, ItemsEnd PROVE AnswerInv'
<1>1. /\ pc = "items" /\ result = 0
      /\ UNCHANGED <<encoding, path, left, bytes, form>>
      /\ UNCHANGED <<items, from, rcpts, subject, bodies, headers, files, total>>
      /\ result' = 400 =>
           Len(from) # 1 \/ subject = "none" \/ bodies \cap {"text", "html"} = {}
      /\ pc' # "rejected" =>
           pc' = "policy" /\ subject # "none" /\ bodies \cap {"text", "html"} # {}
      /\ result' # 413
  BY DEF IInv, TokenInv, ItemsEnd, Check, Goto, Reject, request, body, scan, parsed
<1>2. CollectedInv' /\ WithinInv' /\ CollectedInv /\ PassedInv
  BY <1>1, CollectedStays, WithinStays DEF AnswerInv
<1>3. pc' # "rejected" => PassedInv'
  <2>1. ASSUME pc' # "rejected" PROVE pc' = "policy"
    BY <1>1, <2>1
  <2>2. ASSUME pc' # "rejected" PROVE subject' # "none" /\ bodies' \cap {"text", "html"} # {}
    BY <1>1, <2>2
  <2>3. encoding' # "malformed" /\ form' \in {"unread", "parsed"}
    BY <1>1, <1>2 DEF PassedInv
  <2> QED
    BY <2>1, <2>2, <2>3 DEF PassedInv
<1>4. result' = 400 => Bad'
  <2>1. CASE Len(from) # 1
    BY <1>1, <1>2, <2>1 DEF CollectedInv, Bad
  <2>2. CASE subject = "none"
    <3>1. \A i \in With("subject") : items[i].value # "none"
      <4>1. \A i \in With("subject") : items[i] \in Items /\ items[i].key = "subject"
        BY ElementOfSeq, LenProperties DEF With, IInv, TypeOK
      <4>2. \A i \in With("subject") : items[i].value # "mistyped"
        BY <1>2 DEF With, CollectedInv
      <4> QED
        BY <4>1, <4>2, ItemFields DEF Values
    <3>2. With("subject") = {}
      BY <1>2, <2>2, <3>1 DEF CollectedInv, LastIs
    <3> QED
      BY <1>1, <3>2 DEF Bad, With
  <2>3. CASE bodies \cap {"text", "html"} = {}
    <3>1. With("text") = {} /\ With("html") = {}
      BY <1>2, <2>3 DEF CollectedInv, Texts
    <3> QED
      BY <1>1, <3>1 DEF Bad, With
  <2> QED
    BY <1>1, <2>1, <2>2, <2>3
<1> QED
  BY <1>1, <1>2, <1>3, <1>4 DEF AnswerInv

(* A ground stays as long as the request does. *)
LEMMA BadStays == Bad /\ UNCHANGED <<encoding, form, path, items>> => Bad'
<1> SUFFICES ASSUME Bad, UNCHANGED <<encoding, form, path, items>> PROVE Bad'
  OBVIOUS
<1>1. \A key : With(key)' = With(key)
  BY DEF With
<1>2. With("subject")' = With("subject") /\ With("header")' = With("header")
  BY <1>1
<1>3. \A S, value : LastIs(S, value)' <=> LastIs(S, value)
  BY DEF LastIs
<1> QED
  BY DEF Bad, With, LastIs

(* Too much stays too much. *)
LEMMA ExcessiveStays == Excessive /\ UNCHANGED <<bytes, form, items>> => Excessive'
BY DEF Excessive, Uploads, With, TotalSize, Size

(* The policy: what is not forbidden but refused is malformed. *)
LEMMA EnforcePolicyStep == ASSUME IInv, AnswerInv, EnforcePolicy PROVE AnswerInv'
<1>1. /\ pc = "policy" /\ result = 0
      /\ UNCHANGED <<encoding, left, bytes, form>>
      /\ UNCHANGED <<items, from, rcpts, subject, bodies, headers, files, total>>
  BY DEF EnforcePolicy, IInv, TokenInv, body, scan, parsed
<1>2. CollectedInv' /\ WithinInv' /\ PassedInv
  BY <1>1, CollectedStays, WithinStays DEF AnswerInv
<1>3. Policy.paths \subseteq Paths
  BY <1>1, PolicyIsOwn DEF IInv, TokenInv
<1>4. Len(from) = 1 /\ from[1] \in Mailboxes \cup {"malformed"}
  <2>1. Len(from) = 1 /\ from \in Seq(Mailboxes \cup {"malformed"})
    BY <1>1 DEF IInv, TypeOK, FromInv
  <2> QED
    BY <2>1, ElementOfSeq
<1>5. /\ pc' \in {"headers", "rejected"} /\ result' # 413
      /\ pc' = "headers" => path' # "malformed"
      /\ result' = 400 => path' = "malformed" \/ from[1] = "malformed"
  <2>1. "malformed" \notin Paths /\ "malformed" \notin Mailboxes
    BY MarksAssumption
  <2>2. /\ pc' \in {"headers", "rejected"} /\ result' # 413
        /\ pc' = "headers" => path' # "malformed"
    BY <1>1, <1>3, <2>1, PolicyStep DEF IInv
  <2>3. ASSUME path' # "malformed", from[1] # "malformed" PROVE result' # 400
    <3>1. path' \in Paths /\ from[1] \in Mailboxes
      BY <1>4, <2>3 DEF EnforcePolicy
    <3>2. \/ Reject(403)
          \/ Check(DomainOf[from[1]] \notin Policy.domains
                     \/ from[1] \notin Policy.addresses, 403, "headers")
      BY <2>3, <3>1 DEF EnforcePolicy
    <3> QED
      BY <1>1, <3>2 DEF Check, Goto, Reject
  <2> QED
    BY <2>2, <2>3
<1>6. pc' # "rejected" => PassedInv'
  BY <1>1, <1>2, <1>5 DEF PassedInv
<1>7. result' = 400 => Bad'
  <2>1. CASE path' = "malformed"
    BY <2>1 DEF Bad
  <2>2. CASE from[1] = "malformed"
    <3>1. 1 \in DOMAIN from
      BY <1>4, LenProperties DEF IInv, TypeOK
    <3>2. \E k \in With("from") : items[k].value = "malformed"
      BY <2>2, <3>1 DEF IInv, FromInv
    <3>3. \E i \in DOMAIN items' : items'[i].value \in {"mistyped", "malformed"}
      BY <1>1, <3>2 DEF With
    <3> QED
      BY <3>3 DEF Bad
  <2> QED
    BY <1>5, <2>1, <2>2
<1> QED
  BY <1>2, <1>5, <1>6, <1>7 DEF AnswerInv

(* The fields with a header name are those the list was made from. *)
LEMMA NamedIsGiven ==
  ASSUME CollectedInv, NEW name
  PROVE  {i \in With("header") : items[i].name = name} = Given(name, items)
BY DEF CollectedInv, With, Given

(* The headers: what is looked at is the last value of each. *)
LEMMA ValidateHeadersStep == ASSUME IInv, AnswerInv, ValidateHeaders PROVE AnswerInv'
<1> DEFINE Refused == \/ subject = "refused"
                      \/ \E i \in DOMAIN headers : \/ headers[i].name \in RefusedNames
                                                   \/ headers[i].value = "refused"
<1>1. /\ pc = "headers" /\ result = 0
      /\ UNCHANGED <<encoding, path, left, bytes, form>>
      /\ UNCHANGED <<items, from, rcpts, subject, bodies, headers, files, total>>
      /\ result' = 400 => Refused
      /\ pc' # "rejected" => pc' = "counts" /\ ~Refused
      /\ result' # 413
  BY DEF IInv, TokenInv, ValidateHeaders, Check, Goto, Reject, request, body, scan, parsed
<1>2. CollectedInv' /\ WithinInv' /\ CollectedInv /\ PassedInv
  BY <1>1, CollectedStays, WithinStays DEF AnswerInv
<1>3. pc' # "rejected" => PassedInv'
  BY <1>1, <1>2 DEF PassedInv
<1>4. result' = 400 => Bad'
  <2>1. CASE subject = "refused"
    <3>1. LastIs(With("subject"), "refused")
      BY <1>2, <2>1 DEF CollectedInv
    <3> QED
      BY <1>1, <3>1, BadStays DEF Bad
  <2>2. ASSUME NEW k \in DOMAIN headers,
               headers[k].name \in RefusedNames \/ headers[k].value = "refused"
        PROVE  Bad
    <3> DEFINE name == headers[k].name
               named == {i \in With("header") : items[i].name = name}
    <3>1. name \in Names
      <4>1. headers \in Seq(Headers) /\ DOMAIN headers = 1..Len(headers)
        BY LenProperties DEF IInv, TypeOK
      <4>2. headers[k] \in Headers
        BY <4>1, ElementOfSeq
      <4> QED
        BY <4>2 DEF Headers
    <3>2. LastIs(named, headers[k].value)
      BY <1>2, NamedIsGiven DEF IInv, HeadersAreTheMap
    <3>3. named # {}
      BY <3>2 DEF LastIs
    <3>4. named # {} /\ (name \in RefusedNames \/ LastIs(named, "refused"))
      BY <2>2, <3>2, <3>3
    <3> QED
      BY <3>1, <3>4 DEF Bad
  <2> QED
    BY <1>1, <2>1, <2>2, BadStays
<1> QED
  BY <1>1, <1>2, <1>3, <1>4 DEF AnswerInv

(* The recipients: one at least, and not too many. *)
LEMMA CountRecipientsStep == ASSUME IInv, AnswerInv, CountRecipients PROVE AnswerInv'
<1>1. /\ pc = "counts" /\ result = 0
      /\ UNCHANGED <<encoding, path, left, bytes, form>>
      /\ UNCHANGED <<items, from, rcpts, subject, bodies, headers, files, total>>
      /\ result' = 400 => rcpts = 0
      /\ result' = 413 => rcpts > MaxRecipients
      /\ pc' # "rejected" => pc' = "accepted" /\ rcpts # 0 /\ ~(rcpts > MaxRecipients)
      /\ pc' # "rejected" => result' = 0
  BY DEF IInv, TokenInv, CountRecipients, Check, Goto, Reject, request, body, scan, parsed
<1>2. CollectedInv' /\ WithinInv' /\ CollectedInv /\ PassedInv
  BY <1>1, CollectedStays, WithinStays DEF AnswerInv
<1>3. pc' # "rejected" => PassedInv'
  <2>1. rcpts \in Nat /\ MaxRecipients \in Int
    BY LimitsAssumption DEF IInv, TypeOK
  <2> QED
    BY <1>1, <1>2, <2>1 DEF PassedInv
<1>4. result' = 400 => Bad'
  <2>1. IsFiniteSet(With("to"))
    <3>1. With("to") \subseteq 1..Len(items) /\ Len(items) \in Nat
      BY LenProperties DEF With, IInv, TypeOK
    <3>2. IsFiniteSet(1..Len(items))
      BY <3>1, FS_Interval
    <3> QED
      BY <3>1, <3>2, FS_Subset
  <2>2. rcpts = 0 => With("to") = {}
    BY <1>2, <2>1, FS_EmptySet DEF CollectedInv
  <2> QED
    BY <1>1, <2>2, BadStays DEF Bad
<1>5. result' = 413 => Excessive'
  BY <1>1, <1>2, ExcessiveStays DEF CollectedInv, Excessive
<1> QED
  BY <1>2, <1>3, <1>4, <1>5 DEF AnswerInv

-------------------------------------------------------------------------------

(* The invariant holds. *)
LEMMA AnswerInvStep == IInv /\ AnswerInv /\ [Next]_vars => AnswerInv'
<1> SUFFICES ASSUME IInv, AnswerInv, [Next]_vars PROVE AnswerInv'
  OBVIOUS
<1>1. CASE UNCHANGED vars
  <2>1. /\ UNCHANGED <<pc, result, encoding, form, path, left, bytes>>
        /\ UNCHANGED <<items, from, rcpts, subject, bodies, headers, files, total>>
    BY <1>1 DEF vars, control, request, body, scan, parsed
  <2>2. CollectedInv /\ WithinInv => CollectedInv' /\ WithinInv'
    BY <2>1, CollectedStays, WithinStays
  <2>3. PassedInv => PassedInv'
    BY <2>1 DEF PassedInv
  <2> QED
    BY <2>1, <2>2, <2>3, BadStays, ExcessiveStays DEF AnswerInv
<1> QED
  BY <1>1, EarlyStep, ItemStep, ItemsEndStep, EnforcePolicyStep, ValidateHeadersStep,
     CountRecipientsStep DEF Next

(* At the start nothing is answered. *)
LEMMA AnswerInvInit == Init => AnswerInv
<1> SUFFICES ASSUME Init PROVE AnswerInv
  OBVIOUS
<1>1. items = <<>> /\ items \in Seq(Items)
  BY DEF Init
<1>2. TotalSize(items) = 0
  BY <1>1, TotalSizeGrows
<1>3. (\A key : With(key) = {}) /\ Uploads = {} /\ Cardinality({}) = 0
  BY <1>1, FS_EmptySet DEF With, Uploads
<1>4. CollectedInv
  <2>1. DOMAIN items = {} /\ Len(from) = 0
    BY DEF Init
  <2>2. With("from") = {} /\ With("to") = {} /\ With("subject") = {}
    BY <1>3
  <2>3. bodies = {key \in Texts : With(key) # {}}
    BY <1>3 DEF Init
  <2> QED
    BY <1>2, <1>3, <2>1, <2>2, <2>3 DEF Init, CollectedInv
<1> QED
  BY <1>1, <1>3, <1>4 DEF Init, AnswerInv, WithinInv, PassedInv

(* Whoever is accepted has passed every check, so there is no ground left. *)
LEMMA AcceptedIsNotBad == IInv /\ AnswerInv /\ pc = "accepted" => ~Bad
<1> SUFFICES ASSUME IInv, AnswerInv, pc = "accepted" PROVE ~Bad
  OBVIOUS
<1>1. CollectedInv /\ PassedInv /\ Len(from) = 1
  BY DEF AnswerInv, IInv, FromInv
<1>2. /\ encoding # "malformed" /\ form \notin {"broken", "malformed"} /\ path # "malformed"
      /\ subject \notin {"none", "refused"} /\ rcpts # 0 /\ bodies \cap {"text", "html"} # {}
  BY <1>1 DEF PassedInv
<1>3. \A i \in DOMAIN items : /\ items[i].key \notin {"unsupported", "unknown"}
                              /\ items[i].value \notin {"mistyped", "malformed"}
  <2>1. ASSUME NEW i \in DOMAIN items, items[i].key = "from" PROVE items[i].value # "malformed"
    <3>1. PICK n \in DOMAIN from : from[n] = items[i].value
      BY <2>1 DEF IInv, FromInv, With
    <3>2. n = 1
      BY <1>1, LenProperties DEF IInv, TypeOK
    <3>3. Policy.addresses \subseteq Mailboxes
      BY PolicyIsOwn DEF IInv, TokenInv
    <3> QED
      BY <3>1, <3>2, <3>3, MarksAssumption DEF IInv, PolicyInv, Allowed
  <2>2. ASSUME NEW i \in DOMAIN items, items[i].key # "from" PROVE items[i].value # "malformed"
    <3>1. items[i] \in Items
      BY ElementOfSeq, LenProperties DEF IInv, TypeOK
    <3> QED
      BY <2>2, <3>1 DEF Items, Values
  <2> QED
    BY <1>1, <2>1, <2>2 DEF CollectedInv
<1>4. Cardinality(With("from")) = 1
  BY <1>1 DEF CollectedInv
<1>5. With("subject") # {} /\ With("to") # {} /\ With("text") \cup With("html") # {}
  BY <1>1, <1>2, FS_EmptySet DEF CollectedInv
<1>6. ~LastIs(With("subject"), "refused")
  <2>1. LastIs(With("subject"), subject) /\ With("subject") \subseteq 1..Len(items) /\ Len(items) \in Nat
    BY <1>1, <1>5, LenProperties DEF CollectedInv, With, IInv, TypeOK
  <2> QED
    BY <1>2, <2>1 DEF LastIs
<1>7. ASSUME NEW name \in Names, NEW named, named = {i \in With("header") : items[i].name = name},
             named # {}
      PROVE  name \notin RefusedNames /\ ~LastIs(named, "refused")
  <2>1. named = Given(name, items)
    BY <1>1, <1>7, NamedIsGiven
  <2>2. PICK k \in DOMAIN headers : headers[k].name = name
    BY <1>7, <2>1 DEF IInv, HeadersAreTheMap
  <2>3. LastIs(named, headers[k].value)
    BY <2>1, <2>2 DEF IInv, HeadersAreTheMap
  <2>4. headers[k].name \notin RefusedNames /\ headers[k].value # "refused"
    BY <1>1 DEF PassedInv
  <2>5. named \subseteq 1..Len(items) /\ Len(items) \in Nat
    BY <1>7, LenProperties DEF With, IInv, TypeOK
  <2> QED
    BY <2>2, <2>3, <2>4, <2>5 DEF LastIs
<1> QED
  BY <1>2, <1>3, <1>4, <1>5, <1>6, <1>7 DEF Bad

(* What passed every check is within every limit. *)
LEMMA AcceptedIsNotExcessive == IInv /\ AnswerInv /\ pc = "accepted" => ~Excessive
<1> SUFFICES ASSUME IInv, AnswerInv, pc = "accepted" PROVE ~Excessive
  OBVIOUS
<1>1. CollectedInv /\ WithinInv /\ PassedInv /\ Len(from) = 1
  BY DEF AnswerInv, IInv, FromInv
<1>2. items # <<>>
  <2>1. 1 \in DOMAIN from
    BY <1>1, LenProperties DEF IInv, TypeOK
  <2>2. \E k \in DOMAIN items : TRUE
    BY <2>1 DEF IInv, FromInv, With
  <2> QED
    BY <2>2
<1>3. /\ bytes \in Nat /\ total \in Nat /\ files \in Nat /\ rcpts \in Nat
      /\ MaxBodyBytes \in Int /\ MaxAttachments \in Int /\ MaxAttachmentBytes \in Int
      /\ MaxRecipients \in Int
  BY LimitsAssumption DEF IInv, TypeOK
<1>4. bytes <= MaxBodyBytes /\ total <= MaxBodyBytes /\ total = TotalSize(items)
  BY <1>1, <1>2 DEF WithinInv, CollectedInv, IInv, ReadInv
<1>5. form # "large"
  BY <1>1 DEF PassedInv
<1>6. \A i \in DOMAIN items : items[i].key \in Files => ~(Size(items[i]) > MaxAttachmentBytes)
  <2>1. ASSUME NEW i \in DOMAIN items, items[i].key \in Files
        PROVE  ~(Size(items[i]) > MaxAttachmentBytes)
    <3>1. Size(items[i]) <= MaxAttachmentBytes
      BY <1>1, <2>1 DEF WithinInv, Uploads
    <3>2. items[i] \in Items
      BY ElementOfSeq, LenProperties DEF IInv, TypeOK
    <3>3. Size(items[i]) \in Nat
      BY <3>2, SizeIsNat
    <3> QED
      BY <1>3, <3>1, <3>3
  <2> QED
    BY <2>1
<1>7. Uploads # {} => ~(Cardinality(Uploads) > MaxAttachments)
  BY <1>1, <1>3 DEF WithinInv, CollectedInv
<1>8. ~(Cardinality(With("to")) > MaxRecipients)
  BY <1>1, <1>3 DEF PassedInv, CollectedInv
<1> QED
  BY <1>3, <1>4, <1>5, <1>6, <1>7, <1>8 DEF Excessive

(* A status is given on one of its grounds, found in the request as a      *)
(* whole, and a request with a ground for any of them is not accepted, in  *)
(* whatever order its fields come and whichever check is reached first     *)
(* (rust/src/pipeline.rs, decide and parse_form).                          *)
THEOREM Grounds == Spec => []AnswerHasItsGround
<1>1. Spec => []AnswerInv
  <2>1. Spec => []IInv
    BY Invariance
  <2>2. Init => AnswerInv
    BY AnswerInvInit
  <2>3. IInv /\ AnswerInv /\ [Next]_vars => AnswerInv'
    BY AnswerInvStep
  <2> QED
    BY <2>1, <2>2, <2>3, PTL DEF Spec
<1>2. AnswerInv /\ IInv /\ RightsDecide => AnswerHasItsGround
  BY AcceptedIsNotBad, AcceptedIsNotExcessive DEF AnswerHasItsGround, AnswerInv
<1>3. Spec => []IInv
  BY Invariance
<1>4. Spec => []RightsDecide
  BY Rights
<1> QED
  BY <1>1, <1>2, <1>3, <1>4, PTL

===============================================================================

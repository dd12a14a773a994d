------------------------------ MODULE RelayProofs ------------------------------
(***************************************************************************)
(* Theorems about Relay for every number of requests, recipients, SMTP     *)
(* slots and blocking threads.                                             *)
(*                                                                         *)
(* A queue is handled as the set of its members: as nobody is in it twice  *)
(* (Distinct), Append adds one member and Tail removes the head.  The      *)
(* slots are then counted by adding and removing single requests from the  *)
(* set of those that hold one.                                             *)
(***************************************************************************)
EXTENDS Relay, SequenceTheorems, FiniteSetTheorems, TLAPS

Distinct(s) == \A i, j \in 1..Len(s) : s[i] = s[j] => i = j

(* Whoever waits is in the queue it waits in, once. *)
QueueInv ==
  /\ Distinct(waiters)
  /\ Range(waiters) = In({"acquiring"})
  /\ Distinct(jobs)
  /\ Range(jobs) \cap running = {}
  /\ Range(jobs) \cup running = In(InPool)

(* What the mail server did is what the status of an ended task says.      *)
Delivered(r) ==
  /\ outcome[r] = "temporary" => status[r] = 503
  /\ status[r] = 200 => /\ Recipients \ refused[r] \subseteq taken[r]
                        /\ taken[r] # {}
                        /\ strict => refused[r] = {}
  /\ status[r] \in 400..499 => taken[r] = {} /\ outcome[r] = "pending"
  /\ status[r] = 502 /\ outcome[r] # "permanent" =>
       strict /\ outcome[r] = "ok" /\ refused[r] # {} /\ taken[r] # {}
  /\ status[r] = 503 => outcome[r] = "temporary"

(* A request from its head to its record: no task before the head is       *)
(* complete, no answer and no record while the task runs, nothing taken    *)
(* before the session.                                                     *)
History(r) ==
  /\ conn[r] = "head" => stage[r] = "none"
  /\ conn[r] # "none" => answered[r] = 0
  /\ logged[r] = IF stage[r] = "done" THEN <<status[r]>> ELSE <<>>
  /\ answered[r] # 0 => \/ stage[r] = "none" /\ answered[r] \in {404, 413}
                        \/ stage[r] = "done" /\ answered[r] = status[r]
                        \/ stage[r] = "dead" /\ answered[r] = 500
  /\ stage[r] = "dead" => status[r] = 500
  /\ stage[r] \notin {"session", "done"} => taken[r] = {} /\ outcome[r] = "pending"
  /\ stage[r] = "session" => outcome[r] = "pending"
  /\ stage[r] = "done" => Delivered(r)
HistoryInv == \A r \in Requests : History(r)

(* The process stops in stages: no connections, then no tasks. *)
StopInv ==
  /\ phase \notin {"serving", "stopping"} => \A r \in Requests : conn[r] = "none"
  /\ phase = "exited" => In(Live) = {}

IInv ==
  /\ TypeOK
  /\ SlotsAreConserved
  /\ QueueInv
  /\ HistoryInv
  /\ StopInv

-------------------------------------------------------------------------------

(* The queue of the one who comes last. *)
LEMMA AppendQueue ==
  ASSUME NEW S, NEW s \in Seq(S), Distinct(s), NEW x \in S, x \notin Range(s)
  PROVE  /\ Append(s, x) \in Seq(S)
         /\ Append(s, x) # <<>>
         /\ Distinct(Append(s, x))
         /\ Range(Append(s, x)) = Range(s) \cup {x}
<1>1. /\ Append(s, x) \in Seq(S) /\ Append(s, x) # <<>>
      /\ Len(s) \in Nat
      /\ Len(Append(s, x)) = Len(s) + 1
      /\ \A i \in 1..Len(s) : Append(s, x)[i] = s[i]
      /\ Append(s, x)[Len(s) + 1] = x
  BY AppendProperties, LenProperties
<1>2. /\ Range(s) = {s[i] : i \in 1..Len(s)}
      /\ Range(Append(s, x)) = {Append(s, x)[i] : i \in 1..Len(s) + 1}
  BY <1>1, RangeEquality
<1>3. Range(Append(s, x)) = Range(s) \cup {x}
  BY <1>1, <1>2
<1>4. Distinct(Append(s, x))
  <2> SUFFICES ASSUME NEW i \in 1..Len(s) + 1, NEW j \in 1..Len(s) + 1,
                      Append(s, x)[i] = Append(s, x)[j]
               PROVE  i = j
    BY <1>1 DEF Distinct
  <2>1. \A k \in 1..Len(s) : Append(s, x)[k] # x
    BY <1>1, <1>2
  <2>2. (i \in 1..Len(s) \/ i = Len(s) + 1) /\ (j \in 1..Len(s) \/ j = Len(s) + 1)
    BY <1>1
  <2> QED
    BY <1>1, <2>1, <2>2 DEF Distinct
<1> QED
  BY <1>1, <1>3, <1>4

(* The queue without the one who comes first. *)
LEMMA TailQueue ==
  ASSUME NEW S, NEW s \in Seq(S), Distinct(s), s # <<>>
  PROVE  /\ Head(s) \in S
         /\ Head(s) \in Range(s)
         /\ Tail(s) \in Seq(S)
         /\ Distinct(Tail(s))
         /\ Range(Tail(s)) = Range(s) \ {Head(s)}
<1>1. /\ Head(s) \in S /\ Tail(s) \in Seq(S)
      /\ Len(s) \in Nat \ {0} /\ Len(Tail(s)) = Len(s) - 1
      /\ \A i \in 1..Len(Tail(s)) : Tail(s)[i] = s[i + 1]
      /\ Head(s) = s[1]
  BY HeadTailProperties, LenProperties, EmptySeq
<1>2. /\ Range(s) = {s[i] : i \in 1..Len(s)}
      /\ Range(Tail(s)) = {Tail(s)[i] : i \in 1..Len(Tail(s))}
  BY <1>1, RangeEquality, Zenon
<1>3. Distinct(Tail(s))
  <2> DEFINE t == Tail(s)
  <2>1. ASSUME NEW i \in 1..Len(t), NEW j \in 1..Len(t), t[i] = t[j]
        PROVE  i = j
    <3>1. i + 1 \in 1..Len(s) /\ j + 1 \in 1..Len(s) /\ (i + 1 = j + 1 => i = j)
      BY <1>1
    <3>2. s[i + 1] = s[j + 1]
      BY <1>1, <2>1
    <3> QED
      BY <3>1, <3>2 DEF Distinct
  <2> QED
    BY <2>1 DEF Distinct
<1>4. ASSUME NEW x PROVE x \in Range(Tail(s)) <=> x \in Range(s) \ {Head(s)}
  <2>1. ASSUME x \in Range(Tail(s)) PROVE x \in Range(s) \ {Head(s)}
    <3>1. PICK i \in 1..Len(Tail(s)) : x = s[i + 1]
      BY <1>1, <1>2, <2>1
    <3> QED
      BY <1>1, <1>2, <3>1 DEF Distinct
  <2>2. ASSUME x \in Range(s) \ {Head(s)} PROVE x \in Range(Tail(s))
    <3>1. PICK i \in 1..Len(s) : x = s[i] /\ i # 1
      BY <1>1, <1>2, <2>2
    <3>2. i - 1 \in 1..Len(Tail(s)) /\ Tail(s)[i - 1] = x
      BY <1>1, <3>1
    <3> QED
      BY <1>2, <3>2
  <2> QED
    BY <2>1, <2>2
<1> QED
  BY <1>1, <1>2, <1>3, <1>4

(* In a queue nobody is in twice there are as many places as members.      *)
LEMMA QueueCounts ==
  ASSUME NEW S, NEW s \in Seq(S), Distinct(s)
  PROVE  /\ IsFiniteSet(Range(s))
         /\ Len(s) = Cardinality(Range(s))
<1>1. Len(s) \in Nat /\ s \in [1..Len(s) -> S] /\ Range(s) = {s[i] : i \in 1..Len(s)}
  BY LenProperties, RangeEquality
<1>2. s \in Bijection(1..Len(s), Range(s))
  BY <1>1 DEF Distinct, Bijection, Injection, Surjection, IsInjective
<1>3. IsFiniteSet(1..Len(s)) /\ Cardinality(1..Len(s)) = Len(s)
  BY <1>1, FS_Interval
<1> QED
  BY <1>2, <1>3, FS_Bijection DEF ExistsBijection

(* Counting the requests in some stages. *)
LEMMA InCounts ==
  ASSUME NEW S
  PROVE  /\ IsFiniteSet(In(S)) /\ Cardinality(In(S)) \in Nat
         /\ \A r \in In(S) : Cardinality(In(S) \ {r}) = Cardinality(In(S)) - 1
         /\ \A r \in In(S), t \in Requests \ In(S) :
              Cardinality((In(S) \ {r}) \cup {t}) = Cardinality(In(S))
         /\ \A r \in Requests \ In(S) :
              Cardinality(In(S) \cup {r}) = Cardinality(In(S)) + 1
         /\ \A r \in In(S) : Cardinality(In(S)) > 0
<1>1. IsFiniteSet(In(S)) /\ Cardinality(In(S)) \in Nat
  BY FiniteAssumption, FS_Subset, FS_CardinalityType DEF In
<1>2. ASSUME NEW r \in In(S)
      PROVE  /\ IsFiniteSet(In(S) \ {r})
             /\ Cardinality(In(S) \ {r}) = Cardinality(In(S)) - 1
             /\ Cardinality(In(S)) > 0
  <2>1. /\ IsFiniteSet(In(S) \ {r})
        /\ Cardinality(In(S) \ {r}) = Cardinality(In(S)) - 1
    BY <1>1, FS_RemoveElement
  <2>2. Cardinality(In(S)) # 0
    BY <1>1, FS_EmptySet
  <2> QED
    BY <1>1, <2>1, <2>2
<1>3. \A r \in Requests \ In(S) : Cardinality(In(S) \cup {r}) = Cardinality(In(S)) + 1
  BY <1>1, FS_AddElement
<1>4. ASSUME NEW r \in In(S), NEW t \in Requests \ In(S)
      PROVE  Cardinality((In(S) \ {r}) \cup {t}) = Cardinality(In(S))
  <2>1. /\ IsFiniteSet(In(S) \ {r}) /\ t \notin In(S) \ {r}
        /\ Cardinality(In(S) \ {r}) = Cardinality(In(S)) - 1
    BY <1>2
  <2>2. Cardinality((In(S) \ {r}) \cup {t}) = Cardinality(In(S) \ {r}) + 1
    BY <2>1, FS_AddElement
  <2> QED
    BY <1>1, <2>1, <2>2
<1> QED
  BY <1>1, <1>2, <1>3, <1>4

-------------------------------------------------------------------------------

Ready == Live \ (InPool \cup {"acquiring"})

(* The variables a task writes when it ends. *)
TaskTypeOK ==
  /\ stage \in [Requests -> Stages]
  /\ status \in [Requests -> Answers \cup {0}]
  /\ logged \in [Requests -> Seq(Answers)]
  /\ permits \in 0..MaxConcurrency
  /\ waiters \in Seq(Requests)

(* A task that ends leaves the types right: a slot it gives back is one    *)
(* that it holds, so that there are never more than there were.            *)
LEMMA ConcludeTypeOK ==
  ASSUME TypeOK, SlotsAreConserved, NEW r \in Requests, stage[r] \in Live,
         NEW code \in Answers, Conclude(r, code)
  PROVE  TaskTypeOK'
<1> USE DEF TypeOK
<1>1. status' \in [Requests -> Answers \cup {0}]
  BY DEF Conclude
<1>2. logged' \in [Requests -> Seq(Answers)]
  <2>1. Append(logged[r], code) \in Seq(Answers)
    BY AppendProperties
  <2> QED
    BY <2>1 DEF Conclude
<1>3. CASE stage[r] \notin Holding
  BY <1>1, <1>2, <1>3 DEF Conclude, slots, Stages, TaskTypeOK
<1>4. CASE stage[r] \in Holding /\ waiters = <<>>
  <2>1. Cardinality(In(Holding)) \in Nat /\ Cardinality(In(Holding)) > 0
    BY <1>4, InCounts DEF In
  <2>2. permits' \in 0..MaxConcurrency
    BY <1>4, <2>1, MaxConcurrencyAssumption DEF SlotsAreConserved, Conclude
  <2> QED
    BY <1>1, <1>2, <1>4, <2>2 DEF Conclude, Stages, TaskTypeOK
<1>5. CASE stage[r] \in Holding /\ waiters # <<>>
  <2>1. Head(waiters) \in Requests /\ Tail(waiters) \in Seq(Requests)
    BY <1>5, HeadTailProperties
  <2>2. stage' \in [Requests -> Stages]
    BY <1>5, <2>1 DEF Conclude, Stages
  <2> QED
    BY <1>1, <1>2, <1>5, <2>1, <2>2 DEF Conclude, TaskTypeOK
<1> QED
  BY <1>3, <1>4, <1>5

(* Handing a job to the blocking threads leaves the types right. *)
LEMMA EnqueueTypeOK ==
  ASSUME TypeOK, NEW r \in Requests, NEW to \in Stages, Enqueue(r, to)
  PROVE  /\ stage' \in [Requests -> Stages]
         /\ jobs' \in Seq(Requests)
         /\ running' \in SUBSET Requests
BY AppendProperties DEF TypeOK, Enqueue, Move

(* The two ways a request is dispatched. *)
Elsewhere == <<strict, phase, status, logged, permits, waiters, jobs, running, taken, outcome,
               refused>>
DispatchAnswers(r, code) ==
  /\ Accepting /\ conn[r] = "head"
  /\ answered' = [answered EXCEPT ![r] = code]
  /\ conn' = [conn EXCEPT ![r] = "none"]
  /\ UNCHANGED stage /\ UNCHANGED Elsewhere
DispatchSpawns(r) ==
  /\ Accepting /\ conn[r] = "head"
  /\ conn' = [conn EXCEPT ![r] = "open"]
  /\ stage' = [stage EXCEPT ![r] = "spawned"]
  /\ UNCHANGED answered /\ UNCHANGED Elsewhere

(* A request is answered at once or becomes a task. *)
LEMMA DispatchCases ==
  ASSUME TypeOK, NEW r \in Requests, Dispatch(r)
  PROVE  /\ post' \in [Requests -> BOOLEAN]
         /\ \/ DispatchAnswers(r, 404) \/ DispatchAnswers(r, 413)
            \/ DispatchSpawns(r)
<1> USE DEF Elsewhere, tasks, slots, pool, mail
<1> PICK messages \in BOOLEAN :
      /\ post' = [post EXCEPT ![r] = messages]
      /\ \/ \E code \in IF messages THEN {413} ELSE {404, 413} :
              /\ answered' = [answered EXCEPT ![r] = code]
              /\ conn' = [conn EXCEPT ![r] = "none"]
              /\ UNCHANGED stage
         \/ /\ messages
            /\ conn' = [conn EXCEPT ![r] = "open"]
            /\ stage' = [stage EXCEPT ![r] = "spawned"]
            /\ UNCHANGED answered
  BY Zenon DEF Dispatch
<1>1. post' \in [Requests -> BOOLEAN]
  BY DEF TypeOK
<1>2. ASSUME NEW code \in IF messages THEN {413} ELSE {404, 413},
             answered' = [answered EXCEPT ![r] = code],
             conn' = [conn EXCEPT ![r] = "none"], UNCHANGED stage
      PROVE  DispatchAnswers(r, 404) \/ DispatchAnswers(r, 413)
  <2>1. code \in {404, 413}
    OBVIOUS
  <2>2. Accepting /\ conn[r] = "head" /\ UNCHANGED Elsewhere
    BY DEF Dispatch
  <2>3. DispatchAnswers(r, code)
    BY <1>2, <2>2, Zenon DEF DispatchAnswers
  <2> QED
    BY <2>1, <2>3
<1>3. ASSUME conn' = [conn EXCEPT ![r] = "open"], stage' = [stage EXCEPT ![r] = "spawned"],
             UNCHANGED answered
      PROVE  DispatchSpawns(r)
  BY <1>3 DEF Dispatch, DispatchSpawns
<1> QED
  BY <1>1, <1>2, <1>3

(* Every step leaves the types right, if the slots are counted right.      *)
LEMMA TypeOKStep == TypeOK /\ SlotsAreConserved /\ [Next]_vars => TypeOK'
<1> SUFFICES ASSUME TypeOK, SlotsAreConserved, [Next]_vars PROVE TypeOK'
  OBVIOUS
<1> USE DEF TypeOK, clients, tasks, slots, pool, mail
<1> DEFINE Codes == {400, 401, 403, 413, 500}
<1>a. ASSUME NEW r \in Requests, NEW code \in Codes,
             stage[r] \in {"spawned", "reading", "built"}
      PROVE  code \in Answers /\ stage[r] \in Live
  BY <1>a DEF Answers, Live, Stages
<1> HIDE DEF Codes
<1>b. {400, 401, 403, 413, 500} \subseteq Codes
  BY DEF Codes
<1>0. ASSUME NEW r \in Requests, NEW code \in Answers, stage[r] \in Live, Conclude(r, code),
             UNCHANGED <<strict, phase, clients, pool, mail>>
      PROVE  TypeOK'
  <2>1. TaskTypeOK'
    BY <1>0, ConcludeTypeOK
  <2> QED
    BY <1>0, <2>1 DEF TaskTypeOK
<1>1. ASSUME NEW r \in Requests, Start(r) PROVE TypeOK'
  <2>1. ASSUME NEW code \in {401, 400}, Conclude(r, code) PROVE TypeOK'
    BY <1>0, <1>a, <1>b, <1>1, <2>1 DEF Start
  <2>2. CASE Move(r, "reading") /\ UNCHANGED <<tasks, slots>>
    BY <1>1, <2>2 DEF Start, Move, Stages
  <2> QED
    BY <1>1, <2>1, <2>2 DEF Start
<1>2. ASSUME NEW r \in Requests, BodyEnds(r) PROVE TypeOK'
  <2>1. ASSUME NEW code \in {400, 403, 413}, Conclude(r, code), UNCHANGED pool PROVE TypeOK'
    BY <1>0, <1>a, <1>b, <1>2, <2>1 DEF BodyEnds
  <2>2. CASE Enqueue(r, "building") /\ UNCHANGED <<tasks, slots>>
    BY <1>2, <2>2, EnqueueTypeOK DEF BodyEnds, Stages
  <2> QED
    BY <1>2, <2>1, <2>2 DEF BodyEnds
<1>3. ASSUME NEW r \in Requests, BodyFails(r) PROVE TypeOK'
  <2>1. 400 \in Answers /\ stage[r] \in Live
    BY <1>3 DEF BodyFails, Answers, Live, Stages
  <2> QED
    BY <1>0, <1>3, <2>1 DEF BodyFails
<1>4. ASSUME NEW r \in Requests, Built(r) PROVE TypeOK'
  <2>1. ASSUME NEW code \in {400, 500}, Conclude(r, code), UNCHANGED pool PROVE TypeOK'
    BY <1>0, <1>a, <1>b, <1>4, <2>1 DEF Built
  <2>2. CASE permits > 0 /\ permits' = permits - 1 /\ Enqueue(r, "resolving")
               /\ UNCHANGED <<waiters, tasks>>
    BY <1>4, <2>2, EnqueueTypeOK, MaxConcurrencyAssumption DEF Built, Stages
  <2>3. CASE waiters' = Append(waiters, r) /\ Move(r, "acquiring")
               /\ UNCHANGED <<permits, tasks, pool>>
    BY <1>4, <2>3, AppendProperties DEF Built, Move, Stages
  <2> HIDE DEF TypeOK
  <2> QED
    BY <1>4, <2>1, <2>2, <2>3, Zenon DEF Built
<1>5. ASSUME NEW r \in Requests, Granted(r) PROVE TypeOK'
  BY <1>5, EnqueueTypeOK DEF Granted, Stages
<1>6. ASSUME NEW r \in Requests, Resolved(r) PROVE TypeOK'
  BY <1>6 DEF Resolved, Move, Stages
<1>7. ASSUME NEW r \in Requests, SessionEnds(r) PROVE TypeOK'
  <2> PICK result \in {"ok", "temporary", "permanent"}, refusals \in SUBSET Recipients :
         /\ outcome' = [outcome EXCEPT ![r] = result]
         /\ refused' = [refused EXCEPT ![r] = refusals]
         /\ UNCHANGED taken
         /\ Conclude(r, StatusOf(result, refusals))
    BY <1>7 DEF SessionEnds
  <2>1. StatusOf(result, refusals) \in Answers
    BY DEF StatusOf, Answers
  <2>2. TaskTypeOK'
    BY <1>7, <2>1, ConcludeTypeOK DEF SessionEnds, Live, Stages
  <2> QED
    BY <1>7, <2>2 DEF SessionEnds, TaskTypeOK
<1>8. ASSUME NEW r \in Requests, Panic(r) PROVE TypeOK'
  BY <1>0, <1>8 DEF Panic, Answers
<1>18. ASSUME NEW r \in Requests, PanicEarly(r) PROVE TypeOK'
  BY <1>18 DEF PanicEarly, Move, Stages, Answers
<1>9. ASSUME NEW r \in Requests, Take(r) PROVE TypeOK'
  BY <1>9 DEF Take
<1>10. ASSUME NEW r \in Requests, Arrive(r) PROVE TypeOK'
  BY <1>10, EmptySeq DEF Arrive, Stages
<1>11. ASSUME NEW r \in Requests, Dispatch(r) PROVE TypeOK'
  <2>1. /\ post' \in [Requests -> BOOLEAN]
        /\ DispatchAnswers(r, 404) \/ DispatchAnswers(r, 413) \/ DispatchSpawns(r)
    BY <1>11, DispatchCases
  <2>2. ASSUME NEW code \in Answers, DispatchAnswers(r, code) PROVE TypeOK'
    BY <2>1, <2>2 DEF DispatchAnswers, Elsewhere
  <2>3. CASE DispatchSpawns(r)
    BY <2>1, <2>3 DEF DispatchSpawns, Elsewhere, Stages
  <2>4. 404 \in Answers /\ 413 \in Answers
    BY DEF Answers
  <2> QED
    BY <2>1, <2>2, <2>3, <2>4
<1>12. ASSUME NEW r \in Requests, Disconnect(r) \/ Respond(r) PROVE TypeOK'
  BY <1>12 DEF Disconnect, Respond
<1>13. ASSUME NEW r \in Requests, JobEnds(r) PROVE TypeOK'
  BY <1>13 DEF JobEnds, Move, Stages
<1>14. ASSUME JobStarts PROVE TypeOK'
  BY <1>14, HeadTailProperties DEF JobStarts
<1>15. ASSUME Signal \/ ServersJoined \/ Exit PROVE TypeOK'
  BY <1>15 DEF Signal, ServersJoined, Exit
<1>16. ASSUME ServerStops PROVE TypeOK'
  <2>1. logged' \in [Requests -> Seq(Answers)]
    <3>1. \A r \in Requests : Append(logged[r], 500) \in Seq(Answers)
      BY AppendProperties DEF Answers
    <3> QED
      BY <1>16, <3>1 DEF ServerStops
  <2>2. status' \in [Requests -> Answers \cup {0}]
    BY <1>16 DEF ServerStops, Answers
  <2>3. stage' \in [Requests -> Stages]
    BY <1>16 DEF ServerStops, Stages, Live
  <2>4. /\ conn' \in [Requests -> {"none", "head", "open"}]
        /\ permits' \in 0..MaxConcurrency
        /\ waiters' \in Seq(Requests) /\ jobs' \in Seq(Requests)
        /\ running' \in SUBSET Requests
    BY <1>16, EmptySeq, MaxConcurrencyAssumption DEF ServerStops
  <2> QED
    BY <1>16, <2>1, <2>2, <2>3, <2>4 DEF ServerStops
<1>17. ASSUME UNCHANGED vars PROVE TypeOK'
  BY <1>17 DEF vars
<1> QED
  BY <1>1, <1>2, <1>3, <1>4, <1>5, <1>6, <1>7, <1>8, <1>9, <1>10, <1>11, <1>12, <1>13,
     <1>14, <1>15, <1>16, <1>17, <1>18 DEF Next, Task, Client, Fault, Process

-------------------------------------------------------------------------------

(* Who is in some stages after one request has moved. *)
LEMMA MoveIn ==
  ASSUME TypeOK, NEW r \in Requests, NEW to \in Stages, Move(r, to), NEW S
  PROVE  /\ stage'[r] = to /\ \A q \in Requests \ {r} : stage'[q] = stage[q]
         /\ In(S)' = IF to \in S THEN In(S) \cup {r} ELSE In(S) \ {r}
BY DEF TypeOK, Move, In

(* A task that ends wakes the first waiter, or nobody. *)
LEMMA ConcludeCases ==
  ASSUME TypeOK, QueueInv, NEW r \in Requests, stage[r] \in Ready, NEW code, Conclude(r, code)
  PROVE  \/ /\ stage[r] \notin Holding \/ waiters = <<>>
            /\ Move(r, "done")
            /\ waiters' = waiters
            /\ permits' = IF stage[r] \in Holding THEN permits + 1 ELSE permits
         \/ /\ stage[r] \in Holding /\ waiters # <<>>
            /\ Head(waiters) \in In({"acquiring"})
            /\ Head(waiters) # r
            /\ stage' = [stage EXCEPT ![r] = "done", ![Head(waiters)] = "granted"]
            /\ waiters' = Tail(waiters)
            /\ permits' = permits
<1>1. CASE stage[r] \notin Holding
  BY <1>1 DEF Conclude, Move, slots
<1>2. CASE stage[r] \in Holding /\ waiters = <<>>
  BY <1>2 DEF Conclude, Move
<1>3. CASE stage[r] \in Holding /\ waiters # <<>>
  <2>1. Head(waiters) \in In({"acquiring"})
    BY <1>3, TailQueue DEF QueueInv, TypeOK
  <2>2. Head(waiters) # r
    BY <2>1 DEF In, Ready
  <2> QED
    BY <1>3, <2>1, <2>2 DEF Conclude
<1> QED
  BY <1>1, <1>2, <1>3

(* Ending a task keeps the queues right. *)
LEMMA ConcludeQueue ==
  ASSUME TypeOK, QueueInv, NEW r \in Requests, stage[r] \in Ready, NEW code, Conclude(r, code),
         UNCHANGED <<jobs, running>>
  PROVE  QueueInv'
<1>1. ASSUME Move(r, "done"), waiters' = waiters PROVE QueueInv'
  <2>1. In({"acquiring"})' = In({"acquiring"}) /\ In(InPool)' = In(InPool)
    BY <1>1 DEF TypeOK, Move, In, Ready, InPool
  <2> QED
    BY <1>1, <2>1 DEF QueueInv, Distinct
<1>2. ASSUME waiters # <<>>, Head(waiters) \in In({"acquiring"}), Head(waiters) # r,
             stage' = [stage EXCEPT ![r] = "done", ![Head(waiters)] = "granted"],
             waiters' = Tail(waiters)
      PROVE  QueueInv'
  <2>1. /\ In({"acquiring"})' = In({"acquiring"}) \ {Head(waiters)}
        /\ In(InPool)' = In(InPool)
    BY <1>2 DEF TypeOK, In, Ready, InPool
  <2>2. Distinct(Tail(waiters)) /\ Range(Tail(waiters)) = Range(waiters) \ {Head(waiters)}
    BY <1>2, TailQueue DEF QueueInv, TypeOK
  <2>3. Distinct(waiters') /\ Range(waiters') = In({"acquiring"})'
    BY <1>2, <2>1, <2>2 DEF QueueInv
  <2> QED
    BY <2>1, <2>3 DEF QueueInv, Distinct
<1> QED
  BY <1>1, <1>2, ConcludeCases

(* So does handing a job to the blocking threads. *)
LEMMA EnqueueQueue ==
  ASSUME TypeOK, QueueInv, NEW r \in Requests, stage[r] \in Ready,
         NEW to \in InPool, Enqueue(r, to), waiters' = waiters
  PROVE  QueueInv'
<1>1. /\ In({"acquiring"})' = In({"acquiring"})
      /\ In(InPool)' = In(InPool) \cup {r}
      /\ r \notin In(InPool)
  BY DEF TypeOK, Enqueue, Move, In, Ready, InPool
<1>2. Distinct(jobs') /\ Range(jobs') = Range(jobs) \cup {r}
  <2>1. r \notin Range(jobs)
    BY <1>1 DEF QueueInv
  <2> QED
    BY <2>1, AppendQueue DEF QueueInv, TypeOK, Enqueue
<1>3. Distinct(waiters')
  BY DEF QueueInv
<1>4. Range(waiters') = In({"acquiring"})'
  BY <1>1 DEF QueueInv
<1>5. Range(jobs') \cap running' = {} /\ Range(jobs') \cup running' = In(InPool)'
  BY <1>1, <1>2 DEF QueueInv, Enqueue
<1> QED
  BY <1>2, <1>3, <1>4, <1>5 DEF QueueInv

(* A step that neither sends anybody to a queue nor calls anybody from one.  *)
LEMMA OtherQueue ==
  ASSUME QueueInv, UNCHANGED <<waiters, jobs, running>>,
         In({"acquiring"})' = In({"acquiring"}), In(InPool)' = In(InPool)
  PROVE  QueueInv'
BY DEF QueueInv, Distinct

(* Every step keeps the queues and the stages together.                    *)
LEMMA QueueStep == TypeOK /\ QueueInv /\ HistoryInv /\ [Next]_vars => QueueInv'
<1> SUFFICES ASSUME TypeOK, QueueInv, HistoryInv, [Next]_vars PROVE QueueInv'
  OBVIOUS
<1> USE DEF clients, tasks, slots, pool, mail
<1>0. ASSUME NEW r \in Requests, NEW code, stage[r] \in Ready, Conclude(r, code), UNCHANGED pool
      PROVE  QueueInv'
  BY <1>0, ConcludeQueue
<1>a. ASSUME NEW r \in Requests, stage[r] \in {"none", "done", "dead"} \cup Ready,
             NEW to \in {"none", "done", "dead"} \cup Ready, Move(r, to), UNCHANGED <<slots, pool>>
      PROVE  QueueInv'
  <2>1. In({"acquiring"})' = In({"acquiring"}) /\ In(InPool)' = In(InPool)
    BY <1>a DEF TypeOK, Move, In, Ready, InPool
  <2> QED
    BY <1>a, <2>1, OtherQueue
<1>1. ASSUME NEW r \in Requests, Start(r) PROVE QueueInv'
  <2>1. stage[r] \in Ready /\ "reading" \in Ready
    BY <1>1 DEF Start, Ready, Live, Stages, InPool
  <2> QED
    BY <1>0, <1>a, <1>1, <2>1 DEF Start
<1>2. ASSUME NEW r \in Requests, BodyEnds(r) PROVE QueueInv'
  <2>1. stage[r] \in Ready /\ "building" \in InPool
    BY <1>2 DEF BodyEnds, Ready, Live, Stages, InPool
  <2> QED
    BY <1>0, <1>2, <2>1, EnqueueQueue DEF BodyEnds
<1>3. ASSUME NEW r \in Requests, BodyFails(r) PROVE QueueInv'
  <2>1. stage[r] \in Ready
    BY <1>3 DEF BodyFails, Ready, Live, Stages, InPool
  <2> QED
    BY <1>0, <1>3, <2>1 DEF BodyFails
<1>4. ASSUME NEW r \in Requests, Built(r) PROVE QueueInv'
  <2>1. stage[r] \in Ready /\ "resolving" \in InPool
    BY <1>4 DEF Built, Ready, Live, Stages, InPool
  <2>2. ASSUME waiters' = Append(waiters, r), Move(r, "acquiring"), UNCHANGED pool
        PROVE  QueueInv'
    <3>1. /\ In({"acquiring"})' = In({"acquiring"}) \cup {r} /\ r \notin In({"acquiring"})
          /\ In(InPool)' = In(InPool)
      BY <2>1, <2>2 DEF TypeOK, Move, In, Ready, InPool
    <3>2. Distinct(waiters') /\ Range(waiters') = Range(waiters) \cup {r}
      BY <2>2, <3>1, AppendQueue DEF QueueInv, TypeOK
    <3>3. Range(waiters') = In({"acquiring"})'
      BY <3>1, <3>2 DEF QueueInv
    <3> QED
      BY <2>2, <3>1, <3>2, <3>3 DEF QueueInv, Distinct
  <2> QED
    BY <1>0, <1>4, <2>1, <2>2, EnqueueQueue DEF Built
<1>5. ASSUME NEW r \in Requests, Granted(r) PROVE QueueInv'
  <2>1. stage[r] \in Ready /\ "resolving" \in InPool
    BY <1>5 DEF Granted, Ready, Live, Stages, InPool
  <2> QED
    BY <1>5, <2>1, EnqueueQueue DEF Granted
<1>6. ASSUME NEW r \in Requests, Resolved(r) PROVE QueueInv'
  <2>1. stage[r] \in Ready /\ "session" \in Ready
    BY <1>6 DEF Resolved, Ready, Live, Stages, InPool
  <2> QED
    BY <1>6, <1>a, <2>1 DEF Resolved
<1>7. ASSUME NEW r \in Requests, SessionEnds(r) PROVE QueueInv'
  <2>1. stage[r] \in Ready
    BY <1>7 DEF SessionEnds, Ready, Live, Stages, InPool
  <2> QED
    BY <1>0, <1>7, <2>1 DEF SessionEnds
<1>8. ASSUME NEW r \in Requests, Panic(r) PROVE QueueInv'
  BY <1>0, <1>8 DEF Panic, Ready
<1>18. ASSUME NEW r \in Requests, PanicEarly(r) PROVE QueueInv'
  <2>1. stage[r] \in Ready
    BY <1>18 DEF PanicEarly, Ready, Live, Stages, InPool
  <2> QED
    BY <1>a, <1>18, <2>1 DEF PanicEarly
<1>9. ASSUME UNCHANGED <<stage, slots, pool>> PROVE QueueInv'
  BY <1>9, OtherQueue DEF In
<1>10. ASSUME NEW r \in Requests, Arrive(r) PROVE QueueInv'
  BY <1>10, <1>a DEF Arrive, Move, Ended
<1>11. ASSUME NEW r \in Requests, Dispatch(r) PROVE QueueInv'
  <2>1. CASE DispatchAnswers(r, 404) \/ DispatchAnswers(r, 413)
    BY <1>9, <2>1 DEF DispatchAnswers, Elsewhere
  <2>2. CASE DispatchSpawns(r)
    <3>1. stage[r] = "none" /\ "spawned" \in Ready
      BY <2>2 DEF DispatchSpawns, HistoryInv, History, Ready, Live, Stages, InPool
    <3> QED
      BY <1>a, <2>2, <3>1 DEF DispatchSpawns, Elsewhere, Move
  <2> QED
    BY <1>11, <2>1, <2>2, DispatchCases
<1>12. ASSUME NEW r \in Requests, Disconnect(r) \/ Respond(r) \/ Take(r) PROVE QueueInv'
  BY <1>9, <1>12 DEF Disconnect, Respond, Take
<1>13. ASSUME NEW r \in Requests, JobEnds(r) PROVE QueueInv'
  <2>1. r \in In(InPool) /\ r \notin Range(jobs)
    BY <1>13 DEF JobEnds, QueueInv
  <2>2. In({"acquiring"})' = In({"acquiring"}) /\ In(InPool)' = In(InPool) \ {r}
    BY <1>13, <2>1 DEF TypeOK, JobEnds, Move, In, InPool
  <2> QED
    BY <1>13, <2>1, <2>2 DEF JobEnds, QueueInv, Distinct
<1>14. ASSUME JobStarts PROVE QueueInv'
  <2>1. /\ Distinct(jobs') /\ Head(jobs) \in Range(jobs)
        /\ Range(jobs') = Range(jobs) \ {Head(jobs)}
    BY <1>14, TailQueue DEF JobStarts, QueueInv, TypeOK
  <2>2. In({"acquiring"})' = In({"acquiring"}) /\ In(InPool)' = In(InPool)
    BY <1>14 DEF JobStarts, In
  <2> QED
    BY <1>14, <2>1, <2>2 DEF JobStarts, QueueInv, Distinct
<1>15. ASSUME Signal \/ ServersJoined \/ Exit PROVE QueueInv'
  BY <1>9, <1>15 DEF Signal, ServersJoined, Exit
<1>16. ASSUME ServerStops PROVE QueueInv'
  <2>1. \A r \in Requests : stage'[r] \in {"none", "done", "dead"}
    BY <1>16 DEF ServerStops, TypeOK, Live, Stages
  <2>2. In({"acquiring"})' = {} /\ In(InPool)' = {}
    BY <2>1 DEF In, InPool
  <2>3. Distinct(<<>>) /\ Range(<<>>) = {}
    BY DEF Distinct, Range
  <2> QED
    BY <1>16, <2>2, <2>3 DEF ServerStops, QueueInv
<1>17. ASSUME UNCHANGED vars PROVE QueueInv'
  BY <1>9, <1>17 DEF vars
<1> QED
  BY <1>1, <1>2, <1>3, <1>4, <1>5, <1>6, <1>7, <1>8, <1>10, <1>11, <1>12, <1>13,
     <1>14, <1>15, <1>16, <1>17, <1>18 DEF Next, Task, Client, Fault, Process

-------------------------------------------------------------------------------

(* Who holds a slot after a task has ended. *)
LEMMA ConcludeSlots ==
  ASSUME TypeOK, QueueInv, SlotsAreConserved, NEW r \in Requests, stage[r] \in Ready,
         NEW code, Conclude(r, code)
  PROVE  SlotsAreConserved'
<1> USE MaxConcurrencyAssumption
<1>0. permits \in Nat /\ Cardinality(In(Holding)) \in Nat
  BY InCounts DEF TypeOK
<1>1. ASSUME stage[r] \notin Holding, Move(r, "done"), waiters' = waiters, permits' = permits
      PROVE  SlotsAreConserved'
  <2>1. In(Holding)' = In(Holding)
    BY <1>1 DEF TypeOK, Move, In, Holding
  <2> QED
    BY <1>1, <2>1 DEF SlotsAreConserved
<1>2. ASSUME stage[r] \in Holding, waiters = <<>>, Move(r, "done"), waiters' = waiters,
             permits' = permits + 1
      PROVE  SlotsAreConserved'
  <2>1. In(Holding)' = In(Holding) \ {r} /\ r \in In(Holding)
    BY <1>2 DEF TypeOK, Move, In, Holding
  <2>2. Cardinality(In(Holding) \ {r}) = Cardinality(In(Holding)) - 1
    BY <2>1, InCounts
  <2> QED
    BY <1>0, <1>2, <2>1, <2>2 DEF SlotsAreConserved
<1>3. ASSUME stage[r] \in Holding, waiters # <<>>, Head(waiters) \in In({"acquiring"}),
             stage' = [stage EXCEPT ![r] = "done", ![Head(waiters)] = "granted"],
             permits' = permits
      PROVE  SlotsAreConserved'
  <2>1. /\ In(Holding)' = (In(Holding) \ {r}) \cup {Head(waiters)}
        /\ r \in In(Holding) /\ Head(waiters) \in Requests \ In(Holding)
    BY <1>3 DEF TypeOK, In, Holding
  <2>2. Cardinality(In(Holding)') = Cardinality(In(Holding))
    BY <2>1, InCounts
  <2> QED
    BY <1>0, <1>3, <2>2 DEF SlotsAreConserved
<1> QED
  BY <1>1, <1>2, <1>3, ConcludeCases

(* A step that leaves the slots to those who hold them. *)
LEMMA OtherSlots ==
  ASSUME SlotsAreConserved, UNCHANGED <<permits, waiters>>, In(Holding)' = In(Holding)
  PROVE  SlotsAreConserved'
BY DEF SlotsAreConserved

(* Every step keeps the slots and the stages together.                     *)
LEMMA SlotsStep ==
  TypeOK /\ QueueInv /\ HistoryInv /\ SlotsAreConserved /\ [Next]_vars => SlotsAreConserved'
<1> SUFFICES ASSUME TypeOK, QueueInv, HistoryInv, SlotsAreConserved, [Next]_vars
             PROVE  SlotsAreConserved'
  OBVIOUS
<1> USE DEF clients, tasks, slots, pool, mail
<1>a. ASSUME NEW r \in Requests, NEW to \in Stages, Move(r, to), UNCHANGED slots,
             stage[r] \in Holding <=> to \in Holding
      PROVE  SlotsAreConserved'
  <2>1. In(Holding)' = In(Holding)
    BY <1>a DEF TypeOK, Move, In
  <2> QED
    BY <1>a, <2>1, OtherSlots
<1>1. ASSUME NEW r \in Requests, Start(r) PROVE SlotsAreConserved'
  <2>1. stage[r] \in Ready /\ stage[r] \notin Holding
        /\ "reading" \in Stages /\ "reading" \notin Holding
    BY <1>1 DEF Start, Ready, Live, Stages, InPool, Holding
  <2> QED
    BY <1>a, <1>1, <2>1, ConcludeSlots DEF Start
<1>2. ASSUME NEW r \in Requests, BodyEnds(r) PROVE SlotsAreConserved'
  <2>1. stage[r] \in Ready /\ stage[r] \notin Holding
        /\ "building" \in Stages /\ "building" \notin Holding
    BY <1>2 DEF BodyEnds, Ready, Live, Stages, InPool, Holding
  <2> QED
    BY <1>a, <1>2, <2>1, ConcludeSlots DEF BodyEnds, Enqueue
<1>3. ASSUME NEW r \in Requests, BodyFails(r) PROVE SlotsAreConserved'
  <2>1. stage[r] \in Ready
    BY <1>3 DEF BodyFails, Ready, Live, Stages, InPool
  <2> QED
    BY <1>3, <2>1, ConcludeSlots DEF BodyFails
<1>4. ASSUME NEW r \in Requests, Built(r) PROVE SlotsAreConserved'
  <2>1. stage[r] \in Ready /\ stage[r] \notin Holding
    BY <1>4 DEF Built, Ready, Live, Stages, InPool, Holding
  <2>2. ASSUME permits > 0, permits' = permits - 1, Move(r, "resolving"), waiters' = waiters
        PROVE  SlotsAreConserved'
    <3>1. In(Holding)' = In(Holding) \cup {r} /\ r \in Requests \ In(Holding)
      BY <2>1, <2>2 DEF TypeOK, Move, In, Holding
    <3>2. Cardinality(In(Holding)') = Cardinality(In(Holding)) + 1
      BY <3>1, InCounts
    <3>3. permits \in Nat /\ Cardinality(In(Holding)) \in Nat
      BY InCounts, MaxConcurrencyAssumption DEF TypeOK
    <3> QED
      BY <2>2, <3>2, <3>3 DEF SlotsAreConserved
  <2>3. ASSUME permits = 0, permits' = permits, Move(r, "acquiring") PROVE SlotsAreConserved'
    <3>1. In(Holding)' = In(Holding)
      BY <2>1, <2>3 DEF TypeOK, Move, In, Holding
    <3> QED
      BY <2>3, <3>1 DEF SlotsAreConserved
  <2> QED
    BY <1>4, <2>1, <2>2, <2>3, ConcludeSlots DEF Built, Enqueue
<1>5. ASSUME NEW r \in Requests, Granted(r) PROVE SlotsAreConserved'
  <2>1. stage[r] \in Holding /\ "resolving" \in Holding /\ "resolving" \in Stages
    BY <1>5 DEF Granted, Holding, Stages
  <2> QED
    BY <1>a, <1>5, <2>1 DEF Granted, Enqueue
<1>6. ASSUME NEW r \in Requests, Resolved(r) PROVE SlotsAreConserved'
  <2>1. stage[r] \in Holding /\ "session" \in Holding /\ "session" \in Stages
    BY <1>6 DEF Resolved, Holding, Stages
  <2> QED
    BY <1>a, <1>6, <2>1 DEF Resolved
<1>7. ASSUME NEW r \in Requests, SessionEnds(r) PROVE SlotsAreConserved'
  <2>1. stage[r] \in Ready
    BY <1>7 DEF SessionEnds, Ready, Live, Stages, InPool
  <2> QED
    BY <1>7, <2>1, ConcludeSlots DEF SessionEnds
<1>8. ASSUME NEW r \in Requests, Panic(r) PROVE SlotsAreConserved'
  BY <1>8, ConcludeSlots DEF Panic, Ready
<1>18. ASSUME NEW r \in Requests, PanicEarly(r) PROVE SlotsAreConserved'
  <2>1. stage[r] \notin Holding /\ "dead" \notin Holding /\ "dead" \in Stages
    BY <1>18 DEF PanicEarly, Holding, Stages
  <2> QED
    BY <1>a, <1>18, <2>1 DEF PanicEarly
<1>9. ASSUME UNCHANGED <<stage, slots>> PROVE SlotsAreConserved'
  BY <1>9, OtherSlots DEF In
<1>10. ASSUME NEW r \in Requests, Arrive(r) PROVE SlotsAreConserved'
  <2>1. stage[r] \notin Holding /\ "none" \notin Holding /\ "none" \in Stages
    BY <1>10 DEF Arrive, Holding, Stages, Ended
  <2> QED
    BY <1>a, <1>10, <2>1 DEF Arrive, Move
<1>11. ASSUME NEW r \in Requests, Dispatch(r) PROVE SlotsAreConserved'
  <2>1. CASE DispatchAnswers(r, 404) \/ DispatchAnswers(r, 413)
    BY <1>9, <2>1 DEF DispatchAnswers, Elsewhere
  <2>2. CASE DispatchSpawns(r)
    <3>1. stage[r] \notin Holding /\ "spawned" \notin Holding /\ "spawned" \in Stages
      BY <2>2 DEF DispatchSpawns, HistoryInv, History, Holding, Stages
    <3> QED
      BY <1>a, <2>2, <3>1 DEF DispatchSpawns, Elsewhere, Move
  <2> QED
    BY <1>11, <2>1, <2>2, DispatchCases
<1>12. ASSUME NEW r \in Requests, Disconnect(r) \/ Respond(r) \/ Take(r)
       PROVE  SlotsAreConserved'
  BY <1>9, <1>12 DEF Disconnect, Respond, Take
<1>13. ASSUME NEW r \in Requests, JobEnds(r) PROVE SlotsAreConserved'
  <2>1. stage[r] \in InPool
    BY <1>13 DEF JobEnds, QueueInv, In
  <2>2. CASE stage[r] = "building"
    <3>1. Move(r, "built") /\ "built" \in Stages /\ "built" \notin Holding /\ stage[r] \notin Holding
      BY <1>13, <2>2 DEF JobEnds, Stages, Holding
    <3> QED
      BY <1>a, <1>13, <3>1 DEF JobEnds
  <2>3. CASE stage[r] = "resolving"
    <3>1. Move(r, "resolved") /\ "resolved" \in Stages /\ "resolved" \in Holding /\ stage[r] \in Holding
      BY <1>13, <2>3 DEF JobEnds, Stages, Holding
    <3> QED
      BY <1>a, <1>13, <3>1 DEF JobEnds
  <2> QED
    BY <2>1, <2>2, <2>3 DEF InPool
<1>14. ASSUME JobStarts \/ Signal \/ ServersJoined \/ Exit PROVE SlotsAreConserved'
  BY <1>9, <1>14 DEF JobStarts, Signal, ServersJoined, Exit
<1>16. ASSUME ServerStops PROVE SlotsAreConserved'
  <2>1. \A r \in Requests : stage'[r] \in {"none", "done", "dead"}
    BY <1>16 DEF ServerStops, TypeOK, Live, Stages
  <2>2. In(Holding)' = {} /\ Cardinality({}) = 0
    BY <2>1, FS_EmptySet DEF In, Holding
  <2> QED
    BY <1>16, <2>2, MaxConcurrencyAssumption DEF ServerStops, SlotsAreConserved
<1>17. ASSUME UNCHANGED vars PROVE SlotsAreConserved'
  BY <1>9, <1>17 DEF vars
<1> QED
  BY <1>1, <1>2, <1>3, <1>4, <1>5, <1>6, <1>7, <1>8, <1>10, <1>11, <1>12, <1>13,
     <1>14, <1>16, <1>17, <1>18 DEF Next, Task, Client, Fault, Process

-------------------------------------------------------------------------------

(* Nothing of a request's history changes while its task goes on.          *)
LEMMA HistoryGoesOn ==
  ASSUME NEW q, History(q),
         conn'[q] = conn[q], answered'[q] = answered[q], status'[q] = status[q],
         logged'[q] = logged[q], taken'[q] = taken[q], outcome'[q] = outcome[q],
         refused'[q] = refused[q], strict' = strict,
         \/ stage'[q] = stage[q]
         \/ stage[q] \in Live \ {"session"} /\ stage'[q] \in Live
  PROVE  History(q)'
<1>1. CASE stage'[q] = stage[q]
  <2>1. Delivered(q) => Delivered(q)'
    BY DEF Delivered
  <2> QED
    BY <1>1, <2>1 DEF History
<1>2. CASE stage[q] \in Live \ {"session"} /\ stage'[q] \in Live
  <2>1. stage[q] \notin {"none", "session", "done", "dead"} /\ stage'[q] \notin {"none", "done", "dead"}
    BY <1>2 DEF Live
  <2> QED
    BY <2>1 DEF History
<1> QED
  BY <1>1, <1>2

(* A task that has not ended has no answer. *)
LEMMA LiveHistory ==
  ASSUME NEW q, History(q), stage[q] \in Live
  PROVE  answered[q] = 0 /\ logged[q] = <<>> /\ conn[q] # "head"
BY DEF History, Live, Stages

(* Before the first poll nothing has happened to the message either. *)
LEMMA SpawnedHistory ==
  ASSUME NEW q, History(q), stage[q] = "spawned"
  PROVE  /\ answered[q] = 0 /\ logged[q] = <<>> /\ conn[q] # "head"
         /\ taken[q] = {} /\ outcome[q] = "pending"
BY DEF History

(* The end of a task: its record is written, the others go on.             *)
LEMMA ConcludeHistory ==
  ASSUME TypeOK, QueueInv, HistoryInv, NEW r \in Requests, stage[r] \in Ready,
         NEW code \in Answers, Conclude(r, code), UNCHANGED <<strict, conn, answered>>,
         \A q \in Requests \ {r} : /\ taken'[q] = taken[q] /\ outcome'[q] = outcome[q]
                                 /\ refused'[q] = refused[q],
         status'[r] = code => Delivered(r)'
  PROVE  HistoryInv'
<1> DEFINE Goes(q) == \/ stage'[q] = stage[q]
                      \/ stage[q] \in Live \ {"session"} /\ stage'[q] \in Live
<1>1. stage'[r] = "done" /\ \A q \in Requests \ {r} : Goes(q)
  <2>1. ASSUME Move(r, "done")
        PROVE  stage'[r] = "done" /\ \A q \in Requests \ {r} : Goes(q)
    BY <2>1, MoveIn DEF Stages
  <2>2. ASSUME Head(waiters) \in In({"acquiring"}), Head(waiters) # r,
               stage' = [stage EXCEPT ![r] = "done", ![Head(waiters)] = "granted"]
        PROVE  stage'[r] = "done" /\ \A q \in Requests \ {r} : Goes(q)
    BY <2>2 DEF TypeOK, In, Live, Stages
  <2> QED
    BY <2>1, <2>2, ConcludeCases
<1>2. /\ status'[r] = code /\ logged'[r] = <<code>>
      /\ \A q \in Requests \ {r} : status'[q] = status[q] /\ logged'[q] = logged[q]
  <2>1. logged[r] = <<>>
    BY LiveHistory DEF HistoryInv, Ready
  <2>2. Append(<<>>, code) = <<code>>
    OBVIOUS
  <2> QED
    BY <2>1, <2>2 DEF Conclude, TypeOK
<1>3. ASSUME NEW q \in Requests \ {r} PROVE History(q)'
  BY <1>1, <1>2, HistoryGoesOn DEF HistoryInv
<1>4. History(r)'
  <2>1. answered[r] = 0 /\ conn[r] # "head"
    BY LiveHistory DEF HistoryInv, Ready
  <2> QED
    BY <1>1, <1>2, <2>1 DEF History
<1> QED
  BY <1>3, <1>4 DEF HistoryInv

(* What submit reports is what the status tells.                           *)
LEMMA SessionDelivers ==
  ASSUME TypeOK, NEW r \in Requests, History(r), stage[r] = "session",
         NEW result \in {"ok", "temporary", "permanent"}, NEW refusals \in SUBSET Recipients,
         outcome' = [outcome EXCEPT ![r] = result], refused' = [refused EXCEPT ![r] = refusals],
         UNCHANGED <<taken, strict>>, Sub(r)!Succeed \/ Sub(r)!Fail,
         status'[r] = StatusOf(result, refusals)
  PROVE  Delivered(r)'
<1>1. outcome'[r] = result /\ refused'[r] = refusals /\ taken'[r] = taken[r]
  BY DEF TypeOK
<1>2. CASE result = "temporary"
  <2>1. status'[r] = 503
    BY <1>2 DEF StatusOf
  <2> QED
    BY <1>1, <1>2, <2>1 DEF Delivered
<1>3. CASE result = "permanent"
  <2>1. status'[r] = 502
    BY <1>3 DEF StatusOf
  <2> QED
    BY <1>1, <1>3, <2>1 DEF Delivered
<1>4. CASE result = "ok"
  <2>1. Sub(r)!Succeed
    BY <1>1, <1>4 DEF Sub!Fail, Sub!Failures
  <2>2. Recipients \ refusals \subseteq taken[r] /\ refusals # Recipients
    BY <1>1, <2>1 DEF Sub!Succeed
  <2>3. status'[r] = IF refusals # {} /\ strict THEN 502 ELSE 200
    BY <1>4 DEF StatusOf
  <2> QED
    BY <1>1, <1>4, <2>2, <2>3 DEF Delivered
<1> QED
  BY <1>2, <1>3, <1>4

(* Every step keeps the history of every request coherent.                 *)
LEMMA HistoryStep == TypeOK /\ QueueInv /\ HistoryInv /\ [Next]_vars => HistoryInv'
<1> SUFFICES ASSUME TypeOK, QueueInv, HistoryInv, [Next]_vars PROVE HistoryInv'
  OBVIOUS
<1> USE DEF clients, tasks, slots, pool, mail
<1>0. ASSUME NEW r \in Requests, NEW code \in {400, 401, 403, 413, 500}, Conclude(r, code),
             \/ stage[r] \in {"spawned", "reading", "built"}
             \/ stage[r] \in Ready /\ code = 500,
             UNCHANGED <<strict, clients, mail>>
      PROVE  HistoryInv'
  <2>1. stage[r] \in Ready /\ code \in Answers
    BY <1>0 DEF Ready, Live, Stages, InPool, Answers
  <2>2. /\ outcome[r] = "pending"
        /\ stage[r] \notin {"session", "done"} => taken[r] = {}
    <3>1. stage[r] # "done"
      BY <2>1 DEF Ready, Live
    <3>2. History(r)
      BY DEF HistoryInv
    <3> QED
      BY <3>1, <3>2 DEF History
  <2>3. ASSUME code # 500 PROVE taken[r] = {}
    BY <1>0, <2>2, <2>3
  <2>4. ASSUME status'[r] = code PROVE Delivered(r)'
    <3>1. /\ outcome'[r] = "pending" /\ taken'[r] = taken[r] /\ status'[r] = code
          /\ code \in {400, 401, 403, 413, 500}
      BY <1>0, <2>2, <2>4
    <3>2. status'[r] \notin {200, 502, 503} /\ (status'[r] \in 400..499 => code # 500)
      BY <3>1
    <3>3. status'[r] \in 400..499 => taken'[r] = {}
      BY <2>3, <3>1, <3>2
    <3> QED
      BY <3>1, <3>2, <3>3 DEF Delivered
  <2> QED
    BY <1>0, <2>1, <2>4, ConcludeHistory
<1>a. ASSUME NEW r \in Requests, stage[r] \in Live \ {"session"}, NEW to \in Live, Move(r, to),
             UNCHANGED <<strict, clients, tasks, mail>>
      PROVE  HistoryInv'
  <2>1. \A q \in Requests : \/ stage'[q] = stage[q]
                            \/ stage[q] \in Live \ {"session"} /\ stage'[q] \in Live
    BY <1>a DEF TypeOK, Move
  <2>2. ASSUME NEW q \in Requests PROVE History(q)'
    BY <1>a, <2>1, HistoryGoesOn DEF HistoryInv
  <2> QED
    BY <2>2 DEF HistoryInv
<1>1. ASSUME NEW r \in Requests, Start(r) PROVE HistoryInv'
  <2>1. stage[r] \in Live \ {"session"} /\ "reading" \in Live
    BY <1>1 DEF Start, Live, Stages
  <2> QED
    BY <1>0, <1>a, <1>1, <2>1 DEF Start
<1>2. ASSUME NEW r \in Requests, BodyEnds(r) PROVE HistoryInv'
  <2>1. stage[r] \in Live \ {"session"} /\ "building" \in Live
    BY <1>2 DEF BodyEnds, Live, Stages
  <2> QED
    BY <1>0, <1>a, <1>2, <2>1 DEF BodyEnds, Enqueue
<1>3. ASSUME NEW r \in Requests, BodyFails(r) PROVE HistoryInv'
  BY <1>0, <1>3 DEF BodyFails
<1>4. ASSUME NEW r \in Requests, Built(r) PROVE HistoryInv'
  <2>1. stage[r] \in Live \ {"session"} /\ "resolving" \in Live /\ "acquiring" \in Live
    BY <1>4 DEF Built, Live, Stages
  <2> QED
    BY <1>0, <1>a, <1>4, <2>1 DEF Built, Enqueue
<1>5. ASSUME NEW r \in Requests, Granted(r) PROVE HistoryInv'
  <2>1. stage[r] \in Live \ {"session"} /\ "resolving" \in Live
    BY <1>5 DEF Granted, Live, Stages
  <2> QED
    BY <1>a, <1>5, <2>1 DEF Granted, Enqueue
<1>6. ASSUME NEW r \in Requests, Resolved(r) PROVE HistoryInv'
  <2>1. stage[r] \in Live \ {"session"} /\ "session" \in Live
    BY <1>6 DEF Resolved, Live, Stages
  <2> QED
    BY <1>a, <1>6, <2>1 DEF Resolved
<1>7. ASSUME NEW r \in Requests, SessionEnds(r) PROVE HistoryInv'
  <2> PICK result \in {"ok", "temporary", "permanent"}, refusals \in SUBSET Recipients :
         /\ outcome' = [outcome EXCEPT ![r] = result]
         /\ refused' = [refused EXCEPT ![r] = refusals]
         /\ UNCHANGED taken
         /\ Sub(r)!Succeed \/ Sub(r)!Fail
         /\ Conclude(r, StatusOf(result, refusals))
    BY <1>7 DEF SessionEnds
  <2>1. stage[r] \in Ready /\ stage[r] = "session" /\ UNCHANGED <<strict, conn, answered>>
    BY <1>7 DEF SessionEnds, Ready, Live, Stages, InPool
  <2>2. StatusOf(result, refusals) \in Answers
    BY DEF StatusOf, Answers
  <2>3. ASSUME status'[r] = StatusOf(result, refusals) PROVE Delivered(r)'
    BY <2>1, <2>3, SessionDelivers DEF HistoryInv
  <2>4. \A q \in Requests \ {r} : /\ taken'[q] = taken[q] /\ outcome'[q] = outcome[q]
                                /\ refused'[q] = refused[q]
    BY DEF TypeOK
  <2> QED
    BY <2>1, <2>2, <2>3, <2>4, ConcludeHistory
<1>8. ASSUME NEW r \in Requests, Panic(r) PROVE HistoryInv'
  BY <1>0, <1>8 DEF Panic, Ready
<1>b. ASSUME NEW r \in Requests, History(r)', UNCHANGED strict,
             \A q \in Requests \ {r} :
               /\ stage'[q] = stage[q] /\ conn'[q] = conn[q] /\ answered'[q] = answered[q]
               /\ status'[q] = status[q] /\ logged'[q] = logged[q] /\ taken'[q] = taken[q]
               /\ outcome'[q] = outcome[q] /\ refused'[q] = refused[q]
      PROVE  HistoryInv'
  <2>1. ASSUME NEW q \in Requests \ {r} PROVE History(q)'
    BY <1>b, HistoryGoesOn DEF HistoryInv
  <2> QED
    BY <1>b, <2>1 DEF HistoryInv
<1>18. ASSUME NEW r \in Requests, PanicEarly(r) PROVE HistoryInv'
  <2>1. /\ UNCHANGED <<strict, conn, answered, logged, taken, outcome, refused>>
        /\ stage' = [stage EXCEPT ![r] = "dead"] /\ status' = [status EXCEPT ![r] = 500]
    BY <1>18 DEF PanicEarly, Move
  <2>2. /\ answered[r] = 0 /\ logged[r] = <<>> /\ conn[r] # "head"
        /\ taken[r] = {} /\ outcome[r] = "pending"
    <3>1. History(r) /\ stage[r] = "spawned"
      BY <1>18 DEF PanicEarly, HistoryInv
    <3> QED
      BY <3>1, SpawnedHistory
  <2>3. History(r)'
    BY <2>1, <2>2 DEF TypeOK, History
  <2> QED
    BY <1>b, <2>1, <2>3 DEF TypeOK
<1>9. ASSUME NEW r \in Requests, Take(r) PROVE HistoryInv'
  <2>1. PICK t \in SUBSET Recipients : taken' = [taken EXCEPT ![r] = t]
    BY <1>9 DEF Take
  <2>2. stage[r] = "session" \/ (stage[r] = "done" /\ outcome[r] = "temporary" /\ status[r] = 503)
    <3>1. stage[r] = "session" \/ outcome[r] = "temporary"
      BY <1>9 DEF Take
    <3>2. /\ stage[r] = "done" => Delivered(r)
          /\ stage[r] \notin {"session", "done"} => outcome[r] = "pending"
      BY DEF HistoryInv, History
    <3>3. stage[r] = "session" \/ (stage[r] = "done" /\ outcome[r] = "temporary")
      BY <3>1, <3>2
    <3> QED
      BY <3>2, <3>3 DEF Delivered
  <2>3. UNCHANGED <<strict, conn, answered, stage, status, logged, outcome, refused>>
    BY <1>9 DEF Take
  <2>4. Delivered(r)' \/ stage[r] = "session"
    BY <2>2, <2>3 DEF Delivered
  <2>5. History(r)'
    <3>1. History(r)
      BY DEF HistoryInv
    <3>2. stage[r] = "session" \/ stage[r] = "done"
      BY <2>2
    <3> QED
      BY <2>3, <2>4, <3>1, <3>2 DEF History
  <2> QED
    BY <1>b, <2>1, <2>3, <2>5 DEF TypeOK
<1>10. ASSUME NEW r \in Requests, Arrive(r) PROVE HistoryInv'
  <2>1. History(r)'
    BY <1>10 DEF Arrive, TypeOK, History
  <2> QED
    BY <1>b, <1>10, <2>1 DEF Arrive, TypeOK
<1>11. ASSUME NEW r \in Requests, Dispatch(r) PROVE HistoryInv'
  <2>1. ASSUME NEW code \in {404, 413}, DispatchAnswers(r, code) PROVE HistoryInv'
    <3>1. History(r)'
      BY <2>1 DEF DispatchAnswers, Elsewhere, TypeOK, HistoryInv, History
    <3> QED
      BY <1>b, <2>1, <3>1 DEF DispatchAnswers, Elsewhere, TypeOK
  <2>2. CASE DispatchSpawns(r)
    <3>1. History(r)'
      BY <2>2 DEF DispatchSpawns, Elsewhere, TypeOK, HistoryInv, History
    <3> QED
      BY <1>b, <2>2, <3>1 DEF DispatchSpawns, Elsewhere, TypeOK
  <2> QED
    BY <1>11, <2>1, <2>2, DispatchCases
<1>12. ASSUME NEW r \in Requests, Disconnect(r) \/ Respond(r) PROVE HistoryInv'
  <2>1. /\ UNCHANGED <<strict, stage, status, logged, taken, outcome, refused>>
        /\ conn' = [conn EXCEPT ![r] = "none"]
        /\ \/ answered' = answered
           \/ answered' = [answered EXCEPT ![r] = status[r]] /\ stage[r] \in {"done", "dead"}
    BY <1>12 DEF Disconnect, Respond, Ended
  <2>2. Delivered(r)' <=> Delivered(r)
    BY <2>1 DEF Delivered
  <2>3. History(r)'
    BY <2>1, <2>2 DEF TypeOK, HistoryInv, History
  <2> QED
    BY <1>b, <2>1, <2>3 DEF TypeOK
<1>13. ASSUME NEW r \in Requests, JobEnds(r) PROVE HistoryInv'
  <2>1. stage[r] \in Live \ {"session"} /\ "built" \in Live /\ "resolved" \in Live
    BY <1>13 DEF JobEnds, QueueInv, In, InPool, Live, Stages
  <2>2. \E to \in Live : Move(r, to)
    BY <1>13, <2>1 DEF JobEnds
  <2> QED
    BY <1>a, <1>13, <2>1, <2>2 DEF JobEnds
<1>14. ASSUME UNCHANGED <<strict, clients, stage, tasks, mail>> PROVE HistoryInv'
  <2>1. ASSUME NEW q \in Requests PROVE History(q)'
    BY <1>14, HistoryGoesOn DEF HistoryInv
  <2> QED
    BY <2>1 DEF HistoryInv
<1>15. ASSUME JobStarts \/ Signal \/ ServersJoined \/ Exit PROVE HistoryInv'
  BY <1>14, <1>15 DEF JobStarts, Signal, ServersJoined, Exit
<1>16. ASSUME ServerStops PROVE HistoryInv'
  <2> SUFFICES ASSUME NEW q \in Requests PROVE History(q)'
    BY DEF HistoryInv
  <2>1. /\ UNCHANGED <<strict, answered, taken, outcome, refused>> /\ conn'[q] = "none"
        /\ stage[q] \in Stages
    BY <1>16 DEF ServerStops, TypeOK
  <2>2. CASE stage[q] \in Live \ {"spawned"}
    <3>1. stage'[q] = "done" /\ status'[q] = 500 /\ logged'[q] = <<500>>
      <4>1. logged[q] = <<>> /\ Append(<<>>, 500) = <<500>>
        BY <2>2, LiveHistory DEF HistoryInv
      <4>2. q \in In(Live \ {"spawned"}) /\ stage[q] # "spawned"
        BY <2>2 DEF In
      <4>3. /\ status'[q] = 500 /\ logged'[q] = Append(logged[q], 500)
            /\ stage'[q] = "done"
        BY <1>16, <2>2, <4>2 DEF ServerStops
      <4> QED
        BY <4>1, <4>3
    <3>2. answered[q] = 0 /\ outcome[q] = "pending"
      BY <2>2, LiveHistory DEF HistoryInv, History, Live
    <3> QED
      BY <2>1, <3>1, <3>2 DEF History, Delivered
  <2>3. CASE stage[q] = "spawned"
    <3>1. stage'[q] = "none" /\ status'[q] = status[q] /\ logged'[q] = logged[q]
      BY <1>16, <2>3 DEF ServerStops, In
    <3>2. /\ answered[q] = 0 /\ logged[q] = <<>> /\ taken[q] = {} /\ outcome[q] = "pending"
      BY <2>3, SpawnedHistory DEF HistoryInv
    <3> QED
      BY <2>1, <3>1, <3>2 DEF History
  <2>4. CASE stage[q] \in {"none", "done", "dead"}
    <3>1. stage'[q] = stage[q] /\ status'[q] = status[q] /\ logged'[q] = logged[q]
      BY <1>16, <2>4 DEF ServerStops, In, Live
    <3>2. Delivered(q)' <=> Delivered(q)
      BY <2>1, <3>1 DEF Delivered
    <3> QED
      BY <2>1, <3>1, <3>2 DEF HistoryInv, History
  <2> QED
    BY <2>1, <2>2, <2>3, <2>4 DEF Live
<1>17. ASSUME UNCHANGED vars PROVE HistoryInv'
  BY <1>14, <1>17 DEF vars
<1> QED
  BY <1>1, <1>2, <1>3, <1>4, <1>5, <1>6, <1>7, <1>8, <1>9, <1>10, <1>11, <1>12, <1>13,
     <1>15, <1>16, <1>17, <1>18 DEF Next, Task, Client, Fault, Process

-------------------------------------------------------------------------------

(* No step opens a connection or spawns a task once the servers are joined, *)
(* and the process exits only when the last task has ended.                 *)
LEMMA StopStep == TypeOK /\ QueueInv /\ StopInv /\ [Next]_vars => StopInv'
<1> SUFFICES ASSUME TypeOK, QueueInv, StopInv, [Next]_vars PROVE StopInv'
  OBVIOUS
<1> USE DEF clients, tasks, slots, pool, mail
<1>0. ASSUME Accepting, phase' = phase PROVE StopInv'
  BY <1>0 DEF Accepting, StopInv
<1>a. ASSUME NEW r \in Requests, stage[r] \in Live, UNCHANGED <<phase, conn>> PROVE StopInv'
  <2>1. phase # "exited"
    BY <1>a DEF StopInv, In
  <2> QED
    BY <1>a, <2>1 DEF StopInv
<1>1. ASSUME NEW r \in Requests, Task(r) \/ BodyEnds(r) \/ Panic(r) \/ PanicEarly(r)
      PROVE  StopInv'
  <2>1. stage[r] \in Ready /\ UNCHANGED <<phase, conn>>
    BY <1>1 DEF Task, Start, BodyEnds, BodyFails, Built, Granted, Resolved, SessionEnds, Panic,
                PanicEarly, Ready, Live, Stages, InPool
  <2> QED
    BY <1>a, <2>1 DEF Ready
<1>2. ASSUME NEW r \in Requests, Arrive(r) \/ Dispatch(r) \/ Disconnect(r) \/ Respond(r)
      PROVE  StopInv'
  BY <1>0, <1>2 DEF Arrive, Dispatch, Disconnect, Respond, Accepting
<1>3. ASSUME NEW r \in Requests, JobEnds(r) PROVE StopInv'
  <2>1. stage[r] \in Live
    BY <1>3 DEF JobEnds, QueueInv, In, InPool, Live, Stages
  <2> QED
    BY <1>a, <1>3, <2>1 DEF JobEnds
<1>4. ASSUME UNCHANGED <<phase, conn, stage>> PROVE StopInv'
  BY <1>4 DEF StopInv, In
<1>5. ASSUME NEW r \in Requests, Take(r) PROVE StopInv'
  BY <1>4, <1>5 DEF Take
<1>6. ASSUME JobStarts PROVE StopInv'
  BY <1>4, <1>6 DEF JobStarts
<1>7. ASSUME Signal \/ ServersJoined PROVE StopInv'
  BY <1>7 DEF Signal, ServersJoined, StopInv
<1>8. ASSUME Exit PROVE StopInv'
  BY <1>8 DEF Exit, StopInv, In
<1>9. ASSUME ServerStops PROVE StopInv'
  BY <1>9 DEF ServerStops, StopInv
<1>10. ASSUME UNCHANGED vars PROVE StopInv'
  BY <1>4, <1>10 DEF vars
<1> QED
  BY <1>1, <1>2, <1>3, <1>5, <1>6, <1>7, <1>8, <1>9, <1>10 DEF Next, Client, Fault, Process

(* The relay starts with every slot free and nothing to remember. *)
LEMMA InitInv == Init => IInv
<1> SUFFICES ASSUME Init PROVE IInv
  OBVIOUS
<1>1. TypeOK
  BY EmptySeq, MaxConcurrencyAssumption DEF Init, TypeOK, Stages
<1>2. \A S : "none" \notin S => In(S) = {}
  BY DEF Init, In
<1>3. SlotsAreConserved
  <2>1. Cardinality(In(Holding)) = 0
    BY <1>2, FS_EmptySet DEF Holding
  <2> QED
    BY <2>1, MaxConcurrencyAssumption DEF Init, SlotsAreConserved
<1>4. QueueInv
  <2>1. Distinct(<<>>) /\ Range(<<>>) = {}
    BY DEF Distinct, Range
  <2> QED
    BY <1>2, <2>1 DEF Init, QueueInv, InPool
<1>5. HistoryInv
  BY DEF Init, HistoryInv, History
<1>6. StopInv
  BY DEF Init, StopInv
<1> QED
  BY <1>1, <1>3, <1>4, <1>5, <1>6 DEF IInv

(* The parts of the invariant hold each other up: the types need the slots  *)
(* counted right, the count needs the queues, the queues the histories.     *)
THEOREM Invariance == Spec => []IInv
<1>1. IInv /\ [Next]_vars => IInv'
  BY TypeOKStep, SlotsStep, QueueStep, HistoryStep, StopStep DEF IInv
<1> QED
  BY <1>1, InitInv, PTL DEF Spec

-------------------------------------------------------------------------------

(* Types: in particular there are never more free slots than the limit set  *)
(* by SMTP_MAX_CONCURRENCY, and never fewer than none.                      *)
THEOREM TypeCorrect == Spec => []TypeOK
<1>1. IInv => TypeOK
  BY DEF IInv
<1> QED
  BY <1>1, Invariance, PTL

(* However tasks end (answered, refused, panicking, their client gone), a   *)
(* slot is free or held by one task, and none is free while a task waits.   *)
THEOREM SlotsConserved == Spec => []SlotsAreConserved
<1>1. IInv => SlotsAreConserved
  BY DEF IInv
<1> QED
  BY <1>1, Invariance, PTL

(* At no time do more tasks talk to the mail server than the limit allows:  *)
(* what the semaphore of pipeline.rs is for.                                *)
THEOREM SessionsAreLimited ==
  Spec => [](Cardinality(In({"session"})) <= MaxConcurrency)
<1>1. IInv => Cardinality(In({"session"})) <= MaxConcurrency
  <2> SUFFICES ASSUME IInv PROVE Cardinality(In({"session"})) <= MaxConcurrency
    OBVIOUS
  <2>1. IsFiniteSet(In(Holding)) /\ In({"session"}) \subseteq In(Holding)
    BY InCounts DEF In, Holding
  <2>2. Cardinality(In({"session"})) <= Cardinality(In(Holding))
    BY <2>1, FS_Subset
  <2>3. Cardinality(In({"session"})) \in Nat /\ Cardinality(In(Holding)) \in Nat
    BY InCounts
  <2> QED
    BY <2>2, <2>3, MaxConcurrencyAssumption DEF IInv, TypeOK, SlotsAreConserved
<1> QED
  BY <1>1, Invariance, PTL

(* Whoever waits for a slot stands in the queue for one, whoever waits for  *)
(* a blocking thread is queued for one or runs on one, and once only.       *)
THEOREM NobodyForgotten == Spec => []NobodyIsForgotten
<1>1. IInv => NobodyIsForgotten
  <2> SUFFICES ASSUME IInv PROVE NobodyIsForgotten
    OBVIOUS
  <2>1. waiters \in Seq(Requests) /\ jobs \in Seq(Requests) /\ running \subseteq Requests
    BY DEF IInv, TypeOK
  <2>2. /\ Len(waiters) = Cardinality(Range(waiters))
        /\ Len(jobs) = Cardinality(Range(jobs)) /\ IsFiniteSet(Range(jobs))
    BY <2>1, QueueCounts DEF IInv, QueueInv
  <2>3. IsFiniteSet(running)
    BY <2>1, FiniteAssumption, FS_Subset
  <2>4. Cardinality(Range(jobs) \cup running) = Cardinality(Range(jobs)) + Cardinality(running)
    <3>1. Cardinality(Range(jobs) \cap running) = 0
      BY FS_EmptySet DEF IInv, QueueInv
    <3>2. Cardinality(Range(jobs)) \in Nat /\ Cardinality(running) \in Nat
      BY <2>2, <2>3, FS_CardinalityType
    <3>3. Cardinality(Range(jobs) \cup running)
            = Cardinality(Range(jobs)) + Cardinality(running)
              - Cardinality(Range(jobs) \cap running)
      BY <2>2, <2>3, FS_Union
    <3> QED
      BY <3>1, <3>2, <3>3
  <2> QED
    BY <2>2, <2>4 DEF IInv, QueueInv, NobodyIsForgotten
<1> QED
  BY <1>1, Invariance, PTL

(* A task that got to make its record writes it once, when it ends, with    *)
(* the status its client gets: also if it panicked, and also if nobody is   *)
(* left to get an answer.                                                   *)
THEOREM RecordsTasksOnce == Spec => []OneRecordPerTask
<1>1. IInv => OneRecordPerTask
  BY DEF IInv, HistoryInv, History, OneRecordPerTask
<1> QED
  BY <1>1, Invariance, PTL

(* A client told 200 can rely on it, and one told 4xx can send again: the   *)
(* mail server does not hold the message, and never will.  A 502 is a       *)
(* permanent failure, or a partial success under fail_on_partial_refusal,   *)
(* and a 503 a temporary failure.                                           *)
THEOREM AnswersTellDelivery == Spec => []AnswerTellsDelivery
<1>1. IInv => AnswerTellsDelivery
  <2> SUFFICES ASSUME IInv, NEW r \in Requests
               PROVE  /\ answered[r] = 200 => /\ Recipients \ refused[r] \subseteq taken[r]
                                              /\ taken[r] # {}
                                              /\ strict => refused[r] = {}
                      /\ answered[r] \in 400..499 => taken[r] = {} /\ outcome[r] = "pending"
                      /\ answered[r] = 502 /\ outcome[r] # "permanent" =>
                           /\ strict /\ outcome[r] = "ok"
                           /\ refused[r] # {} /\ taken[r] # {}
                      /\ answered[r] = 503 => outcome[r] = "temporary"
    BY DEF AnswerTellsDelivery
  <2>1. History(r)
    BY DEF IInv, HistoryInv
  <2>2. CASE stage[r] = "done" /\ answered[r] = status[r]
    <3>1. Delivered(r)
      BY <2>1, <2>2 DEF History
    <3> QED
      BY <2>2, <3>1 DEF Delivered
  <2>3. CASE stage[r] = "none" /\ answered[r] \in {404, 413}
    BY <2>1, <2>3 DEF History
  <2>4. CASE answered[r] \in {0, 500}
    BY <2>4
  <2>5. \/ stage[r] = "done" /\ answered[r] = status[r]
        \/ stage[r] = "none" /\ answered[r] \in {404, 413}
        \/ answered[r] \in {0, 500}
    BY <2>1 DEF History
  <2> QED
    BY <2>2, <2>3, <2>4, <2>5
<1> QED
  BY <1>1, Invariance, PTL

(* After a stop by signal no connection is open, no task is cut off, and    *)
(* whatever the mail server took is on record.                              *)
THEOREM StopsInOrder == Spec => []StopLosesNothing
<1>1. IInv => StopLosesNothing
  <2> SUFFICES ASSUME IInv, phase = "exited", NEW r \in Requests
               PROVE  /\ conn[r] = "none"
                      /\ stage[r] \in {"none"} \cup Ended
                      /\ taken[r] # {} => Len(logged[r]) = 1
    BY DEF StopLosesNothing
  <2>1. conn[r] = "none"
    BY DEF IInv, StopInv
  <2>2. stage[r] \in {"none", "done", "dead"}
    BY DEF IInv, StopInv, In, TypeOK, Live
  <2>3. taken[r] # {} => Len(logged[r]) = 1
    <3>1. History(r)
      BY DEF IInv, HistoryInv
    <3>2. CASE stage[r] = "done"
      <4>1. logged[r] = <<status[r]>>
        BY <3>1, <3>2 DEF History
      <4> QED
        BY <4>1
    <3>3. CASE stage[r] \in {"none", "dead"}
      BY <3>1, <3>3 DEF History
    <3> QED
      BY <2>2, <3>2, <3>3
  <2> QED
    BY <2>1, <2>2, <2>3 DEF Ended
<1> QED
  BY <1>1, Invariance, PTL

===============================================================================

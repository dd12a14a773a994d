--------------------------------- MODULE Relay ---------------------------------
(***************************************************************************)
(* The Rust relay process (rust/src/main.rs run, rust/src/pipeline.rs,     *)
(* rust/src/http.rs): requests that arrive over connections, the task each *)
(* request runs in, the SMTP slots they share, the two blocking threads    *)
(* that build messages and resolve the SMTP host, the one log record per   *)
(* task, clients that go away and the shutdown.                            *)
(*                                                                         *)
(* The runtime has one thread, so whatever a task does between two awaits  *)
(* is one step.  What happens inside an SMTP session is the contract of    *)
(* module Submission, which module SmtpSession implements.                 *)
(*                                                                         *)
(* A request slot is used again when its task has ended and its connection *)
(* is gone, so requests keep arriving; the variables of its history then   *)
(* start anew.                                                             *)
(***************************************************************************)
EXTENDS Integers, Sequences, FiniteSets, Functions

CONSTANTS
  Requests,         (* request slots                                       *)
  Recipients,       (* the envelope of every message                       *)
  MaxConcurrency,   (* SMTP_MAX_CONCURRENCY                                *)
  BlockingThreads   (* max_blocking_threads of the runtime                 *)

ASSUME MaxConcurrencyAssumption == MaxConcurrency \in Nat \ {0}
ASSUME BlockingThreadsAssumption == BlockingThreads \in Nat \ {0}
ASSUME FiniteAssumption == IsFiniteSet(Requests) /\ IsFiniteSet(Recipients)

VARIABLES
  strict,     (* fail_on_partial_refusal                                   *)
  phase,      (* of the process: "serving", "stopping", "draining",        *)
              (* "exited" or "failed"                                      *)
  conn,       (* per request: "none", "head" (sending it) or "open"        *)
  post,       (* per request: it is a POST to the messages route           *)
  answered,   (* per request: the status its client got, 0 if none         *)
  stage,      (* per request: where its task is; it ended with a record    *)
              (* ("done") or panicked before there was one ("dead")        *)
  status,     (* per request: the status its task decided, 0 if none       *)
  logged,     (* per request: the status of each event=request record      *)
  permits,    (* free SMTP slots                                           *)
  waiters,    (* requests queued for an SMTP slot, first come first served *)
  jobs,       (* requests queued for a blocking thread                     *)
  running,    (* requests whose job runs on a blocking thread              *)
  taken,      (* per request: recipients the mail server took it for       *)
  outcome,    (* per request: outcome of its submission                    *)
  refused     (* per request: refused recipients of its submission         *)

clients == <<conn, post, answered>>
tasks   == <<status, logged>>
slots   == <<permits, waiters>>
pool    == <<jobs, running>>
mail    == <<taken, outcome, refused>>
vars    == <<strict, phase, clients, stage, tasks, slots, pool, mail>>

Sub(r) == INSTANCE Submission WITH
            taken <- taken[r], outcome <- outcome[r], refused <- refused[r]

Stages == {"none", "spawned", "reading", "building", "built", "acquiring", "granted",
           "resolving", "resolved", "session", "done", "dead"}
Ended   == {"done", "dead"}
Live    == Stages \ {"none", "done", "dead"}
Holding == {"granted", "resolving", "resolved", "session"}
InPool  == {"building", "resolving"}
Answers == {200, 400, 401, 403, 404, 413, 500, 502, 503}

In(S) == {r \in Requests : stage[r] \in S}

TypeOK ==
  /\ strict \in BOOLEAN
  /\ phase \in {"serving", "stopping", "draining", "exited", "failed"}
  /\ conn \in [Requests -> {"none", "head", "open"}]
  /\ post \in [Requests -> BOOLEAN]
  /\ answered \in [Requests -> Answers \cup {0}]
  /\ stage \in [Requests -> Stages]
  /\ status \in [Requests -> Answers \cup {0}]
  /\ logged \in [Requests -> Seq(Answers)]
  /\ permits \in 0..MaxConcurrency
  /\ waiters \in Seq(Requests)
  /\ jobs \in Seq(Requests)
  /\ running \in SUBSET Requests
  /\ taken \in [Requests -> SUBSET Recipients]
  /\ outcome \in [Requests -> {"pending", "ok", "temporary", "permanent"}]
  /\ refused \in [Requests -> SUBSET Recipients]

Init ==
  /\ strict \in BOOLEAN
  /\ phase = "serving"
  /\ conn = [r \in Requests |-> "none"]
  /\ post = [r \in Requests |-> FALSE]
  /\ answered = [r \in Requests |-> 0]
  /\ stage = [r \in Requests |-> "none"]
  /\ status = [r \in Requests |-> 0]
  /\ logged = [r \in Requests |-> <<>>]
  /\ permits = MaxConcurrency
  /\ waiters = <<>>
  /\ jobs = <<>>
  /\ running = {}
  /\ taken = [r \in Requests |-> {}]
  /\ outcome = [r \in Requests |-> "pending"]
  /\ refused = [r \in Requests |-> {}]

-------------------------------------------------------------------------------
(* Clients and connections. *)

(* A client connects, or uses a kept connection, and starts a request. *)
Arrive(r) ==
  /\ phase = "serving"
  /\ conn[r] = "none"
  /\ stage[r] \in {"none"} \cup Ended
  /\ conn' = [conn EXCEPT ![r] = "head"]
  /\ stage' = [stage EXCEPT ![r] = "none"]
  /\ post' = [post EXCEPT ![r] = FALSE]
  /\ answered' = [answered EXCEPT ![r] = 0]
  /\ status' = [status EXCEPT ![r] = 0]
  /\ logged' = [logged EXCEPT ![r] = <<>>]
  /\ taken' = [taken EXCEPT ![r] = {}]
  /\ outcome' = [outcome EXCEPT ![r] = "pending"]
  /\ refused' = [refused EXCEPT ![r] = {}]
  /\ UNCHANGED <<strict, phase, slots, pool>>

Accepting == phase \in {"serving", "stopping"}

(* The head is complete: the 413 layer, a route without a task (404 stands *)
(* for every answer of dispatch itself), or the messages route.            *)
Dispatch(r) ==
  /\ Accepting
  /\ conn[r] = "head"
  /\ \E messages \in BOOLEAN :
       /\ post' = [post EXCEPT ![r] = messages]
       /\ \/ \E code \in IF messages THEN {413} ELSE {404, 413} :
               /\ answered' = [answered EXCEPT ![r] = code]
               /\ conn' = [conn EXCEPT ![r] = "none"]
               /\ UNCHANGED stage
          \/ /\ messages
             /\ conn' = [conn EXCEPT ![r] = "open"]
             /\ stage' = [stage EXCEPT ![r] = "spawned"]
             /\ UNCHANGED answered
  /\ UNCHANGED <<strict, phase, tasks, slots, pool, mail>>

(* Mutant: the task dies with its handler. *)
DisconnectCancels(r) ==
  /\ Accepting
  /\ conn[r] # "none"
  /\ conn' = [conn EXCEPT ![r] = "none"]
  /\ stage' = [stage EXCEPT ![r] = "none"]
  /\ UNCHANGED <<strict, phase, post, answered, tasks, slots, pool, mail>>

(* The client goes away.  Its handler is dropped, its task goes on. *)
Disconnect(r) ==
  /\ Accepting
  /\ conn[r] # "none"
  /\ conn' = [conn EXCEPT ![r] = "none"]
  /\ UNCHANGED <<strict, phase, post, answered, stage, tasks, slots, pool, mail>>

(* The handler got the task's response, or learned that it panicked. *)
Respond(r) ==
  /\ Accepting
  /\ conn[r] = "open"
  /\ stage[r] \in Ended
  /\ answered' = [answered EXCEPT ![r] = status[r]]
  /\ conn' = [conn EXCEPT ![r] = "none"]
  /\ UNCHANGED <<strict, phase, post, stage, tasks, slots, pool, mail>>

-------------------------------------------------------------------------------
(* The request task. *)

(* Mutant: a released slot goes to the last waiter. *)
ConcludeLast(r, code) ==
  /\ status' = [status EXCEPT ![r] = code]
  /\ logged' = [logged EXCEPT ![r] = Append(@, code)]
  /\ IF stage[r] \in Holding /\ waiters # <<>>
     THEN /\ stage' = [stage EXCEPT ![r] = "done", ![waiters[Len(waiters)]] = "granted"]
          /\ waiters' = SubSeq(waiters, 1, Len(waiters) - 1)
          /\ UNCHANGED permits
     ELSE /\ stage' = [stage EXCEPT ![r] = "done"]
          /\ permits' = IF stage[r] \in Holding THEN permits + 1 ELSE permits
          /\ UNCHANGED waiters

(* The task ends with this status: its slot goes to the first waiter, its  *)
(* record is written, its response is ready.                               *)
Conclude(r, code) ==
  /\ status' = [status EXCEPT ![r] = code]
  /\ logged' = [logged EXCEPT ![r] = Append(@, code)]
  /\ \/ /\ stage[r] \notin Holding
        /\ stage' = [stage EXCEPT ![r] = "done"]
        /\ UNCHANGED slots
     \/ /\ stage[r] \in Holding /\ waiters = <<>>
        /\ stage' = [stage EXCEPT ![r] = "done"]
        /\ permits' = permits + 1
        /\ UNCHANGED waiters
     \/ /\ stage[r] \in Holding /\ waiters # <<>>
        /\ stage' = [stage EXCEPT ![r] = "done", ![Head(waiters)] = "granted"]
        /\ waiters' = Tail(waiters)
        /\ UNCHANGED permits

Move(r, to) == stage' = [stage EXCEPT ![r] = to]

(* The task hands a job to the blocking threads and waits for it. *)
Enqueue(r, to) ==
  /\ Move(r, to)
  /\ jobs' = Append(jobs, r)
  /\ UNCHANGED running

(* The first poll: token, content type. *)
Start(r) ==
  /\ stage[r] = "spawned"
  /\ \/ \E code \in {401, 400} : Conclude(r, code)
     \/ Move(r, "reading") /\ UNCHANGED <<tasks, slots>>
  /\ UNCHANGED <<strict, phase, clients, pool, mail>>

(* The body is complete (or too large): form, policy, headers, counts.     *)
(* The client may be gone if it sent everything before.                    *)
BodyEnds(r) ==
  /\ stage[r] = "reading"
  /\ \/ \E code \in {400, 403, 413} : Conclude(r, code) /\ UNCHANGED pool
     \/ Enqueue(r, "building") /\ UNCHANGED <<tasks, slots>>
  /\ UNCHANGED <<strict, phase, clients, mail>>

(* Reading the body fails because the client went away. *)
BodyFails(r) ==
  /\ stage[r] = "reading"
  /\ conn[r] = "none"
  /\ Conclude(r, 400)
  /\ UNCHANGED <<strict, phase, clients, pool, mail>>

(* Mutant: the slots are not limited. *)
BuiltUnlimited(r) ==
  /\ stage[r] = "built"
  /\ permits' = permits - 1
  /\ Enqueue(r, "resolving")
  /\ UNCHANGED <<strict, phase, clients, waiters, tasks, mail>>

(* The message is built: malformed (400), panicked (500), or it goes on to *)
(* a free slot, or to the end of the queue for one.                        *)
Built(r) ==
  /\ stage[r] = "built"
  /\ \/ \E code \in {400, 500} : Conclude(r, code) /\ UNCHANGED pool
     \/ /\ permits > 0
        /\ permits' = permits - 1
        /\ Enqueue(r, "resolving")
        /\ UNCHANGED <<waiters, tasks>>
     \/ /\ permits = 0
        /\ waiters' = Append(waiters, r)
        /\ Move(r, "acquiring")
        /\ UNCHANGED <<permits, tasks, pool>>
  /\ UNCHANGED <<strict, phase, clients, mail>>

(* The task wakes up with its slot. *)
Granted(r) ==
  /\ stage[r] = "granted"
  /\ Enqueue(r, "resolving")
  /\ UNCHANGED <<strict, phase, clients, tasks, slots, mail>>

(* The host name is resolved, or not: then the session fails first.        *)
Resolved(r) ==
  /\ stage[r] = "resolved"
  /\ Move(r, "session")
  /\ UNCHANGED <<strict, phase, clients, tasks, slots, pool, mail>>

(* The mail server takes the message, during the session or, when the      *)
(* session gave up on it, later.                                           *)
Take(r) ==
  /\ stage[r] = "session" \/ outcome[r] = "temporary"
  /\ \E t \in SUBSET Recipients : taken' = [taken EXCEPT ![r] = t]
  /\ UNCHANGED <<outcome, refused>>
  /\ Sub(r)!Take
  /\ UNCHANGED <<strict, phase, clients, stage, tasks, slots, pool>>

(* Mutant: fail_on_partial_refusal is not looked at. *)
StatusOfLenient(result, refusals) ==
  CASE result = "temporary" -> 503 [] result = "permanent" -> 502 [] result = "ok" -> 200

StatusOf(result, refusals) ==
  CASE result = "temporary" -> 503
    [] result = "permanent" -> 502
    [] result = "ok" -> IF refusals # {} /\ strict THEN 502 ELSE 200

(* submit returns: the slot is released, the status decided. *)
SessionEnds(r) ==
  /\ stage[r] = "session"
  /\ \E result \in {"ok", "temporary", "permanent"}, refusals \in SUBSET Recipients :
       /\ outcome' = [outcome EXCEPT ![r] = result]
       /\ refused' = [refused EXCEPT ![r] = refusals]
       /\ UNCHANGED taken
       /\ Sub(r)!Succeed \/ Sub(r)!Fail
       /\ Conclude(r, StatusOf(result, refusals))
  /\ UNCHANGED <<strict, phase, clients, pool>>

(* Mutants: a panic leaks the slot; it writes no record. *)
PanicLeaks(r) ==
  /\ stage[r] \in Live \ (InPool \cup {"acquiring"})
  /\ status' = [status EXCEPT ![r] = 500]
  /\ logged' = [logged EXCEPT ![r] = Append(@, 500)]
  /\ Move(r, "done")
  /\ UNCHANGED <<strict, phase, clients, slots, pool, mail>>
PanicUnrecorded(r) ==
  /\ stage[r] \in Live \ (InPool \cup Holding \cup {"acquiring"})
  /\ status' = [status EXCEPT ![r] = 500]
  /\ Move(r, "done")
  /\ UNCHANGED <<strict, phase, clients, logged, slots, pool, mail>>

(* The code of the task panics: a 500, the record and the slot as usual. *)
Panic(r) ==
  /\ stage[r] \in Live \ (InPool \cup {"acquiring"})
  /\ Conclude(r, 500)
  /\ UNCHANGED <<strict, phase, clients, pool, mail>>

(* A panic in the first poll, while the record is made (no random bytes    *)
(* for its request_id): a 500 without a record.                            *)
PanicEarly(r) ==
  /\ stage[r] = "spawned"
  /\ status' = [status EXCEPT ![r] = 500]
  /\ Move(r, "dead")
  /\ UNCHANGED <<strict, phase, clients, logged, slots, pool, mail>>

-------------------------------------------------------------------------------
(* The blocking threads. *)

JobStarts ==
  /\ jobs # <<>>
  /\ Cardinality(running) < BlockingThreads
  /\ running' = running \cup {Head(jobs)}
  /\ jobs' = Tail(jobs)
  /\ UNCHANGED <<strict, phase, clients, stage, tasks, slots, mail>>

JobEnds(r) ==
  /\ r \in running
  /\ running' = running \ {r}
  /\ Move(r, IF stage[r] = "building" THEN "built" ELSE "resolved")
  /\ UNCHANGED <<strict, phase, clients, tasks, slots, jobs, mail>>

-------------------------------------------------------------------------------
(* The process. *)

(* SIGTERM or SIGINT: the servers stop accepting. *)
Signal ==
  /\ phase = "serving"
  /\ phase' = "stopping"
  /\ UNCHANGED <<strict, clients, stage, tasks, slots, pool, mail>>

(* Every connection is finished. *)
ServersJoined ==
  /\ phase = "stopping"
  /\ \A r \in Requests : conn[r] = "none"
  /\ phase' = "draining"
  /\ UNCHANGED <<strict, clients, stage, tasks, slots, pool, mail>>

(* Mutants: the tasks are not waited for; tasks.close is missing, so that  *)
(* tasks.wait never returns.                                               *)
ExitAtOnce ==
  /\ phase = "draining"
  /\ phase' = "exited"
  /\ UNCHANGED <<strict, clients, stage, tasks, slots, pool, mail>>
ExitNever ==
  /\ FALSE
  /\ UNCHANGED vars

(* tasks.wait returns. *)
Exit ==
  /\ phase = "draining"
  /\ In(Live) = {}
  /\ phase' = "exited"
  /\ UNCHANGED <<strict, clients, stage, tasks, slots, pool, mail>>

(* A server ends with an error: run returns, and the runtime is dropped    *)
(* with its tasks.  Each task that was polled once writes its record.      *)
ServerStops ==
  /\ Accepting
  /\ phase' = "failed"
  /\ conn' = [r \in Requests |-> "none"]
  /\ stage' = [r \in Requests |-> CASE stage[r] = "spawned" -> "none"
                                    [] stage[r] \in Live \ {"spawned"} -> "done"
                                    [] OTHER -> stage[r]]
  /\ status' = [r \in Requests |-> IF r \in In(Live \ {"spawned"}) THEN 500 ELSE status[r]]
  /\ logged' = [r \in Requests |-> IF r \in In(Live \ {"spawned"})
                                   THEN Append(logged[r], 500) ELSE logged[r]]
  /\ permits' = MaxConcurrency
  /\ waiters' = <<>>
  /\ jobs' = <<>>
  /\ running' = {}
  /\ UNCHANGED <<strict, post, answered, mail>>

-------------------------------------------------------------------------------
Task(r) ==
  Start(r) \/ BodyFails(r) \/ Built(r) \/ Granted(r) \/ Resolved(r) \/ SessionEnds(r)

Client(r) == Arrive(r) \/ Dispatch(r) \/ Disconnect(r) \/ BodyEnds(r)

Fault(r) == Panic(r) \/ PanicEarly(r) \/ Take(r)

Process == Signal \/ ServersJoined \/ Exit \/ ServerStops

Next ==
  \/ \E r \in Requests : Task(r) \/ Client(r) \/ Fault(r) \/ Respond(r) \/ JobEnds(r)
  \/ JobStarts
  \/ Process

Spec == Init /\ [][Next]_vars

(* The runtime polls every task that is ready, the blocking threads work   *)
(* off their queue, and an SMTP session ends (SmtpSession, SessionEnds).   *)
(* Nothing is assumed of clients, of signals or of the mail server.        *)
Fairness ==
  /\ \A r \in Requests : /\ WF_vars(Task(r))
                         /\ WF_vars(Respond(r))
                         /\ WF_vars(JobEnds(r))
  /\ WF_vars(JobStarts)
  /\ WF_vars(ServersJoined)
  /\ WF_vars(Exit)

FairSpec == Spec /\ Fairness

-------------------------------------------------------------------------------
(* A slot is free, or held by one task on its way through a session; none  *)
(* is free while somebody waits.  It survives panics, refusals and clients *)
(* that go away (slot, dropped after submit or when the task unwinds).     *)
SlotsAreConserved ==
  /\ permits + Cardinality(In(Holding)) = MaxConcurrency
  /\ waiters # <<>> => permits = 0

(* No task is forgotten: whoever waits for a slot is in its queue, whoever *)
(* waits for a job has it queued or running, and both once only.           *)
NobodyIsForgotten ==
  /\ Range(waiters) = In({"acquiring"})
  /\ Len(waiters) = Cardinality(Range(waiters))
  /\ Range(jobs) \cup running = In(InPool)
  /\ Len(jobs) + Cardinality(running) = Cardinality(In(InPool))

(* One record of every task that got to make it: none before the task has  *)
(* ended, one after, with the status the client gets; also when the task   *)
(* panicked later or its client went away.  A task that dies before        *)
(* answers 500 or nothing.                                                 *)
OneRecordPerTask ==
  \A r \in Requests :
    /\ logged[r] = IF stage[r] = "done" THEN <<status[r]>> ELSE <<>>
    /\ answered[r] # 0 /\ stage[r] = "done" => logged[r] = <<answered[r]>>
    /\ stage[r] = "dead" => answered[r] \in {0, 500}

(* What the answer tells the client of the delivery: after 200 the server  *)
(* has taken the message for everybody it did not refuse, and for all      *)
(* recipients with fail_on_partial_refusal; after a 4xx it never takes it. *)
(* A 502 is a permanent failure, or with fail_on_partial_refusal a success *)
(* in part, where a retry repeats the message; a 503 is temporary.         *)
AnswerTellsDelivery ==
  \A r \in Requests :
    /\ answered[r] = 200 => /\ Recipients \ refused[r] \subseteq taken[r]
                            /\ taken[r] # {}
                            /\ strict => refused[r] = {}
    /\ answered[r] \in 400..499 => taken[r] = {} /\ outcome[r] = "pending"
    /\ answered[r] = 502 /\ outcome[r] # "permanent" =>
         /\ strict /\ outcome[r] = "ok"
         /\ refused[r] # {} /\ taken[r] # {}
    /\ answered[r] = 503 => outcome[r] = "temporary"

(* A regular stop cuts nothing off: when the process exits every task that *)
(* was spawned has ended, written its record and, unless the client went   *)
(* away, been answered; a message was taken only on behalf of such a task. *)
StopLosesNothing ==
  phase = "exited" =>
    \A r \in Requests :
      /\ conn[r] = "none"
      /\ stage[r] \in {"none"} \cup Ended
      /\ taken[r] # {} => Len(logged[r]) = 1

(* Whoever got past the body gets an outcome: no slot is lost, the queue   *)
(* for slots starves nobody, and builds and name lookups, which share the  *)
(* blocking threads, do not wait for each other.                           *)
SubmissionEnds ==
  \A r \in Requests : stage[r] \in Live \ {"spawned", "reading"} ~> stage[r] = "done"

(* The relay stops after a signal, provided no client stalls forever in    *)
(* the middle of its request: there is no timeout on reading one.          *)
Stalled == \E r \in Requests : conn[r] = "head" \/ (conn[r] = "open" /\ stage[r] = "reading")
StopEnds == []<>~Stalled => (phase = "stopping" ~> phase \in {"exited", "failed"})

-------------------------------------------------------------------------------
(* A statement of the repository that the program does not keep.           *)

(* README.md:102: "one record per POST /v3/{domain}/messages".  The 413    *)
(* layer answers without one, and so does a task that panics before it has *)
(* made its record (pipeline.rs:144 says "exactly once per request that    *)
(* reaches the route", "also when the request task panics").               *)
OneRecordPerPost ==
  \A r \in Requests : post[r] /\ answered[r] # 0 => Len(logged[r]) = 1

===============================================================================

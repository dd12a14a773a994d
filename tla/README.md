# TLA+ specifications of mailgun-relay

mailgun-relay accepts Mailgun's `POST /v3/{domain}/messages` and submits the
message over SMTP.  The repository holds two implementations with one contract:
the Rust binary (`rust/src`) that is deployed, and the Python application
(`src/mailgun_relay`) it replaces and is compared with.  The specifications in
this directory are about the Rust program; the Python one enters where the two
are compared.

Paths below are relative to the repository.

## The system

    client --HTTP--> http.rs --task--> pipeline.rs --Submitter--> smtp.rs --SMTP--> mail server
                                           |
                  form, auth, policy, domain, address, headers, mime    log.rs <- one record per task
    environment, secrets file --config.rs, secrets.rs, yaml.rs--> main.rs (runtime, slots, shutdown)

| Component | State | Operations | What makes it correct |
|---|---|---|---|
| Process: `main.rs` | runtime with one async thread and two blocking threads, listeners, the set of request tasks, the SMTP semaphore | start, accept, stop on SIGTERM/SIGINT, drain | a regular stop cuts no submission off; it ends; each slot is conserved |
| HTTP: `http.rs` | one handler per connection | 413 layer, routing, answers | a handler that dies does not take its task along; one answer per request |
| Pipeline: `pipeline.rs` | one task per request, with its record | `decide`: token, content type, body, form, policy, headers, counts, build, slot, submit | one record per task on every path; the status tells the client what happened to the message |
| SMTP session: `smtp.rs` | connection, position in the dialogue, replies so far | connect, EHLO, STARTTLS, login, MAIL, RCPT, DATA, QUIT | success only for recipients the server took the message for; nothing in the clear; temporary and permanent failures told apart; QUIT exactly when the channel is open |
| Form: `form.rs` | scanner position, counters | multipart and urlencoded parsing under limits | limits are exact; framing is unambiguous |
| Authentication, policy, headers, domains, addresses: `auth.rs`, `policy.rs`, `headers.rs`, `domain.rs`, `address.rs` | none (pure) | checks of a request against the configuration | the first failed check decides; no token reaches another token's domain |
| Message: `mime.rs` | none (pure) | envelope order, part tree, encodings | each recipient once, in order; the body is what was posted |
| Configuration: `config.rs`, `secrets.rs`, `yaml.rs` | none (read once) | environment lookup, ranges, secrets file | fail closed: an ambiguous or unreadable setting stops the start |
| Log: `log.rs`, `pystr.rs` | threshold | one line of JSON per record | no secret in a record |
| Python application: `src/mailgun_relay` | as above, with a thread limiter | the same HTTP contract | both decide alike |
| Harness and tooling: `rust/fixtures`, `rust/parity`, `rust/scripts`, `scripts` | - | tests, releases | - |

The behaviours that are hard in the running relay: an SMTP reply that is lost,
late or never comes, at each of fourteen waits; the client that goes away at any
await of its task; panics between awaits; the queue for slots and the queue for
blocking threads, which the same tasks use one after the other; the shutdown
while connections and tasks are in all of these states.  Those that are hard in
the parsers and writers: scanners whose position is decided by what they have
seen before, texts that one function unescapes and another escapes again,
limits met exactly, and files that end early.  `PROJECT.json` lists all of them
with their lines under "hazards", and with the properties that cover each or the
reason why none does.

## Modules

| Module | Models | Kind |
|---|---|---|
| `Submission` | trait `Submitter`, `SubmitError` | abstract contract of one submission |
| `SmtpSession` | `smtp.rs`: `session` and everything it calls, against a server | state machine, implements `Submission` |
| `SmtpSessionProofs` | | theorems about `SmtpSession` |
| `Relay` | `main.rs` `run`, `pipeline.rs` (the awaits of `decide`, `Record`, `slot`), `http.rs` (layer, `dispatch`) | state machine; each request's submission is an instance of `Submission` |
| `RelayProofs` | | theorems about `Relay` |
| `Intake` | `pipeline.rs`: steps 2 to 8 of `decide` with `read_body`, `parse_form`, and what they call in `auth.rs`, `form.rs`, `policy.rs`, `headers.rs` | state machine; refines the stretch of `Relay` from the first poll to the blocking threads |
| `IntakeProofs`, `IntakeAnswers` | | theorems about `Intake` |
| `Form` | `form.rs`: the Content-Type header, the choice of the parser, both parsers | state machine, one step per round of the code's loops |
| `FormProofs` | | theorems about `Form` |
| `Settings` | `config.rs`: lookup, parsers and ranges of every field | part of `Startup` |
| `Secrets` | `secrets.rs`, `yaml.rs`: from the mode of the file to the list of policies | part of `Startup` |
| `Startup` | `main.rs` up to the wait for a signal, the CA file of `smtp.rs`, with `Settings` and `Secrets` | state machine |
| `StartupProofs` | | theorems about `Startup` |
| `Mailbox` | `address.rs`: the parsers of one mailbox and of a list | operators used by `Message` |
| `Message` | `mime.rs`: checks, headers, part tree, envelope | state machine, one step per header or part |
| `MessageProofs` | | theorems about `Message` |
| `Numbers` | | lemmas about numbers, positions and sums that several proofs need |
| `MCSmtpSession`, `MCRelay`, `MCIntake`, `MCForm`, `MCStartup`, `MCMessage` | | values, inputs, symmetry and the restriction of the liveness run |

How they compose: `SmtpSession` implements `Submission` (`ImplementsSubmission`);
`Relay` takes every session as `Submission` and adds what happens around it;
`Intake` unfolds two actions of `Relay`, `Start` and `BodyEnds`, into the
checks they stand for (`StepsOfTask`).  `Form` unfolds the step in which
`Intake` parses the body: `FitsIntake` states what `Intake` draws its items
within.  `Startup` runs `Settings` and `Secrets` on shared variables and ends
where `Relay` begins.  `Message` is what `Relay` builds on a blocking thread.

### SmtpSession

`pc` names the command whose reply the client waits for; there is one action
per step, and its argument is the code of the reply or `NoCode`.  `NoCode`
stands for a timeout, a lost connection and a reply that cannot be parsed,
which `smtp.rs` maps to the same failure.  The server (`Serve`) handles the
command that is on its way (`sent`) at any time, also after the client gave up
on it, so that a late answer races the timeout; it may answer with any code at
any point.  `rcpts` and `taken` are the server's view: what it has accepted and
taken.  `outcome` and `cause` are the result the code returns and the reply
that decided it; `quits` counts QUIT commands and `creds` remembers the channel
credentials went over.

The crate lettre carries out the dialogue.  It is not in the repository, so its
share is modelled from how `smtp.rs` uses it and what its comments say: which
calls send QUIT themselves on a negative reply (EHLO, STARTTLS, the challenge
loop: `Abort`), which leave the connection open (`Quit`), how many challenges
are answered.  A challenge that cannot be decoded is a reply that cannot be
parsed.  A reply is one event here; the lines it consists of are not
modelled.  The CA bundle and the log line for a failed QUIT are left out.

### Relay

A request slot goes through `conn` (its connection), `stage` (its task) and
ends with `answered` and `logged`.  A stage stands for one await of `decide`:
reading the body, building on a blocking thread, the semaphore, resolving the
host on a blocking thread, the session.  Everything between two awaits is one
action, because the runtime has one thread.  `Conclude` is the end of a task on
every path: it releases the slot to the first waiter (tokio's semaphore is
fair), and drops the record, which writes it.  A panic takes the same way with
status 500, except one in the first poll, before the record is made
(`PanicEarly`): that task is `dead`, answered with 500 and without a record.
`ServerStops` is the way `run` returns when a server fails: the
runtime is dropped with all its tasks, and each task that was polled once
writes its record.

Abstractions: 404 stands for every answer `dispatch` gives without a task; the
statuses `decide` can return between two awaits are a set, in no order; the
host name always goes through the blocking threads (a literal address is the
case where it is resolved at once); the log threshold is ignored.  A killed
process (SIGKILL) is not modelled: nothing is persisted that a restart would
read.  A request slot is used again for a new request with its history
variables reset, so that requests never cease to arrive in a finite model; a
message the server takes after that, on behalf of the former request, is not
followed.

### Intake

One request task, one action per check, in the order of `decide`:

| Action | Code | Statuses |
|---|---|---|
| `Authenticate` | `auth::authenticate`; each policy is compared and the last match wins (`Policy`) | 401 |
| `ContentType` | `form::encoding` | 400 |
| `ReadFrame`, `ReadEnds`, `ReadFails` | `read_body` | 413, 400 |
| `Parse` | `form::parse` of the complete body | 400, 413 |
| `HeaderItem`, `FromItem`, `RecipientItem`, `SubjectItem`, `TextItem`, `FileItem`, `BadItem`, `ItemsEnd` | `parse_form` | 400, 413 |
| `EnforcePolicy` | `policy::enforce_policy` | 400, 403 |
| `ValidateHeaders` | `headers::validate_subject`, `validate_custom_headers` | 400 |
| `CountRecipients` | the counts of step 8 | 400, 413 |

What the client sends is chosen when the task looks at it; `items` keeps the
form in the order it was sent in, so that what the loop has collected (`from`,
`rcpts`, `subject`, `bodies`, `headers`, `files`, `total`) can be compared with
the form itself.  The properties do so: `AnswerHasItsGround` defines the
grounds of each status from the request as a whole (`Unknown`, `Forbidden`,
`Bad`, `Excessive`) without an order of checks.

Abstractions:

- The framing of a form is a verdict of `Parse`; it is the subject of `Form`.
  The items are then drawn within what `form.rs` would let through: an item takes its bytes from the
  body, and the parser's counts of fields and files bound them (`Take`).  With
  neither of the two form types the form is empty and the body is not read.
- An item is known by its field and a class: a mailbox or `malformed` for
  `from`; `fine` or `refused` for header values; for texts and files a pair of
  sizes, as sent and decoded, because a byte of latin-1 becomes two of UTF-8
  and the aggregate counts the latter.  `to` stands for `to`, `cc` and `bcc`,
  which `parse_form` counts alike here.  `mistyped` is a file in the place of a
  text or the reverse.
- `Authorization` is the password it carries; `none` is every header that
  yields none.
- The domain and address checks (`domain.rs`, `address.rs`) are the constants
  `Mailboxes` and `DomainOf`.

### Form

`parseparam` splits the header (`NextSegment`, `CountQuotes`, `Segment`, with
the code's own `start`, `end`, `ind` and `diff`), `ChooseParser` is `encoding`,
`Field` is one field of `urlencoded`, and `Start`, `Header`, `HeadersEnd`,
`NotADelimiter` and `PartEnds` are the scanner of `multipart`; `HeadersCut` and
`DataCut` are its early returns on a body that ends.  Header and body are
sequences of symbols, a symbol being one byte where the code looks at bytes.

The properties compare with what the client meant, which a request carries
beside its bytes.  `ReadsBack`: a request sent whole is read as the items it was
made of, a cut-off one as a prefix of them, a malformed one not at all.
`PartsAreDelimited` defines boundary lines without a scanner and demands that
each item was cut from between two of them that follow each other.
`SegmentsRespectQuotes` defines the places to split at by the quotes before
them.  `FitsIntake`: the items are within the limits, and each takes a byte of
the body besides its data.  `Terminates`: every request is decided; the search
for a delimiter and the swapping positions of `parseparam` do not turn in
circles.

Abstractions: a parameter of a Content-Disposition is one symbol; the
conversion from the charset of the form is left out, because it never fails; so
are percent escapes above 7F, the path of an IE6 filename and a key with `*`.

### Settings, Secrets and Startup

`Startup` has one action per step of `main`, `load_config` and `run`:
`Arguments`, the settings field by field (`ReadField`), the secrets file, the
CA file (`LoadSmtpConfig`), `Resolve`, one `BindAddress` per address,
`Register`, `LogStartup`.  A signal (`Signal`) may come between any two, and
another process may take an address while the relay binds its own (`Take`).  An address
that is in use is one way for `BindAddress` to fail; a port that needs rights, an
address the host does not have, a missing IPv6 or too many descriptors are
another, at any address (`failed` tells the two apart).
`exit` is how the process ended; `killed` is what a signal does to a process
that has no handler for it.

`Secrets` reads the file event by event, with the frames, anchors and entries of
`yaml.rs`; the events come from the file, which may end after any of them.  The
scanner that finds the events is an external crate.  `SecretsReadBack` compares
what is loaded with what the operator meant by the whole file.
`EachSettingHasOneSource`: a value comes from the only variable of its name, or
from the default when there is none, and is what the text means as a number, a
truth value or a sender.  `ListensEverywhereOrNowhere`: a relay that serves has
a socket at every address of its host, one that ended on an error has none,
whatever the error, and one that says that an address is in use is right: an
address the resolver names twice is not bound twice.  `RecordMeansGraceful`: once the startup
record is written, no signal kills the process.  `FailsClosed`: whoever serves
has a configuration in which nothing is wrong.

Abstractions: texts are symbols with a given YAML 1.1 type (the regular
expressions of `resolve_plain` are a table) and a given normal form (IDNA); a
runtime that cannot be built is a failure of `Resolve`; the YAML events that do
nothing in the code are skipped.  The widths of integers are scaled (see
Bounds).  A key the code does not know is ignored: a policy with a misspelt
`allowed_from_addresses` has no such restriction.  The files enumerated do not
misspell that key, so `SecretsReadBack` says nothing of them.  Nothing is said
about liveness: `lookup_host` has no timeout of the relay's.

### Mailbox and Message

`Message` is `build` for one request, one action per step: `CheckBodies`,
`ParseRecipient`, `CheckLineBreaks`, `WriteAddresses`, `WriteSubject`,
`WriteCustom`, the part tree (`AddInline`, `BuildBody`, `AddAttachment`), and
`Finish` with the envelope.  The properties read the result again as a receiver
would, with definitions of their own.  `AddressesReadBack` parses the headers
written and finds the mailboxes that were sent.  `TextsReadBack` decodes the
encoded words, each of which is within the limit and holds whole characters.
`PartsReadBack` opens the tree and finds each body and each file once, inline
files beside the html that refers to them, attachments last.
`EnvelopeIsEveryoneOnce` compares the envelope with the fields as sent.

Abstractions: an address is one symbol, which `AddressOf` gives the normal form
that `validate` gives; a character of more than one byte is a lead and a
continuation; base64 writes three bytes as three symbols of
a table and a filler; a header name has one of two lengths.  The crates
lettre and email_encoding fold lines, choose transfer encodings and write
RFC 2231 parameters: `Encoded` stands for `rfc2047::encode`; the rest is left
out, and so are Date, Message-Id and MIME-Version.

## Runs

| Run | Module, cfg | Shows | Result |
|---|---|---|---|
| `session` | `MCSmtpSession`, `SmtpSession.cfg` | type invariant, `SuccessIsTaken`, `OnlyTheEndIsInDoubt`, `NothingInTheClear`, `PermanentNeedsAnAnswer`, `QuitDiscipline`, refinement of `Submission`, `SessionEnds` under `WF_vars(Client)` | holds |
| `session_quit` | `MCSmtpSession`, `SmtpSession_quit.cfg` | a comment of `smtp_tests.rs` about QUIT | violated |
| `session_codes` | `MCSmtpSession`, `SmtpSession_codes.cfg` | the rows of `docs/api-compatibility.md` about 4xx and 5xx replies | violated |
| `relay` | `MCRelay`, `Relay.cfg` | type invariant, slots conserved, nobody forgotten, one record per task, stop loses nothing, the answer tells the delivery | holds |
| `relay_live` | `MCRelay`, `Relay_live.cfg` | every submission ends; the process stops after a signal | holds |
| `relay_records` | `MCRelay`, `Relay_records.cfg` | README's "one record per POST" | violated |
| `intake` | `MCIntake`, `Intake.cfg` | type invariant, grounds of each status, custom headers are Python's dict, nothing read before the token or past the limit and no item looked at of a body that breaks off, the steps are those of `Relay` | holds |
| `intake_limits` | `MCIntake`, `Intake_limits.cfg` | grounds of each status around the size and count limits | holds |
| `form` | `MCForm`, `Form.cfg` | type invariant, `ReadsBack`, `PartsAreDelimited`, `SegmentsRespectQuotes`, `FitsIntake`, `Terminates` | holds |
| `startup` | `MCStartup`, `Startup.cfg` | type invariant, `EachSettingHasOneSource`, `SecretsReadBack`, `RecordMeansGraceful`, `ListensEverywhereOrNowhere`, `FailsClosed` | holds |
| `message` | `MCMessage`, `Message.cfg` | type invariant, `EnvelopeIsEveryoneOnce`, `AddressesReadBack`, `TextsReadBack`, `PartsReadBack` | holds |
| `message_breaks` | `MCMessage`, `Message_breaks.cfg` | the refusal of display names that decode to a line break, as `mime.rs` and `PLAN.md` state it | violated |

CHECK_DEADLOCK is off because sessions, tasks, parsers and processes end.

Every property of a passing run has a mutant in `PROJECT.json`: a definition of
the model changed the way a plausible bug would change the code, under which
the run finds the property violated.  The mutants stand next to the definitions
they replace.

### Bounds

- `session`: three recipients.  The RCPT loop distinguishes the first reply, a
  later one and the last one, and every mixture of accepted, temporarily and
  permanently refused recipients needs three.  The codes are one of each kind
  that some step tells apart; three challenges are one to each prompt of LOGIN
  and one too many.  The theorems below lift all of these bounds.
- `relay`: three requests for one slot and two blocking threads.  One holds the
  slot while two wait, which is the least for the order of the queue to matter;
  three jobs compete for two threads.  `BlockingThreads = 2` is the constant of
  `main.rs`, not a bound.  Two recipients let a refusal be partial.  `relay_live`
  has one, takes no symmetry, and uses `LiveSpec`, which fixes `strict` to FALSE
  and has one status for every rejection and one for every answer without a
  task: nothing waits for a status.  Requests are reused, so they arrive
  forever.
- `intake`: two domains, three policies of which two share a token and differ
  in everything, and bodies of up to `MaxBodyBytes` = 6, so that forms have up
  to six items of every kind in every order: each required field, two headers
  that may be the same one, and one item that repeats or is wrong.  Frames of 2
  and 6 bytes meet and miss the limit.  `intake_limits` has room for the three
  required fields and up to three files or large texts, with one attachment
  allowed, so that size, count and aggregate are each met exactly and exceeded
  by one.
- `form`: forms of up to two parts with every header and data of `MCForm`, and
  of three without data; the data is as near to a boundary line as it can be
  without being one.  Bodies of two parts are cut off at every byte, and every
  byte is replaced by each of four that the scanner looks for.  Every content
  type of five symbols and every urlencoded body of five is read.  Limits of
  one file, two fields, parts of six bytes, boundaries of three, three headers
  of six bytes are met and exceeded.
- `startup`: one unusual thing at a time.  Every short text and every spelling
  of the boundary numbers for the four kinds of numeric settings, each pair of
  unusual variables, each field set twice; secrets files of up to two policies
  in every style of writing, cut off after every item of a block-style file, or
  with one wrong item anywhere; every state of the CA file; hosts with up to
  two addresses and a duplicate.  `MaxInt`, `MaxDigits`, `MaxPort`, `MaxCount`,
  `MaxTimeout` and `MaxDepth` are the code's `i64`, 19 digits, 65535, `u32`,
  1e9 and 64, made small so that both sides of each are enumerated.
- `message`: every display name of three symbols, as clients quote it and as it
  comes otherwise; texts of characters and of encoded words that are short,
  long, unreadable, adjacent or overlapping; envelopes of up to two, one and one
  recipients out of four; every combination of bodies with up to two inline
  files, and of bodies with up to two attachments.  `MaxLine` 40,
  `AddressRoom` 10 and `MaxEncodedWord` 13 are the code's 998, 260 and 75: long
  texts then are a few characters beyond them.

The guards hold no other bound: `FrameSizes` is finite, and reading stops at
the first frame past the limit.

### Fairness

- `WF_vars(Client)` (`SmtpSession`).  Each socket operation of a session has a
  timeout (`smtp.rs`: `RelayStream`, and the one around `connect`), so each wait
  ends, with `NoCode` if nothing else.  This assumes that a reply has finitely many
  lines: the timeout starts anew with each read, and a server that continues
  one reply forever holds its session.  Nothing is assumed of the server.
- `WF_vars(Task(r))`, `WF_vars(Respond(r))` (`Relay`).  The runtime polls every
  task that is ready.  `SessionEnds` is among them because of the property of
  that name in `SmtpSession`.  `BodyEnds` is not: a client may stall.
- `WF_vars(JobStarts)`, `WF_vars(JobEnds(r))`.  The blocking threads take jobs
  in order; builds terminate, and a name lookup ends by the resolver's own
  timeouts.  `pipeline.rs` sets none, so with lookups that hang `SubmissionEnds`
  is lost.
- `WF_vars(Next)` (`Form`).  The parser is a function without an await: it takes
  its next step.
- `WF_vars(ServersJoined)`, `WF_vars(Exit)`.  Both are awaits that become ready.

Nothing is assumed of clients, signals, panics or the mail server.  `StopEnds`
has the premise that no client stalls in the middle of its request forever:
there is no timeout on reading one, so a client that does delays the stop until
the supervisor kills the process.

## Theorems

All theorems hold for every value of the constants, under the assumptions the
modules name.  They rest on one argument throughout: an inductive invariant,
conjoined of named parts, which the first state satisfies, which every action
keeps, and which implies the properties.

### SmtpSession

`SmtpSessionProofs` proves for every number of recipients `N`, every set of
`ReplyCodes` and every `MaxChallenges`, under the assumptions `NAssumption`
(there is a recipient; `pipeline.rs` has checked it), `ReplyCodesAssumption`
(codes are 200 to 599) and `MaxChallengesAssumption`:

| Theorem | States |
|---|---|
| `Invariance` | `Spec => []IInv` |
| `TypeCorrect` | `Spec => []TypeOK` |
| `SuccessTaken` | `Spec => []SuccessIsTaken` |
| `DoubtOnlyAtTheEnd` | `Spec => []OnlyTheEndIsInDoubt` |
| `InTheClear` | `Spec => []NothingInTheClear` |
| `PermanentOnlyForAnAnswer` | `Spec => []PermanentNeedsAnAnswer` |
| `Quits` | `Spec => []QuitDiscipline` |
| `Refinement` | `Spec => ImplementsSubmission` |

None of the invariants is inductive as it stands.  `SuccessIsTaken`, for
example, needs to know that the server counts the recipients the client has
read replies for, although the server acts on a command the client no longer
waits for.  `IInv` is their strengthening, in named parts:

- `ChannelInv`: which channel each step runs on; past the first EHLO only with
  STARTTLS.
- `OutcomeInv`: an outcome is decided exactly when the session is closing, and
  then never again, together with the only QUIT.
- `WireInv`: there is at most one command or one reply on the wire, and a
  command that is there while the client is done was given up on: its step
  failed temporarily without a code.
- `RcptInv`: the recipients the server accepted are those whose reply the
  client has read, and at most the one whose reply is on its way.
- `TakenInv`: the message is taken once, for exactly the accepted recipients,
  while the reply is awaited or after the client gave up on it.
- `CauseInv`: why a failure is permanent.

There is one lemma per part that a step keeps it, with one step per action.
`Refinement` follows from the invariance of `IInv`: a step of the server that
takes the message is `Take`, the step that decides the outcome is `Succeed` or
`Fail`, and every other step stutters.

### Relay

`RelayProofs` proves for every finite set of requests and of recipients, every
positive number of slots and of blocking threads (`FiniteAssumption`,
`MaxConcurrencyAssumption`, `BlockingThreadsAssumption`; `config.rs` refuses a
concurrency of zero, and what is counted is finite):

| Theorem | States |
|---|---|
| `Invariance` | `Spec => []IInv` |
| `TypeCorrect` | `Spec => []TypeOK` |
| `SlotsConserved` | `Spec => []SlotsAreConserved` |
| `SessionsAreLimited` | at most `MaxConcurrency` tasks talk to the mail server at a time |
| `NobodyForgotten` | `Spec => []NobodyIsForgotten` |
| `RecordsTasksOnce` | `Spec => []OneRecordPerTask` |
| `AnswersTellDelivery` | `Spec => []AnswerTellsDelivery` |
| `StopsInOrder` | `Spec => []StopLosesNothing` |

The parts of `IInv`:

- `TypeOK` and `SlotsAreConserved`: they need each other, because the permits
  stay within their limit only while every slot is accounted for.
- `QueueInv`: whoever waits is in the queue it waits in and in no other, once;
  the blocking pool's members are those that run and those that queue.
- `HistoryInv`: for each request on its own, what its stage says of the record,
  the answer, the mail server and the outcome of the session.
- `StopInv`: the phases of the stop come in their order, with no connection
  from the second and no task at the last.

A queue is a set here: as nobody is in it twice, `Append` adds one member and
`Tail` takes the head away (`AppendQueue`, `TailQueue`), and a slot that moves
changes two cardinalities by one.  That `Conclude` hands its slot to the first
waiter is the one step where queue, permits and stages change together
(`ConcludeSlots`).

### Intake

`IntakeProofs` proves for every list of policies, every set of values and all
limits, under the assumptions of `Intake` (`SizesAssumption`: a frame has a
size, an item takes at least a byte of the body; `PoliciesAssumption` and
`LimitsAssumption`: the types of the configuration, of which the relevant part
is that addresses and domains of a policy are sets):

| Theorem | States |
|---|---|
| `Invariance` | `Spec => []IInv` |
| `TypeCorrect` | `Spec => []TypeOK` |
| `ReadsBounded` | `Spec => []ReadsNoMoreThanItMust` |
| `HeadersMap` | `Spec => []HeadersAreTheMap` |
| `Rights` | `Spec => []RightsDecide`, the conjunct of `AnswerHasItsGround` about 401, 403 and what may be accepted |
| `TaskSteps` | `Spec => StepsOfTask` |

`HeadersAreTheMap` is inductive by itself; the others need the parts of this
module's `IInv`:

- `TokenInv`: a task has a status exactly when it has ended, and 401 exactly
  when no policy matches its token.
- `ReadInv`: what has been read and collected is empty before its time, and a
  task that goes on is within the limit.
- `FromInv`: the loop invariant of `parse_form` for the sender.  The from
  fields collected are those of the form, in both directions.
- `PolicyInv`: after `enforce_policy` the sender and the path are within the
  policy of the token, and 403 has its ground.

`Policy`, the last match of a loop, and `Own`, the match that no later one
replaces, are shown to be the same by `PolicyIsOwn`; that a non-empty set of
positions has a greatest member (`GreatestMember`) follows from the
well-foundedness of the natural numbers.

`IntakeAnswers` proves the rest of the grounds: `Grounds` is
`Spec => []AnswerHasItsGround`.  Its invariant goes on from `IInv`:

- `CollectedInv`: what the loop of `parse_form` has collected and added up is
  what a look at all items so far counts and adds up.
- `WithinInv`: nothing collected is above its limit.
- `PassedInv`: what the checks behind the task have established.
- `AnswerInv`: these, while the request is not rejected; afterwards, that 400
  and 413 have their grounds.

A ground, once there, stays (`BadStays`, `ExcessiveStays`), so that a rejection
is justified when the whole form is known; and none is there when the last
check has passed (`AcceptedIsNotBad`, `AcceptedIsNotExcessive`).  The sum of
sizes is a recursive function; `Numbers` shows that running sums exist for any
sequence of sizes (`RunningSums`) and that two functions that start alike and
go on alike are the same (`StepByStep`), which is induction on the positions.
`MarksAssumption` says that the marks for what cannot be read are no paths or
mailboxes.  Limits may be negative, as `config.rs` allows: a form without a
file is then accepted although `MAX_ATTACHMENTS` is below zero, and
`Excessive` says so.

### Form

`FormProofs` proves for every set of requests and all limits, under
`FormLimitsAssumption` (the limits of files, fields and parts are integers, as
in `config.rs`; the parser's own constants are natural) and
`RequestsAssumption` (no header value holds a CR, which the HTTP library
refuses):

| Theorem | States |
|---|---|
| `TypeCorrect` | `Spec => []TypeOK` |
| `PartsDelimited` | `Spec => []PartsAreDelimited` |
| `SegmentsRespect` | `Spec => []SegmentsRespectQuotes` |
| `FitsWithinLimits` | `Spec => []FitsIntake`, what `Intake` takes for granted of the items |

- `StagesInv`, `WordsInv`: what a stage has not touched yet; that parameters and
  boundary are made of the header's symbols.
- `SplitInv`: the positions of `parseparam`.  Either `ind` comes first and the
  quotes are counted up to it (`InOrder`), or `end` has been overtaken and the
  quotes are counted up to the semicolon between (`Crossed`).  In both cases no
  place to split at has been passed.
- `PartInv`: the search of a part is ahead of its first byte and has passed no
  boundary line.  Why a delimiter that did not end the part may be skipped as a
  whole: the boundary holds no CR, so no delimiter begins inside another.
- `FitInv`, on top of these: parts are counted before their data is read, so
  the counters are one ahead of the items while it is (`CountsInv`); and the
  items have taken no more than what lies before the scanner (`WeightInv`).
  Decoding an urlencoded value never makes it longer (`UnquotePlusShrinks`).

### Startup

`StartupProofs` proves for every set of worlds (environment, file, command
line, host and CA file) and every limit, under these assumptions:
`WorldsAssumption` (the variables are a list, a resolved host has an address),
`EventsAssumption` (the events of a file end with the end of its stream or an
error), `DefaultsAssumption` (the defaults are values of their fields) and
`TextsAssumption` (the types of the tables).

| Theorem | States |
|---|---|
| `Invariance` | `Spec => []IInv` |
| `TypeCorrect` | `Spec => []TypeOK` |
| `RecordsMeanGraceful` | `Spec => []RecordMeansGraceful` |
| `ListensEverywhere` | `Spec => []ListensEverywhereOrNowhere` |
| `StartsFailClosed` | `Spec => []FailsClosed` |
| `OneSource` | `Spec => []EachSettingHasOneSource`, if texts are read as they are meant |

- `SettingsInv`: the fields read are the first so many of the list, in order.
- `ReaderInv`: the reader has not passed the end of the stream, and the stack
  of open collections is within `MaxDepth`.
- `ConfigurationInv`: each step of `main` has what the steps before it made
  sure of.
- `HandlersInv`: both handlers are there before the record, the record before
  the servers.
- `SocketsInv`, `RestInv`: listeners are there from the first that is bound to
  the end or to the address that fails, and none is another process's.
- `SourceInv`, on top of these: a setting is what its only variable or its
  default is read as, and a refusal has its field.

`OneSource` has a premise, `ReadAsMeant`: the parsers read the text of a
variable as the administrator means it, which a world says beside the text.
`MeaningsAssumption` in `MCStartup` evaluates it for every spelling of the
boundary numbers; the theorem is about which variable counts, in which order,
and what stops the start.

### Message

`MessageProofs` proves for every set of requests, every table and every limit,
under these assumptions:
`InputsAssumption` (custom headers are a list with known names, texts are made
of the table's symbols, uploads are lists), `Base64Assumption` (the alphabet
writes different symbols differently and has no CR and LF, which a text may
hold) and `TypesAssumption` (`application/octet-stream`, the type of an upload
whose own is not forwarded, is no container).

| Theorem | States |
|---|---|
| `TypeCorrect` | `Spec => []TypeOK` |
| `EnvelopeOnce` | `Spec => []EnvelopeIsEveryoneOnce` |
| `PartsAreReadBack` | `Spec => []PartsReadBack` |

`ReadInv` says that the recipients parsed were parsed from values given,
`WrittenInv` that headers and inline parts are lists, `EnvelopeInv` that the
envelope is made at the end, of the first occurrences of each address.  That
those are each address once, in order, is `FirstsAreOnce`, from what
`Ascending` does with a set of positions (`AscendingIsSorted`).

`PartsAreReadBack` rests on `BodyInv`, on top of these: the inline parts are
those of the request as far as it has been read, and the tree is `TreeWith(n)`,
the one that is asked for with its first n attachments.  `AddAttachment` makes
`TreeWith(n)` of `TreeWith(n - 1)`, wrapping the texts with the first and
appending with each further one (`OneMoreAttached`).  What remains is about one
tree and one text:

- The tree opened three times has the leaves of its texts, then those beside
  them, in order (`LeavesOfTree`), and no node but those it was made of
  (`NodesAreClosed`).  From the list of nodes follow the shapes:
  `MultipartsAreMany`, `RelatedIsHtml`, `RelatedIsThere`, `BesideIsOnTop`.
- Those leaves are the parts that were asked for (`LeavesAreMeant`).  For an
  upload this is its bytes; for a text, `CanonicalKeepsLines`: symbols keep
  their line and their order while CR, LF and CRLF become CRLF.  It follows the
  text symbol by symbol: `IsSentUpto` relates the first i symbols of a text to
  what they were sent as, with the place of each, and `SendOneMore` takes it
  from i - 1 to i.  For an LF behind a CR nothing is sent, since the break was
  the last that was.
- `SingleIsSent`: the only part of a message of one part loses just the line
  break that was added, since base64 ends with none and a text with one.

`FlattenSeq` is recursive.  `FlattenStepByStep` shows of a function of the index
that it is what `FlattenSeq` returns; induction over that index is
`Numbers!StepByStep`, which is about a set of numbers and so in reach.

### Only model-checked

- Liveness: `SessionEnds`, `SubmissionEnds`, `StopEnds`, `Terminates`.  Fairness
  and ENABLED are out of the prover's reach.
- `ReadsBack`, `SecretsReadBack`, `AddressesReadBack` and `TextsReadBack`: they
  compare the program with what was meant by a whole text, through a reader of
  their own.  Both sides are recursive over data (decoding, quoting, nesting),
  and the prover has no induction over it.  Where the recursion is along a list
  alone, as in `PartsReadBack`, an index can take its place; these go through
  a parser's state.
- `ReadAsMeant`, the premise of `OneSource`: whether the parsers of `Settings`
  agree with what is meant is a question about each text.

## Where documents and code differ

- `QuitWhileOpen`.  A comment at `rust/src/smtp_tests.rs:390` promises QUIT
  after every outcome while the channel is open.  After a banner with a negative
  code other than 421 the code closes the connection without one.  After every
  later step the promise holds (`QuitDiscipline`).
- `TheCodeDecides`.  `docs/api-compatibility.md:156` maps a 4xx reply to sender,
  HELO or DATA to 503, and line 157 a 5xx reply to 502.  `ehlo_failure`
  (`smtp.rs:291`) does not look at the code: with STARTTLS off a 4xx reply to
  EHLO becomes a permanent failure, 502, and with STARTTLS configured a 5xx reply
  a temporary one, 503.  Each half of the property is violated on its own.  The
  tests (`rust/src/smtp_tests.rs:314`) and `rust/PLAN.md:401` record this as
  intended.  What holds of all steps is `PermanentNeedsAnAnswer`: a permanent
  failure has an answer of the server for its cause, which is a 4xx only where
  it refuses the credentials, or EHLO with STARTTLS off.
- `NamesHoldNoLineBreak`.  `rust/src/mime.rs:8` and `rust/PLAN.md:355` list a
  display name that decodes to a line break among the refusals.  The check
  (`mime.rs:102-106`) scans the field as it was sent, and the header is written
  from the name the parser unquoted.  A quoted string whose characters are
  escaped one by one hides an encoded word from the scan; the name written is
  `=?utf-8?q?=0A?=`.  Without such escapes the refusal works.
- `OneRecordPerPost`.  `README.md:102` promises one record per POST to the
  messages route.  The 413 layer answers before there is a task, and hence a
  record.  Nor does a task leave one that panics before it has made it, because
  `random_hex` gets no random bytes (`PanicEarly`), although `pipeline.rs:144`
  promises a record for each request that reaches the route, also when its task
  panics.  What holds is one record per task that got that far
  (`OneRecordPerTask`).

## Not modelled

- The lines of a reply and the bytes of a command (lettre's codec), the
  certificate check, the CA bundle.
- Characters: IDNA, the syntax of an address, header tables, Python's
  whitespace other than the space, the regular expressions of YAML 1.1 types.
  They are tables; the models take their verdicts.
- What lettre, email_encoding and the YAML scanner do with bytes: folding,
  transfer encodings, RFC 2231 parameters, the events of a file.
- Answers' and records' texts, the log threshold.
- SIGKILL: nothing is persisted that a restart would read.
- Test tooling, fixtures, release scripts.
- HTTP routing beyond the 413 layer, and the Python application with its SMTP
  client: planned, see below.

## Plan

Written: every module of the table above.  Next, in this order:

1. `PySession`: the dialogue of Python's smtplib behind `smtp_client.py` as a
   second implementation of `Submission`, and which status each of the two
   gives for the same replies.
2. The routes of `http.rs`, and the Python application's thread limiter.

------------------------------ MODULE SmtpSession ------------------------------
(***************************************************************************)
(* One SMTP session of the Rust relay (rust/src/smtp.rs): the client that  *)
(* submits a message, the SMTP server it talks to, and the connection      *)
(* between them.                                                           *)
(*                                                                         *)
(* The client is always waiting for one reply, and pc names the command it *)
(* waits for.  Every wait can end without a reply code: a timeout, a lost  *)
(* connection and a reply that cannot be parsed are one case, NoCode,      *)
(* because the client treats them alike.  The server handles a command     *)
(* when it likes and answers with any code, so a late answer races the     *)
(* timeout: a command the client gave up on may still be handled.          *)
(*                                                                         *)
(* The protocol library lettre is not part of the repository.  Its share   *)
(* (commands, when it aborts a session by sending QUIT itself, how it      *)
(* answers AUTH challenges) is modelled from how smtp.rs uses it.          *)
(***************************************************************************)
EXTENDS Integers, Sequences

CONSTANTS
  N,              (* recipients of the envelope, in RCPT order: 1..N       *)
  ReplyCodes,     (* the codes the server answers with                     *)
  MaxChallenges   (* AUTH challenges lettre answers before it gives up     *)

ASSUME NAssumption == N \in Nat \ {0}
ASSUME ReplyCodesAssumption == ReplyCodes \subseteq 200..599
ASSUME MaxChallengesAssumption == MaxChallenges \in Nat \ {0}

VARIABLES
  starttls,    (* SmtpConfig.tls is set (SMTP_STARTTLS on)                 *)
  ascii,       (* envelope_address accepts every recipient                 *)
  pc,          (* the step whose reply the client waits for                *)
  channel,     (* the connection: "down", "plain" or "tls"                 *)
  sent,        (* the command on its way to the server, "none" if none     *)
  reply,       (* the code on its way to the client, NoReply if none       *)
  fallback,    (* LOGIN is offered and has not been tried yet              *)
  challenges,  (* AUTH challenges answered so far                          *)
  replies,     (* the code each RCPT got, in order                         *)
  outcome,     (* decided outcome of the session                           *)
  cause,       (* the step and the code that decided it                    *)
  quits,       (* QUIT commands sent                                       *)
  creds,       (* the channel the credentials were sent over, or "none"    *)
  rcpts,       (* server: recipients it accepted                           *)
  taken        (* server: recipients it has taken the message for          *)

config == <<starttls, ascii>>
client == <<pc, channel, sent, reply, outcome, cause, quits>>
auth   == <<fallback, challenges, creds>>
server == <<rcpts, taken>>
vars   == <<config, client, auth, replies, server>>

NoReply == -1
NoCode  == 0

Recipients == 1..N
Commands == {"banner", "ehlo", "starttls", "handshake", "ehloTls", "plain",
             "login", "challenge", "mail", "rcpt", "data", "body", "quit", "abort"}
Steps == Commands \cup {"connect", "done"}

Positive(c)   == c \in 200..399
Completion(c) == c \in 200..299
Transient(c)  == c \in 400..499

Accepted == {i \in DOMAIN replies : replies[i] \in {250, 251}}
Refused  == DOMAIN replies \ Accepted

TypeOK ==
  /\ starttls \in BOOLEAN
  /\ ascii \in BOOLEAN
  /\ pc \in Steps
  /\ channel \in {"down", "plain", "tls"}
  /\ sent \in Commands \cup {"none"}
  /\ reply \in ReplyCodes \cup {NoReply}
  /\ fallback \in BOOLEAN
  /\ challenges \in 0..MaxChallenges
  /\ replies \in Seq(ReplyCodes)
  /\ Len(replies) <= N
  /\ outcome \in {"pending", "ok", "temporary", "permanent"}
  /\ cause \in [step : Steps, code : ReplyCodes \cup {NoCode}]
  /\ quits \in Nat
  /\ creds \in {"none", "plain", "tls"}
  /\ rcpts \in SUBSET Recipients
  /\ taken \in SUBSET Recipients

Init ==
  /\ starttls \in BOOLEAN
  /\ ascii \in BOOLEAN
  /\ pc = "connect"
  /\ channel = "down"
  /\ sent = "none"
  /\ reply = NoReply
  /\ fallback = FALSE
  /\ challenges = 0
  /\ replies = <<>>
  /\ outcome = "pending"
  /\ cause = [step |-> "connect", code |-> NoCode]
  /\ quits = 0
  /\ creds = "none"
  /\ rcpts = {}
  /\ taken = {}

-------------------------------------------------------------------------------
(* How a step ends: the next command, or one of three ways to end.         *)

(* The command goes out and the client waits for its reply. *)
Await(step) ==
  /\ pc' = step
  /\ sent' = step
  /\ reply' = NoReply

Proceed(step) ==
  /\ Await(step)
  /\ UNCHANGED <<channel, outcome, cause, quits>>

Decide(result, c) ==
  /\ outcome' = result
  /\ cause' = [step |-> pc, code |-> c]

(* The channel is gone, or was never there: no QUIT.  A command already    *)
(* sent stays on its way.                                                  *)
End(result, c) ==
  /\ Decide(result, c)
  /\ pc' = "done"
  /\ channel' = "down"
  /\ UNCHANGED <<sent, reply, quits>>

(* The channel is open: the relay sends QUIT. *)
Quit(result, c) ==
  /\ Decide(result, c)
  /\ Await("quit")
  /\ quits' = quits + 1
  /\ UNCHANGED channel

(* lettre gives up on its own: it sends QUIT, then closes. *)
Abort(result, c) ==
  /\ Decide(result, c)
  /\ Await("abort")
  /\ quits' = quits + 1
  /\ UNCHANGED channel

(* Mutant: what comes without a code is permanent. *)
ErrorOfNoCode(c) == IF Transient(c) THEN "temporary" ELSE "permanent"

ErrorOf(c) == IF c = NoCode \/ Transient(c) THEN "temporary" ELSE "permanent"

(* Mutant: QUIT also after 421. *)
RejectThenQuit(c) == IF c = NoCode THEN End(ErrorOf(c), c) ELSE Quit(ErrorOf(c), c)

(* A reply that is not the wanted one decides by its code; 421 and the     *)
(* lack of a code mean the channel is closed.                              *)
Reject(c) ==
  IF c \in {NoCode, 421} THEN End(ErrorOf(c), c) ELSE Quit(ErrorOf(c), c)

(* The wait at this step is over: with the code that arrived, or without. *)
Got(step, c) ==
  /\ pc = step
  /\ c = NoCode \/ (c = reply /\ reply # NoReply)

-------------------------------------------------------------------------------
(* The client, one action per step. *)

Connect ==
  /\ pc = "connect"
  /\ \/ /\ ascii
        /\ Await("banner")
        /\ channel' = "plain"
        /\ UNCHANGED <<outcome, cause, quits>>
     \/ End("temporary", NoCode)
  /\ UNCHANGED <<config, auth, replies, server>>

Banner(c) ==
  /\ Got("banner", c)
  /\ IF Positive(c) THEN Proceed("ehlo") ELSE End(ErrorOf(c), c)
  /\ UNCHANGED <<config, auth, replies, server>>

(* Mutant: login without STARTTLS when the server does not offer it. *)
EhloOpportunistic(c) ==
  /\ Got("ehlo", c)
  /\ Positive(c)
  /\ \/ starttls /\ Proceed("starttls") /\ UNCHANGED creds
     \/ Proceed("plain") /\ creds' = channel
  /\ UNCHANGED <<config, fallback, challenges, replies, server>>

(* The EHLO reply says whether STARTTLS is offered. *)
Ehlo(c) ==
  /\ Got("ehlo", c)
  /\ \/ /\ Positive(c) /\ starttls
        /\ Proceed("starttls") \/ Quit("temporary", c)
     \/ /\ Positive(c) /\ ~starttls
        /\ Quit("permanent", c)
     \/ /\ ~Positive(c)
        /\ Abort(IF c # NoCode /\ ~starttls THEN "permanent" ELSE "temporary", c)
  /\ UNCHANGED <<config, auth, replies, server>>

Starttls(c) ==
  /\ Got("starttls", c)
  /\ IF Positive(c) THEN Proceed("handshake") ELSE Abort(ErrorOf(c), c)
  /\ UNCHANGED <<config, auth, replies, server>>

(* The handshake may complete, or fail on either side (the certificate and *)
(* the host name are always verified).                                     *)
Handshake(c) ==
  /\ Got("handshake", c)
  /\ \/ /\ c # NoCode
        /\ Await("ehloTls")
        /\ channel' = "tls"
        /\ UNCHANGED <<outcome, cause, quits>>
     \/ End("temporary", NoCode)
  /\ UNCHANGED <<config, auth, replies, server>>

(* The second EHLO reply says which mechanisms are offered; login tries    *)
(* PLAIN, then LOGIN.  AUTH PLAIN carries the credentials.                 *)
EhloTls(c) ==
  /\ Got("ehloTls", c)
  /\ \/ /\ Positive(c)
        /\ Proceed("plain")
        /\ fallback' \in BOOLEAN
        /\ creds' = channel
     \/ /\ Positive(c)
        /\ Proceed("login")
        /\ UNCHANGED <<fallback, creds>>
     \/ /\ Positive(c)
        /\ Quit("temporary", c)
        /\ UNCHANGED <<fallback, creds>>
     \/ /\ ~Positive(c)
        /\ Abort("temporary", c)
        /\ UNCHANGED <<fallback, creds>>
  /\ UNCHANGED <<config, challenges, replies, server>>

(* A challenge to PLAIN is an error of lettre's own (channel open), or     *)
(* cannot be decoded (treated as a reply that cannot be parsed).           *)
Plain(c) ==
  /\ Got("plain", c)
  /\ \/ c = 235 /\ Proceed("mail") /\ UNCHANGED fallback
     \/ /\ c = 334
        /\ Quit("temporary", c) \/ End("temporary", NoCode)
        /\ UNCHANGED fallback
     \/ c \in {NoCode, 421} /\ End("temporary", c) /\ UNCHANGED fallback
     \/ /\ c \notin {235, 334, NoCode, 421}
        /\ IF fallback THEN Proceed("login") ELSE Quit("permanent", c)
        /\ fallback' = FALSE
  /\ UNCHANGED <<config, challenges, creds, replies, server>>

(* A challenge to LOGIN is answered with the user name or the password, or *)
(* is not recognised (channel open), or cannot be decoded (treated as a    *)
(* reply that cannot be parsed).                                           *)
AnswerChallenge ==
  \/ /\ Proceed("challenge")
     /\ challenges' = challenges + 1
     /\ creds' = channel
  \/ Quit("temporary", 334) /\ UNCHANGED <<challenges, creds>>
  \/ End("temporary", NoCode) /\ UNCHANGED <<challenges, creds>>

Login(c) ==
  /\ Got("login", c)
  /\ \/ c = 235 /\ Proceed("mail") /\ UNCHANGED <<challenges, creds>>
     \/ c = 334 /\ AnswerChallenge
     \/ c \in {NoCode, 421} /\ End("temporary", c) /\ UNCHANGED <<challenges, creds>>
     \/ /\ c \notin {235, 334, NoCode, 421}
        /\ Quit("permanent", c)
        /\ UNCHANGED <<challenges, creds>>
  /\ UNCHANGED <<config, fallback, replies, server>>

(* Inside the challenges lettre aborts on every negative reply, and treats *)
(* the last challenge it may answer as an error whatever the reply.        *)
Challenge(c) ==
  /\ Got("challenge", c)
  /\ \/ /\ Positive(c) /\ challenges = MaxChallenges
        /\ End("temporary", NoCode)
        /\ UNCHANGED <<challenges, creds>>
     \/ /\ c = 235 /\ challenges < MaxChallenges
        /\ Proceed("mail")
        /\ UNCHANGED <<challenges, creds>>
     \/ /\ c = 334 /\ challenges < MaxChallenges
        /\ AnswerChallenge
     \/ /\ Positive(c) /\ c \notin {235, 334} /\ challenges < MaxChallenges
        /\ Quit("permanent", c)
        /\ UNCHANGED <<challenges, creds>>
     \/ /\ ~Positive(c)
        /\ Abort(IF c \in {NoCode, 421} THEN "temporary" ELSE "permanent", c)
        /\ UNCHANGED <<challenges, creds>>
  /\ UNCHANGED <<config, fallback, replies, server>>

Mail(c) ==
  /\ Got("mail", c)
  /\ IF c = 250 THEN Proceed("rcpt") ELSE Reject(c)
  /\ UNCHANGED <<config, auth, replies, server>>

(* Mutants: one RCPT too many; DATA although every recipient was refused. *)
AfterRcptOverrun(all) ==
  IF Len(all) <= N THEN Proceed("rcpt") ELSE Proceed("data")
AfterRcptUnchecked(all) ==
  IF all[Len(all)] = 421 THEN End("temporary", 421)
  ELSE IF Len(all) < N THEN Proceed("rcpt") ELSE Proceed("data")

(* What the RCPT loop does once it has all replies, or a 421: no accepted  *)
(* recipient or a closed channel fails the submission, temporarily if any  *)
(* recipient was refused temporarily.                                      *)
AfterRcpt(all) ==
  LET last     == all[Len(all)]
      accepted == \E i \in DOMAIN all : all[i] \in {250, 251}
      result   == IF \E i \in DOMAIN all : Transient(all[i])
                  THEN "temporary" ELSE "permanent"
  IN \/ last = 421 /\ End(result, last)
     \/ last # 421 /\ Len(all) < N /\ Proceed("rcpt")
     \/ last # 421 /\ Len(all) = N /\ accepted /\ Proceed("data")
     \/ last # 421 /\ Len(all) = N /\ ~accepted /\ Quit(result, last)

Rcpt(c) ==
  /\ Got("rcpt", c)
  /\ \/ c = NoCode /\ End("temporary", c) /\ UNCHANGED replies
     \/ c # NoCode /\ replies' = Append(replies, c) /\ AfterRcpt(Append(replies, c))
  /\ UNCHANGED <<config, auth, server>>

Data(c) ==
  /\ Got("data", c)
  /\ IF c = 354 THEN Proceed("body") ELSE Reject(c)
  /\ UNCHANGED <<config, auth, replies, server>>

(* Mutant: any positive reply to the end of the data counts. *)
BodyUnrequired(c) ==
  /\ Got("body", c)
  /\ IF Positive(c) THEN Quit("ok", c) ELSE Reject(c)
  /\ UNCHANGED <<config, auth, replies, server>>

(* The reply to the end of the data. *)
Body(c) ==
  /\ Got("body", c)
  /\ IF c = 250 THEN Quit("ok", c) ELSE Reject(c)
  /\ UNCHANGED <<config, auth, replies, server>>

(* Mutants: a failed QUIT fails the submission; QUIT waits for its reply   *)
(* without a timeout.                                                      *)
CloseReports(c) ==
  /\ Got("quit", c) \/ Got("abort", c)
  /\ IF Completion(c) THEN UNCHANGED <<outcome, cause>> ELSE Decide("temporary", c)
  /\ pc' = "done"
  /\ channel' = "down"
  /\ UNCHANGED <<config, sent, reply, quits, auth, replies, server>>
CloseWaits(c) ==
  /\ c # NoCode
  /\ Got("quit", c) \/ Got("abort", c)
  /\ pc' = "done"
  /\ channel' = "down"
  /\ UNCHANGED <<config, sent, reply, outcome, cause, quits, auth, replies, server>>

(* The connection is dropped whatever became of QUIT. *)
Close(c) ==
  /\ Got("quit", c) \/ Got("abort", c)
  /\ pc' = "done"
  /\ channel' = "down"
  /\ UNCHANGED <<sent, reply, outcome, cause, quits>>
  /\ UNCHANGED <<config, auth, replies, server>>

Step(c) ==
  \/ Banner(c) \/ Ehlo(c) \/ Starttls(c) \/ Handshake(c) \/ EhloTls(c)
  \/ Plain(c) \/ Login(c) \/ Challenge(c)
  \/ Mail(c) \/ Rcpt(c) \/ Data(c) \/ Body(c) \/ Close(c)

Client == Connect \/ \E c \in ReplyCodes \cup {NoCode} : Step(c)

-------------------------------------------------------------------------------
(* The server handles the command that reached it and answers: a 2xx       *)
(* answer to RCPT accepts the recipient, a 2xx answer to the end of the    *)
(* data takes the message for the accepted ones.                           *)
Serve(c) ==
  /\ sent # "none"
  /\ sent' = "none"
  /\ reply' = c
  /\ rcpts' = IF sent = "rcpt" /\ Completion(c)
              THEN rcpts \cup {Len(replies) + 1} ELSE rcpts
  /\ taken' = IF sent = "body" /\ Completion(c) THEN rcpts ELSE taken
  /\ UNCHANGED <<config, pc, channel, outcome, cause, quits, auth, replies>>

Server == \E c \in ReplyCodes : Serve(c)

Next == Client \/ Server

Spec == Init /\ [][Next]_vars

(* Every socket operation has a timeout, so the client's wait always ends. *)
FairSpec == Spec /\ WF_vars(Client)

-------------------------------------------------------------------------------
(* Success is never claimed for a recipient the server did not take the    *)
(* message for, and a recipient refused with a negative reply was not      *)
(* served: Ok(refused) of session, after any interleaving of replies,      *)
(* timeouts and late answers.                                              *)
SuccessIsTaken ==
  outcome = "ok" =>
    /\ Accepted # {}
    /\ Accepted \cup Refused = Recipients
    /\ Accepted \subseteq taken
    /\ \A i \in taken : Completion(replies[i])

(* A failed submission whose message was taken all the same (a retry would *)
(* duplicate it) failed on the reply to the end of the data: that reply    *)
(* was lost or late (503), or is a 2xx code other than 250 (502).  No      *)
(* other step of transaction leaves the delivery in doubt.                 *)
OnlyTheEndIsInDoubt ==
  outcome \in {"temporary", "permanent"} /\ taken # {} =>
    /\ cause.step = "body"
    /\ IF outcome = "temporary"
       THEN cause.code = NoCode
       ELSE Completion(cause.code) /\ cause.code # 250

(* Neither the credentials nor the message ever cross a plain channel,     *)
(* whatever the server offers (the is_encrypted check before login).       *)
NothingInTheClear ==
  /\ creds # "plain"
  /\ ~starttls => creds = "none"
  /\ taken # {} => starttls
  /\ pc \in {"mail", "rcpt", "data", "body"} => channel = "tls"

(* A failure is permanent only when the server answered: never for a       *)
(* timeout, a lost connection or an unparsable reply.  The answer is a 4xx *)
(* one in two cases only: a refusal of the credentials, but for            *)
(* 421 (docs/api-compatibility.md:159 makes it permanent), and a refusal   *)
(* of EHLO.  EHLO decides it, whatever the code, only where STARTTLS is    *)
(* off; and a mixed refusal of all recipients is temporary.                *)
PermanentNeedsAnAnswer ==
  outcome = "permanent" =>
    /\ cause.code # NoCode
    /\ Transient(cause.code) => cause.step \in {"ehlo", "plain", "login", "challenge"}
    /\ cause.code = 421 => cause.step = "ehlo"
    /\ cause.step = "ehlo" => ~starttls
    /\ cause.step = "rcpt" => \A i \in DOMAIN replies : ~Transient(replies[i])

(* One QUIT at most goes out, the relay's or lettre's; the relay sends its *)
(* own only on an open channel, never after 421 or a lost connection; and  *)
(* a session that got past the banner ends with QUIT unless the channel is *)
(* gone (has_broken and Failure.open).                                     *)
QuitDiscipline ==
  /\ quits <= 1
  /\ pc = "quit" => channel # "down" /\ cause.code \notin {NoCode, 421}
  /\ pc = "done" /\ quits = 0 =>
       cause.step \in {"connect", "banner"} \/ cause.code \in {NoCode, 421}

(* The session ends, whatever the server does: with WF_vars(Client). *)
SessionEnds == <>(pc = "done")

(* The session keeps the contract of Submitter. *)
Contract == INSTANCE Submission WITH
              refused <- IF outcome = "ok" THEN Refused ELSE {}
ImplementsSubmission == Contract!Spec

-------------------------------------------------------------------------------
(* Two statements of the repository that the program does not keep.        *)

(* smtp_tests.rs:390: "QUIT after every outcome while the channel is open, *)
(* never after 421 or a lost connection".                                  *)
QuitWhileOpen ==
  pc = "done" /\ cause.code \notin {NoCode, 421} => quits > 0

(* docs/api-compatibility.md:156: a temporary failure, "4xx                *)
(* sender/HELO/DATA or any all-refused recipient reply", is answered with  *)
(* 503; line 157: a permanent rejection, "5xx response", with 502.  (A     *)
(* refused login is line 159's: 502.)                                      *)
TheCodeDecides ==
  /\ outcome = "permanent" /\ cause.step \notin {"plain", "login", "challenge"} =>
       ~Transient(cause.code)
  /\ outcome = "temporary" /\ cause.step # "rcpt" => cause.code \notin 500..599

===============================================================================

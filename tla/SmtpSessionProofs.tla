--------------------------- MODULE SmtpSessionProofs ---------------------------
(***************************************************************************)
(* Proofs about SmtpSession, for every number of recipients, every set of  *)
(* reply codes and every number of AUTH challenges.                        *)
(*                                                                         *)
(* None of the safety properties is inductive.  The inductive invariant    *)
(* IInv adds what they leave unsaid: which channel each step runs on, what *)
(* may still be on its way to the server, how the server's view of the     *)
(* envelope follows the replies the client has read, and that the message  *)
(* goes out once.                                                          *)
(***************************************************************************)
EXTENDS SmtpSession, SequenceTheorems, TLAPS

Before  == {"connect", "banner", "ehlo", "starttls", "handshake", "ehloTls",
            "plain", "login", "challenge", "mail"}
Closing == {"quit", "abort", "done"}

(* The channel of each step, past the first EHLO only with STARTTLS; no    *)
(* challenge is answered before login starts.                              *)
ChannelInv ==
  /\ pc \in {"connect", "done"} <=> channel = "down"
  /\ pc \in {"banner", "ehlo", "starttls", "handshake"} => channel = "plain"
  /\ pc \in {"ehloTls", "plain", "login", "challenge", "mail", "rcpt", "data", "body"}
       => channel = "tls"
  /\ channel = "tls" \/ pc \in {"starttls", "handshake"} \/ cause.step = "body"
       => starttls
  /\ creds # "plain"
  /\ creds # "none" => starttls
  /\ pc \in Before \ {"challenge", "mail"} => challenges = 0

(* An outcome is decided exactly when the session is closing. *)
OutcomeInv ==
  /\ outcome = "pending" <=> pc \notin Closing
  /\ outcome = "pending" => quits = 0
  /\ pc \in {"quit", "abort"} => quits = 1
  /\ quits <= 1
  /\ pc = "quit" => cause.code \notin {NoCode, 421}
  /\ pc = "done" /\ quits = 0 =>
       cause.step \in {"connect", "banner"} \/ cause.code \in {NoCode, 421}

(* What is on the wire: one command or one reply, unless the client closed. *)
WireInv ==
  /\ pc # "done" => sent \in {pc, "none"}
  /\ pc = "connect" => sent = "none"
  /\ sent # "none" /\ pc # "done" => reply = NoReply
  /\ pc = "done" /\ sent \in {"rcpt", "body"} =>
       outcome = "temporary" /\ cause.step = sent /\ cause.code = NoCode

(* The recipients: the server knows those whose reply the client has read, *)
(* and at most the one whose reply is still on its way.                    *)
RcptInv ==
  /\ pc \in Before => replies = <<>> /\ rcpts = {}
  /\ pc = "rcpt" \/ sent = "rcpt" => Len(replies) < N
  /\ pc \in {"data", "body"} \/ outcome = "ok" \/ cause.step \in {"data", "body"} =>
       Len(replies) = N /\ Accepted # {}
  /\ Accepted \subseteq rcpts
  /\ \A i \in rcpts : i <= Len(replies) => Completion(replies[i])
  /\ pc = "rcpt" /\ sent = "none" /\ reply # NoReply =>
       (Len(replies) + 1 \in rcpts <=> Completion(reply))
  /\ pc = "rcpt" /\ reply = NoReply => Len(replies) + 1 \notin rcpts
  /\ \A i \in rcpts : i <= Len(replies) + 1

(* The message is taken once, while its reply is awaited or after the      *)
(* client gave up on it.                                                   *)
TakenInv ==
  /\ sent = "body" => taken = {}
  /\ taken \subseteq rcpts
  /\ pc = "body" /\ sent = "none" /\ reply # NoReply =>
       taken = IF Completion(reply) THEN rcpts ELSE {}
  /\ pc = "body" /\ reply = NoReply => taken = {}
  /\ taken # {} => pc = "body" \/ (outcome # "pending" /\ cause.step = "body")
  /\ taken # {} /\ outcome = "temporary" => cause.code = NoCode
  /\ taken # {} /\ outcome = "permanent" => Completion(cause.code) /\ cause.code # 250
  /\ outcome = "ok" => taken = rcpts /\ cause.step = "body"

(* Why a failure is permanent. *)
CauseInv ==
  /\ PermanentNeedsAnAnswer
  /\ outcome # "pending" => cause.step \notin Closing

IInv ==
  /\ TypeOK
  /\ ChannelInv
  /\ OutcomeInv
  /\ WireInv
  /\ RcptInv
  /\ TakenInv
  /\ CauseInv

-------------------------------------------------------------------------------

(* The initial states satisfy the inductive invariant. *)
LEMMA InitInv == Init => IInv
<1> SUFFICES ASSUME Init PROVE IInv
  OBVIOUS
<1> USE DEF Init, NoCode, NoReply
<1>1. TypeOK
  <2>1. replies \in Seq(ReplyCodes) /\ Len(replies) <= N
    BY NAssumption
  <2>2. challenges \in 0..MaxChallenges
    BY MaxChallengesAssumption
  <2>3. cause \in [step : Steps, code : ReplyCodes \cup {NoCode}]
    BY DEF Steps
  <2> QED
    BY <2>1, <2>2, <2>3 DEF TypeOK, Commands, Steps
<1>2. Accepted = {} /\ Len(replies) = 0
  BY DEF Accepted
<1>3. ChannelInv /\ OutcomeInv /\ WireInv /\ CauseInv
  BY DEF ChannelInv, OutcomeInv, WireInv, CauseInv, PermanentNeedsAnAnswer, Before, Closing
<1>4. RcptInv /\ TakenInv
  BY <1>2 DEF RcptInv, TakenInv, Before
<1> QED
  BY <1>1, <1>3, <1>4 DEF IInv

(* The server only answers: what it records are recipients. *)
LEMMA ServeKeepsTypes ==
  ASSUME TypeOK, RcptInv, NEW c \in ReplyCodes, Serve(c)
  PROVE  TypeOK'
<1>1. /\ sent' = "none" /\ reply' = c
      /\ UNCHANGED <<config, pc, channel, outcome, cause, quits, auth, replies>>
  BY DEF Serve
<1>2. rcpts' \in SUBSET Recipients
  <2>1. \/ rcpts' = rcpts
        \/ sent = "rcpt" /\ rcpts' = rcpts \cup {Len(replies) + 1}
    BY Zenon DEF Serve
  <2>2. rcpts \in SUBSET Recipients
    BY DEF TypeOK
  <2>3. sent = "rcpt" => Len(replies) + 1 \in 1..N
    <3>1. Len(replies) \in Nat
      BY LenProperties DEF TypeOK
    <3>2. sent = "rcpt" => Len(replies) < N
      BY DEF RcptInv
    <3> QED
      BY <3>1, <3>2, NAssumption
  <2> QED
    BY <2>1, <2>2, <2>3 DEF Recipients
<1>3. taken' \in SUBSET Recipients
  BY Zenon DEF Serve, TypeOK
<1> QED
  BY <1>1, <1>2, <1>3 DEF TypeOK, config, auth

(* Every step keeps the types: the RCPT loop stops at N replies, login at  *)
(* MaxChallenges challenges. *)
LEMMA TypeOKStep == IInv /\ [Next]_vars => TypeOK'
<1> SUFFICES ASSUME IInv, [Next]_vars PROVE TypeOK'
  OBVIOUS
<1> USE NAssumption, ReplyCodesAssumption, MaxChallengesAssumption
    DEF IInv, TypeOK, RcptInv, ChannelInv, Commands, Steps, Before
<1> USE DEF Got, Await, Proceed, Decide, End, Quit, Abort, Reject, ErrorOf, NoReply, NoCode,
        Positive, Completion, Transient, Recipients, config, auth, server
<1>1. ASSUME Connect PROVE TypeOK'
  BY <1>1 DEF Connect
<1>2. ASSUME NEW c \in ReplyCodes \cup {NoCode}, Banner(c) PROVE TypeOK'
  BY <1>2 DEF Banner
<1>3. ASSUME NEW c \in ReplyCodes \cup {NoCode}, Ehlo(c) PROVE TypeOK'
  BY <1>3 DEF Ehlo
<1>4. ASSUME NEW c \in ReplyCodes \cup {NoCode}, Starttls(c) PROVE TypeOK'
  BY <1>4 DEF Starttls
<1>5. ASSUME NEW c \in ReplyCodes \cup {NoCode}, Handshake(c) PROVE TypeOK'
  BY <1>5 DEF Handshake
<1>6. ASSUME NEW c \in ReplyCodes \cup {NoCode}, EhloTls(c) PROVE TypeOK'
  BY <1>6 DEF EhloTls
<1>7. ASSUME NEW c \in ReplyCodes \cup {NoCode}, Plain(c) PROVE TypeOK'
  <2>1. fallback' = fallback \/ fallback' = FALSE
    BY <1>7, Zenon DEF Plain
  <2>2. fallback' \in BOOLEAN
    BY <2>1, Zenon
  <2> QED
    BY <1>7, <2>2 DEF Plain
<1>8. ASSUME NEW c \in ReplyCodes \cup {NoCode}, Login(c) PROVE TypeOK'
  BY <1>8 DEF Login, AnswerChallenge
<1>9. ASSUME NEW c \in ReplyCodes \cup {NoCode}, Challenge(c) PROVE TypeOK'
  BY <1>9 DEF Challenge, AnswerChallenge
<1>10. ASSUME NEW c \in ReplyCodes \cup {NoCode}, Mail(c) PROVE TypeOK'
  BY <1>10 DEF Mail
<1>11. ASSUME NEW c \in ReplyCodes \cup {NoCode}, Rcpt(c) PROVE TypeOK'
  <2>1. c \in ReplyCodes =>
          /\ Append(replies, c) \in Seq(ReplyCodes)
          /\ Len(Append(replies, c)) = Len(replies) + 1
    BY AppendProperties
  <2>2. Len(replies) < N /\ Len(replies) \in Nat /\ N \in Nat
    BY <1>11, LenProperties DEF Rcpt
  <2>3. replies' = replies \/ (c \in ReplyCodes /\ replies' = Append(replies, c))
    BY <1>11 DEF Rcpt
  <2>4. replies' \in Seq(ReplyCodes) /\ Len(replies') <= N
    <3>1. CASE replies' = replies
      BY <3>1
    <3>2. CASE c \in ReplyCodes /\ replies' = Append(replies, c)
      BY <2>1, <2>2, <3>2
    <3> QED
      BY <2>3, <3>1, <3>2
  <2>5. /\ pc' \in Steps
        /\ channel' \in {"down", "plain", "tls"}
        /\ sent' \in Commands \cup {"none"}
        /\ reply' \in ReplyCodes \cup {NoReply}
        /\ outcome' \in {"pending", "ok", "temporary", "permanent"}
        /\ quits' \in Nat
    BY <1>11 DEF Rcpt, AfterRcpt
  <2>6. cause' \in [step : Steps, code : ReplyCodes \cup {NoCode}]
    <3>1. CASE c = NoCode
      BY <1>11, <3>1 DEF Rcpt
    <3>2. CASE c # NoCode
      <4>1. Append(replies, c)[Len(Append(replies, c))] = c
        BY <3>2
      <4> QED
        BY <1>11, <3>2, <4>1 DEF Rcpt, AfterRcpt
    <3> QED
      BY <3>1, <3>2
  <2> QED
    BY <1>11, <2>4, <2>5, <2>6 DEF Rcpt
<1>12. ASSUME NEW c \in ReplyCodes \cup {NoCode}, Data(c) PROVE TypeOK'
  BY <1>12 DEF Data
<1>13. ASSUME NEW c \in ReplyCodes \cup {NoCode}, Body(c) PROVE TypeOK'
  BY <1>13 DEF Body
<1>14. ASSUME NEW c \in ReplyCodes \cup {NoCode}, Close(c) PROVE TypeOK'
  BY <1>14 DEF Close
<1>15. ASSUME NEW c \in ReplyCodes, Serve(c) PROVE TypeOK'
  BY <1>15, ServeKeepsTypes
<1>16. ASSUME UNCHANGED vars PROVE TypeOK'
  BY <1>16 DEF vars, client
<1> HIDE DEF TypeOK
<1> QED
  BY <1>1, <1>2, <1>3, <1>4, <1>5, <1>6, <1>7, <1>8, <1>9, <1>10, <1>11, <1>12, <1>13,
     <1>14, <1>15, <1>16 DEF Next, Client, Server, Step

(* A rejection is permanent only for a code that is not a 4xx one. *)
LEMMA RejectCause ==
  ASSUME NEW c \in ReplyCodes \cup {NoCode}
  PROVE  /\ ErrorOf(c) \in {"temporary", "permanent"}
         /\ ErrorOf(c) = "permanent" => c \notin {NoCode, 421} /\ ~Transient(c)
         /\ Reject(c) => Decide(ErrorOf(c), c)
<1>1. Transient(421)
  BY DEF Transient
<1> QED
  BY <1>1 DEF ErrorOf, Reject, End, Quit

(* A reply to RCPT is the next one of replies; what follows depends on it. *)
LEMMA RcptReply ==
  ASSUME IInv, NEW c \in ReplyCodes \cup {NoCode}, Rcpt(c), c # NoCode
  PROVE  /\ c \in ReplyCodes /\ c = reply /\ pc = "rcpt" /\ reply # NoReply
         /\ Len(replies) \in Nat
         /\ Len(replies) < N
         /\ Len(replies') = Len(replies) + 1
         /\ DOMAIN replies = 1..Len(replies)
         /\ DOMAIN replies' = 1..(Len(replies) + 1)
         /\ replies'[Len(replies) + 1] = c
         /\ \A i \in 1..Len(replies) : replies'[i] = replies[i]
         /\ \/ c = 421 /\ End("temporary", c)
            \/ c # 421 /\ Len(replies') < N /\ Proceed("rcpt")
            \/ c # 421 /\ Len(replies') = N /\ Accepted' # {} /\ Proceed("data")
            \/ /\ c # 421
               /\ \/ Quit("temporary", c)
                  \/ /\ Quit("permanent", c)
                     /\ \A i \in DOMAIN replies' : ~Transient(replies'[i])
         /\ UNCHANGED <<config, auth, server>>
<1>1. /\ pc = "rcpt" /\ c = reply /\ reply # NoReply
      /\ replies' = Append(replies, c) /\ AfterRcpt(replies')
      /\ UNCHANGED <<config, auth, server>>
  BY DEF Rcpt, Got
<1>2. /\ c \in ReplyCodes /\ replies \in Seq(ReplyCodes)
      /\ Len(replies) < N /\ N \in Nat
  BY <1>1, NAssumption DEF IInv, TypeOK, RcptInv
<1>3. /\ Len(replies') = Len(replies) + 1
      /\ Len(replies) \in Nat
      /\ DOMAIN replies = 1..Len(replies)
      /\ DOMAIN replies' = 1..(Len(replies) + 1)
      /\ replies'[Len(replies) + 1] = c
      /\ \A i \in 1..Len(replies) : replies'[i] = replies[i]
  BY <1>1, <1>2, AppendProperties, LenProperties
<1>4. c = 421 => \E i \in DOMAIN replies' : Transient(replies'[i])
  <2>1. Len(replies) + 1 \in DOMAIN replies'
    BY <1>3
  <2> QED
    BY <1>3, <2>1 DEF Transient
<1>5. (\E i \in DOMAIN replies' : replies'[i] \in {250, 251}) <=> Accepted' # {}
  BY DEF Accepted
<1>6. replies'[Len(replies')] = c
  BY <1>3
<1>7. \/ c = 421 /\ End("temporary", c)
      \/ c # 421 /\ Len(replies') < N /\ Proceed("rcpt")
      \/ c # 421 /\ Len(replies') = N /\ Accepted' # {} /\ Proceed("data")
      \/ /\ c # 421
         /\ \/ Quit("temporary", c)
            \/ /\ Quit("permanent", c)
               /\ \A i \in DOMAIN replies' : ~Transient(replies'[i])
  BY <1>1, <1>4, <1>5, <1>6 DEF AfterRcpt
<1> QED
  BY <1>1, <1>2, <1>3, <1>7

(* Every step runs on the channel its command needs: past login, TLS only. *)
LEMMA ChannelInvStep == IInv /\ [Next]_vars => ChannelInv'
<1> SUFFICES ASSUME IInv, [Next]_vars PROVE ChannelInv'
  OBVIOUS
<1> USE NAssumption, ReplyCodesAssumption, MaxChallengesAssumption
    DEF IInv, TypeOK, ChannelInv, Before
<1> USE DEF Got, Await, Proceed, Decide, End, Quit, Abort, Reject, ErrorOf, NoReply, NoCode,
        Positive, Completion, Transient, Recipients, config, auth, server
<1>1. ASSUME Connect PROVE ChannelInv'
  BY <1>1 DEF Connect
<1>2. ASSUME NEW c \in ReplyCodes \cup {NoCode}, Banner(c) PROVE ChannelInv'
  BY <1>2 DEF Banner
<1>3. ASSUME NEW c \in ReplyCodes \cup {NoCode}, Ehlo(c) PROVE ChannelInv'
  BY <1>3 DEF Ehlo
<1>4. ASSUME NEW c \in ReplyCodes \cup {NoCode}, Starttls(c) PROVE ChannelInv'
  BY <1>4 DEF Starttls
<1>5. ASSUME NEW c \in ReplyCodes \cup {NoCode}, Handshake(c) PROVE ChannelInv'
  BY <1>5 DEF Handshake
<1>6. ASSUME NEW c \in ReplyCodes \cup {NoCode}, EhloTls(c) PROVE ChannelInv'
  BY <1>6 DEF EhloTls
<1>7. ASSUME NEW c \in ReplyCodes \cup {NoCode}, Plain(c) PROVE ChannelInv'
  BY <1>7 DEF Plain
<1>8. ASSUME NEW c \in ReplyCodes \cup {NoCode}, Login(c) PROVE ChannelInv'
  BY <1>8 DEF Login, AnswerChallenge
<1>9. ASSUME NEW c \in ReplyCodes \cup {NoCode}, Challenge(c) PROVE ChannelInv'
  BY <1>9 DEF Challenge, AnswerChallenge
<1>10. ASSUME NEW c \in ReplyCodes \cup {NoCode}, Mail(c) PROVE ChannelInv'
  BY <1>10 DEF Mail
<1>11. ASSUME NEW c \in ReplyCodes \cup {NoCode}, Rcpt(c) PROVE ChannelInv'
  BY <1>11 DEF Rcpt, AfterRcpt
<1>12. ASSUME NEW c \in ReplyCodes \cup {NoCode}, Data(c) PROVE ChannelInv'
  BY <1>12 DEF Data
<1>13. ASSUME NEW c \in ReplyCodes \cup {NoCode}, Body(c) PROVE ChannelInv'
  BY <1>13 DEF Body
<1>14. ASSUME NEW c \in ReplyCodes \cup {NoCode}, Close(c) PROVE ChannelInv'
  BY <1>14 DEF Close
<1>15. ASSUME NEW c \in ReplyCodes, Serve(c) PROVE ChannelInv'
  BY <1>15 DEF Serve
<1>16. ASSUME UNCHANGED vars PROVE ChannelInv'
  BY <1>16 DEF vars, client
<1> HIDE DEF ChannelInv
<1> QED
  BY <1>1, <1>2, <1>3, <1>4, <1>5, <1>6, <1>7, <1>8, <1>9, <1>10, <1>11, <1>12, <1>13,
     <1>14, <1>15, <1>16 DEF Next, Client, Server, Step

(* The outcome is decided once, together with the only QUIT. *)
LEMMA OutcomeInvStep == IInv /\ [Next]_vars => OutcomeInv'
<1> SUFFICES ASSUME IInv, [Next]_vars PROVE OutcomeInv'
  OBVIOUS
<1> USE NAssumption, ReplyCodesAssumption, MaxChallengesAssumption
    DEF IInv, TypeOK, OutcomeInv, ChannelInv, Closing
<1> USE DEF Got, Await, Proceed, Decide, End, Quit, Abort, Reject, ErrorOf, NoReply, NoCode,
        Positive, Completion, Transient, Recipients, config, auth, server
<1>1. ASSUME Connect PROVE OutcomeInv'
  BY <1>1 DEF Connect
<1>2. ASSUME NEW c \in ReplyCodes \cup {NoCode}, Banner(c) PROVE OutcomeInv'
  BY <1>2 DEF Banner
<1>3. ASSUME NEW c \in ReplyCodes \cup {NoCode}, Ehlo(c) PROVE OutcomeInv'
  BY <1>3 DEF Ehlo
<1>4. ASSUME NEW c \in ReplyCodes \cup {NoCode}, Starttls(c) PROVE OutcomeInv'
  BY <1>4 DEF Starttls
<1>5. ASSUME NEW c \in ReplyCodes \cup {NoCode}, Handshake(c) PROVE OutcomeInv'
  BY <1>5 DEF Handshake
<1>6. ASSUME NEW c \in ReplyCodes \cup {NoCode}, EhloTls(c) PROVE OutcomeInv'
  BY <1>6 DEF EhloTls
<1>7. ASSUME NEW c \in ReplyCodes \cup {NoCode}, Plain(c) PROVE OutcomeInv'
  BY <1>7 DEF Plain
<1>8. ASSUME NEW c \in ReplyCodes \cup {NoCode}, Login(c) PROVE OutcomeInv'
  BY <1>8 DEF Login, AnswerChallenge
<1>9. ASSUME NEW c \in ReplyCodes \cup {NoCode}, Challenge(c) PROVE OutcomeInv'
  BY <1>9 DEF Challenge, AnswerChallenge
<1>10. ASSUME NEW c \in ReplyCodes \cup {NoCode}, Mail(c) PROVE OutcomeInv'
  BY <1>10 DEF Mail
<1>11. ASSUME NEW c \in ReplyCodes \cup {NoCode}, Rcpt(c) PROVE OutcomeInv'
  <2>1. CASE c = NoCode
    BY <1>11, <2>1 DEF Rcpt
  <2>2. CASE c # NoCode
    BY <1>11, <2>2, RcptReply
  <2> QED
    BY <2>1, <2>2
<1>12. ASSUME NEW c \in ReplyCodes \cup {NoCode}, Data(c) PROVE OutcomeInv'
  BY <1>12 DEF Data
<1>13. ASSUME NEW c \in ReplyCodes \cup {NoCode}, Body(c) PROVE OutcomeInv'
  BY <1>13 DEF Body
<1>14. ASSUME NEW c \in ReplyCodes \cup {NoCode}, Close(c) PROVE OutcomeInv'
  BY <1>14 DEF Close
<1>15. ASSUME NEW c \in ReplyCodes, Serve(c) PROVE OutcomeInv'
  BY <1>15 DEF Serve
<1>16. ASSUME UNCHANGED vars PROVE OutcomeInv'
  BY <1>16 DEF vars, client
<1> HIDE DEF OutcomeInv
<1> QED
  BY <1>1, <1>2, <1>3, <1>4, <1>5, <1>6, <1>7, <1>8, <1>9, <1>10, <1>11, <1>12, <1>13,
     <1>14, <1>15, <1>16 DEF Next, Client, Server, Step

(* A command still on its way after the client closed was given up on. *)
LEMMA WireInvStep == IInv /\ [Next]_vars => WireInv'
<1> SUFFICES ASSUME IInv, [Next]_vars PROVE WireInv'
  OBVIOUS
<1> USE NAssumption, ReplyCodesAssumption, MaxChallengesAssumption
    DEF IInv, TypeOK, OutcomeInv, WireInv, ChannelInv, Closing
<1> USE DEF Got, Await, Proceed, Decide, End, Quit, Abort, Reject, ErrorOf, NoReply, NoCode,
        Positive, Completion, Transient, Recipients, config, auth, server
<1>1. ASSUME Connect PROVE WireInv'
  BY <1>1 DEF Connect
<1>2. ASSUME NEW c \in ReplyCodes \cup {NoCode}, Banner(c) PROVE WireInv'
  BY <1>2 DEF Banner
<1>3. ASSUME NEW c \in ReplyCodes \cup {NoCode}, Ehlo(c) PROVE WireInv'
  BY <1>3 DEF Ehlo
<1>4. ASSUME NEW c \in ReplyCodes \cup {NoCode}, Starttls(c) PROVE WireInv'
  BY <1>4 DEF Starttls
<1>5. ASSUME NEW c \in ReplyCodes \cup {NoCode}, Handshake(c) PROVE WireInv'
  BY <1>5 DEF Handshake
<1>6. ASSUME NEW c \in ReplyCodes \cup {NoCode}, EhloTls(c) PROVE WireInv'
  BY <1>6 DEF EhloTls
<1>7. ASSUME NEW c \in ReplyCodes \cup {NoCode}, Plain(c) PROVE WireInv'
  BY <1>7 DEF Plain
<1>8. ASSUME NEW c \in ReplyCodes \cup {NoCode}, Login(c) PROVE WireInv'
  BY <1>8 DEF Login, AnswerChallenge
<1>9. ASSUME NEW c \in ReplyCodes \cup {NoCode}, Challenge(c) PROVE WireInv'
  BY <1>9 DEF Challenge, AnswerChallenge
<1>10. ASSUME NEW c \in ReplyCodes \cup {NoCode}, Mail(c) PROVE WireInv'
  BY <1>10 DEF Mail
<1>11. ASSUME NEW c \in ReplyCodes \cup {NoCode}, Rcpt(c) PROVE WireInv'
  BY <1>11 DEF Rcpt, AfterRcpt
<1>12. ASSUME NEW c \in ReplyCodes \cup {NoCode}, Data(c) PROVE WireInv'
  BY <1>12 DEF Data
<1>13. ASSUME NEW c \in ReplyCodes \cup {NoCode}, Body(c) PROVE WireInv'
  BY <1>13 DEF Body
<1>14. ASSUME NEW c \in ReplyCodes \cup {NoCode}, Close(c) PROVE WireInv'
  BY <1>14 DEF Close
<1>15. ASSUME NEW c \in ReplyCodes, Serve(c) PROVE WireInv'
  BY <1>15 DEF Serve
<1>16. ASSUME UNCHANGED vars PROVE WireInv'
  BY <1>16 DEF vars, client
<1> HIDE DEF WireInv
<1> QED
  BY <1>1, <1>2, <1>3, <1>4, <1>5, <1>6, <1>7, <1>8, <1>9, <1>10, <1>11, <1>12, <1>13,
     <1>14, <1>15, <1>16 DEF Next, Client, Server, Step

(* The server's envelope follows the replies, at most one RCPT ahead. *)
LEMMA RcptInvStep == IInv /\ [Next]_vars => RcptInv'
<1> SUFFICES ASSUME IInv, [Next]_vars PROVE RcptInv'
  OBVIOUS
<1> USE NAssumption, ReplyCodesAssumption, MaxChallengesAssumption
    DEF IInv, TypeOK, OutcomeInv, WireInv, RcptInv, Accepted, Before, Closing
<1> USE DEF Got, Await, Proceed, Decide, End, Quit, Abort, Reject, ErrorOf, NoReply, NoCode,
        Positive, Completion, Transient, Recipients, config, auth, server
<1>1. ASSUME Connect PROVE RcptInv'
  BY <1>1 DEF Connect
<1>2. ASSUME NEW c \in ReplyCodes \cup {NoCode}, Banner(c) PROVE RcptInv'
  BY <1>2 DEF Banner
<1>3. ASSUME NEW c \in ReplyCodes \cup {NoCode}, Ehlo(c) PROVE RcptInv'
  BY <1>3 DEF Ehlo
<1>4. ASSUME NEW c \in ReplyCodes \cup {NoCode}, Starttls(c) PROVE RcptInv'
  BY <1>4 DEF Starttls
<1>5. ASSUME NEW c \in ReplyCodes \cup {NoCode}, Handshake(c) PROVE RcptInv'
  BY <1>5 DEF Handshake
<1>6. ASSUME NEW c \in ReplyCodes \cup {NoCode}, EhloTls(c) PROVE RcptInv'
  BY <1>6 DEF EhloTls
<1>7. ASSUME NEW c \in ReplyCodes \cup {NoCode}, Plain(c) PROVE RcptInv'
  BY <1>7 DEF Plain
<1>8. ASSUME NEW c \in ReplyCodes \cup {NoCode}, Login(c) PROVE RcptInv'
  BY <1>8 DEF Login, AnswerChallenge
<1>9. ASSUME NEW c \in ReplyCodes \cup {NoCode}, Challenge(c) PROVE RcptInv'
  BY <1>9 DEF Challenge, AnswerChallenge
<1>10. ASSUME NEW c \in ReplyCodes \cup {NoCode}, Mail(c) PROVE RcptInv'
  BY <1>10 DEF Mail
<1>11. ASSUME NEW c \in ReplyCodes \cup {NoCode}, Rcpt(c) PROVE RcptInv'
  <2>1. CASE c = NoCode
    BY <1>11, <2>1 DEF Rcpt
  <2>2. CASE c # NoCode
    <3>1. /\ sent = "none" /\ (Len(replies) + 1 \in rcpts <=> Completion(c))
          /\ rcpts' = rcpts /\ Len(replies) \in Nat /\ Len(replies') = Len(replies) + 1
      BY <1>11, <2>2, RcptReply
    <3>2. Accepted' \subseteq rcpts'
      BY <1>11, <2>2, <3>1, RcptReply
    <3>3. ASSUME NEW i \in rcpts', i <= Len(replies') PROVE Completion(replies'[i])
      <4>1. i \in 1..Len(replies) \/ i = Len(replies) + 1
        BY <3>1, <3>3
      <4>2. CASE i \in 1..Len(replies)
        <5>1. \A j \in 1..Len(replies) : replies'[j] = replies[j]
          BY <1>11, <2>2, RcptReply
        <5>2. Completion(replies[i])
          BY <3>1, <3>3, <4>2
        <5> QED
          BY <4>2, <5>1, <5>2
      <4>3. CASE i = Len(replies) + 1
        <5>1. replies'[i] = c
          BY <1>11, <2>2, <4>3, RcptReply
        <5> QED
          BY <3>1, <3>3, <4>3, <5>1
      <4> QED
        BY <4>1, <4>2, <4>3
    <3>4. \A i \in rcpts' : i <= Len(replies')
      BY <1>11, <2>2, <3>1, RcptReply
    <3>5. Len(replies') + 1 \notin rcpts'
      BY <1>11, <2>2, <3>4, RcptReply
    <3> QED
      BY <1>11, <2>2, <3>1, <3>2, <3>3, <3>4, <3>5, RcptReply
  <2> QED
    BY <2>1, <2>2
<1>12. ASSUME NEW c \in ReplyCodes \cup {NoCode}, Data(c) PROVE RcptInv'
  BY <1>12 DEF Data
<1>13. ASSUME NEW c \in ReplyCodes \cup {NoCode}, Body(c) PROVE RcptInv'
  BY <1>13 DEF Body
<1>14. ASSUME NEW c \in ReplyCodes \cup {NoCode}, Close(c) PROVE RcptInv'
  BY <1>14 DEF Close
<1>15. ASSUME NEW c \in ReplyCodes, Serve(c) PROVE RcptInv'
  <2>1. CASE sent = "rcpt" /\ Completion(c)
    <3>1. rcpts' = rcpts \cup {Len(replies) + 1}
      BY <1>15, <2>1 DEF Serve
    <3>2. Len(replies) + 1 > Len(replies)
      BY LenProperties
    <3> QED
      BY <1>15, <2>1, <3>1, <3>2 DEF Serve
  <2>2. CASE ~(sent = "rcpt" /\ Completion(c))
    <3>1. pc = "rcpt" => sent = "rcpt" /\ reply = NoReply
      BY <1>15 DEF Serve
    <3>2. UNCHANGED <<pc, outcome, cause, replies, rcpts>> /\ sent' = "none" /\ reply' = c
      BY <1>15, <2>2 DEF Serve, client
    <3> QED
      BY <2>2, <3>1, <3>2
  <2> QED
    BY <2>1, <2>2
<1>16. ASSUME UNCHANGED vars PROVE RcptInv'
  BY <1>16 DEF vars, client
<1> HIDE DEF RcptInv
<1> QED
  BY <1>1, <1>2, <1>3, <1>4, <1>5, <1>6, <1>7, <1>8, <1>9, <1>10, <1>11, <1>12, <1>13,
     <1>14, <1>15, <1>16 DEF Next, Client, Server, Step

(* The message is taken once and only in answer to the end of the data. *)
LEMMA TakenInvStep == IInv /\ [Next]_vars => TakenInv'
<1> SUFFICES ASSUME IInv, [Next]_vars PROVE TakenInv'
  OBVIOUS
<1> USE NAssumption, ReplyCodesAssumption, MaxChallengesAssumption
    DEF IInv, TypeOK, OutcomeInv, WireInv, RcptInv, TakenInv, Before, Closing
<1> USE DEF Got, Await, Proceed, Decide, End, Quit, Abort, Reject, ErrorOf, NoReply, NoCode,
        Positive, Completion, Transient, Recipients, config, auth, server
<1>1. ASSUME Connect PROVE TakenInv'
  BY <1>1 DEF Connect
<1>2. ASSUME NEW c \in ReplyCodes \cup {NoCode}, Banner(c) PROVE TakenInv'
  BY <1>2 DEF Banner
<1>3. ASSUME NEW c \in ReplyCodes \cup {NoCode}, Ehlo(c) PROVE TakenInv'
  BY <1>3 DEF Ehlo
<1>4. ASSUME NEW c \in ReplyCodes \cup {NoCode}, Starttls(c) PROVE TakenInv'
  BY <1>4 DEF Starttls
<1>5. ASSUME NEW c \in ReplyCodes \cup {NoCode}, Handshake(c) PROVE TakenInv'
  BY <1>5 DEF Handshake
<1>6. ASSUME NEW c \in ReplyCodes \cup {NoCode}, EhloTls(c) PROVE TakenInv'
  BY <1>6 DEF EhloTls
<1>7. ASSUME NEW c \in ReplyCodes \cup {NoCode}, Plain(c) PROVE TakenInv'
  BY <1>7 DEF Plain
<1>8. ASSUME NEW c \in ReplyCodes \cup {NoCode}, Login(c) PROVE TakenInv'
  BY <1>8 DEF Login, AnswerChallenge
<1>9. ASSUME NEW c \in ReplyCodes \cup {NoCode}, Challenge(c) PROVE TakenInv'
  BY <1>9 DEF Challenge, AnswerChallenge
<1>10. ASSUME NEW c \in ReplyCodes \cup {NoCode}, Mail(c) PROVE TakenInv'
  BY <1>10 DEF Mail
<1>11. ASSUME NEW c \in ReplyCodes \cup {NoCode}, Rcpt(c) PROVE TakenInv'
  BY <1>11 DEF Rcpt, AfterRcpt
<1>12. ASSUME NEW c \in ReplyCodes \cup {NoCode}, Data(c) PROVE TakenInv'
  BY <1>12 DEF Data
<1>13. ASSUME NEW c \in ReplyCodes \cup {NoCode}, Body(c) PROVE TakenInv'
  <2>1. CASE c = NoCode
    BY <1>13, <2>1 DEF Body
  <2>2. CASE c # NoCode
    <3>1. sent = "none" /\ taken = IF Completion(c) THEN rcpts ELSE {}
      BY <1>13, <2>2 DEF Body
    <3>2. CASE c = 250
      BY <1>13, <3>1, <3>2 DEF Body
    <3>3. CASE c # 250
      <4>1. outcome' = ErrorOf(c) /\ cause' = [step |-> "body", code |-> c]
        BY <1>13, <3>3, RejectCause DEF Body
      <4>2. taken # {} => Completion(c) /\ outcome' = "permanent"
        BY <2>2, <3>1, <4>1
      <4> QED
        BY <1>13, <2>2, <3>1, <3>3, <4>1, <4>2 DEF Body
    <3> QED
      BY <3>2, <3>3
  <2> QED
    BY <2>1, <2>2
<1>14. ASSUME NEW c \in ReplyCodes \cup {NoCode}, Close(c) PROVE TakenInv'
  BY <1>14 DEF Close
<1>15. ASSUME NEW c \in ReplyCodes, Serve(c) PROVE TakenInv'
  <2>1. CASE sent = "body"
    <3>1. pc = "body" \/ pc = "done"
      BY <2>1
    <3>2. CASE pc = "body"
      <4>1. outcome = "pending" /\ taken = {} /\ pc' = "body" /\ outcome' = "pending"
        BY <1>15, <3>2, <2>1 DEF Serve
      <4>2. taken' = (IF Completion(c) THEN rcpts ELSE {}) /\ rcpts' = rcpts
        BY <1>15, <2>1, <4>1 DEF Serve
      <4> QED
        BY <1>15, <3>2, <4>1, <4>2 DEF Serve
    <3>3. CASE pc = "done"
      BY <1>15, <2>1, <3>3 DEF Serve
    <3> QED
      BY <3>1, <3>2, <3>3
  <2>2. CASE sent # "body"
    BY <1>15, <2>2 DEF Serve
  <2> QED
    BY <2>1, <2>2
<1>16. ASSUME UNCHANGED vars PROVE TakenInv'
  BY <1>16 DEF vars, client
<1> HIDE DEF TakenInv
<1> QED
  BY <1>1, <1>2, <1>3, <1>4, <1>5, <1>6, <1>7, <1>8, <1>9, <1>10, <1>11, <1>12, <1>13,
     <1>14, <1>15, <1>16 DEF Next, Client, Server, Step

(* Which answers make a failure permanent. *)
LEMMA CauseInvStep == IInv /\ [Next]_vars => CauseInv'
<1> SUFFICES ASSUME IInv, [Next]_vars PROVE CauseInv'
  OBVIOUS
<1> USE NAssumption, ReplyCodesAssumption, MaxChallengesAssumption
    DEF IInv, TypeOK, OutcomeInv, CauseInv, PermanentNeedsAnAnswer, Closing
<1> USE DEF Got, Await, Proceed, Decide, End, Quit, Abort, config, auth, server
<1>1. ASSUME Connect PROVE CauseInv'
  BY <1>1 DEF Connect
<1>2. ASSUME NEW c \in ReplyCodes \cup {NoCode}, Banner(c) PROVE CauseInv'
  BY <1>2, RejectCause DEF Banner
<1>3. ASSUME NEW c \in ReplyCodes \cup {NoCode}, Ehlo(c) PROVE CauseInv'
  BY <1>3 DEF Ehlo, Positive, NoCode
<1>4. ASSUME NEW c \in ReplyCodes \cup {NoCode}, Starttls(c) PROVE CauseInv'
  BY <1>4, RejectCause DEF Starttls
<1>5. ASSUME NEW c \in ReplyCodes \cup {NoCode}, Handshake(c) PROVE CauseInv'
  BY <1>5 DEF Handshake
<1>6. ASSUME NEW c \in ReplyCodes \cup {NoCode}, EhloTls(c) PROVE CauseInv'
  BY <1>6 DEF EhloTls
<1>7. ASSUME NEW c \in ReplyCodes \cup {NoCode}, Plain(c) PROVE CauseInv'
  BY <1>7 DEF Plain
<1>8. ASSUME NEW c \in ReplyCodes \cup {NoCode}, Login(c) PROVE CauseInv'
  BY <1>8 DEF Login, AnswerChallenge
<1>9. ASSUME NEW c \in ReplyCodes \cup {NoCode}, Challenge(c) PROVE CauseInv'
  BY <1>9 DEF Challenge, AnswerChallenge, Positive, NoCode
<1>10. ASSUME NEW c \in ReplyCodes \cup {NoCode}, Mail(c) PROVE CauseInv'
  BY <1>10, RejectCause DEF Mail
<1>11. ASSUME NEW c \in ReplyCodes \cup {NoCode}, Rcpt(c) PROVE CauseInv'
  <2>1. CASE c = NoCode
    BY <1>11, <2>1 DEF Rcpt
  <2>2. CASE c # NoCode
    BY <1>11, <2>2, RcptReply
  <2> QED
    BY <2>1, <2>2
<1>12. ASSUME NEW c \in ReplyCodes \cup {NoCode}, Data(c) PROVE CauseInv'
  BY <1>12, RejectCause DEF Data
<1>13. ASSUME NEW c \in ReplyCodes \cup {NoCode}, Body(c) PROVE CauseInv'
  BY <1>13, RejectCause DEF Body
<1>14. ASSUME NEW c \in ReplyCodes \cup {NoCode}, Close(c) PROVE CauseInv'
  BY <1>14 DEF Close
<1>15. ASSUME NEW c \in ReplyCodes, Serve(c) PROVE CauseInv'
  BY <1>15 DEF Serve
<1>16. ASSUME UNCHANGED vars PROVE CauseInv'
  BY <1>16 DEF vars, client
<1> HIDE DEF CauseInv
<1> QED
  BY <1>1, <1>2, <1>3, <1>4, <1>5, <1>6, <1>7, <1>8, <1>9, <1>10, <1>11, <1>12, <1>13,
     <1>14, <1>15, <1>16 DEF Next, Client, Server, Step

-------------------------------------------------------------------------------
(* The inductive invariant holds in every reachable state. *)
THEOREM Invariance == Spec => []IInv
<1>1. IInv /\ [Next]_vars => IInv'
  <2> SUFFICES ASSUME IInv, [Next]_vars PROVE IInv'
    OBVIOUS
  <2>1. TypeOK' /\ ChannelInv' /\ OutcomeInv' /\ WireInv' /\ RcptInv' /\ TakenInv' /\ CauseInv'
    BY TypeOKStep, ChannelInvStep, OutcomeInvStep, WireInvStep, RcptInvStep, TakenInvStep,
       CauseInvStep
  <2> QED
    BY <2>1 DEF IInv
<1> QED
  BY InitInv, <1>1, PTL DEF Spec

(* The state has the declared types, whatever the server answers. *)
THEOREM TypeCorrect == Spec => []TypeOK
<1>1. IInv => TypeOK
  BY DEF IInv
<1> QED
  BY Invariance, <1>1, PTL

(* What the invariant says of a successful session. *)
LEMMA IInvSuccess == IInv => SuccessIsTaken
<1> SUFFICES ASSUME IInv, outcome = "ok"
             PROVE  /\ Accepted # {}
                    /\ Accepted \cup Refused = Recipients
                    /\ Accepted \subseteq taken
                    /\ \A i \in taken : Completion(replies[i])
  BY DEF SuccessIsTaken
<1>1. Len(replies) = N /\ Accepted # {} /\ Accepted \subseteq rcpts /\ taken = rcpts
  BY DEF IInv, RcptInv, TakenInv
<1>2. DOMAIN replies = Recipients
  BY <1>1 DEF IInv, TypeOK, Recipients
<1>3. \A i \in taken : Completion(replies[i])
  BY <1>1, NAssumption DEF IInv, TypeOK, RcptInv, Recipients
<1> QED
  BY <1>1, <1>2, <1>3 DEF Refused, Accepted

(* Ok(refused) of session: nobody is reported as served without having     *)
(* been, for every number of recipients and every set of codes.            *)
THEOREM SuccessTaken == Spec => []SuccessIsTaken
BY Invariance, IInvSuccess, PTL

(* A failed submission whose message was taken failed on the reply to the  *)
(* end of the data, and is permanent only for an unwanted 2xx code.        *)
THEOREM DoubtOnlyAtTheEnd == Spec => []OnlyTheEndIsInDoubt
<1>1. IInv => OnlyTheEndIsInDoubt
  BY DEF IInv, TakenInv, OutcomeInv, OnlyTheEndIsInDoubt, Closing
<1> QED
  BY Invariance, <1>1, PTL

(* Credentials and message cross an encrypted channel only. *)
THEOREM InTheClear == Spec => []NothingInTheClear
<1>1. IInv => NothingInTheClear
  BY DEF IInv, ChannelInv, TakenInv, NothingInTheClear
<1> QED
  BY Invariance, <1>1, PTL

(* What makes a failure permanent is an answer of the server, and a 4xx    *)
(* answer only if it refuses the credentials (421 does not), or EHLO where *)
(* STARTTLS is off.                                                        *)
THEOREM PermanentOnlyForAnAnswer == Spec => []PermanentNeedsAnAnswer
<1>1. IInv => PermanentNeedsAnAnswer
  BY DEF IInv, CauseInv
<1> QED
  BY Invariance, <1>1, PTL

(* At most one QUIT, by the relay only on an open channel. *)
THEOREM Quits == Spec => []QuitDiscipline
<1>1. IInv => QuitDiscipline
  BY DEF IInv, OutcomeInv, ChannelInv, QuitDiscipline
<1> QED
  BY Invariance, <1>1, PTL

(* The session implements the contract of Submitter: every step is a step  *)
(* of Submission or leaves what the contract speaks of unchanged.          *)
THEOREM Refinement == Spec => ImplementsSubmission
<1>1. Init => Contract!Init
  BY DEF Init, Contract!Init
<1>2. IInv /\ IInv' /\ [Next]_vars => [Contract!Next]_Contract!vars
  <2> SUFFICES ASSUME IInv, IInv', [Next]_vars PROVE [Contract!Next]_Contract!vars
    OBVIOUS
  <2> DEFINE listed == IF outcome = "ok" THEN Refused ELSE {}
  <2>1. ASSUME Client
        PROVE  /\ taken' = taken
               /\ outcome = "pending" \/ UNCHANGED <<outcome, replies>>
    <3>1. CASE Connect
      BY <3>1 DEF Connect, server, IInv, OutcomeInv, Closing
    <3>2. ASSUME NEW c \in ReplyCodes \cup {NoCode}, Step(c)
          PROVE  /\ taken' = taken
                 /\ outcome = "pending" \/ UNCHANGED <<outcome, replies>>
      <4>1. CASE Close(c)
        BY <4>1 DEF Close, server
      <4>2. CASE ~Close(c)
        <5>1. pc \notin Closing /\ UNCHANGED server
          BY <3>2, <4>2 DEF Step, Closing, Got, Banner, Ehlo, Starttls, Handshake, EhloTls,
             Plain, Login, Challenge, Mail, Rcpt, Data, Body
        <5> QED
          BY <5>1 DEF IInv, OutcomeInv, server
      <4> QED
        BY <4>1, <4>2
    <3> QED
      BY <2>1, <3>1, <3>2 DEF Client
  <2>2. CASE Client
    <3>1. CASE outcome' = "pending"
      BY <2>1, <2>2, <3>1 DEF IInv, OutcomeInv, Contract!vars
    <3>2. CASE outcome = "pending" /\ outcome' \in {"temporary", "permanent"}
      BY <2>1, <2>2, <3>2 DEF Contract!Next, Contract!Fail, Contract!Failures
    <3>3. CASE outcome = "pending" /\ outcome' = "ok"
      <4>1. /\ Accepted' # {} /\ Accepted' \cup Refused' = Recipients /\ Accepted' \subseteq taken'
        <5>1. SuccessIsTaken'
          BY IInvSuccess, PTL
        <5> QED
          BY <3>3, <5>1 DEF SuccessIsTaken
      <4>2. Refused' \in (SUBSET Recipients) \ {Recipients} /\ Recipients \ Refused' \subseteq taken
        BY <2>1, <2>2, <4>1 DEF Refused
      <4> QED
        BY <2>1, <2>2, <3>3, <4>2 DEF Contract!Next, Contract!Succeed
    <3>4. CASE UNCHANGED <<outcome, replies>>
      BY <2>1, <2>2, <3>4 DEF Contract!vars, Refused, Accepted
    <3> QED
      BY <2>1, <2>2, <3>1, <3>2, <3>3, <3>4 DEF IInv, TypeOK
  <2>3. CASE Server
    <3>1. PICK c \in ReplyCodes : Serve(c)
      BY <2>3 DEF Server
    <3>2. outcome' = outcome /\ listed' = listed
      BY <3>1 DEF Serve, Refused, Accepted
    <3>3. CASE taken' = taken
      BY <3>2, <3>3 DEF Contract!vars
    <3>4. CASE taken' # taken
      <4>1. sent = "body" /\ taken = {} /\ taken' # {}
        BY <3>1, <3>4 DEF Serve, IInv, TakenInv
      <4>2. outcome \in {"pending", "temporary"}
        BY <3>1, <4>1 DEF IInv, WireInv, OutcomeInv, TypeOK, Closing
      <4>3. taken' \in (SUBSET Recipients) \ {{}}
        BY <4>1 DEF IInv, TypeOK
      <4> QED
        BY <3>2, <4>1, <4>2, <4>3 DEF Contract!Next, Contract!Take
    <3> QED
      BY <3>3, <3>4
  <2>4. CASE UNCHANGED vars
    BY <2>4 DEF vars, client, server, Contract!vars, Refused, Accepted
  <2> QED
    BY <2>2, <2>3, <2>4 DEF Next
<1> QED
  BY Invariance, <1>1, <1>2, PTL DEF Spec, ImplementsSubmission, Contract!Spec

===============================================================================

----------------------------- MODULE StartupProofs -----------------------------
(***************************************************************************)
(* Theorems about Startup for every environment, secrets file, command     *)
(* line, host and limit.                                                   *)
(***************************************************************************)
EXTENDS Startup, SequenceTheorems, Numbers

(* The steps of main follow each other as Order says. *)
LEMMA StepsFollow ==
  /\ Following("arguments") = "settings"
  /\ Following("settings") = "secrets"
  /\ Following("secrets") = "smtp"
  /\ Following("smtp") = "resolve"
  /\ Following("resolve") = "bind"
  /\ Following("bind") = "handle TERM"
  /\ Following("handle TERM") = "handle INT"
  /\ Following("handle INT") = "record"
  /\ Following("record") = "serving"
<1>1. /\ Len(Order) = 10
      /\ \A i, j \in 1..10 : Order[i] = Order[j] => i = j
  BY DEF Order
<1>2. ASSUME NEW k \in 1..9
      PROVE  Following(Order[k]) = Order[k + 1]
  <2>1. {i \in 1..Len(Order) : Order[i] = Order[k]} = {k}
    BY <1>1
  <2>2. Min({k}) = k
    BY MinIsLeast
  <2> QED
    BY <2>1, <2>2 DEF Following, SelectInSeq
<1>3. /\ Following(Order[1]) = Order[2] /\ Following(Order[2]) = Order[3]
      /\ Following(Order[3]) = Order[4] /\ Following(Order[4]) = Order[5]
      /\ Following(Order[5]) = Order[6] /\ Following(Order[6]) = Order[7]
      /\ Following(Order[7]) = Order[8] /\ Following(Order[8]) = Order[9]
      /\ Following(Order[9]) = Order[10]
  BY <1>2
<1> QED
  BY <1>3 DEF Order

-------------------------------------------------------------------------------
(* The settings. *)

Named(k) == {Fields[i] : i \in 1..k}

(* Fields are read in their order, none is skipped, and the level the       *)
(* startup record is written at is a number.                                *)
SettingsInv ==
  /\ reading \in {"fields", "read", "refused"}
  /\ \E k \in 0..18 : DOMAIN settings = Named(k) /\ (reading = "read" => k = 18)
  /\ "LOG_LEVEL" \in DOMAIN settings => settings["LOG_LEVEL"] \in Nat

(* No field is listed twice. *)
LEMMA FieldsDiffer ==
  /\ Len(Fields) = 18 /\ Fields[18] = "LOG_LEVEL" /\ ToSet(Fields) = Named(18)
  /\ \A k \in 0..18 : Cardinality(Named(k)) = k
<1>1. Len(Fields) = 18 /\ Fields[18] = "LOG_LEVEL"
  BY DEF Fields
<1>2. \A i, j \in 1..18 : Fields[i] = Fields[j] => i = j
  BY DEF Fields
<1>3. ToSet(Fields) = Named(18)
  BY <1>1 DEF ToSet, Named, Fields
<1>4. ASSUME NEW k \in 0..18 PROVE Cardinality(Named(k)) = k
  <2> DEFINE f == [i \in 1..k |-> Fields[i]]
  <2>1. f \in Bijection(1..k, Named(k))
    <3>1. f \in Injection(1..k, Named(k))
      <4>1. f \in [1..k -> Named(k)]
        BY DEF Named
      <4>2. \A i, j \in 1..k : f[i] = f[j] => i = j
        BY <1>2
      <4> QED
        BY <4>1, <4>2 DEF Injection, IsInjective
    <3>2. f \in Surjection(1..k, Named(k))
      BY DEF Surjection, Named
    <3> QED
      BY <3>1, <3>2 DEF Bijection
  <2>2. IsFiniteSet(1..k) /\ Cardinality(1..k) = k
    <3>1. k \in Int /\ 1 \in Int /\ (1 > k => k = 0) /\ k - 1 + 1 = k
      OBVIOUS
    <3> QED
      BY <3>1, FS_Interval
  <2> QED
    BY <2>1, <2>2, FS_Bijection DEF ExistsBijection
<1> QED
  BY <1>1, <1>3, <1>4

(* What a text means as a level is one of the levels. *)
LEMMA LevelIsNumber ==
  ASSUME NEW v \in Lookup("LOG_LEVEL")
  PROVE  v \in Nat
<1>1. ASSUME NEW t, v \in Parse("LOG_LEVEL", t) PROVE v \in Nat
  <2>1. Parse("LOG_LEVEL", t) = ParseLevel(t)
    BY DEF Parse
  <2>2. DOMAIN Levels = 1..6
    BY DEF Levels
  <2> QED
    BY <1>1, <2>1, <2>2 DEF ParseLevel
<1> QED
  BY <1>1 DEF Lookup

(* Reading one setting leaves the others as they are. *)
LEMMA SettingsStep == SettingsInv /\ SettingsNext => SettingsInv'
<1> SUFFICES ASSUME SettingsInv, SettingsNext PROVE SettingsInv'
  OBVIOUS
<1>1. PICK k \in 0..18 : DOMAIN settings = Named(k) /\ (reading = "read" => k = 18)
  BY DEF SettingsInv
<1>2. Cardinality(DOMAIN settings) = k
  BY <1>1, FieldsDiffer
<1>3. CASE ReadField
  <2> DEFINE field == Fields[k + 1]
  <2>1. k < 18 /\ reading = "fields"
    BY <1>2, <1>3, FieldsDiffer DEF ReadField
  <2>2. CASE reading' = "refused" /\ settings' = settings
    BY <1>1, <2>2 DEF SettingsInv
  <2>3. ASSUME NEW v \in Lookup(field), settings' = [f \in DOMAIN settings \cup {field} |->
                             IF f = field THEN v ELSE settings[f]],
               reading' = reading
        PROVE  SettingsInv'
    <3>1. DOMAIN settings' = DOMAIN settings \cup {field}
      BY <2>3
    <3>2. DOMAIN settings' = Named(k + 1)
      BY <1>1, <2>1, <3>1 DEF Named
    <3>3. ASSUME "LOG_LEVEL" \in DOMAIN settings' PROVE settings'["LOG_LEVEL"] \in Nat
      <4>1. field = "LOG_LEVEL" => v \in Nat
        BY <2>3, LevelIsNumber
      <4>2. /\ field = "LOG_LEVEL" => settings'["LOG_LEVEL"] = v
            /\ field # "LOG_LEVEL" => /\ "LOG_LEVEL" \in DOMAIN settings
                                      /\ settings'["LOG_LEVEL"] = settings["LOG_LEVEL"]
        BY <2>3, <3>1, <3>3
      <4> QED
        BY <4>1, <4>2 DEF SettingsInv
    <3> QED
      BY <2>1, <2>3, <3>2, <3>3 DEF SettingsInv
  <2> QED
    BY <1>2, <1>3, <2>2, <2>3 DEF ReadField
<1>4. CASE CheckBindHost
  <2>1. k = 18
    BY <1>2, <1>4, FieldsDiffer DEF CheckBindHost
  <2> QED
    BY <1>1, <1>4, <2>1 DEF CheckBindHost, SettingsInv
<1> QED
  BY <1>3, <1>4 DEF SettingsNext

-------------------------------------------------------------------------------
(* The start. *)

Bound     == {"handle TERM", "handle INT", "record", "serving", "stopping"}
Checked   == {"resolve", "bind"} \cup Bound
Announced == {"record", "serving", "stopping"}
MainSteps == {"arguments", "settings", "secrets", "smtp", "exited"} \cup Checked

(* Each step of main has what the steps before it made sure of. *)
ConfigurationInv ==
  /\ invocation \in {"serve", "check", "version", "other"}
  /\ step \in MainSteps
  /\ step \in {"secrets", "smtp"} => reading = "read"
  /\ step = "smtp" => load = "loaded"
  /\ step \in Checked => ConfigurationIsGood
  /\ step = "exited" <=> exit # "none"
  /\ failed # "none" => step = "exited"
  /\ failed = "smtp" => HasCaFile /\ caFile # "usable"
  /\ invocation = "check" /\ exit = "0" => ConfigurationIsGood

(* Both handlers are there before the record, and the record before the     *)
(* servers.                                                                 *)
HandlersInv ==
  /\ handled \subseteq Signals
  /\ step = "handle INT" => "TERM" \in handled
  /\ step \in Announced => handled = Signals
  /\ recorded => /\ step \in {"serving", "stopping", "exited"}
                 /\ handled = Signals /\ exit # "killed"
  /\ step \in {"serving", "stopping"} => recorded

(* Listeners are there from the first that is bound to the end of the       *)
(* process, or to the address that is in use.                               *)
SocketsInv ==
  /\ resolution \in Seq(ToSet(resolution))
  /\ bound \in Seq(ToSet(resolution))
  /\ bound # <<>> => step \in {"bind"} \cup Bound
  /\ step \in Bound => ToSet(resolution) \subseteq ToSet(bound)
  /\ failed = "taken" => ToSet(resolution) \cap taken # {}

(* No listener is on an address of another process. *)
RestInv ==
  /\ exit \in {"none", "0", "1", "2", "killed"}
  /\ tls \in {"none", "off", "verified"}
  /\ ToSet(bound) \cap taken = {}
  /\ pending \subseteq handled
  /\ recorded \in BOOLEAN

(* Reading the settings or the secrets moves nothing else. *)
LEMMA ConfigurationStep ==
  SettingsInv /\ ConfigurationInv /\ [Next]_vars => ConfigurationInv'
<1> SUFFICES ASSUME SettingsInv, ConfigurationInv, [Next]_vars PROVE ConfigurationInv'
  OBVIOUS
<1> USE StepsFollow DEF settingsVars, secretsVars, world, process, sockets, signals,
        Continue, End
<1>a. ASSUME UNCHANGED <<settings, reading, load, caFile, invocation, tls>>
      PROVE  ConfigurationIsGood' <=> ConfigurationIsGood
  BY <1>a DEF ConfigurationIsGood, HasCaFile
<1>0. ASSUME step # "exited" PROVE exit = "none" /\ failed = "none"
  BY <1>0 DEF ConfigurationInv
<1>1. CASE Arguments
  <2>1. \/ step' = "settings" /\ UNCHANGED <<exit, failed>>
        \/ step' = "exited" /\ exit' = "0" /\ failed' = "none" /\ invocation = "version"
        \/ step' = "exited" /\ exit' = "2" /\ failed' = "none"
    BY <1>1 DEF Arguments, ConfigurationInv
  <2> QED
    BY <1>1, <1>0, <2>1 DEF Arguments, ConfigurationInv, MainSteps, Checked, Bound
<1>2. CASE ReadSettings
  BY <1>2, <1>0 DEF ReadSettings, ConfigurationInv, MainSteps, Checked, Bound
<1>3. CASE LoadSecrets
  BY <1>3, <1>0 DEF LoadSecrets, ConfigurationInv, MainSteps, Checked, Bound
<1>4. CASE LoadSmtpConfig
  BY <1>4, <1>0 DEF LoadSmtpConfig, ConfigurationInv, ConfigurationIsGood, CaFileIsBad, HasCaFile,
                    MainSteps, Checked, Bound
<1>5. CASE Resolve \/ AllBound \/ BindAddress \/ Register \/ LogStartup \/ Stop
  BY <1>5, <1>0, <1>a DEF Resolve, AllBound, BindAddress, Register, LogStartup, Stop, Handler,
                 ConfigurationInv, MainSteps, Checked, Bound, HasCaFile
<1>6. ASSUME NEW s \in Signals, Signal(s) PROVE ConfigurationInv'
  BY <1>6, <1>0, <1>a DEF Signal, ConfigurationInv, MainSteps, Checked, Bound, HasCaFile
<1>7. ASSUME NEW a, Take(a) PROVE ConfigurationInv'
  BY <1>7, <1>a DEF Take, ConfigurationInv, HasCaFile
<1>8. CASE UNCHANGED vars
  BY <1>8, <1>a DEF vars, startup, ConfigurationInv, HasCaFile
<1> QED
  BY <1>1, <1>2, <1>3, <1>4, <1>5, <1>6, <1>7, <1>8 DEF Next, Main

(* The record is never below the level that is configured. *)
LEMMA LevelOfRecord ==
  ASSUME SettingsInv, reading = "read"
  PROVE  (RecordLevel(settings["LOG_LEVEL"]) >= settings["LOG_LEVEL"]) = TRUE
<1>1. settings["LOG_LEVEL"] \in Nat
  BY FieldsDiffer DEF SettingsInv, Named
<1>2. Info \in Nat
  <2> DEFINE I == {i \in 1..Len(Levels) : Levels[i] = "info"}
  <2>1. I \in SUBSET Nat /\ 3 \in I
    BY DEF Levels
  <2>2. Min(I) \in Nat
    BY <2>1, MinIsLeast
  <2> QED
    BY <2>1, <2>2 DEF Info, SelectInSeq
<1> QED
  BY <1>1, <1>2 DEF RecordLevel

(* No step between the record and the end takes a handler away. *)
LEMMA HandlersStep ==
  SettingsInv /\ ConfigurationInv /\ HandlersInv /\ [Next]_vars => HandlersInv'
<1> SUFFICES ASSUME SettingsInv, ConfigurationInv, HandlersInv, [Next]_vars PROVE HandlersInv'
  OBVIOUS
<1> USE StepsFollow DEF settingsVars, secretsVars, world, process, sockets, signals,
        Continue, End, HandlersInv, Announced, Signals
<1>0. ASSUME step # "exited" PROVE exit = "none"
  BY <1>0 DEF ConfigurationInv
<1>1. CASE Arguments
  BY <1>1, <1>0 DEF Arguments, ConfigurationInv
<1>2. CASE ReadSettings
  BY <1>2, <1>0 DEF ReadSettings
<1>3. CASE LoadSecrets
  BY <1>3, <1>0 DEF LoadSecrets
<1>4. CASE LoadSmtpConfig
  BY <1>4, <1>0 DEF LoadSmtpConfig
<1>5. CASE AllBound
  BY <1>5, <1>0 DEF AllBound
<1>13. CASE Resolve
  <2>1. /\ step = "resolve" /\ UNCHANGED <<handled, recorded>>
        /\ step' \in {"bind", "exited"}
    BY <1>13 DEF Resolve
  <2> QED
    BY <2>1
<1>11. CASE BindAddress
  BY <1>11, <1>0 DEF BindAddress
<1>12. CASE Stop
  BY <1>12, <1>0 DEF Stop
<1>10. CASE Register
  <2>1. \/ step = "handle TERM" /\ Handler[step] = "TERM"
        \/ step = "handle INT" /\ Handler[step] = "INT"
    BY <1>10 DEF Register, Handler
  <2>2. CASE handled' = handled /\ step' = "exited" /\ exit' = "1"
    BY <1>10, <1>0, <2>1, <2>2 DEF Register
  <2>3. CASE handled' = handled \cup {Handler[step]} /\ step' = Following(step)
                /\ exit' = exit
    BY <1>10, <1>0, <2>1, <2>3 DEF Register
  <2> QED
    BY <1>10, <2>2, <2>3 DEF Register
<1>6. CASE LogStartup
  <2>1. recorded' = TRUE
    BY <1>6, LevelOfRecord DEF LogStartup, ConfigurationInv, ConfigurationIsGood, Checked, Bound
  <2> QED
    BY <1>6, <1>0, <2>1 DEF LogStartup
<1>7. ASSUME NEW s \in Signals, Signal(s) PROVE HandlersInv'
  BY <1>7, <1>0 DEF Signal
<1>8. ASSUME NEW a, Take(a) PROVE HandlersInv'
  BY <1>8 DEF Take
<1>9. CASE UNCHANGED vars
  BY <1>9 DEF vars, startup
<1> QED
  BY <1>1, <1>2, <1>3, <1>4, <1>5, <1>6, <1>7, <1>8, <1>9, <1>10, <1>11, <1>12, <1>13
  DEF Next, Main

(* The next address is one of the host without a listener. *)
LEMMA NextAddress ==
  ASSUME SocketsInv, ToBind # {}
  PROVE  resolution[Min(ToBind)] \in ToSet(resolution) \ ToSet(bound)
<1>1. DOMAIN resolution = 1..Len(resolution) /\ Len(resolution) \in Nat
  BY LenProperties DEF SocketsInv
<1>2. Min(ToBind) \in ToBind
  BY <1>1, MinIsLeast DEF ToBind
<1> QED
  BY <1>1, <1>2 DEF ToBind, ToSet

(* Listeners come one by one, and go all at once. *)
LEMMA SocketsStep ==
  ConfigurationInv /\ SocketsInv /\ [Next]_vars => SocketsInv'
<1> SUFFICES ASSUME ConfigurationInv, SocketsInv, [Next]_vars PROVE SocketsInv'
  OBVIOUS
<1> USE StepsFollow DEF settingsVars, secretsVars, world, process, sockets, signals,
        Continue, End, SocketsInv, Bound
<1>0. ASSUME step # "exited" PROVE exit = "none" /\ failed = "none"
  BY <1>0 DEF ConfigurationInv
<1>a. <<>> \in Seq(ToSet(resolution))
  BY EmptySeq
<1>1. CASE Arguments
  <2>1. step = "arguments" /\ step' \notin Bound /\ failed' # "taken"
    BY <1>1, <1>0 DEF Arguments, ConfigurationInv
  <2> QED
    BY <1>1, <2>1 DEF Arguments
<1>2. CASE ReadSettings
  BY <1>2, <1>0 DEF ReadSettings
<1>3. CASE LoadSecrets
  BY <1>3, <1>0 DEF LoadSecrets
<1>4. CASE LoadSmtpConfig
  BY <1>4, <1>0 DEF LoadSmtpConfig
<1>5. CASE Resolve \/ LogStartup \/ Stop
  BY <1>5, <1>0 DEF Resolve, LogStartup, Stop
<1>6. CASE Register
  BY <1>6, <1>0, <1>a DEF Register, Handler
<1>7. CASE AllBound
  <2>1. ToSet(resolution) \subseteq ToSet(bound)
    BY <1>7 DEF AllBound, ToBind, ToSet
  <2> QED
    BY <1>7, <1>0, <2>1 DEF AllBound
<1>8. CASE BindAddress
  <2> DEFINE address == resolution[Min(ToBind)]
  <2>1. address \in ToSet(resolution) /\ address \notin ToSet(bound) /\ step = "bind"
    BY <1>8, NextAddress DEF BindAddress
  <2>2. CASE bound' = <<>> /\ step' = "exited" /\ failed' = "taken" /\ address \in taken
    BY <1>8, <1>0, <1>a, <2>1, <2>2 DEF BindAddress
  <2>4. CASE bound' = <<>> /\ step' = "exited" /\ failed' = "bind"
    BY <1>8, <1>0, <1>a, <2>1, <2>4 DEF BindAddress
  <2>3. CASE bound' = Append(bound, address) /\ UNCHANGED process /\ address \notin taken
    <3>1. bound' = Append(bound, address) /\ UNCHANGED <<process, resolution, taken>>
      BY <1>8, <2>3 DEF BindAddress
    <3>2. bound' \in Seq(ToSet(resolution))
      BY <2>1, <3>1, AppendProperties
    <3> QED
      BY <1>0, <2>1, <3>1, <3>2
  <2> QED
    BY <1>8, <2>1, <2>2, <2>3, <2>4 DEF BindAddress
<1>9. ASSUME NEW s \in Signals, Signal(s) PROVE SocketsInv'
  BY <1>9, <1>0, <1>a DEF Signal
<1>10. ASSUME NEW a, Take(a) PROVE SocketsInv'
  BY <1>10 DEF Take
<1>11. CASE UNCHANGED vars
  BY <1>11 DEF vars, startup
<1> QED
  BY <1>1, <1>2, <1>3, <1>4, <1>5, <1>6, <1>7, <1>8, <1>9, <1>10, <1>11 DEF Next, Main

-------------------------------------------------------------------------------
(* The secrets file. *)

IsStack(s) == \E S : s \in Seq(S) /\ Len(s) <= MaxDepth

(* The reader stops at the end of the stream, or before, and the stack of   *)
(* open collections stays within MAX_DEPTH.                                 *)
Checks == {"mode", "characters", "tokens", "events"}
ReaderInv ==
  /\ load \in Checks \cup {"smtp", "policies", "loaded", "refused"}
  /\ \E w \in Worlds : file = w.file
  /\ load \in Checks \ {"mode"} => file.readable
  /\ position \in 0..Len(file.events)
  /\ load \in Checks =>
       \A n \in 1..position : file.events[n].kind \notin {"stream end", "invalid"}
  /\ IsStack(stack)
  /\ documents \in 0..1

(* A node goes into the innermost collection: nothing opens or closes.      *)
LEMMA AddKeepsStack ==
  ASSUME NEW frames, IsStack(frames), NEW node, NEW anchor, Add(frames, node, anchor)
  PROVE  IsStack(stack)' \/ UNCHANGED stack
<1> PICK S : frames \in Seq(S) /\ Len(frames) <= MaxDepth
  BY DEF IsStack
<1> CASE UNCHANGED stack
  OBVIOUS
<1>1. CASE stack' = frames
  BY <1>1 DEF IsStack
<1>2. CASE frames # <<>> /\ stack' = Front(frames) \o <<Put(Last(frames), node)>>
  <2> DEFINE T == S \cup {Put(Last(frames), node)}
  <2>1. Len(frames) \in Nat \ {0} /\ \A i \in 1..Len(frames) : frames[i] \in S
    BY <1>2, EmptySeq, LenProperties, ElementOfSeq
  <2>2. Front(frames) \in Seq(T) /\ Len(Front(frames)) = Len(frames) - 1
    <3>1. Len(frames) - 1 \in Int /\ \A i \in 1..Len(frames) - 1 : frames[i] \in T
      BY <2>1
    <3>2. /\ SubSeq(frames, 1, Len(frames) - 1) \in Seq(T)
          /\ Len(SubSeq(frames, 1, Len(frames) - 1))
               = IF 1 <= Len(frames) - 1 THEN Len(frames) - 1 - 1 + 1 ELSE 0
      BY <3>1, SubSeqProperties
    <3>3. Len(frames) - 1 = IF 1 <= Len(frames) - 1 THEN Len(frames) - 1 - 1 + 1 ELSE 0
      <4>1. \A n \in Nat : n # 0 => n - 1 = IF 1 <= n - 1 THEN n - 1 - 1 + 1 ELSE 0
        OBVIOUS
      <4> QED
        BY <2>1, <4>1
    <3> QED
      BY <3>2, <3>3 DEF Front
  <2>3. <<Put(Last(frames), node)>> \in Seq(T) /\ Len(<<Put(Last(frames), node)>>) = 1
    OBVIOUS
  <2>4. stack' \in Seq(T) /\ Len(stack') = Len(frames)
    BY <1>2, <2>1, <2>2, <2>3, ConcatProperties
  <2> QED
    BY <2>4 DEF IsStack
<1> QED
  BY <1>1, <1>2 DEF Add, RefuseFile, reader

(* Closing a collection takes one off the stack. *)
LEMMA FrontIsStack ==
  ASSUME NEW s, IsStack(s) PROVE IsStack(Front(s))
<1>1. PICK S : s \in Seq(S) /\ Len(s) <= MaxDepth
  BY DEF IsStack
<1>2. Len(s) \in Nat /\ \A i \in 1..Len(s) - 1 : s[i] \in S
  BY <1>1, LenProperties, ElementOfSeq
<1>3. /\ Front(s) \in Seq(S)
      /\ Len(Front(s)) = IF 1 <= Len(s) - 1 THEN Len(s) - 1 ELSE 0
  BY <1>2, SubSeqProperties DEF Front
<1>4. Len(Front(s)) <= MaxDepth
  BY <1>1, <1>2, <1>3, TextsAssumption
<1> QED
  BY <1>3, <1>4 DEF IsStack

(* Every step of the reader goes on in the stream, or ends reading it. *)
LEMMA ReaderStep == ReaderInv /\ SecretsNext => ReaderInv'
<1> SUFFICES ASSUME ReaderInv, SecretsNext PROVE ReaderInv'
  OBVIOUS
<1> USE DEF reader, Checks
<1>s. Len(file.events) \in Nat
  BY EventsAssumption, LenProperties DEF ReaderInv
<1>1. /\ load \in Checks \ {"mode"} =>
           \E n \in 1..Len(file.events) : file.events[n].kind \in {"stream end", "invalid"}
  BY EventsAssumption, LenProperties DEF ReaderInv
<1>a. position \in 0..Len(file.events) /\ documents \in 0..1
  BY DEF ReaderInv
<1>0. position \in Nat /\ position <= Len(file.events)
  BY <1>a, <1>s
<1>2. load = "events" => position + 1 \in 1..Len(file.events)
  <2> SUFFICES ASSUME load = "events" PROVE position < Len(file.events)
    BY <1>0, <1>s
  <2>1. PICK n \in 1..Len(file.events) : file.events[n].kind \in {"stream end", "invalid"}
    BY <1>1 DEF Checks
  <2>2. n \notin 1..position
    BY <2>1 DEF ReaderInv
  <2> QED
    BY <1>0, <1>s, <2>2
<1>3. ASSUME RefuseFile PROVE ReaderInv'
  BY <1>3 DEF RefuseFile, ReaderInv, IsStack
<1>4. ASSUME NEW to, Go(to), to \in {"smtp", "policies"} \/ (to \in Checks /\ file.readable /\ load \in Checks)
      PROVE  ReaderInv'
  BY <1>4 DEF Go, ReaderInv, IsStack
<1>5. ASSUME load = "events", event.kind \notin {"stream end", "invalid"},
             position' = position + 1, UNCHANGED <<file, load>>,
             IsStack(stack)', documents' \in 0..1
      PROVE  ReaderInv'
  <2>0. position' = position + 1 /\ file' = file /\ position + 1 \in 1..Len(file.events)
    BY <1>2, <1>5
  <2>1. ASSUME NEW n \in 1..position'
        PROVE  file.events[n].kind \notin {"stream end", "invalid"}
    <3>1. n \in 1..position \/ n = position + 1
      BY <1>0, <2>0
    <3> QED
      BY <1>5, <3>1 DEF ReaderInv, event
  <2>2. position' \in 0..Len(file'.events)
    BY <1>0, <1>s, <2>0
  <2> QED
    BY <1>5, <2>1, <2>2 DEF ReaderInv
<1>6. ASSUME NEW frames, NEW node, NEW anchor, Add(frames, node, anchor), IsStack(frames),
             load = "events", event.kind \notin {"stream end", "invalid"}
      PROVE  ReaderInv'
  <2>1. IsStack(stack)'
    BY <1>6, AddKeepsStack DEF ReaderInv, IsStack
  <2> QED
    BY <1>3, <1>5, <1>6, <2>1 DEF Add, ReaderInv
<1>7. CASE CheckMode
  BY <1>3, <1>4, <1>7 DEF CheckMode
<1>8. CASE CheckCharacters \/ CheckTokens
  BY <1>3, <1>4, <1>8 DEF CheckCharacters, CheckTokens, ReaderInv
<1>9. CASE DocumentStart
  <2>1. CASE RefuseFile
    BY <1>3, <2>1
  <2>2. CASE documents # 1 /\ documents' = documents + 1 /\ position' = position + 1
               /\ UNCHANGED <<file, load, stack>>
    <3>1. IsStack(stack)'
      BY <2>2 DEF ReaderInv, IsStack
    <3>2. documents' \in 0..1
      BY <1>a, <2>2
    <3> QED
      BY <1>5, <1>9, <2>2, <3>1, <3>2 DEF DocumentStart, Reads
  <2> QED
    BY <1>9, <2>1, <2>2 DEF DocumentStart
<1>10. CASE CollectionStart
  <2> DEFINE frame == Frame(event.kind, event.anchor)
  <2>1. CASE RefuseFile
    BY <1>3, <2>1
  <2>2. CASE ~TooDeep(stack) /\ stack' = Append(stack, frame) /\ position' = position + 1
               /\ UNCHANGED <<file, load, documents>>
    <3>1. PICK S : stack \in Seq(S) /\ Len(stack) <= MaxDepth
      BY DEF ReaderInv, IsStack
    <3>2. stack \in Seq(S \cup {frame}) /\ Len(stack) \in Nat
      BY <3>1, SeqMonotonic, LenProperties
    <3>3. stack' \in Seq(S \cup {frame}) /\ Len(stack') = Len(stack) + 1
      BY <2>2, <3>2, AppendProperties
    <3>4. IsStack(stack)'
      BY <2>2, <3>2, <3>3, TextsAssumption DEF IsStack, TooDeep
    <3> QED
      BY <1>5, <1>10, <2>2, <3>4 DEF CollectionStart, Reads, ReaderInv
  <2> QED
    BY <1>10, <2>1, <2>2 DEF CollectionStart
<1>11. CASE CollectionEnd
  BY <1>3, <1>6, <1>11, FrontIsStack DEF CollectionEnd, Reads, ReaderInv
<1>12. CASE Scalar
  BY <1>3, <1>6, <1>12 DEF Scalar, Reads, ReaderInv
<1>13. CASE Alias
  BY <1>3, <1>6, <1>13 DEF Alias, Reads, ReaderInv
<1>14. CASE NotYaml \/ StreamEnd
  BY <1>3, <1>4, <1>14 DEF NotYaml, StreamEnd
<1>15. CASE LoadSmtp
  BY <1>3, <1>4, <1>15 DEF LoadSmtp
<1>16. CASE LoadPolicy
  <2>1. CASE RefuseFile
    BY <1>3, <2>1
  <2>2. CASE load' \in {"loaded", "policies"} /\ UNCHANGED <<file, position, stack, documents>>
    BY <2>2 DEF ReaderInv, IsStack
  <2> QED
    BY <1>16, <2>1, <2>2 DEF LoadPolicy
<1> QED
  BY <1>7, <1>8, <1>9, <1>10, <1>11, <1>12, <1>13, <1>14, <1>15, <1>16 DEF SecretsNext

-------------------------------------------------------------------------------

IInv == SettingsInv /\ ReaderInv /\ ConfigurationInv /\ HandlersInv /\ SocketsInv /\ RestInv

(* The rest of the types. *)
LEMMA RestStep == SettingsInv /\ ConfigurationInv /\ SocketsInv /\ RestInv /\ [Next]_vars => RestInv'
<1> SUFFICES ASSUME SettingsInv, ConfigurationInv, SocketsInv, RestInv, [Next]_vars PROVE RestInv'
  OBVIOUS
<1> USE DEF settingsVars, secretsVars, world, process, sockets, signals, Continue, End, RestInv
<1>a. ToSet(<<>>) = {}
  BY DEF ToSet
<1>1. CASE Arguments
  <2>1. exit' \in {exit, "0", "2"}
    BY <1>1 DEF Arguments, ConfigurationInv
  <2> QED
    BY <1>1, <2>1 DEF Arguments
<1>2. CASE ReadSettings \/ LoadSecrets \/ Resolve \/ AllBound \/ Stop
  BY <1>2 DEF ReadSettings, LoadSecrets, Resolve, AllBound, Stop
<1>3. CASE LoadSmtpConfig
  <2>1. exit' \in {exit, "0", "1"} /\ tls' \in {tls, "verified", "off"}
    BY <1>3 DEF LoadSmtpConfig
  <2> QED
    BY <1>3, <2>1 DEF LoadSmtpConfig
<1>4. CASE Register
  BY <1>4, <1>a DEF Register
<1>5. CASE LogStartup
  <2>1. recorded' \in BOOLEAN
    BY <1>5, LevelOfRecord DEF LogStartup, ConfigurationInv, ConfigurationIsGood, Checked, Bound
  <2> QED
    BY <1>5, <2>1 DEF LogStartup
<1>6. CASE BindAddress
  <2> DEFINE address == resolution[Min(ToBind)]
  <2>1. CASE bound' = <<>> /\ exit' = "1" /\ step' = "exited"
    BY <1>6, <1>a, <2>1 DEF BindAddress
  <2>2. CASE address \notin taken \cup ToSet(bound) /\ bound' = Append(bound, address) /\ UNCHANGED process
    <3>1. bound' = Append(bound, address) /\ UNCHANGED <<exit, tls, taken, pending, handled, recorded>>
      BY <1>6, <2>2 DEF BindAddress
    <3>2. ToSet(bound') \subseteq ToSet(bound) \cup {address}
      <4>1. address \in ToSet(resolution)
        BY <1>6, NextAddress DEF BindAddress
      <4>2. /\ Len(bound') = Len(bound) + 1 /\ Len(bound) \in Nat
            /\ \A i \in 1..Len(bound) : bound'[i] = bound[i]
            /\ bound'[Len(bound) + 1] = address
            /\ DOMAIN bound = 1..Len(bound) /\ DOMAIN bound' = 1..Len(bound')
        BY <3>1, <4>1, AppendProperties, LenProperties DEF SocketsInv
      <4> QED
        BY <4>2 DEF ToSet
    <3> QED
      BY <2>2, <3>1, <3>2
  <2> QED
    BY <1>6, <2>1, <2>2 DEF BindAddress
<1>7. ASSUME NEW s \in Signals, Signal(s) PROVE RestInv'
  BY <1>7, <1>a DEF Signal
<1>8. ASSUME NEW a, Take(a) PROVE RestInv'
  BY <1>8 DEF Take
<1>9. CASE UNCHANGED vars
  BY <1>9 DEF vars, startup
<1> QED
  BY <1>1, <1>2, <1>3, <1>4, <1>5, <1>6, <1>7, <1>8, <1>9 DEF Next, Main

(* A start begins with what a world holds, and nothing done. *)
LEMMA InitInv == Init => IInv
<1> SUFFICES ASSUME Init PROVE IInv
  OBVIOUS
<1> PICK w \in Worlds : /\ SettingsInit(w.environment)
                        /\ invocation = w.invocation /\ resolution = w.resolution
  BY DEF Init
<1>1. SettingsInv
  <2>1. DOMAIN settings = Named(0)
    BY DEF SettingsInit, Named
  <2> QED
    BY <2>1 DEF SettingsInit, SettingsInv, Named
<1>2. ConfigurationInv
  BY WorldsAssumption DEF Init, ConfigurationInv, MainSteps, Checked, Bound
<1>3. HandlersInv
  BY DEF Init, HandlersInv, Announced
<1>4. SocketsInv
  BY WorldsAssumption, EmptySeq DEF Init, SocketsInv, Bound
<1>5. ReaderInv
  <2>1. PICK v \in Worlds : SecretsInit(v.file)
    BY DEF Init
  <2>2. Len(file.events) \in Nat
    BY <2>1, EventsAssumption, LenProperties DEF SecretsInit
  <2>3. IsStack(stack)
    BY <2>1, EmptySeq, TextsAssumption DEF SecretsInit, IsStack
  <2> QED
    BY <2>1, <2>2, <2>3 DEF SecretsInit, ReaderInv, Checks
<1>6. RestInv
  BY DEF Init, RestInv, ToSet
<1> QED
  BY <1>1, <1>2, <1>3, <1>4, <1>5, <1>6 DEF IInv

(* What the start rests on holds from its first step to its last. *)
THEOREM Invariance == Spec => []IInv
<1>1. SettingsInv /\ [Next]_vars => SettingsInv'
  <2> SUFFICES ASSUME SettingsInv, [Next]_vars, UNCHANGED settingsVars PROVE SettingsInv'
    BY SettingsStep DEF Next, Main, Arguments, ReadSettings, LoadSecrets, LoadSmtpConfig, Resolve,
       BindAddress, AllBound, Register, LogStartup, Stop, Signal, Take, vars
  <2> QED
    BY DEF SettingsInv, settingsVars
<1>2. ReaderInv /\ [Next]_vars => ReaderInv'
  <2> SUFFICES ASSUME ReaderInv, [Next]_vars, UNCHANGED secretsVars PROVE ReaderInv'
    BY ReaderStep DEF Next, Main, Arguments, ReadSettings, LoadSecrets, LoadSmtpConfig, Resolve,
       BindAddress, AllBound, Register, LogStartup, Stop, Signal, Take, vars
  <2> QED
    BY DEF ReaderInv, secretsVars, reader, IsStack
<1>3. IInv /\ [Next]_vars => IInv'
  BY <1>1, <1>2, ConfigurationStep, HandlersStep, SocketsStep, RestStep DEF IInv
<1> QED
  BY <1>3, InitInv, PTL DEF Spec

-------------------------------------------------------------------------------

(* Types; in particular the reader of the secrets file never reads past the *)
(* end of its stream and never nests deeper than MAX_DEPTH, and no listener *)
(* shares its address with another process.                                 *)
THEOREM TypeCorrect == Spec => []TypeOK
<1>1. IInv => TypeOK
  <2> SUFFICES ASSUME IInv PROVE TypeOK
    OBVIOUS
  <2>1. DOMAIN settings \subseteq ToSet(Fields)
    <3>1. PICK k \in 0..18 : DOMAIN settings = Named(k)
      BY DEF IInv, SettingsInv
    <3>2. Named(k) \subseteq Named(18)
      BY DEF Named
    <3> QED
      BY <3>1, <3>2, FieldsDiffer
  <2>2. Len(stack) <= MaxDepth
    BY DEF IInv, ReaderInv, IsStack
  <2> QED
    BY <2>1, <2>2 DEF IInv, SettingsInv, ReaderInv, Checks, ConfigurationInv, HandlersInv, RestInv,
       TypeOK
<1> QED
  BY <1>1, Invariance, PTL

(* "Handlers are in place before the startup record announces the process"  *)
(* (main.rs): whoever waits for the record may send a signal and gets a     *)
(* graceful stop, and every relay that serves has written it.               *)
THEOREM RecordsMeanGraceful == Spec => []RecordMeansGraceful
<1>1. IInv => RecordMeansGraceful
  BY DEF IInv, HandlersInv, RecordMeansGraceful
<1> QED
  BY <1>1, Invariance, PTL

(* bind_all: a relay that serves listens on every address of its host; one  *)
(* that ends, for an error of any socket or otherwise, has no listener      *)
(* left; and what it reports as in use is an address that another process   *)
(* has, not one that the resolver names twice.                              *)
THEOREM ListensEverywhere == Spec => []ListensEverywhereOrNowhere
<1>1. IInv => ListensEverywhereOrNowhere
  <2> SUFFICES ASSUME IInv PROVE ListensEverywhereOrNowhere
    OBVIOUS
  <2>1. ToSet(bound) \subseteq ToSet(resolution)
    BY LenProperties DEF IInv, SocketsInv, ToSet
  <2> QED
    BY <2>1 DEF IInv, SocketsInv, Bound, ListensEverywhereOrNowhere
<1> QED
  BY <1>1, Invariance, PTL

(* run: nothing listens, and --check-config does not say OK, before the     *)
(* settings, the secrets and the SMTP configuration are loaded.             *)
THEOREM StartsFailClosed == Spec => []FailsClosed
<1>1. IInv => FailsClosed
  BY DEF IInv, ConfigurationInv, SocketsInv, FailsClosed, Checked, Bound
<1> QED
  BY <1>1, Invariance, PTL

-------------------------------------------------------------------------------
(* The source of a setting *)

(* A text means one value at most. *)
LEMMA ParseIsOne ==
  ASSUME NEW field, NEW text, NEW v \in Parse(field, text)
  PROVE  Parse(field, text) = {v}
<1> DEFINE IsOne(S) == \A x, y \in S : x = y
<1>1. ASSUME NEW t PROVE IsOne(ParseIntStrict(t))
  <2>1. ASSUME NEW n PROVE IsOne({n} \cap (-MaxInt - 1 .. MaxInt))
    OBVIOUS
  <2>2. ParseIntStrict(t) = {} \/ \E n : ParseIntStrict(t) = {n} \cap (-MaxInt - 1 .. MaxInt)
    BY Zenon DEF ParseIntStrict
  <2> QED
    BY <2>1, <2>2
<1>2. ASSUME NEW t PROVE IsOne(ParseInt(t))
  <2>1. ParseInt(t) = {} \/ \E u : ParseInt(t) = ParseIntStrict(u)
    BY Zenon DEF ParseInt
  <2> QED
    BY <1>1, <2>1
<1>3. ASSUME NEW S, IsOne(S), NEW min, NEW max PROVE IsOne(InRange(S, min, max))
  BY <1>3 DEF InRange
<1>4. ASSUME NEW t PROVE IsOne(ParseBool(t)) /\ IsOne(EnvelopeSender(t))
  <2>1. ParseBool(t) \in {{TRUE}, {FALSE}, {}}
    BY Zenon DEF ParseBool
  <2>2. EnvelopeSender(t) = {} \/ \E s : EnvelopeSender(t) = {s}
    BY Zenon DEF EnvelopeSender
  <2> QED
    BY <2>1, <2>2
<1>5. ASSUME NEW t PROVE IsOne(ParseTimeout(t))
  <2>1. ASSUME NEW n PROVE IsOne(InRange({n}, 0, MaxTimeout))
    BY DEF InRange
  <2>2. ParseTimeout(t) = {} \/ \E n : ParseTimeout(t) = InRange({n}, 0, MaxTimeout)
    BY Zenon DEF ParseTimeout
  <2> QED
    BY <2>1, <2>2
<1>6. ASSUME NEW t PROVE IsOne(ParseLevel(t))
  <2>1. \A m, n \in DOMAIN Levels : Levels[m] = Levels[n] => m = n
    BY DEF Levels
  <2>2. \A m, n \in DOMAIN Levels : <<Levels[m]>> = <<Levels[n]>> => Levels[m] = Levels[n]
    OBVIOUS
  <2> QED
    BY <2>1, <2>2 DEF ParseLevel
<1>7. IsOne(Parse(field, text))
  <2> HIDE DEF IsOne
  <2>1. \A x : IsOne({x})
    BY DEF IsOne
  <2>2. \/ Parse(field, text) = {text}
        \/ Parse(field, text) = InRange(ParseIntStrict(text), 0, MaxPort)
        \/ Parse(field, text) = InRange(ParseInt(text), 0, MaxPort)
        \/ Parse(field, text) = InRange(ParseInt(text), 1, MaxCount)
        \/ Parse(field, text) = ParseInt(text)
        \/ Parse(field, text) = ParseBool(text)
        \/ Parse(field, text) = ParseTimeout(text)
        \/ Parse(field, text) = EnvelopeSender(text)
        \/ Parse(field, text) = ParseLevel(text)
    BY Zenon DEF Parse
  <2> QED
    BY <1>1, <1>2, <1>3, <1>4, <1>5, <1>6, <2>1, <2>2
<1> QED
  BY <1>7

(* and so does a variable. *)
LEMMA LookupIsOne ==
  ASSUME NEW field, NEW v \in Lookup(field)
  PROVE  Lookup(field) = {v}
<1>1. Lookup(field) = {} \/ \E text : Lookup(field) = Parse(field, text)
  BY Zenon DEF Lookup
<1> QED
  BY <1>1, ParseIsOne

(* A setting is what its only variable or its default is read as, and a    *)
(* refusal has a field that cannot be read, or a host that is empty.       *)
SourceInv ==
  /\ \E w \in Worlds : environment = w.environment
  /\ \A field \in DOMAIN settings : Lookup(field) = {settings[field]}
  /\ reading = "read" => settings["BIND_HOST"] # <<>>
  /\ reading = "refused" =>
       \E k \in 1..18 : \/ Lookup(Fields[k]) = {}
                        \/ Fields[k] = "BIND_HOST" /\ Lookup(Fields[k]) = {<<>>}

(* Another field is read, or the empty host is found. *)
LEMMA SourceStep == ASSUME SettingsInv, SourceInv, SettingsNext PROVE SourceInv'
<1>1. environment' = environment /\ \A field : Lookup(field)' = Lookup(field)
  <2>1. environment' = environment
    BY DEF SettingsNext, ReadField, CheckBindHost
  <2> QED
    BY <2>1 DEF Lookup, Matches
<1>2. PICK k \in 0..18 : DOMAIN settings = Named(k) /\ (reading = "read" => k = 18)
  BY DEF SettingsInv
<1>3. Cardinality(DOMAIN settings) = k /\ Len(Fields) = 18
  BY <1>2, FieldsDiffer
<1>4. CASE ReadField
  <2> DEFINE field == Fields[k + 1]
  <2>1. k + 1 \in 1..18 /\ reading = "fields"
    BY <1>3, <1>4 DEF ReadField
  <2>2. CASE Lookup(field) = {}
    <3>1. reading' = "refused" /\ settings' = settings
      BY <1>3, <1>4, <2>2 DEF ReadField
    <3> QED
      BY <1>1, <2>1, <2>2, <3>1 DEF SourceInv
  <2>3. ASSUME NEW v \in Lookup(field), settings' = [f \in DOMAIN settings \cup {field} |->
                             IF f = field THEN v ELSE settings[f]],
               reading' = reading
        PROVE  SourceInv'
    <3> HIDE DEF field
    <3>1. Lookup(field) = {v}
      BY <2>3, LookupIsOne
    <3>2. \A f \in DOMAIN settings' : Lookup(f) = {settings'[f]}
      BY <2>3, <3>1 DEF SourceInv
    <3> QED
      BY <1>1, <2>1, <2>3, <3>2 DEF SourceInv
  <2> QED
    BY <1>3, <1>4, <2>2, <2>3 DEF ReadField
<1>5. CASE CheckBindHost
  <2>1. k = 18 /\ UNCHANGED settings /\ Fields[1] = "BIND_HOST"
        /\ reading' = IF settings["BIND_HOST"] = <<>> THEN "refused" ELSE "read"
    BY <1>3, <1>5 DEF CheckBindHost, Fields
  <2>2. "BIND_HOST" \in DOMAIN settings
    BY <1>2, <2>1 DEF Named
  <2>3. Lookup(Fields[1]) = {settings["BIND_HOST"]}
    BY <2>1, <2>2 DEF SourceInv
  <2> QED
    BY <1>1, <2>1, <2>3 DEF SourceInv
<1> QED
  BY <1>4, <1>5 DEF SettingsNext

(* What is looked up is what is meant, if texts are read as they are meant. *)
LEMMA LookupIsMeant ==
  ASSUME NEW w \in Worlds, environment = w.environment, ReadAsMeant(w.environment),
         NEW field \in ToSet(Fields)
  PROVE  Means(field) = Lookup(field)
<1> DEFINE found == CHOOSE k \in Matches(field) : TRUE
<1>1. IsFiniteSet(Matches(field))
  <2>1. DOMAIN environment = 1..Len(environment) /\ Len(environment) \in Nat
    BY WorldsAssumption, LenProperties
  <2>2. IsFiniteSet(1..Len(environment))
    BY <2>1, FS_Interval
  <2>3. Matches(field) \subseteq 1..Len(environment)
    BY <2>1 DEF Matches
  <2> QED
    BY <2>2, <2>3, FS_Subset
<1>2. Cardinality(Matches(field)) \in Nat /\ (Cardinality(Matches(field)) = 0 <=> Matches(field) = {})
  BY <1>1, FS_CardinalityType, FS_EmptySet
<1>3. CASE Matches(field) = {}
  <2>1. Cardinality(Matches(field)) # 1
    BY <1>2, <1>3
  <2>2. Means(field) = Parse(field, DefaultOf[field])
    BY <1>3, <2>1, Zenon DEF Means
  <2>3. Lookup(field) = Parse(field, DefaultOf[field])
    BY <1>3, Zenon DEF Lookup
  <2> QED
    BY <2>2, <2>3
<1>4. CASE Matches(field) # {}
  <2>1. found \in DOMAIN environment /\ environment[found].field = field
    BY <1>4 DEF Matches
  <2>2. environment[found].means = IF environment[found].utf8
                                   THEN Parse(field, environment[found].text) ELSE {}
    BY <2>1 DEF ReadAsMeant
  <2>3. CASE Cardinality(Matches(field)) = 1
    <3>1. ~Ambiguous(Matches(field)) /\ Means(field) = environment[found].means
      BY <1>4, <2>3 DEF Ambiguous, Means
    <3>2. Lookup(field) = IF environment[found].utf8
                          THEN Parse(field, environment[found].text) ELSE {}
      BY <1>4, <3>1, Zenon DEF Lookup
    <3> QED
      BY <2>2, <3>1, <3>2
  <2>4. CASE Cardinality(Matches(field)) # 1
    <3>1. Ambiguous(Matches(field))
      BY <1>2, <1>4, <2>4 DEF Ambiguous
    <3>2. Lookup(field) = {}
      BY <1>4, <3>1, Zenon DEF Lookup
    <3>3. Means(field) = {}
      BY <1>4, <2>4, Zenon DEF Means
    <3> QED
      BY <3>2, <3>3
  <2> QED
    BY <2>3, <2>4
<1> QED
  BY <1>3, <1>4

(* from_env: every setting is what the only variable of its name means, in *)
(* any spelling, or its default; several variables of a name and what      *)
(* means nothing stop the start, and nothing else does.  Whether a parser  *)
(* reads a text as it is meant is the premise, which the run examines.     *)
THEOREM OneSource ==
  ASSUME \A w \in Worlds : ReadAsMeant(w.environment)
  PROVE  Spec => []EachSettingHasOneSource
<1>1. Init => SourceInv
  <2> SUFFICES ASSUME Init PROVE SourceInv
    OBVIOUS
  <2>1. PICK w \in Worlds : SettingsInit(w.environment)
    BY DEF Init
  <2> QED
    BY <2>1 DEF SettingsInit, SourceInv
<1>2. IInv /\ SourceInv /\ [Next]_vars => SourceInv'
  <2> SUFFICES ASSUME IInv, SourceInv, [Next]_vars, UNCHANGED settingsVars PROVE SourceInv'
    BY SourceStep DEF IInv, Next, Main, Arguments, ReadSettings, LoadSecrets, LoadSmtpConfig,
       Resolve, BindAddress, AllBound, Register, LogStartup, Stop, Signal, Take, vars
  <2>1. \A field : Lookup(field)' = Lookup(field)
    BY DEF settingsVars, Lookup, Matches
  <2> QED
    BY <2>1 DEF SourceInv, settingsVars
<1>3. IInv /\ SourceInv => EachSettingHasOneSource
  <2> SUFFICES ASSUME IInv, SourceInv PROVE EachSettingHasOneSource
    OBVIOUS
  <2>1. PICK w \in Worlds : environment = w.environment
    BY DEF SourceInv
  <2>2. PICK k \in 0..18 : DOMAIN settings = Named(k) /\ (reading = "read" => k = 18)
    BY DEF IInv, SettingsInv
  <2>3. /\ Named(k) \subseteq ToSet(Fields) /\ DOMAIN Fields = 1..18
        /\ \A n \in 1..18 : Fields[n] \in ToSet(Fields)
    BY FieldsDiffer DEF Named, Fields
  <2>4. \A field \in ToSet(Fields) : Means(field) = Lookup(field)
    BY <2>1, LookupIsMeant
  <2>5. \A field \in DOMAIN settings : Means(field) = {settings[field]}
    BY <2>2, <2>3, <2>4 DEF SourceInv
  <2>6. reading = "read" => DOMAIN settings = ToSet(Fields) /\ settings["BIND_HOST"] # <<>>
    BY <2>2, FieldsDiffer DEF SourceInv
  <2>7. reading = "refused" =>
          \E n \in DOMAIN Fields : Means(Fields[n]) \subseteq
                                     IF Fields[n] = "BIND_HOST" THEN {<<>>} ELSE {}
    BY <2>3, <2>4 DEF SourceInv
  <2> QED
    BY <2>5, <2>6, <2>7, Zenon DEF EachSettingHasOneSource
<1> QED
  BY <1>1, <1>2, <1>3, Invariance, PTL DEF Spec

================================================================================

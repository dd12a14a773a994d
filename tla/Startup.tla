-------------------------------- MODULE Startup --------------------------------
(***************************************************************************)
(* The Rust relay from its start to the point where it serves requests, or *)
(* to its exit (rust/src/main.rs): the settings (Settings), the secrets    *)
(* file (Secrets), the SMTP configuration, the listeners, the signal       *)
(* handlers and the startup record, in that order.  What happens to a      *)
(* relay that serves is the subject of Relay.                              *)
(***************************************************************************)
EXTENDS Settings, Secrets

CONSTANT
  Worlds   (* what a start can find: the environment, the file, the        *)
           (* command line (invocation: "serve", "check", "version" or     *)
           (* "other"), what SMTP_CA_FILE points at (caFile: "usable" or   *)
           (* not) and the addresses BIND_HOST resolves to (resolution)    *)

ASSUME WorldsAssumption ==
  \A w \in Worlds : /\ w.environment \in Seq(ToSet(w.environment))
                    /\ w.invocation \in {"serve", "check", "version", "other"}
                    /\ w.resolution \in Seq(ToSet(w.resolution)) \ {<<>>}
(* The events of a file end with the end of its stream, or an error. *)
ASSUME EventsAssumption ==
  \A w \in Worlds :
    /\ w.file.events \in Seq(ToSet(w.file.events))
    /\ w.file.readable => \E n \in DOMAIN w.file.events :
                            w.file.events[n].kind \in {"stream end", "invalid"}

VARIABLES
  invocation, caFile, resolution,     (* never change                      *)
  step,      (* what main does next, "serving", "stopping" or "exited"     *)
  exit,      (* the exit code; "killed" by a signal, "none" before         *)
  failed,    (* the step an error message names; of the bind loop "taken"  *)
             (* if it says that the address is in use                      *)
  tls,       (* "none", "off" or "verified": TlsParameters of the sessions *)
  bound,     (* the addresses with a listener, in order                    *)
  handled,   (* the signals with a handler                                 *)
  pending,   (* the signals delivered to it                                *)
  recorded,  (* the startup record has been written                        *)
  taken      (* the addresses other processes listen on                    *)

world   == <<invocation, caFile, resolution>>
process == <<step, exit, failed>>
sockets == <<bound, taken>>
signals == <<handled, pending>>
startup == <<world, process, tls, sockets, signals, recorded>>
vars    == <<settingsVars, secretsVars, startup>>

Signals == {"TERM", "INT"}

TypeOK ==
  /\ reading \in {"fields", "read", "refused"} /\ DOMAIN settings \subseteq ToSet(Fields)
  /\ load \in {"mode", "characters", "tokens", "events", "smtp", "policies",
               "loaded", "refused"}
  /\ position \in 0..Len(file.events) /\ Len(stack) <= MaxDepth /\ documents \in 0..1
  /\ exit \in {"none", "0", "1", "2", "killed"} /\ (exit # "none" <=> step = "exited")
  /\ tls \in {"none", "off", "verified"}
  /\ ToSet(bound) \cap taken = {}
  /\ handled \subseteq Signals /\ pending \subseteq handled
  /\ recorded \in BOOLEAN

Init ==
  /\ \E w \in Worlds :
       /\ SettingsInit(w.environment) /\ SecretsInit(w.file)
       /\ invocation = w.invocation /\ caFile = w.caFile /\ resolution = w.resolution
  /\ step = "arguments" /\ exit = "none" /\ failed = "none"
  /\ tls = "none" /\ bound = <<>> /\ recorded = FALSE
  /\ handled = {} /\ pending = {} /\ taken = {}

-------------------------------------------------------------------------------
(* The steps of main, in the order of run. *)

(* Mutant: the record announces the process before its handlers are there. *)
OrderRecordFirst == <<"arguments", "settings", "secrets", "smtp", "resolve", "bind", "record",
                      "handle TERM", "handle INT", "serving">>
Order == <<"arguments", "settings", "secrets", "smtp", "resolve", "bind",
           "handle TERM", "handle INT", "record", "serving">>

Following(s) == Order[SelectInSeq(Order, LAMBDA t : t = s) + 1]

Continue == step' = Following(step) /\ UNCHANGED <<exit, failed>>
End(code, why) == step' = "exited" /\ exit' = code /\ failed' = why

Arguments ==
  /\ step = "arguments"
  /\ CASE invocation \in {"serve", "check"} -> Continue
       [] invocation = "version"            -> End("0", "none")
       [] invocation = "other"              -> End("2", "none")
  /\ UNCHANGED <<settingsVars, secretsVars, world, tls, sockets, signals, recorded>>

ReadSettings ==
  /\ step = "settings"
  /\ UNCHANGED <<secretsVars, world, tls, sockets, signals, recorded>>
  /\ \/ SettingsNext /\ UNCHANGED process
     \/ reading = "read" /\ Continue /\ UNCHANGED settingsVars
     \/ reading = "refused" /\ End("1", step) /\ UNCHANGED settingsVars

LoadSecrets ==
  /\ step = "secrets"
  /\ UNCHANGED <<settingsVars, world, tls, sockets, signals, recorded>>
  /\ \/ SecretsNext /\ UNCHANGED process
     \/ load = "loaded" /\ Continue /\ UNCHANGED secretsVars
     \/ load = "refused" /\ End("1", step) /\ UNCHANGED secretsVars

(* SmtpConfig::load: a CA file that is configured must be usable, also     *)
(* with STARTTLS off.  Then --check-config is done.                        *)
HasCaFile == settings["SMTP_CA_FILE"] # <<>>
(* Mutant: with STARTTLS off nobody looks at the file. *)
CaFileIsUnread == HasCaFile /\ settings["SMTP_STARTTLS"] /\ caFile # "usable"
CaFileIsBad == HasCaFile /\ caFile # "usable"

LoadSmtpConfig ==
  /\ step = "smtp"
  /\ UNCHANGED <<settingsVars, secretsVars, world, sockets, signals, recorded>>
  /\ IF CaFileIsBad THEN End("1", step) /\ tls' = tls
     ELSE /\ tls' = IF settings["SMTP_STARTTLS"] THEN "verified" ELSE "off"
          /\ IF invocation = "check" THEN End("0", "none") ELSE Continue

-------------------------------------------------------------------------------
(* bind_all; an error drops the listeners bound so far *)

(* Also the start of the runtime before. *)
Resolve ==
  /\ step = "resolve"
  /\ Continue \/ End("1", step)
  /\ UNCHANGED <<settingsVars, secretsVars, world, tls, sockets, signals, recorded>>

(* The addresses without a listener yet, by their places in the            *)
(* resolution: the first comes next, and each once however often it is     *)
(* named.                                                                  *)
(* Mutant: an address as often as it is named. *)
ToBindAll == {n \in DOMAIN resolution : n > Len(bound)}
ToBind    == {n \in DOMAIN resolution : resolution[n] \notin ToSet(bound)}

(* Another process may have the address (EADDRINUSE), or the socket, its    *)
(* options, bind or listen fail for a reason of their own: no right to the  *)
(* port, an address of another host, no IPv6, no descriptor left.           *)
BindAddress ==
  LET address == resolution[Min(ToBind)] IN
  /\ step = "bind" /\ ToBind # {}
  /\ UNCHANGED <<settingsVars, secretsVars, world, tls, taken, signals, recorded>>
  /\ \/ /\ address \notin taken \cup ToSet(bound)
        /\ bound' = Append(bound, address) /\ UNCHANGED process
     \/ /\ address \in taken \cup ToSet(bound)
        /\ bound' = <<>> /\ End("1", "taken")
     \/ bound' = <<>> /\ End("1", "bind")

AllBound ==
  /\ step = "bind" /\ ToBind = {}
  /\ Continue
  /\ UNCHANGED <<settingsVars, secretsVars, world, tls, sockets, signals, recorded>>

-------------------------------------------------------------------------------
(* Shutdown::register *)
Handler == [s \in {"handle TERM", "handle INT"} |-> IF s = "handle TERM" THEN "TERM" ELSE "INT"]
Register ==
  /\ step \in DOMAIN Handler
  /\ \/ handled' = handled \cup {Handler[step]} /\ Continue /\ bound' = bound
     \/ handled' = handled /\ End("1", "signals") /\ bound' = <<>>
  /\ UNCHANGED <<settingsVars, secretsVars, world, tls, taken, pending, recorded>>

(* log_startup, at INFO or at the configured level if that is higher. *)
Info == SelectInSeq(Levels, LAMBDA l : l = "info")
RecordLevel(threshold) == IF threshold > Info THEN threshold ELSE Info

LogStartup ==
  /\ step = "record"
  /\ recorded' = (RecordLevel(settings["LOG_LEVEL"]) >= settings["LOG_LEVEL"])
  /\ Continue
  /\ UNCHANGED <<settingsVars, secretsVars, world, tls, sockets, signals>>

(* Shutdown::recv: from here on Relay. *)
Stop ==
  /\ step = "serving" /\ pending # {}
  /\ step' = "stopping"
  /\ UNCHANGED <<settingsVars, secretsVars, world, exit, failed, tls, sockets, signals, recorded>>

-------------------------------------------------------------------------------
(* The administrator and the system: a signal without a handler kills the  *)
(* process; other processes listen on what is free (while the relay binds, *)
(* it does not matter before and after).                                   *)
Signal(s) ==
  /\ step # "exited"
  /\ IF s \in handled
     THEN pending' = pending \cup {s} /\ UNCHANGED <<process, bound>>
     ELSE step' = "exited" /\ exit' = "killed" /\ failed' = failed
          /\ bound' = <<>> /\ pending' = pending
  /\ UNCHANGED <<settingsVars, secretsVars, world, tls, handled, taken, recorded>>

Take(a) ==
  /\ step = "bind"
  /\ a \notin ToSet(bound) \cup taken
  /\ taken' = taken \cup {a}
  /\ UNCHANGED <<settingsVars, secretsVars, world, process, tls, bound, signals, recorded>>

Main ==
  \/ Arguments \/ ReadSettings \/ LoadSecrets \/ LoadSmtpConfig
  \/ Resolve \/ BindAddress \/ AllBound \/ Register \/ LogStartup \/ Stop

Next ==
  \/ Main
  \/ \E s \in Signals : Signal(s)
  \/ \E a \in ToSet(resolution) : Take(a)

Spec == Init /\ [][Next]_vars

-------------------------------------------------------------------------------
(* "Handlers are in place before the startup record announces the          *)
(* process": no signal kills a relay that has written the record, and none *)
(* serves or stops without having written it, whatever the log level.      *)
RecordMeansGraceful ==
  /\ recorded => exit # "killed" /\ handled = Signals
  /\ step \in {"serving", "stopping"} => recorded

(* The relay listens on every address its host resolves to or on none,     *)
(* whichever of them fails and why; and one it has itself, which the       *)
(* resolver named twice, is never reported as in use.                      *)
ListensEverywhereOrNowhere ==
  /\ step \in {"serving", "stopping"} => ToSet(bound) = ToSet(resolution)
  /\ step = "exited" => bound = <<>>
  /\ failed = "taken" => ToSet(resolution) \cap taken # {}

(* Fail closed: what serves has a setting from one source for every field, *)
(* the policies its administrator meant, and sessions that verify the mail *)
(* server unless STARTTLS is off; with a bad configuration, and only then, *)
(* it ends with 1 before it listens, and --check-config says the same.     *)
ConfigurationIsGood ==
  /\ reading = "read" /\ load = "loaded"
  /\ HasCaFile => caFile = "usable"
  /\ settings["SMTP_STARTTLS"] => tls = "verified"
FailsClosed ==
  /\ bound # <<>> \/ step \in {"serving", "stopping"} => ConfigurationIsGood
  /\ invocation = "check" /\ exit = "0" => ConfigurationIsGood
  /\ failed = "smtp" => HasCaFile /\ caFile # "usable"

===============================================================================

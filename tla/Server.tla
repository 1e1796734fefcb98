------------------------------- MODULE Server -------------------------------
(***************************************************************************)
(* main.rs and Server::run: the configuration is loaded (module Config),   *)
(* the server's parts are set up one after the other, the listeners are    *)
(* started in the order of the configuration (module Listeners), and the   *)
(* process ends when they have all returned, or when a step of the start   *)
(* fails.  Listeners that were started earlier are serving by then.        *)
(***************************************************************************)
EXTENDS Config, Listeners

CONSTANT ConfigFiles    \* contents /etc/pingoo may have

\* Sections and directories are lists, of entries that nothing is assumed
\* of; Listeners has the names of the listeners.
ASSUME ServerAssumption ==
    \A f \in ConfigFiles :
        /\ \A s \in {f.listeners, f.services, f.rules, f.folder.entries} : s \in Seq(ToSet(s))
        /\ \A i \in DOMAIN f.listeners :
            /\ f.listeners[i].name \in Listeners
            /\ \A names \in f.listeners[i].services : names \in Seq(ToSet(names))
        /\ f.folder.readable \in 0..Len(f.folder.entries)
        /\ \A i \in DOMAIN f.folder.entries :
            f.folder.entries[i].rules \in Seq(ToSet(f.folder.entries[i].rules))

VARIABLES
    file,          \* what is in /etc/pingoo
    host,          \* what the process meets there: the 29th of February, no resolver
    phase,         \* of the start: running once every listener is started; failed and panicked end the process
    config_file,   \* the ConfigFile, once the YAML is read
    conf,          \* the configuration, once it is validated
    started        \* listeners started so far

serverVars == <<listenVars, file, host, phase, config_file, conf, started>>

NoConfig == [listeners |-> <<>>, services |-> <<>>, rules |-> <<>>, domains |-> <<>>, command |-> {}]

NoConfigFile ==
    [listeners |-> <<>>, services |-> <<>>, rules |-> <<>>, domains |-> <<>>, command |-> {},
     folder |-> [opens |-> FALSE, readable |-> 0, entries |-> <<>>]]

ServerInit ==
    /\ ListenInit
    /\ file \in ConfigFiles /\ host \in SUBSET {"leap day", "no resolver"}
    /\ phase = "config" /\ config_file = NoConfigFile /\ conf = NoConfig /\ started = 0

\* main() or Server::run returns an error, or panics: the runtime drops its tasks.
StartEnds(how) ==
    /\ phase' = how
    /\ ProcessEnds
    /\ UNCHANGED <<file, host, config_file, conf, started>>

\* load_and_validate reads the YAML,
Deserialize ==
    /\ phase = "config" /\ phase' = "parsed"
    /\ config_file' = Deserialized(file)
    /\ UNCHANGED <<listenVars, file, host, conf, started>>

\* and validates what it says.
load_and_validate ==
    /\ phase = "parsed"
    /\ \/ /\ Accepts(config_file) /\ conf' = Loaded(config_file) /\ phase' = "child"
          /\ UNCHANGED <<listenVars, file, host, config_file, started>>
       \/ ~ Accepts(config_file) /\ StartEnds("failed")

\* Command::new(&command[0]): an empty command is out of bounds.
StartChildProcess ==
    /\ phase = "child"
    /\ \/ conf.command = {0} /\ StartEnds("panicked")
       \/ conf.command # {0} /\ phase' = "registry" /\ UNCHANGED <<listenVars, file, host, config_file, conf, started>>

NextPhase ==
    [registry |-> "geoip", geoip |-> "captcha", captcha |-> "lists", lists |-> "tls", tls |-> "binding"]

\* The DNS resolver cannot be built from /etc/resolv.conf; the default
\* certificate is to be generated, valid until the same day of next year, and
\* there is no such day.
TripsOver ==
    \/ phase = "registry" /\ "no resolver" \in host
    \/ phase = "tls" /\ "leap day" \in host /\ ~ file.default_pem

\* ServiceRegistry::new, GeoipDB::load, CaptchaManager::new, load_lists, TlsManager::new.
SetUp ==
    /\ phase \in DOMAIN NextPhase /\ ~ TripsOver
    /\ phase' = NextPhase[phase]
    /\ UNCHANGED <<listenVars, file, host, config_file, conf, started>>

SetUpPanics == TripsOver /\ StartEnds("panicked")

\* The file cannot be read, the child not be spawned, a part not be set up.
SetUpFails ==
    /\ phase \in {"config", "parsed", "child"} \cup DOMAIN NextPhase
    /\ phase = "child" => conf.command \notin {{}, {0}}
    /\ StartEnds("failed")

\* tcp_services or http_services has a service for every name of the listener.
HasServices(l) ==
    \A name \in ToSet(l.services) : \E i \in DOMAIN conf.services :
        /\ conf.services[i].name = name
        /\ IF l.protocol \in Http THEN IsHttp(conf.services[i]) ELSE IsTcp(conf.services[i])

\* The next listener: its services, its socket, its task.
StartListener ==
    /\ phase = "binding" /\ started < Len(conf.listeners)
    /\ LET l == conf.listeners[started + 1] IN
        \/ ~ HasServices(l) /\ StartEnds("panicked")
        \/ HasServices(l) /\ StartEnds("failed")
        \/ /\ HasServices(l) /\ Bind(l.name, l.protocol)
           /\ started' = started + 1
           /\ UNCHANGED <<file, host, phase, config_file, conf>>

\* join_all() begins to wait.
Started ==
    /\ phase = "binding" /\ started = Len(conf.listeners)
    /\ phase' = "running"
    /\ UNCHANGED <<listenVars, file, host, config_file, conf, started>>

Exit ==
    /\ phase = "running" /\ ~ exited /\ AllReturned
    /\ ProcessEnds
    /\ UNCHANGED <<file, host, phase, config_file, conf, started>>

Start ==
    \/ SetUpFails \/ SetUpPanics \/ SetUp
    \/ Deserialize \/ load_and_validate \/ StartChildProcess \/ StartListener \/ Started

\* The listeners serve as soon as they are started; starting them takes no time.
ListenersStep ==
    /\ \/ \E c \in Connections : ConnectionStep(c)
       \/ \E l \in Listeners : ListenerStep(l)
       \/ phase \notin {"config", "parsed"} /\ (Descriptors \/ shutdown_signal)
       \/ phase = "running" /\ Tick
    /\ UNCHANGED <<file, host, phase, config_file, conf, started>>

ServerNext == Start \/ Exit \/ ListenersStep

\* What Listeners assumes; the start goes on, file system calls return.
ServerSpec ==
    /\ ServerInit /\ [][ServerNext]_serverVars
    /\ ListenFairness /\ WF_listenVars(phase = "running" /\ Tick)
    /\ WF_serverVars(Start) /\ WF_serverVars(Exit)

-----------------------------------------------------------------------------
(* Properties *)

\* Every variable has its type, and the listeners started are the first ones configured.
ServerTypeOK ==
    /\ ListenTypeOK
    /\ file \in ConfigFiles /\ DOMAIN config_file = DOMAIN NoConfigFile /\ DOMAIN conf = DOMAIN NoConfig
    /\ host \in SUBSET {"leap day", "no resolver"}
    /\ phase \in {"config", "parsed", "child", "binding", "running", "failed", "panicked"} \cup DOMAIN NextPhase
    /\ {l \in Listeners : loop[l] # "unbound"} = {conf.listeners[i].name : i \in 1..started}

\* A service of the file that a listener of this protocol can use.
Usable(service, proto) == service.tcp_proxy = {} <=> proto \in Http

\* A listener of the file names a service of the other kind.
Mismatch ==
    \E i \in DOMAIN file.listeners, j \in DOMAIN file.services :
        /\ \E names \in file.listeners[i].services : file.services[j].name \in ToSet(names)
        /\ ~ Usable(file.services[j], ProtocolOf(file.listeners[i].address))

\* A configuration that was accepted never makes the start panic on an index,
\* an unwrap() or an expect() (server.rs:89-124, main.rs:63), but for two
\* mistakes that load_and_validate does not look for, a listener that names a
\* service of the other kind and a child process with an empty command; for a
\* host without a resolver (dns.rs:33); and for the day the default
\* certificate is generated on (certificate.rs:151).
PanicsAreKnown ==
    phase = "panicked" =>
        \/ Mismatch \/ file.command = {0}
        \/ "no resolver" \in host
        \/ "leap day" \in host /\ ~ file.default_pem

\* The entries of a section that count: of a repeated name, the last one.
InEffect(s) == {s[i] : i \in Lasts(s)}

\* Those of the rules an administrator wrote that Pingoo can know of: what is
\* behind an error of the listing is not among them.
RulesRead ==
    InEffect(file.rules) \cup
        UNION {InEffect(file.folder.entries[i].rules) :
                    i \in {n \in 1..file.folder.readable : file.folder.entries[n].yml}}

\* Once Pingoo runs, every listener of the file is up with the protocol of its
\* address, on a port of its own and with at least one service; and the rules
\* in force are those that were read, each once: none is hidden by one of its
\* name in another file (config.rs:213, 219, 351), and only a repetition in the
\* same file (config_file.rs:22) or an error of the listing (config.rs:410)
\* loses one.  docs/rules.md:12 knows of neither exception: "all the `.yml` files".
RunsAsConfigured ==
    phase = "running" =>
        /\ \A l \in InEffect(file.listeners) :
            /\ loop[l.name] # "unbound" /\ protocol[l.name] = ProtocolOf(l.address)
            /\ \E i \in DOMAIN conf.listeners, service \in InEffect(file.services) :
                /\ conf.listeners[i].name = l.name
                /\ service.name \in ToSet(conf.listeners[i].services)
                /\ Usable(service, protocol[l.name])
        /\ \A i, j \in DOMAIN conf.listeners :
            conf.listeners[i].port = conf.listeners[j].port => i = j
        /\ ToSet(conf.rules) = RulesRead /\ Len(conf.rules) = Cardinality(RulesRead)

\* A connection that its listener waits for is cut only after the listener
\* waited the whole timeout, however the listeners' ends interleave
\* (http_listener.rs:112, https_listener.rs:118), or because the start of a
\* later listener failed (server.rs:143).  Proxied TCP connections are not
\* waited for: InFlightConnectionsGetTheTimeout.
NoEarlyCut ==
    \A c \in Connections :
        conn[c] = "cut" =>
            phase \in {"failed", "panicked"} \/ waited[ListenerOf[c]] = ShutdownTimeout

\* "Wait up to 20 seconds for in-flight connections / request to finish"
\* (docs/listeners.md:30): once Pingoo runs, no connection in flight is ended
\* before its listener has waited the timeout.
InFlightConnectionsGetTheTimeout ==
    \A c \in Connections :
        phase = "running" /\ conn[c] \in {"cut", "severed"} => waited[ListenerOf[c]] = ShutdownTimeout
=============================================================================

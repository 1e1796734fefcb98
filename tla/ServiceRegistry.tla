--------------------------- MODULE ServiceRegistry ---------------------------
(***************************************************************************)
(* The service registry and its two discoverers:                           *)
(*   pingoo/service_discovery/service_registry.rs, dns.rs, docker.rs and   *)
(*   the Docker client of docker/src/client.rs.                            *)
(*                                                                         *)
(* One background task repeats rounds of discovery (Tick to EndRound); the *)
(* proxies read the table at any time.  A round awaits DNS answers and the *)
(* Docker daemon, and writes the table one key at a time, so readers and   *)
(* the environment interleave with every step of it.                       *)
(*                                                                         *)
(* The DashMap upstreams is a set of keys and a function that is {} off    *)
(* the keys: what get_upstreams returns is upstreams[s] in both cases.  A  *)
(* Vec of upstreams is a set: neither the diff nor a random choice depends *)
(* on order.                                                               *)
(***************************************************************************)
EXTENDS Naturals

CONSTANTS
    Services,      \* service names: configured ones and others a label may name
    Configured,    \* services of the configuration
    Addresses,     \* socket addresses
    Loopback6,     \* [::1], and
    Loopback4,     \* 127.0.0.1
    StaticOf,      \* addresses the configuration gives each service
    Hosts,         \* host names the configuration gives as upstreams
    HostService,   \* the service of each host
    Containers,    \* Docker containers with a pingoo.service label
    LabelOf,       \* the service a container's label names
    AddressOf,     \* bridge address and port of a container
    Invalid,       \* containers without a usable port or bridge address
    MaxChanges,    \* bound: changes of DNS answers and containers, refused requests
    MaxRestarts    \* bound: restarts of the Docker daemon

ASSUME RegistryAssumption ==
    /\ Configured \subseteq Services
    /\ Loopback4 \in Addresses
    /\ StaticOf \in [Services -> SUBSET Addresses]
    /\ \A s \in Services \ Configured : StaticOf[s] = {}
    /\ HostService \in [Hosts -> Configured]
    /\ LabelOf \in [Containers -> Services]
    /\ AddressOf \in [Containers -> Addresses]
    /\ MaxChanges \in Nat /\ MaxRestarts \in Nat

VARIABLES
    keys, upstreams,       \* the shared table
    phase,                 \* where the discovery task is
    hostsTodo,             \* DNS lookups of this round still to come
    dockerStep,            \* the Docker half of this round
    foundKeys, found,      \* new_upstreams
    updated, deleted,      \* UpstreamDiff, as far as not yet applied
    conn,                  \* the Docker client's socket
    daemon, listed,        \* is the daemon up, which containers run
    answer,                \* what lookup_ip returns now; {} for an error
    changes, restarts,     \* environment changes so far
    missing, before        \* absent keys and entries when the round began (not in the code)

table == <<keys, upstreams>>
round == <<phase, hostsTodo, dockerStep, foundKeys, found, updated, deleted, missing, before>>
world == <<daemon, listed, answer, changes, restarts>>
registryVars == <<table, round, conn, world>>

-----------------------------------------------------------------------------
(* Upstreams *)

Upstream == [hostname : Addresses \cup Hosts \cup Containers, address : Addresses]

\* An address of the configuration is its own host name.
get_static_upstreams(s) == {[hostname |-> a, address |-> a] : a \in StaticOf[s]}

\* dns.rs 58-86: the IPv6 loopback becomes the IPv4 one, then duplicates go.
ToSocketAddress(ip) == IF ip = Loopback6 THEN Loopback4 ELSE ip

\* Mutant: the upstream is named after the service.
HostUpstreamsOfService(h) ==
    {[hostname |-> HostService[h], address |-> ToSocketAddress(ip)] : ip \in answer[h]}

HostUpstreams(h) == {[hostname |-> h, address |-> ToSocketAddress(ip)] : ip \in answer[h]}

\* docker.rs 71-156: containers without a usable port or address are skipped.
ContainerUpstreams(s) ==
    {[hostname |-> c, address |-> AddressOf[c]] : c \in {d \in listed \ Invalid : LabelOf[d] = s}}

-----------------------------------------------------------------------------
\* ServiceRegistry::new, before the first tick.  Docker discovery is disabled
\* if the socket does not exist at start (docker.rs 27-37).
RegistryInit ==
    /\ keys = Configured
    /\ upstreams = [s \in Services |-> get_static_upstreams(s)]
    /\ phase = "idle"
    /\ hostsTodo = {}
    /\ dockerStep = "done"
    /\ foundKeys = Configured
    /\ found = [s \in Services |-> get_static_upstreams(s)]
    /\ updated = {}
    /\ deleted = {}
    /\ conn \in {"none", "disabled"}
    /\ daemon = TRUE
    /\ listed \in SUBSET Containers
    /\ answer \in [Hosts -> SUBSET Addresses]
    /\ changes = 0
    /\ restarts = 0
    /\ missing = {}
    /\ before = upstreams

\* The ticker fires: new_upstreams starts from the static ones (lines 91-109).
StartRound ==
    /\ phase = "idle"
    /\ phase' = "discovering"
    /\ hostsTodo' = Hosts
    /\ dockerStep' = IF conn = "disabled" THEN "done" ELSE "connect"
    /\ foundKeys' = Configured
    /\ found' = [s \in Services |-> get_static_upstreams(s)]
    /\ missing' = Services \ keys
    /\ before' = upstreams
    /\ UNCHANGED <<table, updated, deleted, conn, world>>

\* One awaited lookup.  Its result is merged right away: found is not read
\* before both discoverers are done.
LookupHost(h) ==
    /\ phase = "discovering"
    /\ h \in hostsTodo
    /\ hostsTodo' = hostsTodo \ {h}
    /\ found' = [found EXCEPT ![HostService[h]] = @ \cup HostUpstreams(h)]
    /\ UNCHANGED <<table, phase, dockerStep, foundKeys, updated, deleted, missing, before, conn, world>>

\* client.rs 74-76 and connect: only a client that never connected connects.
DockerConnect ==
    /\ phase = "discovering"
    /\ dockerStep = "connect"
    /\ \/ conn # "none" /\ dockerStep' = "request" /\ UNCHANGED conn
       \/ conn = "none" /\ daemon /\ dockerStep' = "request" /\ conn' = "open"
       \/ conn = "none" /\ ~daemon /\ dockerStep' = "done" /\ UNCHANGED conn
    /\ UNCHANGED <<table, phase, hostsTodo, foundKeys, found, updated, deleted, missing, before, world>>

\* client.rs 109-144 and docker.rs 71-158: the containers are merged; on a dead
\* connection the request fails and this round has no containers.
DockerRequest ==
    /\ phase = "discovering"
    /\ dockerStep = "request"
    /\ dockerStep' = "done"
    /\ \/ /\ conn = "open"
          /\ found' = [s \in Services |-> found[s] \cup ContainerUpstreams(s)]
          /\ foundKeys' = foundKeys \cup {s \in Services : ContainerUpstreams(s) # {}}
       \/ /\ conn = "dead"
          /\ UNCHANGED <<found, foundKeys>>
    /\ UNCHANGED <<table, phase, hostsTodo, updated, deleted, missing, before, conn, world>>

\* client.rs 121-142: a status other than 200, an unreadable or malformed body.
DockerRefuses ==
    /\ phase = "discovering"
    /\ dockerStep = "request"
    /\ conn = "open"
    /\ changes < MaxChanges
    /\ changes' = changes + 1
    /\ dockerStep' = "done"
    /\ UNCHANGED <<table, phase, hostsTodo, foundKeys, found, updated, deleted, missing, before,
                   conn, daemon, listed, answer, restarts>>

\* Mutant: an upstream that is gone does not count.
DeletedOnlyUnknown == keys \ foundKeys

\* Mutant: every changed service.
DeletedChanged == {s \in keys \cap foundKeys : upstreams[s] # found[s]} \cup (keys \ foundKeys)

\* Services with an upstream that is gone, and services that are gone.
DeletedServices ==
    {s \in keys \cap foundKeys : \E u \in upstreams[s] : u \notin found[s]} \cup (keys \ foundKeys)

\* Mutant: new services do not count.
UpdatedOnlyKnown == {s \in keys \cap foundKeys : \E u \in found[s] : u \notin upstreams[s]}

\* Services with a new upstream, and new services.
UpdatedServices ==
    {s \in keys \cap foundKeys : \E u \in found[s] : u \notin upstreams[s]} \cup (foundKeys \ keys)

\* join_all has returned; nobody else writes the table during the diff.
DiffUpstreams ==
    /\ phase = "discovering"
    /\ hostsTodo = {} /\ dockerStep = "done"
    /\ phase' = "updating"
    /\ updated' = UpdatedServices
    /\ deleted' = DeletedServices
    /\ UNCHANGED <<table, hostsTodo, dockerStep, foundKeys, found, missing, before, conn, world>>

\* Lines 131-136, one key at a time.
UpdateService(s) ==
    /\ phase = "updating"
    /\ s \in updated
    /\ updated' = updated \ {s}
    /\ keys' = keys \cup {s}
    /\ upstreams' = [upstreams EXCEPT ![s] = found[s]]
    /\ UNCHANGED <<phase, hostsTodo, dockerStep, foundKeys, found, deleted, missing, before, conn, world>>

\* Lines 138-141, one key at a time, after all the updates.
DeleteService(s) ==
    /\ phase = "updating"
    /\ updated = {}
    /\ s \in deleted
    /\ deleted' = deleted \ {s}
    /\ keys' = keys \ {s}
    /\ upstreams' = [upstreams EXCEPT ![s] = {}]
    /\ UNCHANGED <<phase, hostsTodo, dockerStep, foundKeys, found, updated, missing, before, conn, world>>

EndRound ==
    /\ phase = "updating"
    /\ updated = {} /\ deleted = {}
    /\ phase' = "idle"
    /\ UNCHANGED <<table, hostsTodo, dockerStep, foundKeys, found, updated, deleted, missing, before, conn, world>>

Discover ==
    \/ StartRound
    \/ \E h \in Hosts : LookupHost(h)
    \/ DockerConnect
    \/ DockerRequest
    \/ DiffUpstreams
    \/ \E s \in Services : UpdateService(s) \/ DeleteService(s)
    \/ EndRound

-----------------------------------------------------------------------------
(* The environment: DNS, the Docker daemon and its containers. *)

\* The resolver's answer changes, or it starts or stops to fail.
AnswerChanges(h) ==
    /\ changes < MaxChanges
    /\ \E ips \in SUBSET Addresses \ {answer[h]} : answer' = [answer EXCEPT ![h] = ips]
    /\ changes' = changes + 1
    /\ UNCHANGED <<table, round, conn, daemon, listed, restarts>>

\* A container starts or stops.
ContainerChanges(c) ==
    /\ changes < MaxChanges
    /\ daemon
    /\ listed' = IF c \in listed THEN listed \ {c} ELSE listed \cup {c}
    /\ changes' = changes + 1
    /\ UNCHANGED <<table, round, conn, daemon, answer, restarts>>

\* The daemon goes down, which ends its connections, and comes back.
DaemonStops ==
    /\ daemon
    /\ restarts < MaxRestarts
    /\ daemon' = FALSE
    /\ restarts' = restarts + 1
    /\ conn' = IF conn = "open" THEN "dead" ELSE conn
    /\ UNCHANGED <<table, round, listed, answer, changes>>

DaemonStarts ==
    /\ ~daemon
    /\ daemon' = TRUE
    /\ UNCHANGED <<table, round, conn, listed, answer, changes, restarts>>

Environment ==
    \/ \E h \in Hosts : AnswerChanges(h)
    \/ \E c \in Containers : ContainerChanges(c)
    \/ DockerRefuses
    \/ DaemonStops
    \/ DaemonStarts

RegistryNext == Discover \/ Environment

RegistrySpec == RegistryInit /\ [][RegistryNext]_registryVars

\* The ticker keeps firing and every awaited answer comes (the resolver and
\* the daemon have their own timeouts); a stopped daemon is started again.
FairRegistrySpec ==
    RegistrySpec /\ WF_registryVars(Discover) /\ WF_registryVars(DaemonStarts)

-----------------------------------------------------------------------------
(* Properties *)

\* Every variable has its type; upstreams carry a host or container name.
RegistryTypeOK ==
    /\ keys \subseteq Services /\ upstreams \in [Services -> SUBSET Upstream]
    /\ phase \in {"idle", "discovering", "updating"}
    /\ hostsTodo \subseteq Hosts
    /\ dockerStep \in {"connect", "request", "done"}
    /\ foundKeys \subseteq Services /\ found \in [Services -> SUBSET Upstream]
    /\ updated \subseteq Services /\ deleted \subseteq Services
    /\ conn \in {"none", "open", "dead", "disabled"}
    /\ daemon \in BOOLEAN /\ listed \subseteq Containers
    /\ answer \in [Hosts -> SUBSET Addresses]
    /\ changes \in 0..MaxChanges /\ restarts \in 0..MaxRestarts
    /\ missing \subseteq Services /\ before \in [Services -> SUBSET Upstream]

\* Between two rounds every entry of the table is exactly what the last round
\* found for its service: nothing stale survives diff_upstreams and the two
\* loops of lines 131-141, and nothing found is left out of an entry.
TableMatchesRound ==
    phase = "idle" => \A s \in keys : s \in foundKeys /\ upstreams[s] = found[s]

\* A service that a round finds but leaves without an entry gets one in the
\* next round that finds it: the gap lines 138-141 open lasts one round.  That
\* there is one at all is not what the comment at line 50 says of deleted,
\* "services that no longer have upstreams": losing one of several is enough.
GapLastsOneRound ==
    phase = "idle" => missing \cap foundKeys \subseteq keys

\* The entry of a service goes from serving to empty only if an upstream it
\* listed is no longer found: discovering additional upstreams, or the same
\* ones again, never interrupts a service.  The loss of one upstream does, even
\* if others are left, contrary to the comment at service_registry.rs:50.
NoGapWithoutLoss ==
    [][\A s \in Services :
        (upstreams[s] # {} /\ upstreams'[s] = {}) => ~(before[s] \subseteq found[s])]_registryVars

\* Discovery follows the world: once answers, containers and daemon stay the
\* same (and the connection to the daemon was never lost), the table becomes
\* and stays exactly the static, DNS and container upstreams of each service.
Actual(s) ==
    get_static_upstreams(s)
        \cup UNION {HostUpstreams(h) : h \in {g \in Hosts : HostService[g] = s}}
        \cup (IF conn = "disabled" THEN {} ELSE ContainerUpstreams(s))

TableConverges ==
    <>[](conn = "dead" \/ \A s \in Services : upstreams[s] = Actual(s))

\* What the documentation of Docker discovery says: a labelled container that
\* keeps running while the daemon is up is discovered.
ContainersAreDiscovered ==
    \A c \in Containers \ Invalid :
        <>[](c \in listed /\ daemon /\ conn # "disabled")
            => []<>(\E u \in upstreams[LabelOf[c]] : u.hostname = c)
=============================================================================

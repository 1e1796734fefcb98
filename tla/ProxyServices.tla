---------------------------- MODULE ProxyServices ----------------------------
(***************************************************************************)
(* The two proxy services on top of the registry:                          *)
(*   pingoo/services/http_proxy_service.rs, handle_http_request, and       *)
(*   pingoo/services/tcp_proxy_service.rs, serve_connection with retry.    *)
(*                                                                         *)
(* A session is one HTTP request or one accepted TCP connection.  Both     *)
(* take a snapshot of their service's upstreams and choose one at random;  *)
(* the HTTP proxy tries once, the TCP proxy up to Retries times with a     *)
(* pause between attempts, reading the registry again for each.            *)
(*                                                                         *)
(* An HTTP request to an upstream given with https goes to the upstream's  *)
(* host name, which the HTTP client looks up by itself, and not to the     *)
(* address the registry has for it (http_proxy_service.rs 122-128).        *)
(***************************************************************************)
EXTENDS ServiceRegistry

CONSTANTS
    HttpSessions, TcpSessions,
    ServiceOf,     \* the service a session is routed to
    TlsNames,      \* host names and addresses the configuration gives with https
    Retries        \* attempts of retry(), 3 in tcp_proxy_service.rs

Sessions == HttpSessions \cup TcpSessions

ASSUME ProxyAssumption ==
    /\ ServiceOf \in [Sessions -> Services]
    /\ HttpSessions \cap TcpSessions = {}
    /\ TlsNames \subseteq Addresses \cup Hosts
    /\ Retries \in Nat \ {0}

VARIABLES
    state,         \* "new", "connecting", "awaiting", "sleeping", "forwarded" or "failed"
    target,        \* where the current attempt goes
    attempt        \* attempts so far

sessionVars == <<state, target, attempt>>
proxyVars == <<registryVars, sessionVars>>

NoTarget == [hostname |-> "none", address |-> Loopback4]

\* The address of a destination the HTTP client resolves itself.
ByName == "own lookup"

ProxyInit ==
    /\ RegistryInit
    /\ state = [r \in Sessions |-> "new"]
    /\ target = [r \in Sessions |-> NoTarget]
    /\ attempt = [r \in Sessions |-> 0]

get_upstreams(s) == upstreams[s]

\* The uri of an HTTP request, or the argument of TcpStream::connect.
Destination(r, u) ==
    IF r \in HttpSessions /\ u.hostname \in TlsNames
    THEN [hostname |-> u.hostname, address |-> ByName]
    ELSE u

\* The state of a session after a failed attempt: only retry() goes on.
AfterFailure(r, n) == IF r \in TcpSessions /\ n < Retries THEN "sleeping" ELSE "failed"

\* An attempt finds no upstream: 502 for HTTP, an error for retry().
NoUpstream(r) ==
    /\ state[r] \in {"new", "sleeping"}
    /\ get_upstreams(ServiceOf[r]) = {}
    /\ attempt' = [attempt EXCEPT ![r] = @ + 1]
    /\ state' = [state EXCEPT ![r] = AfterFailure(r, attempt'[r])]
    /\ UNCHANGED <<registryVars, target>>

\* Mutant: a retry goes to the upstream of the first attempt.
ChooseOnce(r) ==
    /\ state[r] \in {"new", "sleeping"}
    /\ \E u \in get_upstreams(ServiceOf[r]) :
        target' = IF target[r] = NoTarget THEN [target EXCEPT ![r] = Destination(r, u)] ELSE target
    /\ attempt' = [attempt EXCEPT ![r] = @ + 1]
    /\ state' = [state EXCEPT ![r] = "connecting"]
    /\ UNCHANGED registryVars

\* Mutant: the attempt is not counted.
ChooseUncounted(r) ==
    /\ state[r] \in {"new", "sleeping"}
    /\ \E u \in get_upstreams(ServiceOf[r]) : target' = [target EXCEPT ![r] = Destination(r, u)]
    /\ state' = [state EXCEPT ![r] = "connecting"]
    /\ UNCHANGED <<registryVars, attempt>>

\* An attempt chooses one of the upstreams and connects or sends to it.
Choose(r) ==
    /\ state[r] \in {"new", "sleeping"}
    /\ \E u \in get_upstreams(ServiceOf[r]) : target' = [target EXCEPT ![r] = Destination(r, u)]
    /\ attempt' = [attempt EXCEPT ![r] = @ + 1]
    /\ state' = [state EXCEPT ![r] = "connecting"]
    /\ UNCHANGED registryVars

\* The connection is there, new or from the client's pool: a copying task takes
\* over, or the request is sent (after a TLS handshake, if need be).
Connected(r) ==
    /\ state[r] = "connecting"
    /\ state' = [state EXCEPT ![r] = IF r \in TcpSessions THEN "forwarded" ELSE "awaiting"]
    /\ UNCHANGED <<registryVars, target, attempt>>

\* The upstream refuses, or the three seconds (four for HTTP) to connect are over.
ConnectFails(r) ==
    /\ state[r] = "connecting"
    /\ state' = [state EXCEPT ![r] = AfterFailure(r, attempt[r])]
    /\ UNCHANGED <<registryVars, target, attempt>>

\* Line 192: the response comes, or the connection ends without one: 502.
UpstreamAnswers(r) ==
    /\ state[r] = "awaiting"
    /\ \E end \in {"forwarded", "failed"} : state' = [state EXCEPT ![r] = end]
    /\ UNCHANGED <<registryVars, target, attempt>>

\* What goes on without the upstream's doing.
Proceed(r) == NoUpstream(r) \/ Choose(r) \/ Connected(r) \/ ConnectFails(r)

ProxyNext ==
    \/ RegistryNext /\ UNCHANGED sessionVars
    \/ \E r \in Sessions : Proceed(r) \/ UpstreamAnswers(r)

\* Discovery goes on as in FairRegistrySpec.  Connecting ends, by success, an
\* error or the timeout; a pause is over after 5 ms.  Nothing makes an upstream
\* answer a request it has accepted: the code sets no timeout there.
ProxySpec ==
    /\ ProxyInit
    /\ [][ProxyNext]_proxyVars
    /\ WF_registryVars(Discover) /\ WF_registryVars(DaemonStarts)
    /\ \A r \in Sessions : WF_proxyVars(Proceed(r))

-----------------------------------------------------------------------------
(* Properties *)

\* An attempt started between two rounds of discovery goes where the last round
\* says: a retry reads the registry again (line 39) and does not go back to an
\* upstream that has been withdrawn since its first attempt.  Of an upstream
\* given with https only the name is the registry's: the request goes to
\* whatever the HTTP client finds under that name.
AttemptsFollowTheTable ==
    [][\A r \in Sessions :
        (attempt'[r] # attempt[r] /\ state'[r] = "connecting" /\ phase = "idle")
            => \E u \in found[ServiceOf[r]] :
                /\ target'[r].hostname = u.hostname
                /\ \/ target'[r].address = u.address
                   \/ r \in HttpSessions /\ u.hostname \in TlsNames]_proxyVars

\* Whatever discovery does, a TCP connection ends up copied or closed, and an
\* HTTP request is refused or reaches an upstream that accepts the connection:
\* retries and timeouts come to an end.  How long the response takes is then up
\* to the upstream.
SessionsEnd ==
    /\ \A r \in TcpSessions : <>(state[r] \in {"forwarded", "failed"})
    /\ \A r \in HttpSessions : <>(state[r] \in {"awaiting", "forwarded", "failed"})
=============================================================================

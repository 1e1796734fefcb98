----------------------------- MODULE Listeners -----------------------------
(***************************************************************************)
(* The listeners of pingoo/listeners: accepting connections, the TLS       *)
(* handshake with its timeouts, and the graceful shutdown that main.rs     *)
(* starts on Ctrl+C or SIGTERM.  Module Server starts them and waits for   *)
(* their end.                                                              *)
(*                                                                         *)
(* What a connection carries is the business of HttpListener and           *)
(* ProxyServices; here it is queued in the kernel, handshaking, in flight  *)
(* or over.  Time passes in ticks; whatever is ready happens before the    *)
(* next tick.                                                              *)
(***************************************************************************)
EXTENDS Naturals, FiniteSets

CONSTANTS
    Listeners,
    Connections,
    ListenerOf,         \* the listener a connection is made to
    ShutdownTimeout,    \* GRACEFUL_SHUTDOWN_TIMEOUT, in ticks
    HandshakeTimeout    \* TLS_HANDSHAKE_TIMEOUT, in ticks

ASSUME ListenersAssumption ==
    /\ IsFiniteSet(Connections)
    /\ ListenerOf \in [Connections -> Listeners]
    /\ ShutdownTimeout \in Nat /\ HandshakeTimeout \in Nat

VARIABLES
    protocol,   \* per listener: http, https, tcp, tcp+tls; none while it is not started
    loop,       \* per listener: unbound, accepting, handshake, draining, returned
    waited,     \* per listener: ticks spent draining
    conn,       \* per connection: its state
    age,        \* per connection: ticks spent in this phase of the handshake
    full,       \* the process has no file descriptor left
    shutdown,   \* the shutdown signal was sent
    exited,     \* the process is gone
    elapsed     \* history: ticks from the signal to the exit

listenVars == <<protocol, loop, waited, conn, age, full, shutdown, exited, elapsed>>

\* States of a connection.  detached: copied by a task of its own, which nobody
\* waits for; severed: such a connection, when the process ended.
Handshaking == {"hello", "config", "acme"}
InFlight == {"serving", "detached"}
ConnStates == {"none", "queued", "closed", "cut", "severed", "reset"} \cup Handshaking \cup InFlight

Http == {"http", "https"}

KindOf(c) == protocol[ListenerOf[c]]

ListenInit ==
    /\ protocol = [l \in Listeners |-> "none"]
    /\ loop = [l \in Listeners |-> "unbound"]
    /\ waited = [l \in Listeners |-> 0]
    /\ conn = [c \in Connections |-> "none"]
    /\ age = [c \in Connections |-> 0]
    /\ full = FALSE /\ shutdown = FALSE /\ exited = FALSE /\ elapsed = 0

Become(c, state) == conn' = [conn EXCEPT ![c] = state] /\ age' = [age EXCEPT ![c] = 0]

\* The HTTPS listener handshakes inside its accept loop (the spawned task only
\* starts after it): the loop is held until the handshake is over.
HoldsLoop(c) == KindOf(c) = "https"

Resume(c) ==
    loop' = IF HoldsLoop(c) THEN [loop EXCEPT ![ListenerOf[c]] = "accepting"] ELSE loop

-----------------------------------------------------------------------------
(* Accepting *)

\* bind(), and listen() in a task of its own.
Bind(l, p) ==
    /\ loop[l] = "unbound"
    /\ protocol' = [protocol EXCEPT ![l] = p]
    /\ loop' = [loop EXCEPT ![l] = "accepting"]
    /\ UNCHANGED <<waited, conn, age, full, shutdown, exited, elapsed>>

\* A client connects: the socket stays open, and its backlog fills, until listen() returns.
Connect(c) ==
    /\ ~ exited /\ conn[c] = "none" /\ loop[ListenerOf[c]] \notin {"unbound", "returned"}
    /\ Become(c, "queued")
    /\ UNCHANGED <<protocol, loop, waited, full, shutdown, exited, elapsed>>

\* Clients, upstreams and files take descriptors, and give them back.
Descriptors ==
    /\ ~ exited /\ full' = ~ full
    /\ UNCHANGED <<protocol, loop, waited, conn, age, shutdown, exited, elapsed>>

\* Without a descriptor for it accept() fails and the client stays in the
\* backlog; the loop calls accept() again at once.
CanAccept(c) == conn[c] = "queued" /\ loop[ListenerOf[c]] = "accepting" /\ ~ full

Accepted(c, p, state) ==
    /\ CanAccept(c) /\ KindOf(c) = p
    /\ Become(c, state)
    /\ UNCHANGED <<protocol, waited, full, shutdown, exited, elapsed>>

AcceptHttp(c) == Accepted(c, "http", "serving") /\ UNCHANGED loop

AcceptHttps(c) ==
    /\ Accepted(c, "https", "hello")
    /\ loop' = [loop EXCEPT ![ListenerOf[c]] = "handshake"]

AcceptTcp(c) == Accepted(c, "tcp", "serving") /\ UNCHANGED loop

AcceptTcpAndTls(c) == Accepted(c, "tcp+tls", "hello") /\ UNCHANGED loop

Accept(c) == AcceptHttp(c) \/ AcceptHttps(c) \/ AcceptTcp(c) \/ AcceptTcpAndTls(c)

\* Mutant: the loop ends.
AcceptFailsForGood(c) ==
    /\ conn[c] = "queued" /\ loop[ListenerOf[c]] = "accepting"
    /\ Become(c, "closed")
    /\ loop' = [loop EXCEPT ![ListenerOf[c]] = "draining"]
    /\ UNCHANGED <<protocol, waited, full, shutdown, exited, elapsed>>

\* accept() reports that the client left meanwhile: the loop goes on.
AcceptFails(c) ==
    /\ conn[c] = "queued" /\ loop[ListenerOf[c]] = "accepting"
    /\ Become(c, "closed")
    /\ UNCHANGED <<protocol, loop, waited, full, shutdown, exited, elapsed>>

\* accept_tls_connection: the ClientHello, then the rest with the configuration it asks for.
ClientHello(c) ==
    /\ conn[c] = "hello"
    /\ \E next \in {"config", "acme"} : Become(c, next)
    /\ UNCHANGED <<protocol, loop, waited, full, shutdown, exited, elapsed>>

HandshakeDone(c) ==
    /\ conn[c] \in {"config", "acme"}
    /\ Become(c, IF conn[c] = "acme" THEN "closed" ELSE "serving")
    /\ Resume(c)
    /\ UNCHANGED <<protocol, waited, full, shutdown, exited, elapsed>>

\* The client fails or leaves in the middle of the handshake.
HandshakeError(c) ==
    /\ conn[c] \in Handshaking
    /\ Become(c, "closed")
    /\ Resume(c)
    /\ UNCHANGED <<protocol, waited, full, shutdown, exited, elapsed>>

\* Mutant: off by one.
TimedOutLate(c) == age[c] > HandshakeTimeout

\* One of the two timeouts of accept_tls_connection runs out.
TimedOut(c) == age[c] >= HandshakeTimeout

\* Mutant: the timeout does not release the loop.
HandshakeExpiresHolding(c) ==
    /\ conn[c] \in Handshaking /\ TimedOut(c)
    /\ Become(c, "closed")
    /\ UNCHANGED <<protocol, loop, waited, full, shutdown, exited, elapsed>>

HandshakeExpires(c) ==
    /\ conn[c] \in Handshaking /\ TimedOut(c)
    /\ Become(c, "closed")
    /\ Resume(c)
    /\ UNCHANGED <<protocol, waited, full, shutdown, exited, elapsed>>

\* A TCP connection once its upstream is connected: serve_connection spawns
\* the copying and returns.
Detach(c) ==
    /\ conn[c] = "serving" /\ KindOf(c) \notin Http
    /\ Become(c, "detached")
    /\ UNCHANGED <<protocol, loop, waited, full, shutdown, exited, elapsed>>

\* The exchange is over, or there is no upstream.
Finish(c) ==
    /\ conn[c] \in InFlight
    /\ Become(c, "closed")
    /\ UNCHANGED <<protocol, loop, waited, full, shutdown, exited, elapsed>>

-----------------------------------------------------------------------------
(* Shutdown *)

shutdown_signal ==
    /\ ~ exited /\ ~ shutdown /\ shutdown' = TRUE
    /\ UNCHANGED <<protocol, loop, waited, conn, age, full, exited, elapsed>>

\* The other branch of the loop's select.
StopAccepting(l) ==
    /\ loop[l] = "accepting" /\ shutdown
    /\ loop' = [loop EXCEPT ![l] = "draining"]
    /\ UNCHANGED <<protocol, waited, conn, age, full, shutdown, exited, elapsed>>

\* Mutant: connections are only counted while they handshake.
TrackedHandshakes(l) == {c \in Connections : ListenerOf[c] = l /\ conn[c] \in Handshaking}

\* The connections graceful_shutdown.shutdown() or connections.join_all() waits for.
Tracked(l) == {c \in Connections : ListenerOf[c] = l /\ conn[c] \in Handshaking \cup {"serving"}}

Drained(l) ==
    /\ loop[l] = "draining" /\ Tracked(l) = {}
    /\ loop' = [loop EXCEPT ![l] = "returned"]
    /\ UNCHANGED <<protocol, waited, conn, age, full, shutdown, exited, elapsed>>

\* The sleep wins: dropping the JoinSet of a TCP listener aborts its tasks.
GiveUp(l) ==
    /\ loop[l] = "draining" /\ waited[l] >= ShutdownTimeout
    /\ loop' = [loop EXCEPT ![l] = "returned"]
    /\ conn' = [c \in Connections |->
                    IF c \in Tracked(l) /\ protocol[l] \notin Http THEN "cut" ELSE conn[c]]
    /\ UNCHANGED <<protocol, waited, age, full, shutdown, exited, elapsed>>

\* The process ends: what is left of the connections goes with it.
ProcessEnds ==
    /\ exited' = TRUE
    /\ conn' = [c \in Connections |->
                    CASE conn[c] = "serving" -> "cut"
                      [] conn[c] = "detached" -> "severed"
                      [] conn[c] \in Handshaking \cup {"queued"} -> "reset"
                      [] OTHER -> conn[c]]
    /\ loop' = [l \in Listeners |-> IF loop[l] = "unbound" THEN "unbound" ELSE "returned"]
    /\ UNCHANGED <<protocol, waited, age, full, shutdown, elapsed>>

AllReturned == \A l \in Listeners : loop[l] \in {"unbound", "returned"}

-----------------------------------------------------------------------------
(* Time *)

\* Something is due now.
Urgent ==
    \/ \E c \in Connections : conn[c] \in Handshaking /\ TimedOut(c)
    \/ \E c \in Connections : CanAccept(c)
    \/ \E l \in Listeners :
        \/ loop[l] = "accepting" /\ shutdown
        \/ loop[l] = "draining" /\ (Tracked(l) = {} \/ waited[l] >= ShutdownTimeout)
    \/ AllReturned

\* The longest shutdown; elapsed is not counted further than one past it.
ExitBound ==
    ShutdownTimeout + 2 * HandshakeTimeout * Cardinality({c \in Connections : HoldsLoop(c)})

Tick ==
    /\ ~ exited /\ ~ Urgent
    /\ waited' = [l \in Listeners |-> IF loop[l] = "draining" THEN waited[l] + 1 ELSE waited[l]]
    /\ age' = [c \in Connections |-> IF conn[c] \in Handshaking THEN age[c] + 1 ELSE age[c]]
    /\ elapsed' = IF shutdown /\ elapsed <= ExitBound THEN elapsed + 1 ELSE elapsed
    /\ UNCHANGED <<protocol, loop, conn, full, shutdown, exited>>

ClientStep(c) == Connect(c) \/ ClientHello(c) \/ HandshakeDone(c) \/ HandshakeError(c) \/ Finish(c)

ListenerStep(l) == StopAccepting(l) \/ Drained(l) \/ GiveUp(l)

ConnectionStep(c) == ClientStep(c) \/ Accept(c) \/ AcceptFails(c) \/ HandshakeExpires(c) \/ Detach(c)

\* Time passes, timers fire, and tokio::select! picks a ready branch at random,
\* so none is ready again and again and never taken.  Clients promise nothing.
ListenFairness ==
    /\ \A c \in Connections : WF_listenVars(HandshakeExpires(c)) /\ SF_listenVars(Accept(c))
    /\ \A l \in Listeners : SF_listenVars(ListenerStep(l))

-----------------------------------------------------------------------------
(* Properties *)

\* Every variable has its type; the timers never run past their timeouts.
ListenTypeOK ==
    /\ protocol \in [Listeners -> {"none", "http", "https", "tcp", "tcp+tls"}]
    /\ loop \in [Listeners -> {"unbound", "accepting", "handshake", "draining", "returned"}]
    /\ waited \in [Listeners -> 0..ShutdownTimeout]
    /\ conn \in [Connections -> ConnStates]
    /\ age \in [Connections -> 0..HandshakeTimeout]
    /\ full \in BOOLEAN /\ shutdown \in BOOLEAN /\ exited \in BOOLEAN
    /\ elapsed \in Nat

\* The process is gone within the shutdown timeout plus, for every connection
\* an HTTPS listener may still be handshaking with inside its loop, the two
\* handshake timeouts (https_listener.rs:86).
ShutdownIsBounded ==
    elapsed <= ExitBound

\* Once the signal is sent the process ends, whatever the clients do.
ShutdownEnds == shutdown ~> exited

\* As long as descriptors keep becoming free, a client in the backlog is
\* accepted or told, even behind a client that stalls its TLS handshake
\* (mod.rs:121) and after accept() failed (mod.rs:102).
QueuedClientsAreServed ==
    []<>(~ full) => \A c \in Connections : conn[c] = "queued" ~> conn[c] # "queued"
=============================================================================

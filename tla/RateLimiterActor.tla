-------------------------- MODULE RateLimiterActor --------------------------
(***************************************************************************)
(* The task around a RateLimiter and the request handlers that talk to it: *)
(* limit_http_request and get_rate_limit_handle of pingoo/rate_limiter.rs. *)
(*                                                                         *)
(* A handler sends a probe over a bounded tokio mpsc channel and awaits a  *)
(* oneshot reply.  tokio wakes blocked senders in FIFO order, so channel   *)
(* and blocked senders are one sequence: the first Buffer probes are in    *)
(* the channel, the others are handlers still awaiting tx.send().          *)
(*                                                                         *)
(* hyper drops a handler's future when its connection goes away: a blocked *)
(* send then disappears, a probe in the channel stays with a closed reply. *)
(***************************************************************************)
EXTENDS RateLimiter, SequencesExt

CONSTANTS
    Handlers,     \* concurrently served connections
    IpOf,         \* the client address of each connection
    Buffer,       \* channel capacity, 1024 in config.rs
    MaxSends      \* bound: requests per connection

\* RateLimiter's bound on the observed client's requests is never the tighter one.
ASSUME ActorAssumption ==
    /\ IsFiniteSet(Handlers)
    /\ IpOf \in [Handlers -> Ips]
    /\ Buffer \in Nat \ {0}
    /\ MaxSends \in Nat
    /\ Cardinality({h \in Handlers : IpOf[h] = Observed}) * MaxSends <= MaxRequests

VARIABLES
    running,      \* the limiter task has not been dropped
    queue,        \* probes: handler, request number n, and whether the reply is still awaited
    waiting,      \* handlers inside limit_http_request
    oneshot,      \* what the reply channel of a waiting handler holds
    sent,         \* number of the handler's current or last request
    status,       \* what limit_http_request returned last, with its request number
    decided       \* verdicts of can_resume by request (not in the code)

actorVars == <<running, queue, waiting, oneshot, sent, status, decided>>
allVars == <<vars, actorVars>>

NoReply == [n |-> 0, result |-> "none"]
NoStatus == [n |-> 0, code |-> "none"]

ActorInit ==
    /\ Init
    /\ running = TRUE
    /\ queue = <<>>
    /\ waiting = {}
    /\ oneshot = [h \in Handlers |-> NoReply]
    /\ sent = [h \in Handlers |-> 0]
    /\ status = [h \in Handlers |-> NoStatus]
    /\ decided = {}

-----------------------------------------------------------------------------
(* limit_http_request *)

\* Mutant: the reply channel of the previous request is used again.
SendProbeOnOldChannel(h) ==
    /\ h \notin waiting
    /\ sent[h] < MaxSends
    /\ running
    /\ sent' = [sent EXCEPT ![h] = @ + 1]
    /\ queue' = Append(queue, [handler |-> h, n |-> sent'[h], open |-> TRUE])
    /\ waiting' = waiting \cup {h}
    /\ UNCHANGED <<vars, running, oneshot, status, decided>>

\* Lines 19-23: the probe is sent, or queued behind a full channel.
SendProbe(h) ==
    /\ h \notin waiting
    /\ sent[h] < MaxSends
    /\ running
    /\ sent' = [sent EXCEPT ![h] = @ + 1]
    /\ queue' = Append(queue, [handler |-> h, n |-> sent'[h], open |-> TRUE])
    /\ waiting' = waiting \cup {h}
    /\ oneshot' = [oneshot EXCEPT ![h] = NoReply]
    /\ UNCHANGED <<vars, running, status, decided>>

\* Lines 20-22: the receiver is gone, 500.
SendFails(h) ==
    /\ h \notin waiting
    /\ sent[h] < MaxSends
    /\ ~running
    /\ sent' = [sent EXCEPT ![h] = @ + 1]
    /\ status' = [status EXCEPT ![h] = [n |-> sent'[h], code |-> "500"]]
    /\ UNCHANGED <<vars, running, queue, waiting, oneshot, decided>>

\* Lines 25-41: the response for a reply; "pass" is None, the request goes on.
Response(result) ==
    CASE result = "closed" -> "500"
      [] result = "err"    -> "503"
      [] result = "false"  -> "429"
      [] result = "true"   -> "pass"

ReceiveReply(h) ==
    /\ h \in waiting
    /\ oneshot[h] # NoReply
    /\ status' = [status EXCEPT ![h] = [n |-> sent[h], code |-> Response(oneshot[h].result)]]
    /\ waiting' = waiting \ {h}
    /\ UNCHANGED <<vars, running, queue, oneshot, sent, decided>>

\* Mutant: a probe goes with its handler, wherever it is.
AbandonWithdrawing(h) ==
    /\ h \in waiting
    /\ waiting' = waiting \ {h}
    /\ queue' = SelectSeq(queue, LAMBDA p : p.handler # h)
    /\ UNCHANGED <<vars, running, oneshot, sent, status, decided>>

\* The handler's future is dropped while it awaits send() or the reply: its
\* probe, if it is not served yet, stays in the channel or leaves the blocked ones.
Abandon(h) ==
    /\ h \in waiting
    /\ waiting' = waiting \ {h}
    /\ LET mine == {j \in DOMAIN queue : queue[j].handler = h /\ queue[j].open}
       IN \/ mine = {} /\ UNCHANGED queue
          \/ \E j \in mine : queue' = IF j <= Buffer THEN [queue EXCEPT ![j].open = FALSE]
                                                     ELSE RemoveAt(queue, j)
    /\ UNCHANGED <<vars, running, oneshot, sent, status, decided>>

-----------------------------------------------------------------------------
(* get_rate_limit_handle *)

\* Mutant: the reply channel of an overloaded client is kept and never used.
ServeProbeKeepingErrors ==
    /\ running
    /\ queue # <<>>
    /\ LET p == Head(queue) IN
       \E result \in Results :
          /\ can_resume(IpOf[p.handler], result)
          /\ oneshot' = IF p.open /\ result # "err"
                        THEN [oneshot EXCEPT ![p.handler] = [n |-> p.n, result |-> result]]
                        ELSE oneshot
          /\ decided' = decided \cup {[handler |-> p.handler, n |-> p.n, result |-> result]}
    /\ queue' = Tail(queue)
    /\ UNCHANGED <<running, waiting, sent, status>>

\* Sending into a reply channel nobody awaits fails and is ignored (line 53).
ServeProbe ==
    /\ running
    /\ queue # <<>>
    /\ LET p == Head(queue) IN
       \E result \in Results :
          /\ can_resume(IpOf[p.handler], result)
          /\ oneshot' = IF p.open
                        THEN [oneshot EXCEPT ![p.handler] = [n |-> p.n, result |-> result]]
                        ELSE oneshot
          /\ decided' = decided \cup {[handler |-> p.handler, n |-> p.n, result |-> result]}
    /\ queue' = Tail(queue)
    /\ UNCHANGED <<running, waiting, sent, status>>

\* The runtime drops the limiter task: the receiver and the probes in it go.
DropActor ==
    /\ running
    /\ running' = FALSE
    /\ queue' = <<>>
    /\ oneshot' = [h \in Handlers |->
                     IF \E p \in Range(queue) : p.handler = h /\ p.open
                     THEN [n |-> sent[h], result |-> "closed"]
                     ELSE oneshot[h]]
    /\ UNCHANGED <<vars, waiting, sent, status, decided>>

ActorTick == Tick /\ UNCHANGED actorVars

ActorNext ==
    \/ \E h \in Handlers : SendProbe(h) \/ SendFails(h) \/ ReceiveReply(h) \/ Abandon(h)
    \/ ServeProbe
    \/ DropActor
    \/ ActorTick

\* The tokio scheduler polls a ready task again: the limiter task while probes
\* are queued, a handler whose reply has arrived.
ActorSpec ==
    /\ ActorInit
    /\ [][ActorNext]_allVars
    /\ WF_allVars(ServeProbe)
    /\ \A h \in Handlers : WF_allVars(ReceiveReply(h))

-----------------------------------------------------------------------------
(* Properties *)

\* A handler acts on the verdict can_resume gave for its own request: it lets
\* the request pass, or answers 429 or 503, only if that was the verdict, and
\* answers 500 only after the task was dropped (lines 25-41), also when an
\* earlier request of the same connection was abandoned with its probe queued.
ResponseMatchesVerdict ==
    \A h \in Handlers :
        LET verdict == {d \in decided : d.handler = h /\ d.n = status[h].n}
        IN CASE status[h].code = "none" -> TRUE
             [] status[h].code = "500"  -> ~running
             [] OTHER -> \E d \in verdict : status[h].code = Response(d.result)

\* Every handler that awaits the limiter gets an answer or goes away: a full
\* channel, abandoned probes or a dropped task never leave it waiting.
HandlersAreAnswered ==
    \A h \in Handlers : (h \in waiting) ~> (h \notin waiting)

\* A request cannot be made without being counted by hanging up: once its probe
\* is in the channel (line 20) can_resume gives it a verdict, whether or not its
\* handler still awaits the reply, unless the limiter task itself is dropped.
SentProbesAreCounted ==
    \A h \in Handlers, n \in 1..MaxSends :
        (\E j \in DOMAIN queue : j <= Buffer /\ queue[j].handler = h /\ queue[j].n = n)
            ~> (~running \/ \E d \in decided : d.handler = h /\ d.n = n)
=============================================================================

----------------------- MODULE RateLimiterActorProofs -----------------------
(***************************************************************************)
(* The limiter task and its clients, for every number of connections and   *)
(* every channel capacity: a handler acts on the verdict of its own        *)
(* request, and the task makes only steps of RateLimiter, so that what is  *)
(* proved of the limiter holds of the limiter behind its channel.          *)
(***************************************************************************)
EXTENDS RateLimiterActor, RateLimiterProofs

-----------------------------------------------------------------------------
(* The inductive invariant. *)

ProbeMsg == [handler : Handlers, n : 1..MaxSends, open : BOOLEAN]
Verdict == [handler : Handlers, n : 1..MaxSends, result : Results]
Reply == [n : Nat, result : Results \cup {"closed", "none"}]

ActorTypes ==
    /\ running \in BOOLEAN
    /\ queue \in Seq(ProbeMsg)
    /\ waiting \subseteq Handlers
    /\ oneshot \in [Handlers -> Reply]
    /\ sent \in [Handlers -> 0..MaxSends]
    /\ status \in [Handlers -> [n : Nat, code : {"none", "500", "503", "429", "pass"}]]
    /\ decided \subseteq Verdict

\* The request a probe or a verdict is about.
Request(x) == <<x.handler, x.n>>

\* A probe is about a request that was made and not yet decided; no two are
\* about the same; while its reply is awaited it is about the handler's last.
Fresh(q, made, verdicts) ==
    /\ \A j \in DOMAIN q :
          /\ q[j].n <= made[q[j].handler]
          /\ q[j].open => q[j].n = made[q[j].handler]
          /\ \A d \in verdicts : Request(d) # Request(q[j])
    /\ \A i, j \in DOMAIN q : i # j => Request(q[i]) # Request(q[j])
    /\ \A d \in verdicts : d.n <= made[d.handler]

ProbesAreFresh == Fresh(queue, sent, decided)

\* A reply is awaited by a waiting handler that has none yet.
OpenProbesAreAwaited ==
    \A j \in DOMAIN queue : queue[j].open =>
        queue[j].handler \in waiting /\ oneshot[queue[j].handler] = NoReply

\* The reply a waiting handler finds was sent for the request it waits on.
RepliesAreCurrent ==
    \A h \in waiting : oneshot[h] # NoReply =>
        /\ oneshot[h].n = sent[h]
        /\ \/ oneshot[h].result = "closed" /\ ~running
           \/ [handler |-> h, n |-> sent[h], result |-> oneshot[h].result] \in decided

\* The observed client's requests that were decided.
ObservedRequests == {Request(d) : d \in {e \in decided : IpOf[e.handler] = Observed}}

AInv ==
    /\ ActorTypes
    /\ ProbesAreFresh
    /\ OpenProbesAreAwaited
    /\ RepliesAreCurrent
    /\ ResponseMatchesVerdict
    /\ Len(history) <= Cardinality(ObservedRequests)

-----------------------------------------------------------------------------
(* Lemmas about the queue. *)

\* The fields of a queued probe.
LEMMA ProbeFields ==
    ASSUME NEW q \in Seq(ProbeMsg), NEW j \in DOMAIN q
    PROVE  /\ q[j] \in ProbeMsg
           /\ q[j].handler \in Handlers /\ q[j].n \in 1..MaxSends /\ q[j].open \in BOOLEAN
<1>1. q[j] \in ProbeMsg
  OBVIOUS
<1>2. QED
  BY <1>1 DEF ProbeMsg

\* Taking one element out of a sequence keeps the others, in order.
LEMMA RemoveAtFacts ==
    ASSUME NEW S, NEW q \in Seq(S), NEW j \in DOMAIN q
    PROVE  /\ RemoveAt(q, j) \in Seq(S)
           /\ Len(RemoveAt(q, j)) = Len(q) - 1
           /\ \A k \in 1..(Len(q) - 1) :
                 RemoveAt(q, j)[k] = IF k < j THEN q[k] ELSE q[k + 1]
<1> DEFINE a == SubSeq(q, 1, j - 1)
           b == SubSeq(q, j + 1, Len(q))
<1>1. j \in 1..Len(q) /\ Len(q) \in Nat
  OBVIOUS
<1>2. a \in Seq(S) /\ Len(a) = j - 1 /\ \A k \in 1..(j - 1) : a[k] = q[k]
  BY <1>1
<1>3. b \in Seq(S) /\ Len(b) = Len(q) - j /\ \A k \in 1..(Len(q) - j) : b[k] = q[k + j]
  BY <1>1
<1> HIDE DEF a, b
<1>4. /\ a \o b \in Seq(S) /\ Len(a \o b) = Len(a) + Len(b)
      /\ \A k \in 1..(Len(a) + Len(b)) : (a \o b)[k] = IF k <= Len(a) THEN a[k] ELSE b[k - Len(a)]
  BY <1>2, <1>3
<1>5. Len(a \o b) = Len(q) - 1
  BY <1>1, <1>2, <1>3, <1>4
<1>6. ASSUME NEW k \in 1..(Len(q) - 1)
      PROVE  (a \o b)[k] = IF k < j THEN q[k] ELSE q[k + 1]
  <2>1. CASE k < j
    <3>1. k \in 1..(j - 1) /\ k <= Len(a) /\ k \in 1..(Len(a) + Len(b))
      BY <1>1, <1>2, <1>3, <1>6, <2>1
    <3>2. QED
      BY <1>2, <1>4, <2>1, <3>1
  <2>2. CASE ~(k < j)
    <3>1. ~(k <= Len(a)) /\ k \in 1..(Len(a) + Len(b)) /\ k - Len(a) = k - j + 1
      BY <1>1, <1>2, <1>3, <1>6, <2>2
    <3>2. k - j + 1 \in 1..(Len(q) - j) /\ (k - j + 1) + j = k + 1
      BY <1>1, <1>6, <2>2
    <3>3. b[k - j + 1] = q[k + 1]
      BY <1>3, <3>2
    <3>4. QED
      BY <1>4, <2>2, <3>1, <3>3
  <2>3. QED
    BY <2>1, <2>2
<1>7. RemoveAt(q, j) = a \o b
  BY DEF RemoveAt, a, b
<1>8. QED
  BY <1>4, <1>5, <1>6, <1>7

\* Probes that leave the queue, or whose reply channel closes, leave the rest fresh.
LEMMA FewerProbesAreFresh ==
    ASSUME NEW q, NEW q2, NEW made, NEW verdicts, Fresh(q, made, verdicts),
           NEW f \in [DOMAIN q2 -> DOMAIN q],
           \A i, j \in DOMAIN q2 : i # j => f[i] # f[j],
           \A j \in DOMAIN q2 : /\ q2[j].handler = q[f[j]].handler
                                /\ q2[j].n = q[f[j]].n
                                /\ q2[j].open => q[f[j]].open
    PROVE  Fresh(q2, made, verdicts)
BY DEF Fresh, Request

-----------------------------------------------------------------------------
(* Invariance. *)

\* Nothing is queued, awaited or decided at first.
LEMMA ActorInitEstablishes == ActorInit => AInv
<1> SUFFICES ASSUME ActorInit PROVE AInv
  OBVIOUS
<1>1. ActorTypes
  BY ActorAssumption DEF ActorInit, ActorTypes, Reply, NoReply, NoStatus
<1>2. ProbesAreFresh /\ RepliesAreCurrent /\ OpenProbesAreAwaited
  BY DEF ActorInit, ProbesAreFresh, Fresh, RepliesAreCurrent, OpenProbesAreAwaited
<1>3. ResponseMatchesVerdict
  BY DEF ActorInit, ResponseMatchesVerdict, NoStatus
<1>4. Len(history) <= Cardinality(ObservedRequests)
  <2>1. ObservedRequests = {} /\ Len(history) = 0
    BY DEF ActorInit, Init, ObservedRequests
  <2>2. Cardinality({}) = 0
    BY FS_EmptySet
  <2>3. QED
    BY <2>1, <2>2
<1>5. QED
  BY <1>1, <1>2, <1>3, <1>4 DEF AInv

\* A new probe is about a request nobody has seen.
LEMMA SendProbePreserves ==
    ASSUME AInv, NEW h \in Handlers, SendProbe(h)
    PROVE  AInv'
<1> DEFINE p == [handler |-> h, n |-> sent[h] + 1, open |-> TRUE]
<1>1. /\ h \notin waiting /\ sent[h] < MaxSends /\ running
      /\ sent' = [sent EXCEPT ![h] = @ + 1]
      /\ waiting' = waiting \cup {h}
      /\ oneshot' = [oneshot EXCEPT ![h] = NoReply]
      /\ running' = running /\ status' = status /\ decided' = decided /\ history' = history
  BY DEF SendProbe, vars
<1>2. /\ sent \in [Handlers -> 0..MaxSends] /\ sent[h] \in Nat /\ queue \in Seq(ProbeMsg)
      /\ MaxSends \in Nat /\ sent'[h] = sent[h] + 1 /\ sent' \in [Handlers -> 0..MaxSends]
      /\ \A g \in Handlers : g # h => sent'[g] = sent[g]
  BY <1>1, ActorAssumption DEF AInv, ActorTypes
<1>3. p \in ProbeMsg
  BY <1>1, <1>2 DEF ProbeMsg
<1>4. queue' = Append(queue, p)
  BY <1>2 DEF SendProbe
<1> HIDE DEF p
<1>5. /\ queue' \in Seq(ProbeMsg) /\ DOMAIN queue' = DOMAIN queue \cup {Len(queue) + 1}
      /\ queue'[Len(queue) + 1] = p /\ \A j \in DOMAIN queue : queue'[j] = queue[j]
  BY <1>2, <1>3, <1>4
<1>6. ActorTypes'
  <2>1. oneshot \in [Handlers -> Reply] /\ NoReply \in Reply
    BY DEF AInv, ActorTypes, Reply, NoReply
  <2>2. oneshot' \in [Handlers -> Reply]
    BY <1>1, <2>1
  <2>3. QED
    BY <1>1, <1>2, <1>5, <2>2 DEF AInv, ActorTypes
<1>7. ProbesAreFresh'
  <2>1. \A j \in DOMAIN queue : queue[j].handler \in Handlers /\ queue[j].n \in 1..MaxSends
    BY <1>2, ProbeFields
  <2>2. \A d \in decided : d.handler \in Handlers /\ d.n \in 1..MaxSends
    BY DEF AInv, ActorTypes, Verdict
  <2>3. p.handler = h /\ p.n = sent[h] + 1 /\ p.open
    BY DEF p
  <2>4. Fresh(queue, sent, decided)
    BY DEF AInv, ProbesAreFresh
  <2>5. ASSUME NEW j \in DOMAIN queue
        PROVE  /\ queue[j].n <= sent'[queue[j].handler]
               /\ queue[j].open => queue[j].n = sent'[queue[j].handler]
               /\ \A d \in decided : Request(d) # Request(queue[j])
               /\ Request(queue[j]) # Request(p)
    <3>1. queue[j].n <= sent[queue[j].handler]
      BY <2>4 DEF Fresh
    <3>2. queue[j].open => queue[j].handler \in waiting
      BY DEF AInv, OpenProbesAreAwaited
    <3>3. QED
      BY <1>1, <1>2, <2>1, <2>3, <2>4, <3>1, <3>2 DEF Fresh, Request
  <2>6. \A d \in decided : d.n <= sent'[d.handler] /\ Request(d) # Request(p)
    BY <1>2, <2>2, <2>3, <2>4 DEF Fresh, Request
  <2>7. Fresh(queue', sent', decided)
    BY <1>2, <1>5, <2>3, <2>5, <2>6, <2>4 DEF Fresh
  <2>8. QED
    BY <1>1, <2>7 DEF ProbesAreFresh
<1>8. RepliesAreCurrent'
  BY <1>1, <1>2 DEF AInv, RepliesAreCurrent, ActorTypes
<1>9. ResponseMatchesVerdict'
  BY <1>1 DEF AInv, ResponseMatchesVerdict
<1>10. OpenProbesAreAwaited'
  <2>1. oneshot'[h] = NoReply /\ \A g \in Handlers : g # h => oneshot'[g] = oneshot[g]
    BY <1>1 DEF AInv, ActorTypes
  <2>2. \A j \in DOMAIN queue : queue[j].handler \in Handlers
    BY <1>2, ProbeFields
  <2>3. QED
    BY <1>1, <1>5, <2>1, <2>2 DEF AInv, OpenProbesAreAwaited, p
<1>11. QED
  BY <1>1, <1>6, <1>7, <1>8, <1>9, <1>10 DEF AInv, ObservedRequests

\* The send fails because the task is gone: 500.
LEMMA SendFailsPreserves ==
    ASSUME AInv, NEW h \in Handlers, SendFails(h)
    PROVE  AInv'
<1>1. /\ h \notin waiting /\ sent[h] < MaxSends /\ ~running
      /\ sent' = [sent EXCEPT ![h] = @ + 1]
      /\ status' = [status EXCEPT ![h] = [n |-> sent'[h], code |-> "500"]]
      /\ UNCHANGED <<running, queue, waiting, oneshot, decided, history>>
  BY DEF SendFails, vars
<1>2. /\ sent' \in [Handlers -> 0..MaxSends] /\ sent'[h] = sent[h] + 1
      /\ \A g \in Handlers : g # h => sent'[g] = sent[g]
      /\ sent \in [Handlers -> 0..MaxSends] /\ MaxSends \in Nat
  BY <1>1, ActorAssumption DEF AInv, ActorTypes
<1>3. status' \in [Handlers -> [n : Nat, code : {"none", "500", "503", "429", "pass"}]]
  <2>1. [n |-> sent'[h], code |-> "500"] \in [n : Nat, code : {"none", "500", "503", "429", "pass"}]
    BY <1>2
  <2>2. QED
    BY <1>1, <2>1 DEF AInv, ActorTypes
<1>4. ActorTypes'
  BY <1>1, <1>2, <1>3 DEF AInv, ActorTypes
<1>5. ProbesAreFresh'
  <2>1. \A j \in DOMAIN queue : /\ queue[j].handler \in Handlers /\ queue[j].n \in 1..MaxSends
                                /\ queue[j].open => queue[j].handler # h
    <3>1. queue \in Seq(ProbeMsg)
      BY DEF AInv, ActorTypes
    <3>2. QED
      BY <1>1, <3>1, ProbeFields DEF AInv, OpenProbesAreAwaited
  <2>2. \A d \in decided : d.handler \in Handlers /\ d.n \in 1..MaxSends
    BY DEF AInv, ActorTypes, Verdict
  <2>3. Fresh(queue, sent', decided)
    BY <1>2, <2>1, <2>2 DEF AInv, ProbesAreFresh, Fresh
  <2>4. QED
    BY <1>1, <2>3 DEF ProbesAreFresh
<1>6. RepliesAreCurrent' /\ OpenProbesAreAwaited'
  BY <1>1, <1>2 DEF AInv, RepliesAreCurrent, OpenProbesAreAwaited, ActorTypes
<1>7. ResponseMatchesVerdict'
  <2>1. status'[h].code = "500" /\ \A g \in Handlers : g # h => status'[g] = status[g]
    BY <1>1 DEF AInv, ActorTypes
  <2>2. QED
    BY <1>1, <2>1 DEF AInv, ResponseMatchesVerdict
<1>8. QED
  BY <1>1, <1>4, <1>5, <1>6, <1>7 DEF AInv, ObservedRequests

\* The handler answers with what it found in its reply channel.
LEMMA ReceiveReplyPreserves ==
    ASSUME AInv, NEW h \in Handlers, ReceiveReply(h)
    PROVE  AInv'
<1> DEFINE code == Response(oneshot[h].result)
<1>1. /\ h \in waiting /\ oneshot[h] # NoReply
      /\ status' = [status EXCEPT ![h] = [n |-> sent[h], code |-> code]]
      /\ waiting' = waiting \ {h}
      /\ UNCHANGED <<running, queue, oneshot, sent, decided, history>>
  BY DEF ReceiveReply, vars
<1>2. /\ oneshot[h].n = sent[h] /\ sent[h] \in Nat
      /\ \/ oneshot[h].result = "closed" /\ ~running
         \/ [handler |-> h, n |-> sent[h], result |-> oneshot[h].result] \in decided
  BY <1>1, ActorAssumption DEF AInv, RepliesAreCurrent, ActorTypes
<1>3. CASE oneshot[h].result = "closed" /\ ~running
  <2>1. code = "500"
    BY <1>3 DEF Response
  <2> HIDE DEF code
  <2>2. ActorTypes'
    <3>1. [n |-> sent[h], code |-> code] \in [n : Nat, code : {"none", "500", "503", "429", "pass"}]
      BY <1>2, <2>1
    <3>2. QED
      BY <1>1, <3>1 DEF AInv, ActorTypes
  <2>3. ResponseMatchesVerdict'
    <3>1. status'[h].code = "500" /\ \A g \in Handlers : g # h => status'[g] = status[g]
      BY <1>1, <2>1 DEF AInv, ActorTypes
    <3>2. QED
      BY <1>1, <1>3, <3>1 DEF AInv, ResponseMatchesVerdict
  <2>4. RepliesAreCurrent' /\ OpenProbesAreAwaited' /\ ProbesAreFresh'
    BY <1>1 DEF AInv, RepliesAreCurrent, OpenProbesAreAwaited, ProbesAreFresh, Fresh
  <2>5. QED
    BY <1>1, <2>2, <2>3, <2>4 DEF AInv, ObservedRequests
<1>4. CASE [handler |-> h, n |-> sent[h], result |-> oneshot[h].result] \in decided
  <2> DEFINE d == [handler |-> h, n |-> sent[h], result |-> oneshot[h].result]
  <2>1. d.result \in Results /\ d.result = oneshot[h].result /\ d.handler = h /\ d.n = sent[h]
    BY <1>4 DEF AInv, ActorTypes, Verdict
  <2>2. code = Response(d.result) /\ code \in {"503", "429", "pass"}
    BY <2>1 DEF Response, Results
  <2> HIDE DEF code, d
  <2>3. ActorTypes'
    <3>1. [n |-> sent[h], code |-> code] \in [n : Nat, code : {"none", "500", "503", "429", "pass"}]
      BY <1>2, <2>2
    <3>2. QED
      BY <1>1, <3>1 DEF AInv, ActorTypes
  <2>4. ResponseMatchesVerdict'
    <3>1. /\ status'[h] = [n |-> sent[h], code |-> code]
          /\ \A g \in Handlers : g # h => status'[g] = status[g]
      BY <1>1 DEF AInv, ActorTypes
    <3>2. d \in decided
      BY <1>4 DEF d
    <3>3. QED
      BY <1>1, <2>1, <2>2, <3>1, <3>2 DEF AInv, ResponseMatchesVerdict
  <2>5. RepliesAreCurrent' /\ OpenProbesAreAwaited' /\ ProbesAreFresh'
    BY <1>1 DEF AInv, RepliesAreCurrent, OpenProbesAreAwaited, ProbesAreFresh, Fresh
  <2>6. QED
    BY <1>1, <2>3, <2>4, <2>5 DEF AInv, ObservedRequests
<1>5. QED
  BY <1>2, <1>3, <1>4

\* A handler goes away: its probe stays with a closed reply or disappears.
LEMMA AbandonPreserves ==
    ASSUME AInv, NEW h \in Handlers, Abandon(h)
    PROVE  AInv'
<1> DEFINE mine == {j \in DOMAIN queue : queue[j].handler = h /\ queue[j].open}
<1>1. /\ h \in waiting /\ waiting' = waiting \ {h}
      /\ \/ mine = {} /\ queue' = queue
         \/ \E j \in mine : queue' = IF j <= Buffer THEN [queue EXCEPT ![j].open = FALSE]
                                                    ELSE RemoveAt(queue, j)
      /\ UNCHANGED <<running, oneshot, sent, status, decided, history>>
  BY DEF Abandon, vars
<1>2. queue \in Seq(ProbeMsg) /\ Fresh(queue, sent, decided)
  BY DEF AInv, ActorTypes, ProbesAreFresh
<1>3. \A j \in DOMAIN queue : queue[j] \in ProbeMsg
  BY <1>2, ProbeFields
<1>4. \A i, j \in mine : i = j
  BY <1>2 DEF Fresh, Request
<1>5. /\ queue' \in Seq(ProbeMsg)
      /\ \E f \in [DOMAIN queue' -> DOMAIN queue] :
            /\ \A i, k \in DOMAIN queue' : i # k => f[i] # f[k]
            /\ \A k \in DOMAIN queue' :
                  /\ queue'[k].handler = queue[f[k]].handler
                  /\ queue'[k].n = queue[f[k]].n
                  /\ queue'[k].open => queue[f[k]].open /\ f[k] \notin mine
  <2>1. CASE mine = {} /\ queue' = queue
    <3> DEFINE f == [k \in DOMAIN queue |-> k]
    <3>1. f \in [DOMAIN queue' -> DOMAIN queue]
      BY <2>1
    <3>2. \A k \in DOMAIN queue' : f[k] = k /\ queue'[k] = queue[k]
      BY <2>1
    <3> HIDE DEF f
    <3>3. QED
      BY <1>2, <2>1, <3>1, <3>2
  <2>2. CASE \E j \in mine : j <= Buffer /\ queue' = [queue EXCEPT ![j].open = FALSE]
    <3>1. PICK j \in mine : queue' = [queue EXCEPT ![j].open = FALSE]
      BY <2>2
    <3> DEFINE f == [k \in DOMAIN queue |-> k]
    <3>2. [queue[j] EXCEPT !.open = FALSE] \in ProbeMsg /\ j \in DOMAIN queue
      BY <1>3 DEF ProbeMsg
    <3>3. queue' \in Seq(ProbeMsg) /\ DOMAIN queue' = DOMAIN queue
      BY <1>2, <3>1, <3>2
    <3>4. /\ queue'[j] = [queue[j] EXCEPT !.open = FALSE]
          /\ \A k \in DOMAIN queue : k # j => queue'[k] = queue[k]
      BY <1>2, <3>1, <3>2
    <3>5. f \in [DOMAIN queue' -> DOMAIN queue] /\ \A k \in DOMAIN queue' : f[k] = k
      BY <3>3
    <3>6. /\ queue'[j].handler = queue[j].handler /\ queue'[j].n = queue[j].n /\ ~ queue'[j].open
      BY <1>3, <3>2, <3>4 DEF ProbeMsg
    <3>7. \A k \in DOMAIN queue : k # j => k \notin mine
      BY <1>4
    <3> HIDE DEF f, mine
    <3>8. ASSUME NEW k \in DOMAIN queue'
          PROVE  /\ queue'[k].handler = queue[f[k]].handler
                 /\ queue'[k].n = queue[f[k]].n
                 /\ queue'[k].open => queue[f[k]].open /\ f[k] \notin mine
      <4>1. CASE k = j
        BY <3>5, <3>6, <4>1
      <4>2. CASE k # j
        BY <3>3, <3>4, <3>5, <3>7, <4>2
      <4>3. QED
        BY <4>1, <4>2
    <3>9. \A i, k \in DOMAIN queue' : i # k => f[i] # f[k]
      BY <3>5
    <3>10. QED
      BY <3>3, <3>5, <3>8, <3>9
  <2>3. CASE \E j \in mine : ~(j <= Buffer) /\ queue' = RemoveAt(queue, j)
    <3>1. PICK j \in mine : queue' = RemoveAt(queue, j)
      BY <2>3
    <3> DEFINE f == [k \in 1..(Len(queue) - 1) |-> IF k < j THEN k ELSE k + 1]
    <3>2. j \in DOMAIN queue /\ DOMAIN queue = 1..Len(queue) /\ Len(queue) \in Nat /\ j \in Nat
      BY <1>2
    <3>3. /\ queue' \in Seq(ProbeMsg) /\ Len(queue') = Len(queue) - 1
          /\ \A k \in 1..(Len(queue) - 1) :
                queue'[k] = IF k < j THEN queue[k] ELSE queue[k + 1]
      BY <1>2, <3>1, <3>2, RemoveAtFacts
    <3>4. DOMAIN queue' = 1..(Len(queue) - 1)
      BY <3>3
    <3>5. \A k \in DOMAIN queue' : f[k] = (IF k < j THEN k ELSE k + 1) /\ f[k] \in DOMAIN queue
      BY <3>2, <3>4
    <3>6. f \in [DOMAIN queue' -> DOMAIN queue]
      BY <3>4, <3>5
    <3> HIDE DEF f
    <3>7. \A i, k \in DOMAIN queue' : i # k => f[i] # f[k]
      BY <3>2, <3>4, <3>5
    <3>8. \A k \in DOMAIN queue' : f[k] # j /\ queue'[k] = queue[f[k]]
      BY <3>2, <3>3, <3>4, <3>5
    <3>9. \A k \in DOMAIN queue : k # j => k \notin mine
      BY <1>4
    <3> HIDE DEF mine
    <3>10. QED
      BY <3>3, <3>5, <3>6, <3>7, <3>8, <3>9
  <2>4. QED
    BY <1>1, <2>1, <2>2, <2>3
<1>6. PICK f \in [DOMAIN queue' -> DOMAIN queue] :
            /\ \A i, k \in DOMAIN queue' : i # k => f[i] # f[k]
            /\ \A k \in DOMAIN queue' :
                  /\ queue'[k].handler = queue[f[k]].handler
                  /\ queue'[k].n = queue[f[k]].n
                  /\ queue'[k].open => queue[f[k]].open /\ f[k] \notin mine
  BY <1>5
<1>7. Fresh(queue', sent, decided)
  BY <1>2, <1>6, FewerProbesAreFresh
<1>8. ActorTypes'
  BY <1>1, <1>5 DEF AInv, ActorTypes
<1>9. ProbesAreFresh'
  BY <1>1, <1>7 DEF ProbesAreFresh
<1>10. OpenProbesAreAwaited'
  BY <1>1, <1>6 DEF AInv, OpenProbesAreAwaited
<1>11. RepliesAreCurrent' /\ ResponseMatchesVerdict'
  BY <1>1 DEF AInv, RepliesAreCurrent, ResponseMatchesVerdict
<1>12. QED
  BY <1>1, <1>8, <1>9, <1>10, <1>11 DEF AInv, ObservedRequests

\* The task goes away: whoever awaits a reply finds its channel closed.
LEMMA DropActorPreserves ==
    ASSUME AInv, DropActor
    PROVE  AInv'
<1> DEFINE closed(h) == \E p \in Range(queue) : p.handler = h /\ p.open
<1>1. /\ running' = FALSE /\ queue' = <<>>
      /\ oneshot' = [h \in Handlers |-> IF closed(h) THEN [n |-> sent[h], result |-> "closed"]
                                                     ELSE oneshot[h]]
      /\ UNCHANGED <<waiting, sent, status, decided, history>>
  BY DEF DropActor, vars
<1>2. \A h \in Handlers : oneshot'[h] = [n |-> sent[h], result |-> "closed"] \/ oneshot'[h] = oneshot[h]
  BY <1>1
<1>3. \A h \in Handlers : sent[h] \in Nat /\ oneshot[h] \in Reply
  BY ActorAssumption DEF AInv, ActorTypes
<1>4. oneshot' \in [Handlers -> Reply]
  BY <1>1, <1>3 DEF Reply
<1> HIDE DEF closed
<1>5. ActorTypes'
  <2>1. running' \in BOOLEAN /\ queue' \in Seq(ProbeMsg)
    <3>1. running' \in BOOLEAN
      BY <1>1, Zenon
    <3>2. queue' = <<>>
      BY <1>1
    <3>3. <<>> \in Seq(ProbeMsg)
      OBVIOUS
    <3>4. QED
      BY <3>1, <3>2, <3>3, Zenon
  <2>2. waiting' = waiting /\ sent' = sent /\ status' = status /\ decided' = decided
    BY <1>1
  <2>3. QED
    BY <1>4, <2>1, <2>2, Zenon DEF AInv, ActorTypes
<1>6. ProbesAreFresh' /\ OpenProbesAreAwaited'
  BY <1>1 DEF AInv, ProbesAreFresh, Fresh, OpenProbesAreAwaited
<1>7. RepliesAreCurrent'
  <2>1. waiting \subseteq Handlers
    BY DEF AInv, ActorTypes
  <2>2. QED
    BY <1>1, <1>2, <2>1 DEF AInv, RepliesAreCurrent
<1>8. ResponseMatchesVerdict'
  BY <1>1 DEF AInv, ResponseMatchesVerdict
<1>9. QED
  BY <1>1, <1>5, <1>6, <1>7, <1>8 DEF AInv, ObservedRequests

\* What can_resume adds to the history.
LEMMA ResumeRecords ==
    ASSUME NEW ip, NEW result, can_resume(ip, result), history \in Seq(Entry)
    PROVE  Len(history') = IF ip = Observed THEN Len(history) + 1 ELSE Len(history)
<1>1. \E at, window : Record(ip, at, window, result)
  BY DEF can_resume, RefuseAll, Overloaded, Count
<1>2. QED
  BY <1>1 DEF Record

\* The observed client's decided requests are among those its connections make.
LEMMA ObservedRequestsBound ==
    ASSUME decided \subseteq Verdict
    PROVE  /\ IsFiniteSet(ObservedRequests)
           /\ Cardinality(ObservedRequests) \in Nat
           /\ Cardinality(ObservedRequests) <= MaxRequests
<1> DEFINE H == {h \in Handlers : IpOf[h] = Observed}
           P == H \X (1..MaxSends)
<1>1. IsFiniteSet(H) /\ Cardinality(H) \in Nat
  <2>1. H \subseteq Handlers
    OBVIOUS
  <2>2. QED
    BY <2>1, ActorAssumption, FS_Subset, FS_CardinalityType
<1>2. IsFiniteSet(1..MaxSends) /\ Cardinality(1..MaxSends) = MaxSends
  <2>1. MaxSends \in Nat /\ 1 \in Int /\ MaxSends \in Int
    BY ActorAssumption
  <2>2. /\ IsFiniteSet(1..MaxSends)
        /\ Cardinality(1..MaxSends) = IF 1 > MaxSends THEN 0 ELSE MaxSends - 1 + 1
    BY <2>1, FS_Interval
  <2>3. QED
    BY <2>1, <2>2
<1>3. IsFiniteSet(P) /\ Cardinality(P) = Cardinality(H) * MaxSends
  BY <1>1, <1>2, FS_Product
<1>4. Cardinality(P) <= MaxRequests
  BY <1>3, ActorAssumption
<1>5. ObservedRequests \subseteq P
  BY DEF ObservedRequests, Verdict, Request
<1> HIDE DEF P
<1>6. IsFiniteSet(ObservedRequests) /\ Cardinality(ObservedRequests) <= Cardinality(P)
  BY <1>3, <1>5, FS_Subset
<1>7. Cardinality(ObservedRequests) \in Nat /\ Cardinality(P) \in Nat
  BY <1>3, <1>6, FS_CardinalityType
<1>8. QED
  BY <1>4, <1>6, <1>7, ConstantsAssumption

\* The task decides a request and replies to it.  The verdict is new, so the
\* history stays within RateLimiter's bound: the step is a step of RateLimiter.
LEMMA ServeProbePreserves ==
    ASSUME AInv, history \in Seq(Entry), ServeProbe
    PROVE  AInv' /\ \E ip \in Ips : Probe(ip)
<1> DEFINE p == Head(queue)
           ip == IpOf[p.handler]
<1>1. PICK result \in Results :
          /\ can_resume(ip, result)
          /\ oneshot' = IF p.open
                        THEN [oneshot EXCEPT ![p.handler] = [n |-> p.n, result |-> result]]
                        ELSE oneshot
          /\ decided' = decided \cup {[handler |-> p.handler, n |-> p.n, result |-> result]}
  BY DEF ServeProbe
<1>2. /\ running /\ queue # <<>> /\ queue' = Tail(queue)
      /\ UNCHANGED <<running, waiting, sent, status>>
  BY DEF ServeProbe
<1>3. queue \in Seq(ProbeMsg) /\ Fresh(queue, sent, decided) /\ decided \subseteq Verdict
  BY DEF AInv, ActorTypes, ProbesAreFresh
<1>4. /\ 1 \in DOMAIN queue /\ p = queue[1] /\ queue' \in Seq(ProbeMsg)
      /\ DOMAIN queue' = 1..(Len(queue) - 1) /\ Len(queue) \in Nat /\ DOMAIN queue = 1..Len(queue)
      /\ \A j \in DOMAIN queue' : queue'[j] = queue[j + 1]
  BY <1>2, <1>3
<1> HIDE DEF p
<1>5. p.handler \in Handlers /\ p.n \in 1..MaxSends /\ p.open \in BOOLEAN
  BY <1>3, <1>4, ProbeFields
<1> DEFINE v == [handler |-> p.handler, n |-> p.n, result |-> result]
<1>6. v \in Verdict /\ v.handler = p.handler /\ v.n = p.n
  BY <1>5 DEF Verdict
<1>7. decided' = decided \cup {v} /\ decided' \subseteq Verdict
  BY <1>1, <1>3, <1>6
<1>8. /\ \A d \in decided : Request(d) # Request(v)
      /\ \A j \in DOMAIN queue' : Request(queue'[j]) # Request(v)
      /\ p.n <= sent[p.handler] /\ (p.open => p.n = sent[p.handler])
  <2>1. Request(v) = Request(queue[1])
    BY <1>4, <1>6 DEF Request
  <2>2. \A j \in DOMAIN queue' : j + 1 \in DOMAIN queue /\ j + 1 # 1
    BY <1>4
  <2>3. QED
    BY <1>3, <1>4, <2>1, <2>2 DEF Fresh
<1> HIDE DEF v
<1>9. ProbesAreFresh'
  <2> DEFINE f == [j \in DOMAIN queue' |-> j + 1]
  <2>1. \A j \in DOMAIN queue' : f[j] = j + 1 /\ f[j] \in DOMAIN queue /\ queue'[j] = queue[f[j]]
    BY <1>4
  <2>2. f \in [DOMAIN queue' -> DOMAIN queue]
    BY <2>1
  <2>3. \A i, j \in DOMAIN queue' : i # j => f[i] # f[j]
    BY <1>4, <2>1
  <2> HIDE DEF f
  <2>4. Fresh(queue', sent, decided)
    BY <1>3, <2>1, <2>2, <2>3, FewerProbesAreFresh
  <2>5. Fresh(queue', sent, decided')
    BY <1>6, <1>7, <1>8, <2>4 DEF Fresh
  <2>6. QED
    BY <1>2, <2>5 DEF ProbesAreFresh
<1>10. ActorTypes'
  <2>1. oneshot' \in [Handlers -> Reply]
    <3>1. [n |-> p.n, result |-> result] \in Reply
      BY <1>5, ActorAssumption DEF Reply
    <3>2. QED
      BY <1>1, <3>1 DEF AInv, ActorTypes
  <2>2. QED
    BY <1>2, <1>4, <1>7, <2>1 DEF AInv, ActorTypes
<1>11. \A h \in Handlers : h # p.handler => oneshot'[h] = oneshot[h]
  BY <1>1 DEF AInv, ActorTypes
<1>12. OpenProbesAreAwaited'
  <2> SUFFICES ASSUME NEW j \in DOMAIN queue', queue'[j].open
               PROVE  queue'[j].handler \in waiting' /\ oneshot'[queue'[j].handler] = NoReply
    BY DEF OpenProbesAreAwaited
  <2>1. j + 1 \in DOMAIN queue /\ queue'[j] = queue[j + 1] /\ queue'[j].handler \in Handlers
    BY <1>4, ProbeFields
  <2>2. queue'[j].handler \in waiting /\ oneshot[queue'[j].handler] = NoReply
    BY <2>1 DEF AInv, OpenProbesAreAwaited
  <2>3. queue'[j].n = sent[queue'[j].handler]
    BY <1>3, <2>1 DEF Fresh
  <2>4. CASE p.open
    <3>1. queue'[j].handler # p.handler
      BY <1>6, <1>8, <2>3, <2>4 DEF Request
    <3>2. QED
      BY <1>2, <1>11, <2>1, <2>2, <3>1
  <2>5. CASE ~p.open
    BY <1>1, <1>2, <2>2, <2>5
  <2>6. QED
    BY <2>4, <2>5
<1>13. RepliesAreCurrent'
  <2> SUFFICES ASSUME NEW h \in waiting', oneshot'[h] # NoReply
               PROVE  /\ oneshot'[h].n = sent'[h]
                      /\ \/ oneshot'[h].result = "closed" /\ ~running'
                         \/ [handler |-> h, n |-> sent'[h], result |-> oneshot'[h].result] \in decided'
    BY DEF RepliesAreCurrent
  <2>1. h \in waiting /\ h \in Handlers
    BY <1>2 DEF AInv, ActorTypes
  <2>2. CASE oneshot'[h] = oneshot[h]
    BY <1>2, <1>7, <2>1, <2>2 DEF AInv, RepliesAreCurrent
  <2>3. CASE oneshot'[h] # oneshot[h]
    <3>1. h = p.handler /\ p.open
      BY <1>1, <1>11, <2>1, <2>3
    <3>2. oneshot'[h] = [n |-> p.n, result |-> result]
      BY <1>1, <2>1, <3>1 DEF AInv, ActorTypes
    <3>3. p.n = sent[h]
      BY <1>8, <3>1
    <3>4. QED
      BY <1>2, <1>7, <3>1, <3>2, <3>3 DEF v
  <2>4. QED
    BY <2>2, <2>3
<1>14. ResponseMatchesVerdict'
  BY <1>2, <1>7 DEF AInv, ResponseMatchesVerdict
<1>15. /\ Len(history') <= Cardinality(ObservedRequests')
       /\ ip = Observed => Len(history) < MaxRequests
  <2>1. /\ IsFiniteSet(ObservedRequests) /\ Cardinality(ObservedRequests) \in Nat
        /\ Cardinality(ObservedRequests) <= MaxRequests
    BY <1>3, ObservedRequestsBound
  <2>2. Cardinality(ObservedRequests') \in Nat /\ Cardinality(ObservedRequests') <= MaxRequests
    <3>1. (decided \subseteq Verdict)'
      BY <1>7 DEF Verdict
    <3>2. (/\ IsFiniteSet(ObservedRequests)
           /\ Cardinality(ObservedRequests) \in Nat
           /\ Cardinality(ObservedRequests) <= MaxRequests)'
      BY <3>1, ObservedRequestsBound, PTL
    <3>3. QED
      BY <3>2
  <2>3. Len(history) \in Nat /\ Len(history) <= Cardinality(ObservedRequests)
    BY DEF AInv
  <2>4. Len(history') = IF ip = Observed THEN Len(history) + 1 ELSE Len(history)
    BY <1>1, ResumeRecords
  <2>5. CASE ip = Observed
    <3>1. ObservedRequests' = ObservedRequests \cup {Request(v)}
      BY <1>6, <1>7, <2>5 DEF ObservedRequests
    <3>2. Request(v) \notin ObservedRequests
      BY <1>8 DEF ObservedRequests
    <3>3. Cardinality(ObservedRequests') = Cardinality(ObservedRequests) + 1
      BY <2>1, <3>1, <3>2, FS_AddElement
    <3>4. QED
      BY <2>1, <2>2, <2>3, <2>4, <2>5, <3>3, ConstantsAssumption
  <2>6. CASE ip # Observed
    <3>1. ObservedRequests' = ObservedRequests
      BY <1>6, <1>7, <2>6 DEF ObservedRequests
    <3>2. QED
      BY <2>3, <2>4, <2>6, <3>1
  <2>7. QED
    BY <2>5, <2>6
<1>16. ip \in Ips /\ Probe(ip)
  BY <1>1, <1>5, <1>15, ActorAssumption DEF Probe
<1>17. QED
  BY <1>9, <1>10, <1>12, <1>13, <1>14, <1>15, <1>16 DEF AInv

\* Both invariants together; every step of the system is one of the limiter's.
SystemInv == IInv /\ AInv

\* Every step keeps the invariant of task and limiter, and is a step of the
\* limiter's own specification or none.
LEMMA ActorNextPreserves ==
    ASSUME SystemInv, [ActorNext]_allVars
    PROVE  SystemInv' /\ [Next]_vars
<1>1. /\ IInv /\ AInv /\ history \in Seq(Entry)
  BY DEF SystemInv, IInv
<1>2. AInv' /\ [Next]_vars
  <2>1. ASSUME NEW h \in Handlers, SendProbe(h) \/ SendFails(h) \/ ReceiveReply(h) \/ Abandon(h)
        PROVE  AInv' /\ [Next]_vars
    <3>1. AInv'
      BY <1>1, <2>1, SendProbePreserves, SendFailsPreserves, ReceiveReplyPreserves, AbandonPreserves
    <3>2. UNCHANGED vars
      BY <2>1 DEF SendProbe, SendFails, ReceiveReply, Abandon
    <3>3. QED
      BY <3>1, <3>2
  <2>2. CASE ServeProbe
    BY <1>1, <2>2, ServeProbePreserves DEF Next
  <2>3. CASE DropActor
    BY <1>1, <2>3, DropActorPreserves DEF DropActor
  <2>4. CASE ActorTick
    <3>1. Tick /\ UNCHANGED <<running, queue, waiting, oneshot, sent, status, decided, history>>
      BY <2>4 DEF ActorTick, actorVars, Tick
    <3>2. QED
      BY <1>1, <3>1 DEF Next, AInv, ActorTypes, ProbesAreFresh, OpenProbesAreAwaited, RepliesAreCurrent,
                        ResponseMatchesVerdict, ObservedRequests
  <2>5. CASE UNCHANGED allVars
    <3>1. UNCHANGED vars /\ UNCHANGED <<running, queue, waiting, oneshot, sent, status, decided, history>>
      BY <2>5 DEF allVars, actorVars, vars
    <3>2. QED
      BY <1>1, <3>1 DEF AInv, ActorTypes, ProbesAreFresh, OpenProbesAreAwaited, RepliesAreCurrent,
                        ResponseMatchesVerdict, ObservedRequests
  <2>6. QED
    BY <2>1, <2>2, <2>3, <2>4, <2>5 DEF ActorNext
<1>3. IInv'
  BY <1>1, <1>2, NextPreserves
<1>4. QED
  BY <1>2, <1>3 DEF SystemInv

\* The limiter and everything around it keep the invariant.
THEOREM ActorInvariant == ActorSpec => []SystemInv
<1>1. ActorInit => SystemInv
  BY ActorInitEstablishes, InitEstablishes DEF ActorInit, SystemInv
<1>2. SystemInv /\ [ActorNext]_allVars => SystemInv'
  BY ActorNextPreserves
<1>3. QED
  BY <1>1, <1>2, PTL DEF ActorSpec

\* A handler acts on the verdict can_resume gave for its own request, whatever
\* was abandoned before, however the probes were queued, and for any number of
\* connections and any channel capacity.
THEOREM VerdictsReachTheirRequest == ActorSpec => []ResponseMatchesVerdict
<1>1. SystemInv => ResponseMatchesVerdict
  BY DEF SystemInv, AInv
<1>2. QED
  BY <1>1, ActorInvariant, PTL

\* What the task does to its limiter: the initial states are the limiter's own,
\* and every step is one of can_resume or of the clock, or leaves it alone.
LEMMA LimiterInTheTask == ActorSpec => Spec
<1>1. ActorInit => Init
  BY DEF ActorInit
<1>2. SystemInv /\ [ActorNext]_allVars => [Next]_vars
  BY ActorNextPreserves
<1>3. QED
  BY <1>1, <1>2, ActorInvariant, PTL DEF ActorSpec, Spec

\* Hence the bounds on admissions hold for concurrent connections too.
THEOREM ConcurrentAdmissionBound == ActorSpec => [](AdmittedPerWindow /\ AdmittedInAnyPeriod)
BY LimiterInTheTask, AdmissionBound, AdmissionsInAnyPeriod, PTL

=============================================================================

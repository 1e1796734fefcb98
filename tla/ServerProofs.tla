---------------------------- MODULE ServerProofs ----------------------------
(***************************************************************************)
(* Proofs about modules Listeners and Server, for any number of listeners  *)
(* and connections, any timeouts and any configuration files: no listener  *)
(* cuts a connection early, and the process is gone within a bound after   *)
(* the signal, however slowly clients handshake with its HTTPS listeners.  *)
(*                                                                         *)
(* The bound is an accounting argument.  While an HTTPS listener's loop is *)
(* held by a handshake, time passes on the account of that connection,     *)
(* which has two timeouts to spend and is never accepted again; once the   *)
(* loop has seen the signal, time passes on the account of the listener.   *)
(***************************************************************************)
EXTENDS Server, FiniteSetTheorems, TLAPS

Shaking(c) == conn[c] \in Handshaking

\* Connections of l that are past their handshake, or never have one.
Done(l) == {c \in Connections : ListenerOf[c] = l /\ conn[c] \notin Handshaking \cup {"none", "queued"}}

\* The two timeouts of every connection of S.
Allowance(S) == 2 * HandshakeTimeout * Cardinality(S)

\* What a connection has used of its own.
Used(c) == IF conn[c] = "hello" THEN age[c] ELSE HandshakeTimeout + age[c]

Open(l) == loop[l] \notin {"unbound", "returned"}

-----------------------------------------------------------------------------
(* The inductive invariant. *)

\* The start of the process.
StartInv ==
    /\ file \in ConfigFiles /\ host \in SUBSET {"leap day", "no resolver"}
    /\ phase \in {"config", "parsed", "child", "binding", "running", "failed", "panicked"} \cup DOMAIN NextPhase
    /\ config_file \in {NoConfigFile, Deserialized(file)} /\ conf \in {NoConfig, Loaded(config_file)}
    /\ phase \in {"config", "parsed"} => started = 0 /\ conf = NoConfig
    /\ phase = "parsed" => config_file = Deserialized(file)
    /\ phase \notin {"config", "parsed", "failed"} =>
        config_file = Deserialized(file) /\ conf = Loaded(config_file) /\ Accepts(config_file)
    /\ started \in Nat
    /\ {l \in Listeners : loop[l] # "unbound"} = {conf.listeners[i].name : i \in 1..started}

\* A connection is made to a listener that is bound.
BoundInv == \A c \in Connections : conn[c] # "none" => loop[ListenerOf[c]] # "unbound"

\* The loop of an HTTPS listener is held by the one connection that handshakes.
HoldInv ==
    /\ \A c \in Connections : Shaking(c) /\ HoldsLoop(c) => loop[ListenerOf[c]] = "handshake"
    /\ \A c, e \in Connections :
        Shaking(c) /\ Shaking(e) /\ HoldsLoop(c) /\ ListenerOf[c] = ListenerOf[e] => c = e
    /\ \A l \in Listeners : loop[l] = "handshake" =>
        \E c \in Connections : ListenerOf[c] = l /\ Shaking(c) /\ HoldsLoop(c)

\* A listener that returned has waited for the connections it leaves behind.
WaitInv ==
    \A c \in Connections :
        (Shaking(c) \/ conn[c] = "serving") /\ loop[ListenerOf[c]] = "returned" =>
            waited[ListenerOf[c]] = ShutdownTimeout

\* The accounts.
TimeInv ==
    /\ phase # "running" \/ ~ shutdown => elapsed = 0
    /\ \A l \in Listeners : Open(l) /\ protocol[l] # "https" => elapsed <= waited[l]
    /\ \A l \in Listeners : Open(l) /\ protocol[l] = "https" /\ loop[l] # "handshake" =>
            elapsed <= waited[l] + Allowance(Done(l))
    /\ \A c \in Connections : Shaking(c) /\ HoldsLoop(c) =>
            elapsed <= waited[ListenerOf[c]] + Allowance(Done(ListenerOf[c])) + Used(c)

ServerInv ==
    /\ ListenTypeOK /\ StartInv /\ BoundInv /\ HoldInv /\ WaitInv /\ TimeInv
    /\ NoEarlyCut /\ ShutdownIsBounded

-----------------------------------------------------------------------------
(* Arithmetic of the accounts. *)

\* Sets of connections are finite; their allowance is a number.
LEMMA AllowanceType ==
    ASSUME NEW S \in SUBSET Connections
    PROVE  IsFiniteSet(S) /\ Cardinality(S) \in Nat /\ Allowance(S) \in Nat
<1>1. IsFiniteSet(S)
      BY ListenersAssumption, FS_Subset
<1>2. Cardinality(S) \in Nat
      BY <1>1, FS_CardinalityType
<1> QED BY <1>1, <1>2, ListenersAssumption DEF Allowance

\* Products with a natural number are monotone.
LEMMA TimesMonotone ==
    ASSUME NEW k \in Nat, NEW m \in Nat, NEW n \in Nat, m <= n
    PROVE  k * m <= k * n
OBVIOUS

\* More connections have no smaller allowance.
LEMMA AllowanceMonotone ==
    ASSUME NEW T \in SUBSET Connections, NEW S \in SUBSET T
    PROVE  Allowance(S) <= Allowance(T)
<1>1. /\ IsFiniteSet(T) /\ Cardinality(T) \in Nat /\ S \in SUBSET Connections
      BY AllowanceType
<1>2. Cardinality(S) <= Cardinality(T) /\ Cardinality(S) \in Nat
      BY <1>1, FS_Subset, AllowanceType
<1>3. 2 * HandshakeTimeout \in Nat
      BY ListenersAssumption
<1> QED BY <1>1, <1>2, <1>3, TimesMonotone DEF Allowance

\* One more connection has two timeouts more.
LEMMA AllowanceAdd ==
    ASSUME NEW S \in SUBSET Connections, NEW c \in Connections, c \notin S
    PROVE  Allowance(S \cup {c}) = Allowance(S) + 2 * HandshakeTimeout
<1>1. IsFiniteSet(S) /\ Cardinality(S) \in Nat
      BY AllowanceType
<1>2. Cardinality(S \cup {c}) = Cardinality(S) + 1
      BY <1>1, FS_AddElement
<1>3. \A k, n \in Nat : k * (n + 1) = k * n + k
      OBVIOUS
<1> QED BY <1>1, <1>2, <1>3, ListenersAssumption DEF Allowance

\* What the invariant says of one listener and one connection.
LEMMA Types ==
    ASSUME ServerInv
    PROVE  /\ ShutdownTimeout \in Nat /\ HandshakeTimeout \in Nat
           /\ elapsed \in Nat
           /\ \A l \in Listeners : /\ waited[l] \in 0..ShutdownTimeout
                                   /\ Done(l) \in SUBSET Connections
                                   /\ Allowance(Done(l)) \in Nat
           /\ \A c \in Connections : /\ age[c] \in 0..HandshakeTimeout /\ conn[c] \in ConnStates
                                     /\ ListenerOf[c] \in Listeners
                                     /\ Used(c) \in Nat
<1>1. \A l \in Listeners : Done(l) \in SUBSET Connections /\ Allowance(Done(l)) \in Nat
      BY AllowanceType DEF Done
<1>2. \A c \in Connections : /\ age[c] \in 0..HandshakeTimeout /\ conn[c] \in ConnStates
                             /\ ListenerOf[c] \in Listeners
      BY ListenersAssumption DEF ServerInv, ListenTypeOK
<1>3. \A c \in Connections : Used(c) \in Nat
      BY <1>2, ListenersAssumption DEF Used
<1> QED BY <1>1, <1>2, <1>3, ListenersAssumption DEF ServerInv, ListenTypeOK

\* The bound on the exit, as an allowance.
LEMMA ExitBoundIsAllowance ==
    ExitBound = ShutdownTimeout + Allowance({c \in Connections : HoldsLoop(c)})
BY DEF ExitBound, Allowance

-----------------------------------------------------------------------------
(* Steps of one connection. *)

\* What Become does.
LEMMA BecomeFacts ==
    ASSUME ListenTypeOK, NEW c \in Connections, NEW s \in ConnStates, Become(c, s)
    PROVE  /\ conn' \in [Connections -> ConnStates] /\ age' \in [Connections -> 0..HandshakeTimeout]
           /\ conn'[c] = s /\ age'[c] = 0
           /\ \A e \in Connections : e # c => conn'[e] = conn[e] /\ age'[e] = age[e]
BY ListenersAssumption DEF ListenTypeOK, Become

\* A step of the listeners that binds none and leaves the accounts of time alone.
LEMMA SameStart ==
    ASSUME ServerInv, UNCHANGED <<file, host, phase, config_file, conf, started>>,
           \A l \in Listeners : loop'[l] = "unbound" <=> loop[l] = "unbound"
    PROVE  StartInv'
<1>1. {l \in Listeners : loop'[l] # "unbound"} = {l \in Listeners : loop[l] # "unbound"}
      OBVIOUS
<1>2. {conf'.listeners[i].name : i \in 1..started'} = {conf.listeners[i].name : i \in 1..started}
      OBVIOUS
<1> QED BY <1>1, <1>2 DEF ServerInv, StartInv

\* The states from Connect to the end that no HTTPS handshake is part of: the
\* loops stay, and a connection past its handshake stays past it.
LEMMA QuietStep ==
    ASSUME ServerInv, NEW c \in Connections, NEW s \in ConnStates, Become(c, s),
           UNCHANGED <<protocol, loop, waited, full, shutdown, exited, elapsed>>,
           UNCHANGED <<file, host, phase, config_file, conf, started>>,
           s \notin {"none", "cut"}, loop[ListenerOf[c]] # "unbound",
           HoldsLoop(c) => ~ Shaking(c) /\ s \notin Handshaking,
           s \in Handshaking \cup {"serving"} =>
                Shaking(c) \/ conn[c] = "serving" \/ loop[ListenerOf[c]] # "returned",
           s \in Handshaking \cup {"queued"} => conn[c] \in Handshaking \cup {"none", "queued"}
    PROVE  ServerInv'
<1>1. /\ conn' \in [Connections -> ConnStates] /\ age' \in [Connections -> 0..HandshakeTimeout]
      /\ conn'[c] = s /\ age'[c] = 0
      /\ \A e \in Connections : e # c => conn'[e] = conn[e] /\ age'[e] = age[e]
      BY BecomeFacts DEF ServerInv
<1>2. ListenTypeOK' /\ StartInv'
      BY <1>1, SameStart DEF ServerInv, ListenTypeOK
<1>3. BoundInv'
      BY <1>1 DEF ServerInv, BoundInv
<1>4. \A e \in Connections : HoldsLoop(e)' <=> HoldsLoop(e)
      BY DEF HoldsLoop, KindOf
<1>5. \A e \in Connections : HoldsLoop(e) => (Shaking(e)' <=> Shaking(e))
      BY <1>1 DEF Shaking
<1>6. HoldInv'
  <2>1. \A e \in Connections : Shaking(e)' /\ HoldsLoop(e)' => loop'[ListenerOf[e]] = "handshake"
        BY <1>4, <1>5 DEF ServerInv, HoldInv
  <2>2. ASSUME NEW d \in Connections, NEW e \in Connections,
               Shaking(d)', Shaking(e)', HoldsLoop(d)', ListenerOf[d] = ListenerOf[e]
        PROVE  d = e
    <3>1. HoldsLoop(d) /\ HoldsLoop(e)
          BY <1>4, <2>2 DEF HoldsLoop, KindOf
    <3> QED BY <1>5, <2>2, <3>1 DEF ServerInv, HoldInv
  <2>3. ASSUME NEW l \in Listeners, loop'[l] = "handshake"
        PROVE  \E e \in Connections : ListenerOf[e] = l /\ Shaking(e)' /\ HoldsLoop(e)'
        BY <1>4, <1>5, <2>3 DEF ServerInv, HoldInv
  <2> QED BY <2>1, <2>2, <2>3 DEF HoldInv
<1>7. WaitInv'
      BY <1>1 DEF ServerInv, WaitInv, Shaking
<1>8. \A l \in Listeners : /\ Done(l)' \in SUBSET Connections /\ Done(l) \in SUBSET Done(l)'
                           /\ Allowance(Done(l)) <= Allowance(Done(l)')
                           /\ Allowance(Done(l)) \in Nat /\ Allowance(Done(l)') \in Nat
  <2>1. \A l \in Listeners : Done(l)' \in SUBSET Connections /\ Done(l) \in SUBSET Done(l)'
        BY <1>1 DEF Done, ConnStates, InFlight, Handshaking
  <2> QED BY <2>1, AllowanceMonotone, AllowanceType
<1>9. TimeInv'
  <2>1. ASSUME NEW e \in Connections, Shaking(e)', HoldsLoop(e)'
        PROVE  elapsed' <= waited'[ListenerOf[e]] + Allowance(Done(ListenerOf[e]))' + Used(e)'
    <3>1. e # c /\ Shaking(e) /\ HoldsLoop(e)
          BY <1>1, <1>4, <1>5, <2>1 DEF Shaking
    <3>2. elapsed <= waited[ListenerOf[e]] + Allowance(Done(ListenerOf[e])) + Used(e)
          BY <3>1 DEF ServerInv, TimeInv
    <3>3. Used(e)' = Used(e)
          BY <1>1, <3>1 DEF Used
    <3> QED BY <1>8, <3>2, <3>3, Types DEF Allowance
  <2>2. ASSUME NEW l \in Listeners, Open(l)', protocol'[l] = "https", loop'[l] # "handshake"
        PROVE  elapsed' <= waited'[l] + Allowance(Done(l))'
    <3>1. elapsed <= waited[l] + Allowance(Done(l))
          BY <2>2 DEF ServerInv, TimeInv, Open
    <3> QED BY <1>8, <3>1, Types DEF Allowance
  <2>3. /\ phase' # "running" \/ ~ shutdown' => elapsed' = 0
        /\ \A l \in Listeners : Open(l)' /\ protocol'[l] # "https" => elapsed' <= waited'[l]
        BY DEF ServerInv, TimeInv, Open
  <2> QED BY <2>1, <2>2, <2>3 DEF TimeInv
<1>10. NoEarlyCut'
      BY <1>1 DEF ServerInv, NoEarlyCut
<1>11. ShutdownIsBounded'
      BY <1>4 DEF ServerInv, ShutdownIsBounded, ExitBound, HoldsLoop, KindOf
<1> QED BY <1>2, <1>3, <1>6, <1>7, <1>9, <1>10, <1>11 DEF ServerInv

\* accept() of an HTTPS listener: the connection holds the loop.
LEMMA AcceptHttpsPreserves ==
    ASSUME ServerInv, NEW c \in Connections, AcceptHttps(c), UNCHANGED <<file, host, phase, config_file, conf, started>>
    PROVE  ServerInv'
<1> DEFINE l == ListenerOf[c]
<1>1. /\ conn[c] = "queued" /\ loop[l] = "accepting" /\ protocol[l] = "https" /\ Become(c, "hello")
      /\ loop' = [loop EXCEPT ![l] = "handshake"] /\ l \in Listeners
      /\ UNCHANGED <<protocol, waited, full, shutdown, exited, elapsed>>
      BY Types DEF AcceptHttps, Accepted, CanAccept, KindOf
<1>2. /\ conn' \in [Connections -> ConnStates] /\ age' \in [Connections -> 0..HandshakeTimeout]
      /\ conn'[c] = "hello" /\ age'[c] = 0
      /\ \A e \in Connections : e # c => conn'[e] = conn[e] /\ age'[e] = age[e]
      BY <1>1, BecomeFacts DEF ServerInv, ConnStates, Handshaking
<1>3. /\ loop' \in [Listeners -> {"unbound", "accepting", "handshake", "draining", "returned"}]
      /\ loop'[l] = "handshake" /\ \A k \in Listeners : k # l => loop'[k] = loop[k]
      BY <1>1 DEF ServerInv, ListenTypeOK
<1> HIDE DEF l
<1>4. ListenTypeOK' /\ StartInv'
      BY <1>1, <1>2, <1>3, SameStart DEF ServerInv, ListenTypeOK
<1>5. \A e \in Connections : /\ HoldsLoop(e)' <=> HoldsLoop(e)
                             /\ HoldsLoop(e) => protocol[ListenerOf[e]] = "https"
                             /\ e # c => (Shaking(e)' <=> Shaking(e))
                             /\ ListenerOf[e] \in Listeners
      BY <1>1, <1>2, Types DEF HoldsLoop, KindOf, Shaking
<1>6. \A e \in Connections : ListenerOf[e] = l => ~ Shaking(e) /\ HoldsLoop(e)
      BY <1>1 DEF ServerInv, HoldInv, HoldsLoop, KindOf, l
<1>7. Shaking(c)' /\ HoldsLoop(c)' /\ ListenerOf[c] = l
      BY <1>2, <1>5, <1>6 DEF Shaking, Handshaking, l
<1>8. BoundInv'
      BY <1>1, <1>2, <1>3, <1>7, Types DEF ServerInv, BoundInv
<1>9. HoldInv'
  <2>1. ASSUME NEW e \in Connections, Shaking(e)', HoldsLoop(e)'
        PROVE  loop'[ListenerOf[e]] = "handshake"
        BY <1>3, <1>5, <1>7, <2>1 DEF ServerInv, HoldInv
  <2>2. ASSUME NEW d \in Connections, NEW e \in Connections,
               Shaking(d)', Shaking(e)', HoldsLoop(d)', ListenerOf[d] = ListenerOf[e]
        PROVE  d = e
        BY <1>5, <1>6, <1>7, <2>2 DEF ServerInv, HoldInv
  <2>3. ASSUME NEW k \in Listeners, loop'[k] = "handshake"
        PROVE  \E e \in Connections : ListenerOf[e] = k /\ Shaking(e)' /\ HoldsLoop(e)'
    <3>1. CASE k = l
          BY <1>7, <3>1
    <3>2. CASE k # l
      <4>1. PICK e \in Connections : ListenerOf[e] = k /\ Shaking(e) /\ HoldsLoop(e)
            BY <1>3, <2>3, <3>2 DEF ServerInv, HoldInv
      <4> QED BY <1>5, <1>7, <3>2, <4>1
    <3> QED BY <3>1, <3>2
  <2> QED BY <2>1, <2>2, <2>3 DEF HoldInv
<1>10. WaitInv'
      BY <1>1, <1>2, <1>3, <1>5, <1>7 DEF ServerInv, WaitInv, Shaking
<1>11. \A k \in Listeners : Done(k)' = Done(k)
      BY <1>1, <1>2 DEF Done, Handshaking
<1>12. TimeInv'
  <2>1. ASSUME NEW e \in Connections, Shaking(e)', HoldsLoop(e)'
        PROVE  elapsed' <= waited'[ListenerOf[e]] + Allowance(Done(ListenerOf[e]))' + Used(e)'
    <3>1. CASE e = c
      <4>1. elapsed <= waited[l] + Allowance(Done(l)) /\ Used(c)' = 0
            BY <1>1, <1>2 DEF ServerInv, TimeInv, Open, Used
      <4> QED BY <1>1, <1>7, <1>11, <3>1, <4>1, Types DEF Allowance
    <3>2. CASE e # c
      <4>1. elapsed <= waited[ListenerOf[e]] + Allowance(Done(ListenerOf[e])) + Used(e)
            BY <1>5, <2>1, <3>2 DEF ServerInv, TimeInv
      <4>2. Used(e)' = Used(e)
            BY <1>2, <3>2 DEF Used
      <4> QED BY <1>1, <1>5, <1>11, <4>1, <4>2 DEF Allowance
    <3> QED BY <3>1, <3>2
  <2>2. ASSUME NEW k \in Listeners, Open(k)', protocol'[k] = "https", loop'[k] # "handshake"
        PROVE  elapsed' <= waited'[k] + Allowance(Done(k))'
    <3>1. k # l
          BY <1>3, <2>2
    <3>2. elapsed <= waited[k] + Allowance(Done(k))
          BY <1>1, <1>3, <2>2, <3>1 DEF ServerInv, TimeInv, Open
    <3> QED BY <1>1, <1>11, <3>2 DEF Allowance
  <2>3. /\ phase' # "running" \/ ~ shutdown' => elapsed' = 0
        /\ \A k \in Listeners : Open(k)' /\ protocol'[k] # "https" => elapsed' <= waited'[k]
        BY <1>1, <1>3 DEF ServerInv, TimeInv, Open
  <2> QED BY <2>1, <2>2, <2>3 DEF TimeInv
<1>13. NoEarlyCut'
      BY <1>1, <1>2 DEF ServerInv, NoEarlyCut
<1>14. ShutdownIsBounded'
      BY <1>1, <1>5 DEF ServerInv, ShutdownIsBounded, ExitBound, HoldsLoop, KindOf
<1> QED BY <1>4, <1>8, <1>9, <1>10, <1>12, <1>13, <1>14 DEF ServerInv

\* The second phase of an HTTPS handshake begins, with a timeout of its own.
LEMMA SecondPhasePreserves ==
    ASSUME ServerInv, NEW c \in Connections, conn[c] = "hello", HoldsLoop(c),
           NEW s \in {"config", "acme"}, Become(c, s),
           UNCHANGED <<protocol, loop, waited, full, shutdown, exited, elapsed>>,
           UNCHANGED <<file, host, phase, config_file, conf, started>>
    PROVE  ServerInv'
<1>1. s \in ConnStates /\ s \in Handshaking /\ conn[c] \in Handshaking
      BY DEF ConnStates, Handshaking
<1>2. /\ conn' \in [Connections -> ConnStates] /\ age' \in [Connections -> 0..HandshakeTimeout]
      /\ conn'[c] = s /\ age'[c] = 0
      /\ \A e \in Connections : e # c => conn'[e] = conn[e] /\ age'[e] = age[e]
      BY <1>1, BecomeFacts DEF ServerInv
<1>3. ListenTypeOK' /\ StartInv'
      BY <1>2, SameStart DEF ServerInv, ListenTypeOK
<1>4. \A e \in Connections : (HoldsLoop(e)' <=> HoldsLoop(e)) /\ (Shaking(e)' <=> Shaking(e))
      BY <1>1, <1>2 DEF HoldsLoop, KindOf, Shaking
<1>5. HoldInv'
      BY <1>4 DEF ServerInv, HoldInv
<1>6. BoundInv' /\ WaitInv' /\ NoEarlyCut'
      BY <1>1, <1>2, <1>4 DEF ServerInv, BoundInv, WaitInv, NoEarlyCut, Handshaking
<1>7. \A k \in Listeners : Done(k)' = Done(k)
      BY <1>1, <1>2 DEF Done
<1>8. TimeInv'
  <2>1. ASSUME NEW e \in Connections, Shaking(e)', HoldsLoop(e)'
        PROVE  elapsed' <= waited'[ListenerOf[e]] + Allowance(Done(ListenerOf[e]))' + Used(e)'
    <3>1. elapsed <= waited[ListenerOf[e]] + Allowance(Done(ListenerOf[e])) + Used(e)
          BY <1>4, <2>1 DEF ServerInv, TimeInv
    <3>2. Used(e) <= Used(e)' /\ Used(e)' \in Nat
          BY <1>2, Types DEF Used
    <3>3. ListenerOf[e] \in Listeners /\ Done(ListenerOf[e])' = Done(ListenerOf[e])
          BY <1>7, Types
    <3> QED BY <3>1, <3>2, <3>3, Types DEF Allowance
  <2>2. ASSUME NEW k \in Listeners, Open(k)', protocol'[k] = "https", loop'[k] # "handshake"
        PROVE  elapsed' <= waited'[k] + Allowance(Done(k))'
        BY <1>7, <2>2 DEF ServerInv, TimeInv, Open, Allowance
  <2>3. /\ phase' # "running" \/ ~ shutdown' => elapsed' = 0
        /\ \A k \in Listeners : Open(k)' /\ protocol'[k] # "https" => elapsed' <= waited'[k]
        BY DEF ServerInv, TimeInv, Open
  <2> QED BY <2>1, <2>2, <2>3 DEF TimeInv
<1>9. ShutdownIsBounded'
      BY DEF ServerInv, ShutdownIsBounded, ExitBound, HoldsLoop, KindOf
<1> QED BY <1>3, <1>5, <1>6, <1>8, <1>9 DEF ServerInv

\* An HTTPS handshake is over, and the loop free: the connection has spent
\* its allowance and is never accepted again.
LEMMA ReleasePreserves ==
    ASSUME ServerInv, NEW c \in Connections, Shaking(c), HoldsLoop(c),
           NEW s \in {"serving", "closed"}, Become(c, s), Resume(c),
           UNCHANGED <<protocol, waited, full, shutdown, exited, elapsed>>,
           UNCHANGED <<file, host, phase, config_file, conf, started>>
    PROVE  ServerInv'
<1> DEFINE l == ListenerOf[c]
<1>1. /\ s \in ConnStates /\ s \notin Handshaking /\ s \notin {"none", "queued", "cut"}
      /\ loop' = [loop EXCEPT ![l] = "accepting"] /\ l \in Listeners /\ loop[l] = "handshake"
      /\ protocol[l] = "https"
      BY Types DEF ConnStates, Handshaking, InFlight, Resume, ServerInv, HoldInv, HoldsLoop, KindOf
<1>2. /\ conn' \in [Connections -> ConnStates] /\ age' \in [Connections -> 0..HandshakeTimeout]
      /\ conn'[c] = s /\ age'[c] = 0
      /\ \A e \in Connections : e # c => conn'[e] = conn[e] /\ age'[e] = age[e]
      BY <1>1, BecomeFacts DEF ServerInv
<1>3. /\ loop' \in [Listeners -> {"unbound", "accepting", "handshake", "draining", "returned"}]
      /\ loop'[l] = "accepting" /\ \A k \in Listeners : k # l => loop'[k] = loop[k]
      BY <1>1 DEF ServerInv, ListenTypeOK
<1>4. /\ \A e \in Connections : ListenerOf[e] = l /\ Shaking(e) => e = c
      /\ ListenerOf[c] = l
      BY DEF ServerInv, HoldInv
<1> HIDE DEF l
<1>5. ListenTypeOK' /\ StartInv'
      BY <1>1, <1>2, <1>3, SameStart DEF ServerInv, ListenTypeOK
<1>6. \A e \in Connections : /\ HoldsLoop(e)' <=> HoldsLoop(e)
                             /\ e # c => (Shaking(e)' <=> Shaking(e))
                             /\ ~ Shaking(c)'
                             /\ ListenerOf[e] \in Listeners
      BY <1>1, <1>2, Types DEF HoldsLoop, KindOf, Shaking
<1>7. BoundInv' /\ WaitInv' /\ NoEarlyCut'
  <2>1. BoundInv'
        BY <1>1, <1>2, <1>3, <1>4, <1>6 DEF ServerInv, BoundInv
  <2>2. WaitInv'
        BY <1>1, <1>2, <1>3, <1>4, <1>6 DEF ServerInv, WaitInv
  <2>3. NoEarlyCut'
        BY <1>1, <1>2 DEF ServerInv, NoEarlyCut
  <2> QED BY <2>1, <2>2, <2>3
<1>8. HoldInv'
  <2>1. ASSUME NEW e \in Connections, Shaking(e)', HoldsLoop(e)'
        PROVE  loop'[ListenerOf[e]] = "handshake"
    <3>1. e # c /\ Shaking(e) /\ HoldsLoop(e) /\ ListenerOf[e] # l
          BY <1>4, <1>6, <2>1
    <3> QED BY <1>3, <1>6, <3>1 DEF ServerInv, HoldInv
  <2>2. ASSUME NEW d \in Connections, NEW e \in Connections,
               Shaking(d)', Shaking(e)', HoldsLoop(d)', ListenerOf[d] = ListenerOf[e]
        PROVE  d = e
        BY <1>6, <2>2 DEF ServerInv, HoldInv
  <2>3. ASSUME NEW k \in Listeners, loop'[k] = "handshake"
        PROVE  \E e \in Connections : ListenerOf[e] = k /\ Shaking(e)' /\ HoldsLoop(e)'
    <3>1. k # l /\ loop[k] = "handshake"
          BY <1>3, <2>3
    <3>2. PICK e \in Connections : ListenerOf[e] = k /\ Shaking(e) /\ HoldsLoop(e)
          BY <3>1 DEF ServerInv, HoldInv
    <3> QED BY <1>4, <1>6, <3>1, <3>2
  <2> QED BY <2>1, <2>2, <2>3 DEF HoldInv
<1>9. /\ Done(l)' = Done(l) \cup {c} /\ c \notin Done(l)
      /\ \A k \in Listeners : k # l => Done(k)' = Done(k)
      BY <1>1, <1>2, <1>4 DEF Done, Shaking
<1>10. Allowance(Done(l)') = Allowance(Done(l)) + 2 * HandshakeTimeout
      BY <1>1, <1>9, AllowanceAdd, Types
<1>11. TimeInv'
  <2>1. ASSUME NEW e \in Connections, Shaking(e)', HoldsLoop(e)'
        PROVE  elapsed' <= waited'[ListenerOf[e]] + Allowance(Done(ListenerOf[e]))' + Used(e)'
    <3>1. e # c /\ Shaking(e) /\ HoldsLoop(e) /\ ListenerOf[e] # l
          BY <1>4, <1>6, <2>1
    <3>2. elapsed <= waited[ListenerOf[e]] + Allowance(Done(ListenerOf[e])) + Used(e)
          BY <3>1 DEF ServerInv, TimeInv
    <3>3. Used(e)' = Used(e)
          BY <1>2, <3>1 DEF Used
    <3> QED BY <1>6, <1>9, <3>1, <3>2, <3>3 DEF Allowance
  <2>2. ASSUME NEW k \in Listeners, Open(k)', protocol'[k] = "https", loop'[k] # "handshake"
        PROVE  elapsed' <= waited'[k] + Allowance(Done(k))'
    <3>1. CASE k = l
      <4>1. elapsed <= waited[l] + Allowance(Done(l)) + Used(c)
            BY <1>4 DEF ServerInv, TimeInv
      <4>2. Used(c) <= 2 * HandshakeTimeout
            BY Types DEF Used
      <4>3. elapsed <= waited[l] + Allowance(Done(l)')
            BY <1>1, <1>10, <4>1, <4>2, Types
      <4> QED BY <3>1, <4>3 DEF Allowance
    <3>2. CASE k # l
      <4>1. elapsed <= waited[k] + Allowance(Done(k))
            BY <1>1, <1>3, <2>2, <3>2 DEF ServerInv, TimeInv, Open
      <4> QED BY <1>9, <3>2, <4>1 DEF Allowance
    <3> QED BY <3>1, <3>2
  <2>3. /\ phase' # "running" \/ ~ shutdown' => elapsed' = 0
        /\ \A k \in Listeners : Open(k)' /\ protocol'[k] # "https" => elapsed' <= waited'[k]
        BY <1>1, <1>3 DEF ServerInv, TimeInv, Open
  <2> QED BY <2>1, <2>2, <2>3 DEF TimeInv
<1>12. ShutdownIsBounded'
      BY DEF ServerInv, ShutdownIsBounded, ExitBound, HoldsLoop, KindOf
<1> QED BY <1>5, <1>7, <1>8, <1>11, <1>12 DEF ServerInv

\* The end of a handshake, whoever holds the loop.
LEMMA HandshakeEnds ==
    ASSUME ServerInv, NEW c \in Connections, Shaking(c),
           NEW s \in {"serving", "closed"}, Become(c, s), Resume(c),
           UNCHANGED <<protocol, waited, full, shutdown, exited, elapsed>>,
           UNCHANGED <<file, host, phase, config_file, conf, started>>
    PROVE  ServerInv'
<1>1. CASE HoldsLoop(c)
      BY <1>1, ReleasePreserves
<1>2. CASE ~ HoldsLoop(c)
  <2>1. loop' = loop /\ s \in ConnStates /\ s \notin Handshaking \cup {"none", "cut", "queued"}
        BY <1>2 DEF Resume, ConnStates, Handshaking, InFlight
  <2>2. loop[ListenerOf[c]] # "unbound"
        BY DEF ServerInv, BoundInv, Shaking, Handshaking
  <2> QED BY <1>2, <2>1, <2>2, QuietStep
<1> QED BY <1>1, <1>2

\* Steps of connections preserve the invariant.
LEMMA ConnectionStepPreserves ==
    ASSUME ServerInv, NEW c \in Connections, ConnectionStep(c), UNCHANGED <<file, host, phase, config_file, conf, started>>
    PROVE  ServerInv'
<1>1. CASE Connect(c)
  <2>1. "queued" \in ConnStates /\ "queued" \notin Handshaking
        BY DEF ConnStates, Handshaking
  <2> QED BY <1>1, <2>1, QuietStep DEF Connect, Shaking, Handshaking
<1>2. ASSUME NEW p \in {"http", "tcp", "tcp+tls"}, NEW s \in {"serving", "hello"},
             Accepted(c, p, s), UNCHANGED loop
      PROVE  ServerInv'
  <2>1. s \in ConnStates /\ s \notin {"none", "cut"}
        BY DEF ConnStates, Handshaking, InFlight
  <2>2. /\ conn[c] = "queued" /\ loop[ListenerOf[c]] = "accepting" /\ ~ HoldsLoop(c) /\ Become(c, s)
        /\ UNCHANGED <<protocol, waited, full, shutdown, exited, elapsed>>
        BY <1>2 DEF Accepted, CanAccept, HoldsLoop
  <2> QED BY <1>2, <2>1, <2>2, QuietStep
<1>3. CASE Accept(c)
      BY <1>2, <1>3, AcceptHttpsPreserves DEF Accept, AcceptHttp, AcceptTcp, AcceptTcpAndTls
<1>4. CASE AcceptFails(c)
  <2>1. "closed" \in ConnStates /\ "closed" \notin Handshaking
        BY DEF ConnStates, Handshaking
  <2> QED BY <1>4, <2>1, QuietStep DEF AcceptFails, Shaking, Handshaking
<1>5. CASE ClientHello(c)
  <2>1. PICK s \in {"config", "acme"} : Become(c, s)
        BY <1>5 DEF ClientHello
  <2>2. /\ conn[c] = "hello" /\ Shaking(c)
        /\ UNCHANGED <<protocol, loop, waited, full, shutdown, exited, elapsed>>
        BY <1>5 DEF ClientHello, Shaking, Handshaking
  <2>3. CASE HoldsLoop(c)
        BY <2>1, <2>2, <2>3, SecondPhasePreserves
  <2>4. CASE ~ HoldsLoop(c)
    <3>1. s \in ConnStates /\ s \notin {"none", "cut"} /\ conn[c] \in Handshaking
          BY <2>2 DEF ConnStates, Handshaking, Shaking
    <3>2. loop[ListenerOf[c]] # "unbound"
          BY <2>2 DEF ServerInv, BoundInv
    <3> QED BY <2>1, <2>2, <2>4, <3>1, <3>2, QuietStep
  <2> QED BY <2>3, <2>4
<1>6. CASE HandshakeDone(c)
  <2>1. /\ Shaking(c) /\ Resume(c) /\ UNCHANGED <<protocol, waited, full, shutdown, exited, elapsed>>
        /\ \E s \in {"serving", "closed"} : Become(c, s)
        BY <1>6 DEF HandshakeDone, Shaking, Handshaking
  <2> QED BY <2>1, HandshakeEnds
<1>7. CASE HandshakeError(c) \/ HandshakeExpires(c)
  <2>1. /\ Shaking(c) /\ Resume(c) /\ UNCHANGED <<protocol, waited, full, shutdown, exited, elapsed>>
        /\ Become(c, "closed")
        BY <1>7 DEF HandshakeError, HandshakeExpires, Shaking
  <2> QED BY <2>1, HandshakeEnds
<1>8. CASE Detach(c) \/ Finish(c)
  <2>1. PICK s \in {"detached", "closed"} : Become(c, s)
        BY <1>8 DEF Detach, Finish
  <2>2. /\ conn[c] \in {"serving", "detached"}
        /\ UNCHANGED <<protocol, loop, waited, full, shutdown, exited, elapsed>>
        BY <1>8 DEF Detach, Finish, InFlight
  <2>3. s \in ConnStates /\ s \notin Handshaking \cup {"none", "cut", "queued", "serving"} /\ ~ Shaking(c)
        BY <2>2 DEF ConnStates, Handshaking, InFlight, Shaking
  <2>4. loop[ListenerOf[c]] # "unbound"
        BY <2>2 DEF ServerInv, BoundInv
  <2> QED BY <2>1, <2>2, <2>3, <2>4, QuietStep
<1> QED BY <1>1, <1>3, <1>4, <1>5, <1>6, <1>7, <1>8 DEF ConnectionStep, ClientStep

-----------------------------------------------------------------------------
(* Steps of the listeners, and time. *)

\* A listener's loop goes on to a state that no handshake holds, and
\* connections stay as they are but those that are cut.
LEMMA LoopMoves ==
    ASSUME ServerInv, NEW l \in Listeners, NEW s \in {"draining", "returned"},
           loop' = [loop EXCEPT ![l] = s], loop[l] \in {"accepting", "draining"},
           UNCHANGED <<protocol, waited, age, full, shutdown, exited, elapsed>>,
           UNCHANGED <<file, host, phase, config_file, conf, started>>,
           NEW cut \in SUBSET {c \in Connections : ListenerOf[c] = l},
           conn' = [c \in Connections |-> IF c \in cut THEN "cut" ELSE conn[c]],
           cut # {} => protocol[l] # "https" /\ s = "returned" /\ waited[l] = ShutdownTimeout,
           \A c \in cut : conn[c] # "none",
           s = "returned" => Tracked(l) = {} \/ waited[l] = ShutdownTimeout
    PROVE  ServerInv'
<1>1. /\ conn' \in [Connections -> ConnStates]
      /\ \A c \in Connections : conn'[c] = IF c \in cut THEN "cut" ELSE conn[c]
      BY Types DEF ConnStates
<1>2. /\ loop' \in [Listeners -> {"unbound", "accepting", "handshake", "draining", "returned"}]
      /\ loop'[l] = s /\ \A k \in Listeners : k # l => loop'[k] = loop[k]
      BY DEF ServerInv, ListenTypeOK
<1>3. ListenTypeOK' /\ StartInv'
      BY <1>1, <1>2, SameStart DEF ServerInv, ListenTypeOK
<1>4. \A c \in Connections : /\ HoldsLoop(c)' <=> HoldsLoop(c)
                             /\ ListenerOf[c] \in Listeners
                             /\ Shaking(c)' <=> (Shaking(c) /\ c \notin cut)
                             /\ c \in cut => ~ HoldsLoop(c)
      BY <1>1, Types DEF HoldsLoop, KindOf, Shaking, Handshaking
<1>5. BoundInv' /\ NoEarlyCut'
      BY <1>1, <1>2, <1>4 DEF ServerInv, BoundInv, NoEarlyCut
<1>6. HoldInv'
  <2>1. ASSUME NEW e \in Connections, Shaking(e)', HoldsLoop(e)'
        PROVE  loop'[ListenerOf[e]] = "handshake"
        BY <1>2, <1>4, <2>1 DEF ServerInv, HoldInv
  <2>2. ASSUME NEW d \in Connections, NEW e \in Connections,
               Shaking(d)', Shaking(e)', HoldsLoop(d)', ListenerOf[d] = ListenerOf[e]
        PROVE  d = e
        BY <1>4, <2>2 DEF ServerInv, HoldInv
  <2>3. ASSUME NEW k \in Listeners, loop'[k] = "handshake"
        PROVE  \E e \in Connections : ListenerOf[e] = k /\ Shaking(e)' /\ HoldsLoop(e)'
    <3>1. k # l /\ loop[k] = "handshake"
          BY <1>2, <2>3
    <3>2. PICK e \in Connections : ListenerOf[e] = k /\ Shaking(e) /\ HoldsLoop(e)
          BY <3>1 DEF ServerInv, HoldInv
    <3> QED BY <1>4, <3>2
  <2> QED BY <2>1, <2>2, <2>3 DEF HoldInv
<1>7. WaitInv'
  <2>1. SUFFICES ASSUME NEW c \in Connections, Shaking(c)' \/ conn'[c] = "serving",
                        loop'[ListenerOf[c]] = "returned"
                 PROVE  waited[ListenerOf[c]] = ShutdownTimeout
        BY DEF WaitInv
  <2>2. Shaking(c) \/ conn[c] = "serving"
        BY <1>1, <1>4, <2>1
  <2>3. CASE ListenerOf[c] = l
        BY <1>2, <2>1, <2>2, <2>3 DEF Tracked, Shaking
  <2>4. CASE ListenerOf[c] # l
        BY <1>2, <1>4, <2>1, <2>2, <2>4 DEF ServerInv, WaitInv
  <2> QED BY <2>3, <2>4
<1>8. \A k \in Listeners : k # l \/ cut = {} => Done(k)' = Done(k)
      BY <1>1 DEF Done
<1>9. TimeInv'
  <2>1. ASSUME NEW e \in Connections, Shaking(e)', HoldsLoop(e)'
        PROVE  elapsed' <= waited'[ListenerOf[e]] + Allowance(Done(ListenerOf[e]))' + Used(e)'
    <3>1. Shaking(e) /\ HoldsLoop(e) /\ ListenerOf[e] # l /\ e \notin cut
          BY <1>4, <2>1 DEF ServerInv, HoldInv
    <3>2. elapsed <= waited[ListenerOf[e]] + Allowance(Done(ListenerOf[e])) + Used(e)
          BY <3>1 DEF ServerInv, TimeInv
    <3>3. Used(e)' = Used(e)
          BY <1>1, <3>1 DEF Used
    <3> QED BY <1>4, <1>8, <3>1, <3>2, <3>3 DEF Allowance
  <2>2. ASSUME NEW k \in Listeners, Open(k)', protocol'[k] = "https", loop'[k] # "handshake"
        PROVE  elapsed' <= waited'[k] + Allowance(Done(k))'
    <3>1. elapsed <= waited[k] + Allowance(Done(k))
          BY <1>2, <2>2 DEF ServerInv, TimeInv, Open
    <3>2. Done(k)' = Done(k)
          BY <1>8, <2>2
    <3> QED BY <3>1, <3>2 DEF Allowance
  <2>3. /\ phase' # "running" \/ ~ shutdown' => elapsed' = 0
        /\ \A k \in Listeners : Open(k)' /\ protocol'[k] # "https" => elapsed' <= waited'[k]
        BY <1>2 DEF ServerInv, TimeInv, Open
  <2> QED BY <2>1, <2>2, <2>3 DEF TimeInv
<1>10. ShutdownIsBounded'
      BY DEF ServerInv, ShutdownIsBounded, ExitBound, HoldsLoop, KindOf
<1> QED BY <1>3, <1>5, <1>6, <1>7, <1>9, <1>10 DEF ServerInv

\* The branches of a listener's loop that the signal makes ready.
LEMMA ListenerStepPreserves ==
    ASSUME ServerInv, NEW l \in Listeners, ListenerStep(l), UNCHANGED <<file, host, phase, config_file, conf, started>>
    PROVE  ServerInv'
<1>1. conn = [c \in Connections |-> conn[c]]
      BY DEF ServerInv, ListenTypeOK
<1>2. waited[l] \in 0..ShutdownTimeout /\ ShutdownTimeout \in Nat
      BY Types
<1>3. CASE StopAccepting(l)
  <2>1. /\ loop[l] = "accepting" /\ loop' = [loop EXCEPT ![l] = "draining"] /\ conn' = conn
        /\ UNCHANGED <<protocol, waited, age, full, shutdown, exited, elapsed>>
        BY <1>3 DEF StopAccepting
  <2> DEFINE cut == {c \in Connections : FALSE}
  <2>2. /\ cut \in SUBSET {c \in Connections : ListenerOf[c] = l} /\ cut = {}
        /\ \A c \in cut : conn[c] # "none"
        OBVIOUS
  <2>3. conn' = [c \in Connections |-> IF c \in cut THEN "cut" ELSE conn[c]]
        BY <1>1, <2>1
  <2> HIDE DEF cut
  <2> QED BY <2>1, <2>2, <2>3, LoopMoves
<1>4. CASE Drained(l)
  <2>1. /\ loop[l] = "draining" /\ loop' = [loop EXCEPT ![l] = "returned"] /\ conn' = conn
        /\ Tracked(l) = {}
        /\ UNCHANGED <<protocol, waited, age, full, shutdown, exited, elapsed>>
        BY <1>4 DEF Drained
  <2> DEFINE cut == {c \in Connections : FALSE}
  <2>2. /\ cut \in SUBSET {c \in Connections : ListenerOf[c] = l} /\ cut = {}
        /\ \A c \in cut : conn[c] # "none"
        OBVIOUS
  <2>3. conn' = [c \in Connections |-> IF c \in cut THEN "cut" ELSE conn[c]]
        BY <1>1, <2>1
  <2> HIDE DEF cut
  <2> QED BY <2>1, <2>2, <2>3, LoopMoves
<1>5. CASE GiveUp(l)
  <2> DEFINE cut == {c \in Tracked(l) : protocol[l] \notin Http}
  <2>1. /\ loop[l] = "draining" /\ loop' = [loop EXCEPT ![l] = "returned"]
        /\ waited[l] = ShutdownTimeout
        /\ UNCHANGED <<protocol, waited, age, full, shutdown, exited, elapsed>>
        /\ conn' = [c \in Connections |->
                        IF c \in Tracked(l) /\ protocol[l] \notin Http THEN "cut" ELSE conn[c]]
        BY <1>2, <1>5 DEF GiveUp
  <2>2. /\ cut \in SUBSET {c \in Connections : ListenerOf[c] = l}
        /\ cut # {} => protocol[l] # "https"
        /\ \A c \in cut : conn[c] # "none"
        BY DEF Tracked, Http, Handshaking
  <2>3. conn' = [c \in Connections |-> IF c \in cut THEN "cut" ELSE conn[c]]
        BY <2>1
  <2> HIDE DEF cut
  <2> QED BY <2>1, <2>2, <2>3, LoopMoves
<1> QED BY <1>3, <1>4, <1>5 DEF ListenerStep

\* Descriptors run out or come back, or the signal arrives: the accounts begin.
LEMMA SignalsPreserve ==
    ASSUME ServerInv, full' \in BOOLEAN, shutdown' \in BOOLEAN, shutdown => shutdown',
           UNCHANGED <<protocol, loop, waited, conn, age, exited, elapsed>>,
           UNCHANGED <<file, host, phase, config_file, conf, started>>
    PROVE  ServerInv'
<1>1. ListenTypeOK' /\ StartInv'
      BY SameStart DEF ServerInv, ListenTypeOK
<1>2. /\ \A l \in Listeners : Done(l)' = Done(l) /\ (Open(l)' <=> Open(l))
      /\ \A c \in Connections : /\ HoldsLoop(c)' <=> HoldsLoop(c)
                                /\ Shaking(c)' <=> Shaking(c)
                                /\ Used(c)' = Used(c) /\ ListenerOf[c] \in Listeners
      BY Types DEF Done, Open, HoldsLoop, KindOf, Shaking, Used
<1>3. BoundInv' /\ HoldInv' /\ WaitInv' /\ NoEarlyCut'
      BY <1>2 DEF ServerInv, BoundInv, HoldInv, WaitInv, NoEarlyCut
<1>4. TimeInv'
      BY <1>2 DEF ServerInv, TimeInv, Allowance
<1>5. ShutdownIsBounded'
      BY DEF ServerInv, ShutdownIsBounded, ExitBound, HoldsLoop, KindOf
<1> QED BY <1>1, <1>3, <1>4, <1>5 DEF ServerInv

\* Time passes, on the account of whoever keeps the process from ending.
LEMMA TickPreserves ==
    ASSUME ServerInv, Tick, UNCHANGED <<file, host, phase, config_file, conf, started>>, phase = "running"
    PROVE  ServerInv'
<1>1. /\ UNCHANGED <<protocol, loop, conn, full, shutdown, exited>>
      /\ waited' = [l \in Listeners |-> IF loop[l] = "draining" THEN waited[l] + 1 ELSE waited[l]]
      /\ age' = [c \in Connections |-> IF Shaking(c) THEN age[c] + 1 ELSE age[c]]
      /\ elapsed' = IF shutdown /\ elapsed <= ExitBound THEN elapsed + 1 ELSE elapsed
      BY DEF Tick, Shaking
<1>2. /\ \A c \in Connections : Shaking(c) => ~ (age[c] >= HandshakeTimeout)
      /\ \A l \in Listeners : loop[l] = "draining" => ~ (waited[l] >= ShutdownTimeout)
      /\ shutdown => \A l \in Listeners : loop[l] # "accepting"
      /\ \E l \in Listeners : Open(l)
      BY DEF Tick, Urgent, TimedOut, Shaking, AllReturned, Open
<1>3. /\ waited' \in [Listeners -> 0..ShutdownTimeout]
      /\ \A l \in Listeners : /\ waited[l] <= waited'[l]
                              /\ loop[l] = "draining" => waited'[l] = waited[l] + 1
                              /\ loop[l] # "draining" => waited'[l] = waited[l]
                              /\ waited[l] = ShutdownTimeout => waited'[l] = ShutdownTimeout
      BY <1>1, <1>2, Types
<1>4. /\ age' \in [Connections -> 0..HandshakeTimeout]
      /\ \A c \in Connections : Shaking(c) => age'[c] = age[c] + 1
      BY <1>1, <1>2, Types
<1>5. elapsed \in Nat /\ elapsed' \in Nat /\ elapsed' \in {elapsed, elapsed + 1}
      BY <1>1, Types
<1>6. ListenTypeOK' /\ StartInv'
      BY <1>1, <1>3, <1>4, <1>5, SameStart DEF ServerInv, ListenTypeOK
<1>7. /\ \A l \in Listeners : Done(l)' = Done(l) /\ (Open(l)' <=> Open(l))
      /\ \A c \in Connections : /\ HoldsLoop(c)' <=> HoldsLoop(c)
                                /\ Shaking(c)' <=> Shaking(c)
                                /\ ListenerOf[c] \in Listeners
                                /\ Shaking(c) => Used(c)' = Used(c) + 1
      <2>1. \A c \in Connections : Shaking(c) => Used(c)' = Used(c) + 1
            BY <1>1, <1>4, Types DEF Used
      <2> QED BY <1>1, <2>1, Types DEF Done, Open, HoldsLoop, KindOf, Shaking
<1>8. BoundInv' /\ HoldInv'
      BY <1>1, <1>7 DEF ServerInv, BoundInv, HoldInv
<1>9. WaitInv' /\ NoEarlyCut'
      BY <1>1, <1>3, <1>7 DEF ServerInv, WaitInv, NoEarlyCut
<1>10. TimeInv'
  <2>1. ~ shutdown => elapsed = 0 /\ elapsed' = 0
        BY <1>1 DEF ServerInv, TimeInv
  <2>2. ASSUME NEW e \in Connections, Shaking(e)', HoldsLoop(e)'
        PROVE  elapsed' <= waited'[ListenerOf[e]] + Allowance(Done(ListenerOf[e]))' + Used(e)'
    <3>1. elapsed <= waited[ListenerOf[e]] + Allowance(Done(ListenerOf[e])) + Used(e)
          BY <1>7, <2>2 DEF ServerInv, TimeInv
    <3>2. /\ waited[ListenerOf[e]] \in Nat /\ waited'[ListenerOf[e]] \in Nat
          /\ waited[ListenerOf[e]] <= waited'[ListenerOf[e]] /\ Used(e) \in Nat
          /\ Used(e)' = Used(e) + 1 /\ Allowance(Done(ListenerOf[e])) \in Nat
          BY <1>3, <1>7, <2>2, Types
    <3>3. Allowance(Done(ListenerOf[e]))' = Allowance(Done(ListenerOf[e]))
          BY <1>7 DEF Allowance
    <3> QED BY <1>5, <3>1, <3>2, <3>3
  <2>3. ASSUME NEW k \in Listeners, Open(k)', protocol'[k] = "https", loop'[k] # "handshake"
        PROVE  elapsed' <= waited'[k] + Allowance(Done(k))'
    <3>1. /\ elapsed <= waited[k] + Allowance(Done(k)) /\ Allowance(Done(k)) \in Nat
          /\ waited[k] \in Nat
          BY <1>1, <1>7, <2>3, Types DEF ServerInv, TimeInv
    <3>2. Allowance(Done(k))' = Allowance(Done(k))
          BY <1>7 DEF Allowance
    <3>3. ~ shutdown \/ waited'[k] = waited[k] + 1
          BY <1>1, <1>2, <1>3, <2>3 DEF ServerInv, ListenTypeOK, Open
    <3> QED BY <1>3, <1>5, <2>1, <3>1, <3>2, <3>3
  <2>4. ASSUME NEW k \in Listeners, Open(k)', protocol'[k] # "https"
        PROVE  elapsed' <= waited'[k]
    <3>1. elapsed <= waited[k] /\ waited[k] \in Nat
          BY <1>1, <1>7, <2>4, Types DEF ServerInv, TimeInv
    <3>2. loop[k] # "handshake"
          BY <1>1, <2>4 DEF ServerInv, HoldInv, HoldsLoop, KindOf
    <3>3. ~ shutdown \/ waited'[k] = waited[k] + 1
          BY <1>1, <1>2, <1>3, <2>4, <3>2 DEF ServerInv, ListenTypeOK, Open
    <3> QED BY <1>3, <1>5, <2>1, <3>1, <3>3
  <2>5. phase' # "running" \/ ~ shutdown' => elapsed' = 0
        BY <1>1, <2>1
  <2> QED BY <2>2, <2>3, <2>4, <2>5 DEF TimeInv
<1>11. ShutdownIsBounded'
  <2> DEFINE holding == {c \in Connections : HoldsLoop(c)}
  <2>1. /\ ExitBound' = ExitBound /\ ExitBound = ShutdownTimeout + Allowance(holding)
        /\ Allowance(holding) \in Nat
        BY <1>1, ExitBoundIsAllowance, AllowanceType DEF ExitBound, HoldsLoop, KindOf
  <2>2. PICK l \in Listeners : Open(l)
        BY <1>2
  <2>3. CASE ~ shutdown
        BY <1>1, <2>1, <2>3 DEF ServerInv, ShutdownIsBounded
  <2>4. CASE shutdown /\ loop[l] = "handshake"
    <3>1. PICK c \in Connections : ListenerOf[c] = l /\ Shaking(c) /\ HoldsLoop(c)
          BY <2>4 DEF ServerInv, HoldInv
    <3>2. elapsed <= waited[l] + Allowance(Done(l)) + Used(c)
          BY <3>1 DEF ServerInv, TimeInv
    <3>3. Done(l) \cup {c} \in SUBSET holding /\ c \notin Done(l) /\ holding \in SUBSET Connections
          BY <3>1 DEF Done, Shaking, HoldsLoop, KindOf
    <3>4. Allowance(Done(l)) + 2 * HandshakeTimeout <= Allowance(holding)
          BY <3>3, AllowanceAdd, AllowanceMonotone, Types
    <3>5. Used(c) + 1 <= 2 * HandshakeTimeout
          BY <1>2, <3>1, Types DEF Used
    <3> QED BY <1>5, <2>1, <3>2, <3>4, <3>5, Types DEF ShutdownIsBounded
  <2>5. CASE shutdown /\ loop[l] = "draining"
    <3>1. Allowance(Done(l)) \in Nat /\ waited[l] + 1 <= ShutdownTimeout
          BY <1>2, <2>5, Types
    <3>2. CASE protocol[l] = "https"
      <4>1. elapsed <= waited[l] + Allowance(Done(l))
            BY <2>2, <2>5, <3>2 DEF ServerInv, TimeInv
      <4>2. Done(l) \in SUBSET holding /\ holding \in SUBSET Connections
            BY <3>2 DEF Done, HoldsLoop, KindOf
      <4>3. Allowance(Done(l)) <= Allowance(holding)
            BY <4>2, AllowanceMonotone
      <4> QED BY <1>5, <2>1, <3>1, <4>1, <4>3, Types DEF ShutdownIsBounded
    <3>3. CASE protocol[l] # "https"
      <4>1. elapsed <= waited[l]
            BY <2>2, <3>3 DEF ServerInv, TimeInv
      <4> QED BY <1>5, <2>1, <3>1, <4>1, Types DEF ShutdownIsBounded
    <3> QED BY <3>2, <3>3
  <2> QED BY <1>2, <2>2, <2>3, <2>4, <2>5 DEF ServerInv, ListenTypeOK, Open
<1> QED BY <1>6, <1>8, <1>9, <1>10, <1>11 DEF ServerInv

-----------------------------------------------------------------------------
(* Lists and maps. *)

\* Every nonempty set of numbers has a least one.
LEMMA LeastNumber ==
    ASSUME NEW S \in SUBSET Nat, S # {}
    PROVE  \E n \in S : \A m \in S : n <= m
<1>1. PICK n \in S : \A m \in S : ~ (<<m, n>> \in OpToRel(<, Nat))
      BY WFMin, NatLessThanWellFounded
<1>2. \A m \in S : ~ (m < n)
      BY <1>1 DEF OpToRel
<1> QED BY <1>2

\* A set of positions has one of every rank up to their number.
LEMMA RankExists ==
    ASSUME NEW N \in Nat, NEW kept \in SUBSET (1..N), NEW n \in 1..Cardinality(kept)
    PROVE  \E i \in kept : Cardinality({j \in kept : j <= i}) = n
<1> DEFINE below(i) == {j \in kept : j <= i}
           S == {i \in 1..N : n <= Cardinality(below(i))}
<1>1. \A j \in kept : j \in Nat /\ 1 <= j /\ j <= N
      OBVIOUS
<1>2. IsFiniteSet(kept) /\ Cardinality(kept) \in Nat
  <2>1. IsFiniteSet(1..N)
        BY FS_Interval
  <2>2. IsFiniteSet(kept)
        BY <2>1, FS_Subset
  <2> QED BY <2>2, FS_CardinalityType
<1>3. n \in Nat /\ 1 <= n /\ n <= Cardinality(kept)
      BY <1>2
<1>4. \A i \in Nat : IsFiniteSet(below(i)) /\ Cardinality(below(i)) \in Nat
  <2> SUFFICES ASSUME NEW i \in Nat PROVE IsFiniteSet(below(i)) /\ Cardinality(below(i)) \in Nat
      OBVIOUS
  <2>1. below(i) \in SUBSET kept
        OBVIOUS
  <2> HIDE DEF below
  <2>2. IsFiniteSet(below(i))
        BY <1>2, <2>1, FS_Subset
  <2> QED BY <2>2, FS_CardinalityType
<1>5. below(N) = kept /\ below(0) = {}
  <2>1. \A j \in kept : j <= N /\ ~ (j <= 0)
        BY <1>1
  <2> QED BY <2>1, Zenon
<1>6. \A i \in 1..N : below(i) = IF i \in kept THEN below(i - 1) \cup {i} ELSE below(i - 1)
  <2> SUFFICES ASSUME NEW i \in 1..N
               PROVE  below(i) = IF i \in kept THEN below(i - 1) \cup {i} ELSE below(i - 1)
      OBVIOUS
  <2>1. \A j \in kept : (j <= i <=> (j <= i - 1 \/ j = i)) /\ i <= i
        BY <1>1
  <2> QED BY <2>1, Zenon
<1>7. \A i \in 1..N : i \notin below(i - 1)
      BY <1>1
<1>8. Cardinality(below(0)) = 0
      BY <1>5, FS_EmptySet
<1>9. kept # {}
      BY <1>3, FS_EmptySet
<1>10. N \in 1..N
  <2>1. PICK j \in kept : TRUE
        BY <1>9
  <2> QED BY <1>1, <2>1
<1> HIDE DEF below
<1>11. N \in S /\ S \in SUBSET Nat
      BY <1>3, <1>5, <1>10
<1>12. PICK i \in S : \A m \in S : i <= m
  <2> HIDE DEF S
  <2> QED BY <1>11, LeastNumber
<1>13. Cardinality(below(i - 1)) < n /\ Cardinality(below(i - 1)) \in Nat /\ IsFiniteSet(below(i - 1))
  <2>1. i - 1 \in Nat /\ i - 1 \notin S
        BY <1>12
  <2>2. CASE i = 1
        BY <1>3, <1>4, <1>8, <2>2
  <2>3. CASE i # 1
        BY <1>3, <1>4, <1>12, <2>1, <2>3
  <2> QED BY <2>2, <2>3
<1>14. i \in kept
      BY <1>3, <1>4, <1>6, <1>12, <1>13
<1>15. Cardinality(below(i)) = Cardinality(below(i - 1)) + 1
  <2>1. below(i) = below(i - 1) \cup {i} /\ i \notin below(i - 1)
        BY <1>6, <1>7, <1>12, <1>14
  <2> QED BY <1>13, <2>1, FS_AddElement
<1>16. Cardinality(below(i)) = n
      BY <1>3, <1>12, <1>13, <1>15
<1> QED BY <1>14, <1>16 DEF below

\* filter() keeps every position it is to keep, once.
LEMMA FilterIsBijective ==
    ASSUME NEW N \in Nat, NEW kept \in SUBSET (1..N)
    PROVE  /\ Cardinality(kept) \in Nat
           /\ \A n \in 1..Cardinality(kept) : At(kept, n) \in kept
           /\ \A m, n \in 1..Cardinality(kept) : At(kept, m) = At(kept, n) => m = n
           /\ \A i \in kept : \E n \in 1..Cardinality(kept) : At(kept, n) = i
<1> DEFINE rank(i) == Cardinality({j \in kept : j <= i})
<1>1. IsFiniteSet(kept) /\ Cardinality(kept) \in Nat
  <2>1. IsFiniteSet(1..N)
        BY FS_Interval
  <2>2. IsFiniteSet(kept)
        BY <2>1, FS_Subset
  <2> QED BY <2>2, FS_CardinalityType
<1>2. \A n \in 1..Cardinality(kept) : At(kept, n) \in kept /\ rank(At(kept, n)) = n
  <2> SUFFICES ASSUME NEW n \in 1..Cardinality(kept)
               PROVE  At(kept, n) \in kept /\ rank(At(kept, n)) = n
      OBVIOUS
  <2>1. \E i \in kept : rank(i) = n
        BY RankExists
  <2> HIDE DEF rank
  <2>2. At(kept, n) = CHOOSE i \in kept : rank(i) = n
        BY DEF At, rank
  <2> QED BY <2>1, <2>2
<1>3. \A i \in kept : rank(i) \in 1..Cardinality(kept)
  <2> SUFFICES ASSUME NEW i \in kept PROVE rank(i) \in 1..Cardinality(kept)
      OBVIOUS
  <2> DEFINE below == {j \in kept : j <= i}
  <2>1. below \in SUBSET kept
        OBVIOUS
  <2>2. i \in below
    <3>1. i <= i
          OBVIOUS
    <3> QED BY <3>1
  <2> HIDE DEF below
  <2>3. IsFiniteSet(below) /\ Cardinality(below) <= Cardinality(kept)
        BY <1>1, <2>1, FS_Subset
  <2>4. Cardinality(below) \in Nat /\ Cardinality(below) # 0
        BY <2>2, <2>3, FS_CardinalityType, FS_EmptySet
  <2>5. Cardinality(below) \in 1..Cardinality(kept)
        BY <1>1, <2>3, <2>4
  <2> QED BY <2>5 DEF below
<1>4. ASSUME NEW i \in kept, NEW k \in kept, i < k PROVE rank(i) # rank(k)
  <2> DEFINE lower == {j \in kept : j <= i}
             upper == {j \in kept : j <= k}
  <2>0. i \in Nat /\ k \in Nat /\ \A j \in kept : j \in Nat
        OBVIOUS
  <2>1. \A j \in kept : j <= i => j <= k
        BY <1>4, <2>0
  <2>2. lower \in SUBSET upper /\ upper \in SUBSET kept
        BY <2>1
  <2>3. k \in upper /\ k \notin lower
    <3>1. k <= k /\ ~ (k <= i)
          BY <1>4, <2>0
    <3> QED BY <3>1
  <2> HIDE DEF lower, upper
  <2>4. IsFiniteSet(upper)
        BY <1>1, <2>2, FS_Subset
  <2>5. Cardinality(upper) # Cardinality(lower)
        BY <2>2, <2>3, <2>4, FS_Subset
  <2> QED BY <2>5 DEF lower, upper
<1> HIDE DEF rank
<1>5. \A i, k \in kept : rank(i) = rank(k) => i = k
  <2> SUFFICES ASSUME NEW i \in kept, NEW k \in kept, i # k PROVE rank(i) # rank(k)
      OBVIOUS
  <2>1. i < k \/ k < i
        OBVIOUS
  <2> QED BY <1>4, <2>1
<1>6. \A i \in kept : At(kept, rank(i)) = i
      BY <1>2, <1>3, <1>5
<1>7. \A m, n \in 1..Cardinality(kept) : At(kept, m) = At(kept, n) => m = n
      BY <1>2
<1>8. \A i \in kept : \E n \in 1..Cardinality(kept) : At(kept, n) = i
      BY <1>3, <1>6
<1> QED BY <1>1, <1>2, <1>7, <1>8

\* A list whose entries have names of their own, as those of a map have.
IsIndexMap(s) ==
    /\ s \in Seq(ToSet(s))
    /\ \A i, j \in DOMAIN s : s[i].name = s[j].name => i = j

\* A name that is written is written for a last time,
LEMMA LastExists ==
    ASSUME NEW s, NEW N \in Nat, DOMAIN s = 1..N, NEW i \in DOMAIN s
    PROVE  \E k \in Lasts(s) : s[k].name = s[i].name
<1> DEFINE S == {m \in 0..N : N - m \in DOMAIN s /\ s[N - m].name = s[i].name}
<1>1. N - i \in S /\ S \in SUBSET Nat
  <2>1. N - i \in 0..N /\ N - (N - i) = i
        OBVIOUS
  <2> QED BY <2>1
<1>2. PICK m \in S : \A x \in S : m <= x
  <2> HIDE DEF S
  <2> QED BY <1>1, LeastNumber
<1>3. N - m \in DOMAIN s /\ s[N - m].name = s[i].name /\ m \in Nat
      BY <1>2
<1>4. ASSUME NEW j \in DOMAIN s, s[j].name = s[N - m].name PROVE j <= N - m
  <2>1. N - j \in 0..N /\ N - (N - j) = j
        OBVIOUS
  <2>2. N - j \in S
        BY <1>3, <1>4, <2>1
  <2>3. m <= N - j
        BY <1>2, <2>2
  <2> QED BY <1>3, <2>3
<1> QED BY <1>3, <1>4 DEF Lasts

\* and for a first time.
LEMMA FirstExists ==
    ASSUME NEW s, NEW N \in Nat, DOMAIN s = 1..N, NEW i \in DOMAIN s
    PROVE  \E k \in Firsts(s) : s[k].name = s[i].name
<1> DEFINE S == {j \in DOMAIN s : s[j].name = s[i].name}
<1>1. S # {} /\ S \in SUBSET Nat
      OBVIOUS
<1>2. PICK k \in S : \A x \in S : k <= x
  <2> HIDE DEF S
  <2> QED BY <1>1, LeastNumber
<1> QED BY <1>2 DEF Firsts

\* A section becomes a map with the last entry of every name that is written.
LEMMA IndexMapIsMap ==
    ASSUME NEW s, s \in Seq(ToSet(s))
    PROVE  IsIndexMap(IndexMap(s)) /\ ToSet(IndexMap(s)) = InEffect(s)
<1> DEFINE K == Cardinality(Firsts(s))
           last(i) == CHOOSE k \in Lasts(s) : s[k].name = s[i].name
           at(n) == At(Firsts(s), n)
           map == IndexMap(s)
<1>1. PICK N \in Nat : DOMAIN s = 1..N
      OBVIOUS
<1>2. map = [n \in 1..K |-> s[last(at(n))]]
      BY DEF IndexMap
<1>3. /\ Firsts(s) \in SUBSET (1..N) /\ Lasts(s) \in SUBSET (1..N)
      /\ \A i, j \in Firsts(s) : s[i].name = s[j].name => i = j
      /\ \A i, j \in Lasts(s) : s[i].name = s[j].name => i = j
  <2>1. Firsts(s) \in SUBSET (1..N) /\ Lasts(s) \in SUBSET (1..N)
        BY <1>1 DEF Firsts, Lasts
  <2>2. ASSUME NEW i \in Firsts(s), NEW j \in Firsts(s), s[i].name = s[j].name PROVE i = j
    <3>1. i <= j /\ j <= i /\ i \in Nat /\ j \in Nat
          BY <1>1, <2>2 DEF Firsts
    <3> QED BY <3>1
  <2>3. ASSUME NEW i \in Lasts(s), NEW j \in Lasts(s), s[i].name = s[j].name PROVE i = j
    <3>1. i <= j /\ j <= i /\ i \in Nat /\ j \in Nat
          BY <1>1, <2>3 DEF Lasts
    <3> QED BY <3>1
  <2> QED BY <2>1, <2>2, <2>3
<1>4. \A i \in 1..N : last(i) \in Lasts(s) /\ s[last(i)].name = s[i].name
  <2> SUFFICES ASSUME NEW i \in 1..N PROVE last(i) \in Lasts(s) /\ s[last(i)].name = s[i].name
      OBVIOUS
  <2>1. \E k \in Lasts(s) : s[k].name = s[i].name
        BY <1>1, LastExists
  <2> QED BY <2>1
<1>5. /\ K \in Nat
      /\ \A n \in 1..K : at(n) \in Firsts(s)
      /\ \A m, n \in 1..K : at(m) = at(n) => m = n
      /\ \A i \in Firsts(s) : \E n \in 1..K : at(n) = i
      BY <1>3, FilterIsBijective
<1> HIDE DEF K, last, at, map
<1>6. /\ DOMAIN map = 1..K
      /\ \A n \in 1..K : /\ map[n] = s[last(at(n))] /\ last(at(n)) \in Lasts(s)
                         /\ map[n].name = s[at(n)].name
      BY <1>2, <1>3, <1>4, <1>5
<1>7. ASSUME NEW m \in DOMAIN map, NEW n \in DOMAIN map, map[m].name = map[n].name PROVE m = n
      BY <1>3, <1>5, <1>6, <1>7
<1>8. ToSet(map) \subseteq InEffect(s)
      BY <1>6 DEF ToSet, InEffect
<1>9. ASSUME NEW i \in Lasts(s) PROVE s[i] \in ToSet(map)
  <2>1. i \in DOMAIN s
        BY <1>1, <1>3
  <2>2. PICK k \in Firsts(s) : s[k].name = s[i].name
        BY <1>1, <2>1, FirstExists
  <2>3. PICK n \in 1..K : at(n) = k
        BY <1>5
  <2>4. last(at(n)) = i
        BY <1>3, <1>6, <1>9, <2>2, <2>3
  <2> QED BY <1>6, <2>4 DEF ToSet
<1>10. ToSet(map) = InEffect(s)
      BY <1>8, <1>9 DEF InEffect
<1>11. map \in Seq(ToSet(map))
  <2>1. map = [n \in 1..K |-> map[n]] /\ \A n \in 1..K : map[n] \in ToSet(map)
        BY <1>2, <1>6 DEF ToSet
  <2> QED BY <1>5, <2>1
<1> QED BY <1>7, <1>10, <1>11 DEF IsIndexMap, map

\* What the deserialized files have: sections that are maps.
WellFormed(f) ==
    /\ IsIndexMap(f.listeners) /\ IsIndexMap(f.services) /\ IsIndexMap(f.rules)
    /\ \A i \in DOMAIN f.listeners :
        /\ f.listeners[i].name \in Listeners
        /\ \A names \in f.listeners[i].services : names \in Seq(ToSet(names))
    /\ f.folder.entries \in Seq(ToSet(f.folder.entries))
    /\ f.folder.readable \in 0..Len(f.folder.entries)
    /\ \A i \in DOMAIN f.folder.entries : IsIndexMap(f.folder.entries[i].rules)

\* Whatever is written, serde makes maps of it.
LEMMA DeserializedIsWellFormed ==
    ASSUME NEW f \in ConfigFiles
    PROVE  WellFormed(Deserialized(f))
<1> DEFINE d == Deserialized(f)
           entry(i) == [yml |-> f.folder.entries[i].yml, parses |-> f.folder.entries[i].parses,
                        rules |-> IndexMap(f.folder.entries[i].rules)]
<1>1. /\ f.listeners \in Seq(ToSet(f.listeners)) /\ f.services \in Seq(ToSet(f.services))
      /\ f.rules \in Seq(ToSet(f.rules)) /\ f.folder.entries \in Seq(ToSet(f.folder.entries))
      /\ f.folder.readable \in 0..Len(f.folder.entries)
      /\ \A i \in DOMAIN f.listeners :
            /\ f.listeners[i].name \in Listeners
            /\ \A names \in f.listeners[i].services : names \in Seq(ToSet(names))
      /\ \A i \in DOMAIN f.folder.entries :
            f.folder.entries[i].rules \in Seq(ToSet(f.folder.entries[i].rules))
      BY ServerAssumption
<1>2. /\ d.listeners = IndexMap(f.listeners) /\ d.services = IndexMap(f.services)
      /\ d.rules = IndexMap(f.rules) /\ d.folder.readable = f.folder.readable
      /\ d.folder.entries = [i \in DOMAIN f.folder.entries |-> entry(i)]
      BY DEF Deserialized
<1> HIDE DEF d
<1>3. /\ IsIndexMap(d.listeners) /\ IsIndexMap(d.services) /\ IsIndexMap(d.rules)
      /\ ToSet(d.listeners) = InEffect(f.listeners)
      BY <1>1, <1>2, IndexMapIsMap
<1>4. ASSUME NEW i \in DOMAIN d.listeners
      PROVE  /\ d.listeners[i].name \in Listeners
             /\ \A names \in d.listeners[i].services : names \in Seq(ToSet(names))
  <2>1. PICK k \in DOMAIN f.listeners : d.listeners[i] = f.listeners[k]
    <3>1. d.listeners[i] \in ToSet(d.listeners)
          BY DEF ToSet
    <3> QED BY <1>3, <3>1 DEF InEffect, Lasts
  <2> QED BY <1>1, <2>1
<1>5. \A i \in DOMAIN d.folder.entries : IsIndexMap(d.folder.entries[i].rules)
  <2> SUFFICES ASSUME NEW i \in DOMAIN f.folder.entries PROVE IsIndexMap(d.folder.entries[i].rules)
      BY <1>2
  <2>1. d.folder.entries[i].rules = IndexMap(f.folder.entries[i].rules)
        BY <1>2
  <2> QED BY <1>1, <2>1, IndexMapIsMap
<1>6. /\ d.folder.entries \in Seq(ToSet(d.folder.entries))
      /\ d.folder.readable \in 0..Len(d.folder.entries)
  <2> DEFINE L == Len(f.folder.entries)
             e == d.folder.entries
  <2>1. L \in Nat /\ DOMAIN f.folder.entries = 1..L
        BY <1>1
  <2> HIDE DEF entry, L
  <2>2. e = [i \in 1..L |-> e[i]] /\ DOMAIN e = 1..L
        BY <1>2, <2>1
  <2> HIDE DEF e
  <2>3. \A i \in 1..L : e[i] \in ToSet(e)
        BY <2>2 DEF ToSet
  <2>4. e \in Seq(ToSet(e)) /\ Len(e) = L
        BY <2>1, <2>2, <2>3
  <2>5. f.folder.readable \in 0..L
        BY <1>1 DEF L
  <2> QED BY <1>2, <2>4, <2>5 DEF e
<1> QED BY <1>3, <1>4, <1>5, <1>6 DEF WellFormed, d

\* and the entries of the maps are entries that were written.
LEMMA DeserializedEntries ==
    ASSUME NEW f \in ConfigFiles
    PROVE  LET d == Deserialized(f) IN
           /\ ToSet(d.listeners) = InEffect(f.listeners) /\ ToSet(d.services) = InEffect(f.services)
           /\ ToSet(d.rules) = InEffect(f.rules)
           /\ DOMAIN d.folder.entries = DOMAIN f.folder.entries
           /\ \A i \in DOMAIN f.folder.entries :
                /\ d.folder.entries[i].yml = f.folder.entries[i].yml
                /\ ToSet(d.folder.entries[i].rules) = InEffect(f.folder.entries[i].rules)
<1> DEFINE d == Deserialized(f)
<1>1. /\ f.listeners \in Seq(ToSet(f.listeners)) /\ f.services \in Seq(ToSet(f.services))
      /\ f.rules \in Seq(ToSet(f.rules))
      /\ \A i \in DOMAIN f.folder.entries :
            f.folder.entries[i].rules \in Seq(ToSet(f.folder.entries[i].rules))
      BY ServerAssumption
<1>2. /\ d.listeners = IndexMap(f.listeners) /\ d.services = IndexMap(f.services)
      /\ d.rules = IndexMap(f.rules)
      /\ DOMAIN d.folder.entries = DOMAIN f.folder.entries
      /\ \A i \in DOMAIN f.folder.entries :
            /\ d.folder.entries[i].yml = f.folder.entries[i].yml
            /\ d.folder.entries[i].rules = IndexMap(f.folder.entries[i].rules)
      BY DEF Deserialized
<1> HIDE DEF d
<1>3. /\ ToSet(d.listeners) = InEffect(f.listeners) /\ ToSet(d.services) = InEffect(f.services)
      /\ ToSet(d.rules) = InEffect(f.rules)
      BY <1>1, <1>2, IndexMapIsMap
<1>4. ASSUME NEW i \in DOMAIN f.folder.entries
      PROVE  ToSet(d.folder.entries[i].rules) = InEffect(f.folder.entries[i].rules)
      BY <1>1, <1>2, IndexMapIsMap
<1> QED BY <1>2, <1>3, <1>4 DEF d

-----------------------------------------------------------------------------
(* The start and the end of the process. *)

\* A configuration that was accepted: its listeners are a list, of known names and protocols.
LEMMA LoadedListeners ==
    ASSUME NEW f, WellFormed(f), Accepts(f)
    PROVE  /\ Len(Loaded(f).listeners) \in Nat
           /\ \A i \in 1..Len(Loaded(f).listeners) :
                /\ Loaded(f).listeners[i].name \in Listeners
                /\ Loaded(f).listeners[i].protocol \in Protocols
<1> DEFINE services == [i \in DOMAIN f.services |-> parse_service(f.services[i])]
           result(i) == ListenerConfig(f.listeners[i], services)
<1>1. /\ f.listeners \in Seq(ToSet(f.listeners))
      /\ \A i \in DOMAIN f.listeners : f.listeners[i].name \in Listeners
      BY DEF WellFormed, IsIndexMap
<1>2. Loaded(f).listeners = [i \in DOMAIN f.listeners |-> result(i)]
      BY DEF Loaded
<1>3. \A i \in DOMAIN f.listeners : ProtocolOf(f.listeners[i].address) \in Protocols
      BY DEF Accepts, AddressParses
<1>4. \A i \in DOMAIN f.listeners : /\ result(i).name = f.listeners[i].name
                                    /\ result(i).protocol = ProtocolOf(f.listeners[i].address)
      BY DEF ListenerConfig
<1>5. DOMAIN f.listeners = 1..Len(f.listeners) /\ Len(f.listeners) \in Nat
      BY <1>1
<1> HIDE DEF result
<1>6. Loaded(f).listeners = [i \in 1..Len(f.listeners) |-> result(i)]
      BY <1>2, <1>5
<1>7. Len(Loaded(f).listeners) = Len(f.listeners)
      BY <1>5, <1>6
<1>8. ASSUME NEW i \in 1..Len(Loaded(f).listeners)
      PROVE  /\ Loaded(f).listeners[i].name \in Listeners
             /\ Loaded(f).listeners[i].protocol \in Protocols
  <2>1. i \in 1..Len(f.listeners) /\ i \in DOMAIN f.listeners
        BY <1>5, <1>7, <1>8
  <2>2. Loaded(f).listeners[i] = result(i)
        BY <1>6, <2>1
  <2>3. result(i).name \in Listeners
        BY <1>1, <1>4, <2>1
  <2>4. result(i).protocol \in Protocols
        BY <1>3, <1>4, <2>1
  <2> QED BY <2>2, <2>3, <2>4
<1> QED BY <1>5, <1>7, <1>8

\* What the end of the process leaves of the connections.
LEMMA EndFacts ==
    ASSUME ServerInv, ProcessEnds
    PROVE  /\ ListenTypeOK'
           /\ \A c \in Connections : /\ ~ Shaking(c)' /\ conn'[c] # "serving"
                                     /\ conn'[c] # "none" => conn[c] # "none"
                                     /\ conn'[c] = "cut" => conn[c] \in {"cut", "serving"}
           /\ \A l \in Listeners : loop'[l] = IF loop[l] = "unbound" THEN "unbound" ELSE "returned"
           /\ UNCHANGED <<protocol, waited, age, full, shutdown, elapsed>>
<1> DEFINE left(c) == CASE conn[c] = "serving" -> "cut"
                        [] conn[c] = "detached" -> "severed"
                        [] conn[c] \in Handshaking \cup {"queued"} -> "reset"
                        [] OTHER -> conn[c]
<1>1. /\ exited' = TRUE /\ UNCHANGED <<protocol, waited, age, full, shutdown, elapsed>>
      /\ loop' = [l \in Listeners |-> IF loop[l] = "unbound" THEN "unbound" ELSE "returned"]
      /\ conn' = [c \in Connections |-> left(c)]
      BY DEF ProcessEnds
<1>2. ASSUME NEW c \in Connections
      PROVE  /\ left(c) \in ConnStates /\ left(c) \notin Handshaking \cup {"serving"}
             /\ left(c) # "none" => conn[c] # "none"
             /\ left(c) = "cut" => conn[c] \in {"cut", "serving"}
  <2>1. conn[c] \in ConnStates
        BY Types
  <2>2. CASE conn[c] = "serving"
        BY <2>2 DEF Handshaking, ConnStates
  <2>3. CASE conn[c] = "detached"
        BY <2>3 DEF Handshaking, ConnStates
  <2>4. CASE conn[c] \in Handshaking \cup {"queued"}
        BY <2>4 DEF Handshaking, ConnStates
  <2>5. CASE conn[c] \notin Handshaking \cup {"queued", "serving", "detached"}
        BY <2>1, <2>5 DEF Handshaking
  <2> QED BY <2>2, <2>3, <2>4, <2>5
<1> HIDE DEF left
<1>3. \A c \in Connections : conn'[c] = left(c)
      BY <1>1
<1>4. ListenTypeOK'
      BY <1>1, <1>2 DEF ServerInv, ListenTypeOK
<1> QED BY <1>1, <1>2, <1>3, <1>4 DEF Shaking

\* The process ends: nothing is in flight, and what was cut had waited or met
\* a start that failed.
LEMMA EndPreserves ==
    ASSUME ServerInv, ProcessEnds, StartInv',
           phase' \in {"failed", "panicked"} \/ (phase' = phase /\ AllReturned),
           phase' # "running" => phase # "running"
    PROVE  ServerInv'
<1>1. /\ ListenTypeOK'
      /\ \A c \in Connections : /\ ~ Shaking(c)' /\ conn'[c] # "serving"
                                /\ conn'[c] # "none" => conn[c] # "none"
                                /\ conn'[c] = "cut" => conn[c] \in {"cut", "serving"}
      /\ \A l \in Listeners : loop'[l] = IF loop[l] = "unbound" THEN "unbound" ELSE "returned"
      /\ UNCHANGED <<protocol, waited, age, full, shutdown, elapsed>>
      BY EndFacts
<1>2. BoundInv' /\ HoldInv' /\ WaitInv'
      BY <1>1, Types DEF ServerInv, BoundInv, HoldInv, WaitInv
<1>3. TimeInv'
      BY <1>1 DEF ServerInv, TimeInv, Open
<1>4. NoEarlyCut'
  <2>1. SUFFICES ASSUME NEW c \in Connections, conn'[c] = "cut", phase' \notin {"failed", "panicked"}
                 PROVE  waited'[ListenerOf[c]] = ShutdownTimeout
        BY DEF NoEarlyCut
  <2>2. CASE conn[c] = "cut"
        BY <1>1, <2>1, <2>2 DEF ServerInv, NoEarlyCut
  <2>3. CASE conn[c] = "serving"
    <3>1. loop[ListenerOf[c]] = "returned"
          BY <2>1, <2>3, Types DEF AllReturned, ServerInv, BoundInv
    <3> QED BY <1>1, <2>3, <3>1 DEF ServerInv, WaitInv
  <2> QED BY <1>1, <2>1, <2>2, <2>3
<1>5. ShutdownIsBounded'
      BY <1>1 DEF ServerInv, ShutdownIsBounded, ExitBound, HoldsLoop, KindOf
<1> QED BY <1>1, <1>2, <1>3, <1>4, <1>5 DEF ServerInv

\* A step of the start, or none, that does not touch the listeners.
LEMMA StartStep ==
    ASSUME ServerInv, UNCHANGED listenVars, StartInv', phase # "running" \/ phase' = phase,
           phase \in {"failed", "panicked"} => phase' = phase
    PROVE  ServerInv'
<1>1. UNCHANGED <<protocol, loop, waited, conn, age, full, shutdown, exited, elapsed>>
      BY DEF listenVars
<1>2. /\ \A l \in Listeners : Done(l)' = Done(l) /\ (Open(l)' <=> Open(l))
      /\ \A c \in Connections : /\ HoldsLoop(c)' <=> HoldsLoop(c)
                                /\ Shaking(c)' <=> Shaking(c)
                                /\ Used(c)' = Used(c) /\ ListenerOf[c] \in Listeners
      BY <1>1, Types DEF Done, Open, HoldsLoop, KindOf, Shaking, Used
<1>3. ListenTypeOK' /\ BoundInv' /\ HoldInv' /\ WaitInv' /\ NoEarlyCut'
      BY <1>1, <1>2 DEF ServerInv, ListenTypeOK, BoundInv, HoldInv, WaitInv, NoEarlyCut
<1>4. TimeInv'
      BY <1>1, <1>2 DEF ServerInv, TimeInv, Allowance
<1>5. ShutdownIsBounded'
      BY <1>1 DEF ServerInv, ShutdownIsBounded, ExitBound, HoldsLoop, KindOf
<1> QED BY <1>3, <1>4, <1>5 DEF ServerInv

\* The start fails, or panics, at a step before the listeners run.
LEMMA StartEndsPreserves ==
    ASSUME ServerInv, NEW how \in {"failed", "panicked"}, StartEnds(how),
           phase \notin {"running", "failed", "panicked"}, how = "panicked" => phase \notin {"config", "parsed"}
    PROVE  ServerInv'
<1>1. phase' = how /\ ProcessEnds /\ UNCHANGED <<file, host, config_file, conf, started>>
      BY DEF StartEnds
<1>2. {l \in Listeners : loop'[l] # "unbound"} = {l \in Listeners : loop[l] # "unbound"}
      BY <1>1, EndFacts
<1>3. StartInv'
      BY <1>1, <1>2 DEF ServerInv, StartInv
<1> QED BY <1>1, <1>3, EndPreserves

\* Reading the YAML.
LEMMA DeserializePreserves ==
    ASSUME ServerInv, Deserialize
    PROVE  ServerInv'
<1>1. /\ phase = "config" /\ phase' = "parsed" /\ config_file' = Deserialized(file)
      /\ UNCHANGED <<listenVars, file, host, conf, started>>
      BY DEF Deserialize
<1>2. {l \in Listeners : loop'[l] # "unbound"} = {conf'.listeners[i].name : i \in 1..started'}
      BY <1>1 DEF ServerInv, StartInv, listenVars
<1>3. StartInv'
      BY <1>1, <1>2 DEF ServerInv, StartInv
<1> QED BY <1>1, <1>3, StartStep

\* load_and_validate.
LEMMA LoadPreserves ==
    ASSUME ServerInv, load_and_validate
    PROVE  ServerInv'
<1>1. phase = "parsed"
      BY DEF load_and_validate
<1>2. CASE /\ Accepts(config_file) /\ conf' = Loaded(config_file) /\ phase' = "child"
           /\ UNCHANGED <<listenVars, file, host, config_file, started>>
  <2>1. started = 0 /\ \A l \in Listeners : loop[l] = "unbound"
    <3>1. started = 0 /\ {l \in Listeners : loop[l] # "unbound"} = {conf.listeners[i].name : i \in 1..started}
          BY <1>1 DEF ServerInv, StartInv
    <3> QED BY <3>1
  <2>2. {l \in Listeners : loop'[l] # "unbound"} = {conf'.listeners[i].name : i \in 1..started'}
        BY <1>2, <2>1 DEF listenVars
  <2>3. StartInv'
    <3>1. /\ config_file = Deserialized(file) /\ file \in ConfigFiles
          /\ host \in SUBSET {"leap day", "no resolver"}
          BY <1>1 DEF ServerInv, StartInv
    <3> HIDE DEF Deserialized, Loaded
    <3> QED BY <1>2, <2>1, <2>2, <3>1 DEF StartInv
  <2> QED BY <1>1, <1>2, <2>3, StartStep
<1> QED BY <1>1, <1>2, StartEndsPreserves DEF load_and_validate

\* The steps from the child process to the first listener.
LEMMA SetUpPreserves ==
    ASSUME ServerInv, StartChildProcess \/ SetUp \/ SetUpPanics \/ SetUpFails \/ Started
    PROVE  ServerInv'
<1>1. DOMAIN NextPhase = {"registry", "geoip", "captcha", "lists", "tls"}
      BY DEF NextPhase
<1>2. ASSUME NEW p \in {"registry", "geoip", "captcha", "lists", "tls", "binding", "running"},
             phase \notin {"config", "parsed", "running", "failed", "panicked"},
             phase' = p, UNCHANGED <<listenVars, file, host, config_file, conf, started>>
      PROVE  ServerInv'
  <2>1. {l \in Listeners : loop'[l] # "unbound"} = {conf'.listeners[i].name : i \in 1..started'}
        BY <1>2 DEF ServerInv, StartInv, listenVars
  <2>2. StartInv'
        BY <1>1, <1>2, <2>1 DEF ServerInv, StartInv
  <2> QED BY <1>2, <2>2, StartStep
<1>3. CASE SetUp
  <2>1. /\ phase \in {"registry", "geoip", "captcha", "lists", "tls"} /\ phase' = NextPhase[phase]
        /\ UNCHANGED <<listenVars, file, host, config_file, conf, started>>
        BY <1>1, <1>3 DEF SetUp
  <2>2. NextPhase[phase] \in {"geoip", "captcha", "lists", "tls", "binding"}
        BY <2>1 DEF NextPhase
  <2> QED BY <1>2, <2>1, <2>2
<1>4. CASE SetUpFails
  <2>1. phase \notin {"running", "failed", "panicked"} /\ StartEnds("failed")
        BY <1>1, <1>4 DEF SetUpFails
  <2> QED BY <2>1, StartEndsPreserves
<1>5. CASE StartChildProcess
  <2>1. phase = "child"
        BY <1>5 DEF StartChildProcess
  <2>2. CASE StartEnds("panicked")
        BY <2>1, <2>2, StartEndsPreserves
  <2> QED BY <1>2, <1>5, <2>1, <2>2 DEF StartChildProcess
<1>6. CASE Started
      BY <1>2, <1>6 DEF Started
<1>7. CASE SetUpPanics
  <2>1. phase \in {"registry", "tls"} /\ StartEnds("panicked")
        BY <1>7 DEF SetUpPanics, TripsOver
  <2> QED BY <2>1, StartEndsPreserves
<1> QED BY <1>3, <1>4, <1>5, <1>6, <1>7

\* A listener is bound: nobody is connected to it yet, and no time has passed.
LEMMA StartListenerPreserves ==
    ASSUME ServerInv, StartListener
    PROVE  ServerInv'
<1> DEFINE config == conf.listeners[started + 1]
           l == config.name
<1>1. phase = "binding" /\ started < Len(conf.listeners)
      BY DEF StartListener
<1>2. CASE StartEnds("panicked") \/ StartEnds("failed")
      BY <1>1, <1>2, StartEndsPreserves
<1>3. CASE /\ Bind(l, config.protocol) /\ started' = started + 1
           /\ UNCHANGED <<file, host, phase, config_file, conf>>
  <2>1. /\ conf = Loaded(config_file) /\ Accepts(config_file) /\ WellFormed(config_file) /\ started \in Nat
        /\ elapsed = 0
        /\ {k \in Listeners : loop[k] # "unbound"} = {conf.listeners[i].name : i \in 1..started}
        BY <1>1, DeserializedIsWellFormed DEF ServerInv, StartInv, TimeInv
  <2>2. l \in Listeners /\ config.protocol \in Protocols
        BY <1>1, <2>1, LoadedListeners
  <2> HIDE DEF config
  <2>3. /\ loop[l] = "unbound" /\ protocol' = [protocol EXCEPT ![l] = config.protocol]
        /\ loop' = [loop EXCEPT ![l] = "accepting"]
        /\ UNCHANGED <<waited, conn, age, full, shutdown, exited, elapsed>>
        BY <1>3 DEF Bind
  <2>4. /\ loop' \in [Listeners -> {"unbound", "accepting", "handshake", "draining", "returned"}]
        /\ loop'[l] = "accepting" /\ \A k \in Listeners : k # l => loop'[k] = loop[k]
        /\ protocol' \in [Listeners -> {"none", "http", "https", "tcp", "tcp+tls"}]
        /\ \A k \in Listeners : k # l => protocol'[k] = protocol[k]
        BY <2>2, <2>3 DEF ServerInv, ListenTypeOK, Protocols
  <2>5. ListenTypeOK'
        BY <2>3, <2>4 DEF ServerInv, ListenTypeOK
  <2>6. {k \in Listeners : loop'[k] # "unbound"} = {conf'.listeners[i].name : i \in 1..started'}
    <3>1. {k \in Listeners : loop'[k] # "unbound"} = {k \in Listeners : loop[k] # "unbound"} \cup {l}
          BY <2>2, <2>4
    <3>2. 1..started' = 1..started \cup {started + 1}
          BY <1>3, <2>1
    <3>3. {conf.listeners[i].name : i \in 1..started'} = {conf.listeners[i].name : i \in 1..started} \cup {l}
          BY <3>2 DEF config
    <3>4. {conf'.listeners[i].name : i \in 1..started'} = {conf.listeners[i].name : i \in 1..started'}
          BY <1>3
    <3> QED BY <2>1, <3>1, <3>3, <3>4
  <2>7. StartInv'
    <3>1. /\ config_file = Deserialized(file) /\ file \in ConfigFiles
          /\ host \in SUBSET {"leap day", "no resolver"}
          BY <1>1 DEF ServerInv, StartInv
    <3>2. started' \in Nat
          BY <1>3, <2>1
    <3> QED BY <1>1, <1>3, <2>1, <2>6, <3>1, <3>2 DEF StartInv
  <2>8. \A c \in Connections : /\ ListenerOf[c] \in Listeners
                               /\ Shaking(c)' <=> Shaking(c)
                               /\ conn[c] # "none" => ListenerOf[c] # l
                               /\ Shaking(c) => conn[c] # "none" /\ (HoldsLoop(c)' <=> HoldsLoop(c))
    <3>1. \A c \in Connections : Shaking(c) => conn[c] # "none"
          BY DEF Shaking, Handshaking
    <3>2. \A c \in Connections : conn[c] # "none" => ListenerOf[c] # l
          BY <2>3 DEF ServerInv, BoundInv
    <3>3. \A c \in Connections : ListenerOf[c] # l => (HoldsLoop(c)' <=> HoldsLoop(c))
          BY <2>4, Types DEF HoldsLoop, KindOf
    <3> QED BY <2>3, <3>1, <3>2, <3>3, Types DEF Shaking
  <2>9. BoundInv' /\ WaitInv' /\ NoEarlyCut'
        BY <1>1, <1>3, <2>3, <2>4, <2>8 DEF ServerInv, BoundInv, WaitInv, NoEarlyCut
  <2>10. HoldInv'
    <3>1. ASSUME NEW e \in Connections, Shaking(e)', HoldsLoop(e)'
          PROVE  loop'[ListenerOf[e]] = "handshake"
          BY <2>4, <2>8, <3>1 DEF ServerInv, HoldInv
    <3>2. ASSUME NEW d \in Connections, NEW e \in Connections,
                 Shaking(d)', Shaking(e)', HoldsLoop(d)', ListenerOf[d] = ListenerOf[e]
          PROVE  d = e
          BY <2>8, <3>2 DEF ServerInv, HoldInv
    <3>3. ASSUME NEW k \in Listeners, loop'[k] = "handshake"
          PROVE  \E e \in Connections : ListenerOf[e] = k /\ Shaking(e)' /\ HoldsLoop(e)'
      <4>1. loop[k] = "handshake"
            BY <2>4, <3>3
      <4>2. PICK e \in Connections : ListenerOf[e] = k /\ Shaking(e) /\ HoldsLoop(e)
            BY <4>1 DEF ServerInv, HoldInv
      <4> QED BY <2>8, <4>2
    <3> QED BY <3>1, <3>2, <3>3 DEF HoldInv
  <2>11. /\ \A k \in Listeners : /\ waited'[k] \in Nat /\ Allowance(Done(k))' \in Nat
         /\ \A c \in Connections : Used(c)' \in Nat
         /\ elapsed' = 0
    <3>1. \A k \in Listeners : Done(k)' = Done(k)
          BY <2>3 DEF Done
    <3>2. \A c \in Connections : Used(c)' = Used(c)
          BY <2>3 DEF Used
    <3> QED BY <2>1, <2>3, <3>1, <3>2, Types DEF Allowance
  <2>12. TimeInv'
        BY <2>8, <2>11 DEF TimeInv
  <2>13. ShutdownIsBounded'
    <3>1. {c \in Connections : HoldsLoop(c)}' \in SUBSET Connections
          OBVIOUS
    <3>2. ExitBound' = ShutdownTimeout + Allowance({c \in Connections : HoldsLoop(c)}')
          BY DEF ExitBound, Allowance
    <3> QED BY <2>11, <3>1, <3>2, AllowanceType, Types DEF ShutdownIsBounded
  <2> QED BY <2>5, <2>7, <2>9, <2>10, <2>12, <2>13 DEF ServerInv
<1> QED BY <1>2, <1>3 DEF StartListener

\* Initially.
LEMMA ServerInitEstablishes == ServerInit => ServerInv
<1>1. SUFFICES ASSUME ServerInit PROVE ServerInv
      OBVIOUS
<1>2. /\ protocol = [l \in Listeners |-> "none"] /\ loop = [l \in Listeners |-> "unbound"]
      /\ waited = [l \in Listeners |-> 0] /\ conn = [c \in Connections |-> "none"]
      /\ age = [c \in Connections |-> 0]
      /\ full = FALSE /\ shutdown = FALSE /\ exited = FALSE /\ elapsed = 0
      /\ phase = "config" /\ started = 0
      BY <1>1 DEF ServerInit, ListenInit
<1>2a. /\ file \in ConfigFiles /\ host \in SUBSET {"leap day", "no resolver"}
       /\ config_file = NoConfigFile /\ conf = NoConfig
      BY <1>1 DEF ServerInit
<1>3. ListenTypeOK
  <2>1. full \in BOOLEAN /\ shutdown \in BOOLEAN /\ exited \in BOOLEAN
        BY <1>2, Zenon
  <2>2. /\ protocol \in [Listeners -> {"none", "http", "https", "tcp", "tcp+tls"}]
        /\ loop \in [Listeners -> {"unbound", "accepting", "handshake", "draining", "returned"}]
        /\ waited \in [Listeners -> 0..ShutdownTimeout]
        /\ age \in [Connections -> 0..HandshakeTimeout]
        BY <1>2, ListenersAssumption
  <2>3. conn \in [Connections -> ConnStates]
        BY <1>2 DEF ConnStates
  <2> QED BY <1>2, <2>1, <2>2, <2>3 DEF ListenTypeOK
<1>4. {l \in Listeners : loop[l] # "unbound"} = {} /\ {conf.listeners[i].name : i \in 1..started} = {}
      BY <1>2
<1>5. StartInv
      BY <1>2, <1>4, <1>2a DEF StartInv
<1>6. \A c \in Connections : ~ Shaking(c) /\ conn[c] = "none"
      BY <1>2 DEF Shaking, Handshaking
<1>7. BoundInv /\ HoldInv /\ WaitInv /\ NoEarlyCut
      BY <1>2, <1>6 DEF BoundInv, HoldInv, WaitInv, NoEarlyCut
<1>8. TimeInv
      BY <1>2, <1>6 DEF TimeInv, Open
<1>9. ShutdownIsBounded
      BY <1>2, ExitBoundIsAllowance, AllowanceType, ListenersAssumption DEF ShutdownIsBounded
<1> QED BY <1>3, <1>5, <1>7, <1>8, <1>9 DEF ServerInv

-----------------------------------------------------------------------------
(* Theorems *)

\* The inductive invariant holds in every state, from a failed start to the
\* last connection.
THEOREM ServerInvariant == ServerSpec => []ServerInv
<1>1. ServerInv /\ [ServerNext]_serverVars => ServerInv'
  <2>1. SUFFICES ASSUME ServerInv, [ServerNext]_serverVars PROVE ServerInv'
        OBVIOUS
  <2>2. CASE Start
        BY <2>1, <2>2, DeserializePreserves, LoadPreserves, SetUpPreserves,
           StartListenerPreserves DEF Start
  <2>3. CASE Exit
    <3>1. /\ phase = "running" /\ AllReturned /\ ProcessEnds
          /\ UNCHANGED <<file, host, phase, config_file, conf, started>>
          BY <2>3 DEF Exit
    <3>2. \A l \in Listeners : loop'[l] = "unbound" <=> loop[l] = "unbound"
          BY <2>1, <3>1, EndFacts
    <3>3. StartInv'
          BY <2>1, <3>1, <3>2, SameStart
    <3> QED BY <2>1, <3>1, <3>3, EndPreserves
  <2>4. CASE ListenersStep
    <3>1. UNCHANGED <<file, host, phase, config_file, conf, started>>
          BY <2>4 DEF ListenersStep
    <3>2. CASE Descriptors
          BY <2>1, <3>1, <3>2, SignalsPreserve DEF Descriptors, ServerInv, ListenTypeOK
    <3>3. CASE shutdown_signal
          BY <2>1, <3>1, <3>3, SignalsPreserve DEF shutdown_signal, ServerInv, ListenTypeOK
    <3> QED BY <2>1, <2>4, <3>1, <3>2, <3>3, ConnectionStepPreserves, ListenerStepPreserves,
               TickPreserves DEF ListenersStep
  <2>5. CASE UNCHANGED serverVars
    <3>1. UNCHANGED listenVars /\ UNCHANGED <<file, host, phase, config_file, conf, started>> /\ loop' = loop
          BY <2>5 DEF serverVars, listenVars
    <3>2. StartInv'
          BY <2>1, <3>1, SameStart
    <3> QED BY <2>1, <3>1, <3>2, StartStep
  <2> QED BY <2>1, <2>2, <2>3, <2>4, <2>5 DEF ServerNext
<1> QED BY <1>1, ServerInitEstablishes, PTL DEF ServerSpec

\* Every variable keeps its type, no timer runs past its timeout, and the
\* listeners that are bound are the first ones of the configuration.
THEOREM ServerTypeCorrect == ServerSpec => []ServerTypeOK
<1>1. ServerInv => ServerTypeOK
  <2>1. DOMAIN Loaded(config_file) = DOMAIN NoConfig
        BY DEF Loaded, NoConfig
  <2>2. DOMAIN Deserialized(file) = DOMAIN NoConfigFile
        BY DEF Deserialized, NoConfigFile
  <2> QED BY <2>1, <2>2 DEF ServerInv, StartInv, ServerTypeOK
<1> QED BY <1>1, ServerInvariant, PTL

\* No connection that its listener waits for is cut before the listener has
\* waited its whole timeout, unless the start of another listener failed.
THEOREM ConnectionsAreNotCutEarly == ServerSpec => []NoEarlyCut
<1>1. ServerInv => NoEarlyCut
      BY DEF ServerInv
<1> QED BY <1>1, ServerInvariant, PTL

\* After the signal the process is gone within the shutdown timeout and two
\* handshake timeouts for every connection to an HTTPS listener, for any
\* number of listeners and connections and whatever the clients do.
THEOREM ShutdownHasABound == ServerSpec => []ShutdownIsBounded
<1>1. ServerInv => ShutdownIsBounded
      BY DEF ServerInv
<1> QED BY <1>1, ServerInvariant, PTL

-----------------------------------------------------------------------------
(* An accepted configuration panics on misuse only. *)

\* The services all_tcp_services names are TCP services of the configuration,
LEMMA TcpServicesAreTcp ==
    ASSUME NEW services, NEW N \in Nat, DOMAIN services = 1..N,
           NEW name \in ToSet(NamesOf(Filter(services, IsTcp)))
    PROVE  \E i \in DOMAIN services : services[i].name = name /\ IsTcp(services[i])
<1> DEFINE kept == {i \in DOMAIN services : IsTcp(services[i])}
           at(n) == CHOOSE i \in kept : Cardinality({j \in kept : j <= i}) = n
<1>1. Filter(services, IsTcp) = [n \in 1..Cardinality(kept) |-> services[at(n)]]
      BY DEF Filter, At
<1>2. PICK n \in 1..Cardinality(kept) : name = services[at(n)].name
      BY <1>1 DEF ToSet, NamesOf
<1>3. at(n) \in kept
  <2>1. kept \in SUBSET (1..N)
        OBVIOUS
  <2> HIDE DEF kept
  <2>2. \E i \in kept : Cardinality({j \in kept : j <= i}) = n
        BY <2>1, RankExists
  <2> QED BY <2>2
<1> QED BY <1>2, <1>3

\* and those all_http_services names are proxies or static sites of it.
LEMMA HttpServicesAreHttp ==
    ASSUME NEW services, NEW N \in Nat, DOMAIN services = 1..N,
           NEW name \in ToSet(NamesOf(Filter(services, IsHttp)))
    PROVE  \E i \in DOMAIN services : services[i].name = name /\ IsHttp(services[i])
<1> DEFINE kept == {i \in DOMAIN services : IsHttp(services[i])}
           at(n) == CHOOSE i \in kept : Cardinality({j \in kept : j <= i}) = n
<1>1. Filter(services, IsHttp) = [n \in 1..Cardinality(kept) |-> services[at(n)]]
      BY DEF Filter, At
<1>2. PICK n \in 1..Cardinality(kept) : name = services[at(n)].name
      BY <1>1 DEF ToSet, NamesOf
<1>3. at(n) \in kept
  <2>1. kept \in SUBSET (1..N)
        OBVIOUS
  <2> HIDE DEF kept
  <2>2. \E i \in kept : Cardinality({j \in kept : j <= i}) = n
        BY <2>1, RankExists
  <2> QED BY <2>2
<1> QED BY <1>2, <1>3

\* parse_service keeps the name and the kind; an accepted service has one kind.
LEMMA ServiceKinds ==
    ASSUME NEW service, ServiceParses(service)
    PROVE  /\ parse_service(service).name = service.name
           /\ IsTcp(parse_service(service)) <=> service.tcp_proxy # {}
           /\ IsHttp(parse_service(service)) <=> service.tcp_proxy = {}
<1>1. parse_service(service).name = service.name /\ parse_service(service).static = service.static
      BY DEF parse_service
<1>2. /\ parse_service(service).tcp_proxy = {} <=> service.tcp_proxy = {}
      /\ parse_service(service).http_proxy = {} <=> service.http_proxy = {}
      BY DEF parse_service
<1> DEFINE given == {field \in {"http_proxy", "tcp_proxy", "static"} : service[field] # {}}
<1>3. PICK field : given = {field}
  <2>1. Cardinality(given) = 1
        BY DEF ServiceParses
  <2>2. given \in SUBSET {"http_proxy", "tcp_proxy", "static"}
        OBVIOUS
  <2> HIDE DEF given
  <2>3. IsFiniteSet(given)
    <3> DEFINE all == {"http_proxy"} \cup {"tcp_proxy"} \cup {"static"}
    <3>1. IsFiniteSet(all)
          BY FS_Singleton, FS_Union
    <3>2. given \in SUBSET all
          BY <2>2
    <3> HIDE DEF all
    <3> QED BY <3>1, <3>2, FS_Subset
  <2> QED BY <2>1, <2>3, FS_Singleton
<1>4. /\ service.http_proxy # {} <=> field = "http_proxy"
      /\ service.tcp_proxy # {} <=> field = "tcp_proxy"
      /\ service.static # {} <=> field = "static"
      /\ field \in {"http_proxy", "tcp_proxy", "static"}
      BY <1>3
<1> QED BY <1>1, <1>2, <1>4 DEF IsTcp, IsHttp

\* A listener of an accepted file finds its services in the maps of lines
\* 89-124, unless the file itself names one of the other kind.
LEMMA PanicIsMismatch ==
    ASSUME file \in ConfigFiles, config_file = Deserialized(file), Accepts(config_file), conf = Loaded(config_file),
           NEW k \in 1..Len(conf.listeners), ~ HasServices(conf.listeners[k])
    PROVE  Mismatch
<1> DEFINE services == [i \in DOMAIN config_file.services |-> parse_service(config_file.services[i])]
           l == config_file.listeners[k]
           proto == ProtocolOf(l.address)
           config == conf.listeners[k]
<1>0. WellFormed(config_file)
      BY DeserializedIsWellFormed
<1>1. conf.services = services /\ Names(services) = Names(conf.services)
      BY DEF Loaded
<1>2. PICK N \in Nat : DOMAIN config_file.services = 1..N /\ DOMAIN services = 1..N
  <2>1. config_file.services \in Seq(ToSet(config_file.services))
        BY <1>0 DEF WellFormed, IsIndexMap
  <2>2. DOMAIN config_file.services = 1..Len(config_file.services) /\ Len(config_file.services) \in Nat
        BY <2>1
  <2> QED BY <2>2
<1>3. k \in DOMAIN config_file.listeners /\ k \in DOMAIN conf.listeners
  <2>1. Loaded(config_file).listeners = [i \in DOMAIN config_file.listeners |-> ListenerConfig(config_file.listeners[i], services)]
        BY DEF Loaded
  <2>2. DOMAIN config_file.listeners = 1..Len(config_file.listeners) /\ Len(config_file.listeners) \in Nat
        BY <1>0 DEF WellFormed, IsIndexMap
  <2>3. Len(conf.listeners) = Len(config_file.listeners)
        BY <2>1, <2>2
  <2> QED BY <2>1, <2>2, <2>3
<1>4. config = ListenerConfig(l, services)
      BY <1>3 DEF Loaded
<1>5. /\ config.protocol = proto /\ proto \in Protocols
      /\ config.services = Default(l.services, default_services_for_listener(proto, services))
  <2>1. /\ config.protocol = proto
        /\ config.services = Default(l.services, default_services_for_listener(proto, services))
        BY <1>4 DEF ListenerConfig
  <2>2. proto \in Protocols
        BY <1>3 DEF Accepts, AddressParses
  <2> QED BY <2>1, <2>2
<1>6. \A i \in DOMAIN config_file.services :
        /\ services[i].name = config_file.services[i].name
        /\ IsTcp(services[i]) <=> config_file.services[i].tcp_proxy # {}
        /\ IsHttp(services[i]) \/ config_file.services[i].tcp_proxy # {}
  <2> SUFFICES ASSUME NEW i \in DOMAIN config_file.services
               PROVE  /\ services[i].name = config_file.services[i].name
                      /\ IsTcp(services[i]) <=> config_file.services[i].tcp_proxy # {}
                      /\ IsHttp(services[i]) \/ config_file.services[i].tcp_proxy # {}
      OBVIOUS
  <2>1. services[i] = parse_service(config_file.services[i]) /\ ServiceParses(config_file.services[i])
        BY DEF Accepts
  <2> HIDE DEF services
  <2> QED BY <2>1, ServiceKinds
<1>7. PICK name \in ToSet(config.services) :
        ~ \E i \in DOMAIN services :
            /\ services[i].name = name
            /\ IF proto \in Http THEN IsHttp(services[i]) ELSE IsTcp(services[i])
  <2> HIDE DEF services, proto, config
  <2> QED BY <1>1, <1>5 DEF HasServices, config
<1>8. ToSet(config.services) \subseteq Names(services)
      BY <1>1, <1>3 DEF Accepts, validate_listeners_config
<1>9. PICK j \in DOMAIN services : services[j].name = name
      BY <1>7, <1>8 DEF Names
<1>10. ~ Usable(config_file.services[j], proto)
      BY <1>2, <1>6, <1>7, <1>9 DEF Usable
<1>11. CASE l.services = {}
  <2>1. config.services = default_services_for_listener(proto, services)
        BY <1>5, <1>11 DEF Default
  <2> HIDE DEF services, config, proto
  <2>2. CASE proto \in {"tcp", "tcp+tls"}
    <3>1. name \in ToSet(NamesOf(Filter(services, IsTcp)))
          BY <1>7, <2>1, <2>2 DEF default_services_for_listener
    <3> QED BY <1>2, <1>7, <2>2, <3>1, TcpServicesAreTcp DEF Http
  <2>3. CASE proto \notin {"tcp", "tcp+tls"}
    <3>1. name \in ToSet(NamesOf(Filter(services, IsHttp)))
          BY <1>7, <2>1, <2>3 DEF default_services_for_listener
    <3>2. proto \in Http
          BY <1>5, <2>3 DEF Protocols, Http
    <3> QED BY <1>2, <1>7, <3>1, <3>2, HttpServicesAreHttp
  <2> QED BY <2>2, <2>3
<1>12. CASE l.services # {}
  <2>1. config.services \in l.services
        BY <1>5, <1>12 DEF Default
  <2>2. config_file.services[j].name \in ToSet(config.services)
        BY <1>2, <1>6, <1>7, <1>9
  <2>3. /\ ToSet(config_file.listeners) = InEffect(file.listeners)
        /\ ToSet(config_file.services) = InEffect(file.services)
        BY DeserializedEntries
  <2>4. PICK x \in DOMAIN file.listeners : file.listeners[x] = l
    <3>1. l \in ToSet(config_file.listeners)
          BY <1>3 DEF ToSet
    <3> QED BY <2>3, <3>1 DEF InEffect, Lasts
  <2>5. PICK y \in DOMAIN file.services : file.services[y] = config_file.services[j]
    <3>1. config_file.services[j] \in ToSet(config_file.services)
          BY <1>2, <1>9 DEF ToSet
    <3> QED BY <2>3, <3>1 DEF InEffect, Lasts
  <2> HIDE DEF config
  <2> QED BY <1>10, <2>1, <2>2, <2>4, <2>5 DEF Mismatch
<1> QED BY <1>11, <1>12

\* The start of a process with an accepted configuration panics only if the
\* file names a service of the wrong kind or has an empty child command, if
\* the host has no resolver, or if the default certificate is to be generated
\* on the 29th of February.
THEOREM StartPanicsAreKnown == ServerSpec => []PanicsAreKnown
<1> DEFINE Known == \/ Mismatch \/ file.command = {0} \/ "no resolver" \in host
                    \/ "leap day" \in host /\ ~ file.default_pem
<1>1. ServerInv /\ PanicsAreKnown /\ [ServerNext]_serverVars => PanicsAreKnown'
  <2> SUFFICES ASSUME ServerInv, PanicsAreKnown, [ServerNext]_serverVars, phase' = "panicked"
               PROVE  Known'
      BY DEF PanicsAreKnown
  <2>1. file' = file /\ host' = host
        BY DEF ServerNext, Start, Deserialize, load_and_validate, StartChildProcess, SetUp, SetUpPanics,
               SetUpFails, StartListener, Started, StartEnds, Exit, ListenersStep, serverVars
  <2>2. SUFFICES Known
        BY <2>1 DEF Mismatch
  <2>3. CASE phase = "panicked"
        BY <2>3 DEF PanicsAreKnown
  <2>4. CASE phase # "panicked"
    <3>1. StartChildProcess \/ SetUpPanics \/ StartListener
      <4>1. ~ Deserialize /\ ~ load_and_validate /\ ~ SetUpFails /\ ~ Started
            BY DEF Deserialize, load_and_validate, SetUpFails, Started, StartEnds
      <4>2. ~ SetUp
            BY DEF SetUp, NextPhase
      <4>3. ~ Exit /\ ~ ListenersStep /\ ~ UNCHANGED serverVars
            BY <2>4 DEF Exit, ListenersStep, serverVars
      <4> QED BY <4>1, <4>2, <4>3 DEF ServerNext, Start
    <3>2. CASE StartChildProcess
      <4>1. phase = "child" /\ conf.command = {0}
            BY <3>2 DEF StartChildProcess
      <4>2. conf = Loaded(config_file) /\ config_file = Deserialized(file)
            BY <4>1 DEF ServerInv, StartInv
      <4> QED BY <4>1, <4>2 DEF Loaded, Deserialized
    <3>3. CASE SetUpPanics
          BY <3>3 DEF SetUpPanics, TripsOver
    <3>4. CASE StartListener
      <4>1. /\ phase = "binding" /\ started < Len(conf.listeners)
            /\ ~ HasServices(conf.listeners[started + 1])
            BY <3>4 DEF StartListener, StartEnds
      <4>2. /\ conf = Loaded(config_file) /\ Accepts(config_file) /\ config_file = Deserialized(file)
            /\ file \in ConfigFiles /\ started \in Nat
            BY <4>1 DEF ServerInv, StartInv
      <4>3. started + 1 \in 1..Len(conf.listeners)
            BY <4>1, <4>2, LoadedListeners, DeserializedIsWellFormed
      <4> QED BY <4>1, <4>2, <4>3, PanicIsMismatch
    <3> QED BY <3>1, <3>2, <3>3, <3>4
  <2> QED BY <2>3, <2>4
<1>2. ServerInit => PanicsAreKnown
      BY DEF ServerInit, PanicsAreKnown
<1> QED BY <1>1, <1>2, ServerInvariant, PTL DEF ServerSpec

-----------------------------------------------------------------------------
(* The rules of an accepted configuration are those that were read. *)

\* filter() keeps the order of what all passes.
LEMMA FilterOfAll ==
    ASSUME NEW N \in Nat, NEW n \in 1..N
    PROVE  Cardinality(1..N) = N /\ At(1..N, n) = n
<1>1. \A i \in 1..N : Cardinality({j \in 1..N : j <= i}) = i
  <2> SUFFICES ASSUME NEW i \in 1..N PROVE Cardinality({j \in 1..N : j <= i}) = i
      OBVIOUS
  <2>1. {j \in 1..N : j <= i} = 1..i
        OBVIOUS
  <2>2. Cardinality(1..i) = i
        BY FS_Interval
  <2> QED BY <2>1, <2>2
<1>2. Cardinality(1..N) = N
      BY FS_Interval
<1> QED BY <1>1, <1>2 DEF At

\* IndexMap::extend with names that are new appends.
LEMMA ExtendAppends ==
    ASSUME NEW rules, NEW more, IsIndexMap(rules), IsIndexMap(more),
           Names(rules) \cap Names(more) = {}
    PROVE  Extend(rules, more) = rules \o more
<1> DEFINE kept == {i \in DOMAIN more : more[i].name \notin Names(rules)}
           replaced == [i \in DOMAIN rules |->
                            IF rules[i].name \in Names(more)
                            THEN CHOOSE r \in ToSet(more) : r.name = rules[i].name
                            ELSE rules[i]]
<1>1. Extend(rules, more) = replaced \o [n \in 1..Cardinality(kept) |-> more[At(kept, n)]]
      BY DEF Extend, Filter, At
<1>2. replaced = rules
  <2>1. \A i \in DOMAIN rules : rules[i].name \notin Names(more)
        BY DEF Names
  <2>2. rules = [i \in DOMAIN rules |-> rules[i]]
        BY DEF IsIndexMap
  <2> QED BY <2>1, <2>2
<1>3. Len(more) \in Nat /\ DOMAIN more = 1..Len(more)
      BY DEF IsIndexMap
<1>4. kept = 1..Len(more)
      BY <1>3 DEF Names
<1> HIDE DEF kept, replaced
<1>5. [n \in 1..Cardinality(kept) |-> more[At(kept, n)]] = more
  <2>1. CASE Len(more) = 0
    <3>1. Cardinality(kept) = 0
          BY <1>4, <2>1, FS_EmptySet
    <3> QED BY <1>3, <2>1, <3>1 DEF IsIndexMap
  <2>2. CASE Len(more) # 0
    <3>1. Cardinality(kept) = Len(more) /\ \A n \in 1..Len(more) : At(kept, n) = n
          BY <1>3, <1>4, <2>2, FilterOfAll
    <3> QED BY <1>3, <3>1 DEF IsIndexMap
  <2> QED BY <2>1, <2>2
<1> QED BY <1>1, <1>2, <1>5

\* Two maps without a common name make a map.
LEMMA AppendedMaps ==
    ASSUME NEW a, NEW b, IsIndexMap(a), IsIndexMap(b), Names(a) \cap Names(b) = {}
    PROVE  IsIndexMap(a \o b) /\ ToSet(a \o b) = ToSet(a) \cup ToSet(b)
<1> DEFINE c == a \o b
<1>1. /\ Len(a) \in Nat /\ DOMAIN a = 1..Len(a) /\ Len(b) \in Nat /\ DOMAIN b = 1..Len(b)
      /\ a \in Seq(ToSet(a) \cup ToSet(b)) /\ b \in Seq(ToSet(a) \cup ToSet(b))
      BY DEF IsIndexMap
<1>2. /\ c \in Seq(ToSet(a) \cup ToSet(b)) /\ Len(c) = Len(a) + Len(b) /\ DOMAIN c = 1..Len(c)
      /\ \A i \in 1..Len(a) : c[i] = a[i]
      /\ \A i \in 1..Len(b) : c[Len(a) + i] = b[i]
      BY <1>1
<1> HIDE DEF c
<1>3. \A i \in DOMAIN c : \/ i \in DOMAIN a /\ c[i] = a[i]
                          \/ i - Len(a) \in DOMAIN b /\ c[i] = b[i - Len(a)]
  <2> SUFFICES ASSUME NEW i \in DOMAIN c
               PROVE  \/ i \in DOMAIN a /\ c[i] = a[i]
                      \/ i - Len(a) \in DOMAIN b /\ c[i] = b[i - Len(a)]
      OBVIOUS
  <2>1. CASE i <= Len(a)
        BY <1>1, <1>2, <2>1
  <2>2. CASE ~ (i <= Len(a))
    <3>1. i - Len(a) \in 1..Len(b) /\ Len(a) + (i - Len(a)) = i
          BY <1>1, <1>2, <2>2
    <3> QED BY <1>1, <1>2, <3>1
  <2> QED BY <2>1, <2>2
<1>4. \A i \in DOMAIN a : i \in DOMAIN c /\ c[i] = a[i]
      BY <1>1, <1>2
<1>5. \A i \in DOMAIN b : Len(a) + i \in DOMAIN c /\ c[Len(a) + i] = b[i]
      BY <1>1, <1>2
<1>6. ToSet(c) = ToSet(a) \cup ToSet(b)
      BY <1>3, <1>4, <1>5 DEF ToSet
<1>7. ASSUME NEW i \in DOMAIN c, NEW j \in DOMAIN c, c[i].name = c[j].name PROVE i = j
  <2>1. \A x \in DOMAIN a, y \in DOMAIN b : a[x].name # b[y].name
        BY DEF Names
  <2>2. CASE i \in DOMAIN a /\ c[i] = a[i] /\ j \in DOMAIN a /\ c[j] = a[j]
        BY <1>7, <2>2 DEF IsIndexMap
  <2>3. CASE /\ i - Len(a) \in DOMAIN b /\ c[i] = b[i - Len(a)]
             /\ j - Len(a) \in DOMAIN b /\ c[j] = b[j - Len(a)]
    <3>1. i - Len(a) = j - Len(a)
          BY <1>7, <2>3 DEF IsIndexMap
    <3> QED BY <1>1, <1>2, <3>1
  <2> QED BY <1>3, <1>7, <2>1, <2>2, <2>3
<1> QED BY <1>2, <1>6, <1>7 DEF IsIndexMap, c

\* A map has as many entries as there are.
LEMMA MapLength ==
    ASSUME NEW s, IsIndexMap(s)
    PROVE  Len(s) = Cardinality(ToSet(s))
<1>1. s \in [1..Len(s) -> ToSet(s)] /\ Len(s) \in Nat /\ DOMAIN s = 1..Len(s)
      BY DEF IsIndexMap
<1>2. \A i, j \in DOMAIN s : s[i] = s[j] => i = j
      BY DEF IsIndexMap
<1>3. \A t \in ToSet(s) : \E i \in 1..Len(s) : s[i] = t
      BY <1>1 DEF ToSet
<1>4. s \in Bijection(1..Len(s), ToSet(s))
      BY <1>1, <1>2, <1>3 DEF Bijection, Injection, Surjection, IsInjective
<1> QED BY <1>1, <1>4, FS_CountingElements DEF ExistsBijection

\* What ret holds after the files so far, as one function.
Merging(f, files, L) ==
    f = [n \in 0..L |-> IF n = 0 THEN <<>> ELSE Extend(f[n - 1], files[n].rules)]

\* The loop of load_rules has a result.
LEMMA MergingExists ==
    ASSUME NEW files, NEW L \in Nat
    PROVE  \E f : Merging(f, files, L)
<1> DEFINE S == {n \in Nat : ~ \E f : Merging(f, files, n)}
<1>1. CASE S = {}
      BY <1>1
<1>2. CASE S # {}
  <2>1. PICK n \in S : \A m \in S : n <= m
        BY <1>2, LeastNumber
  <2>2. n \in Nat /\ n # 0
    <3>1. Merging([k \in 0..0 |-> <<>>], files, 0)
          BY DEF Merging
    <3> QED BY <3>1
  <2>3. n - 1 \in Nat /\ n - 1 \notin S
        BY <2>1, <2>2
  <2>4. PICK f : Merging(f, files, n - 1)
        BY <2>3
  <2> DEFINE g == [k \in 0..n |-> IF k = n THEN Extend(f[n - 1], files[n].rules) ELSE f[k]]
  <2>5. \A k \in 0..n : g[k] = IF k = 0 THEN <<>> ELSE Extend(g[k - 1], files[k].rules)
    <3> SUFFICES ASSUME NEW k \in 0..n
                 PROVE  g[k] = IF k = 0 THEN <<>> ELSE Extend(g[k - 1], files[k].rules)
        OBVIOUS
    <3>1. CASE k = n
      <4>1. g[n] = Extend(f[n - 1], files[n].rules) /\ g[n - 1] = f[n - 1]
            BY <2>2
      <4> QED BY <2>2, <3>1, <4>1
    <3>2. CASE k # n
      <4>1. k \in 0..(n - 1) /\ g[k] = f[k]
            BY <2>2, <3>2
      <4>2. f[k] = IF k = 0 THEN <<>> ELSE Extend(f[k - 1], files[k].rules)
            BY <2>2, <2>4, <4>1 DEF Merging
      <4>3. k # 0 => g[k - 1] = f[k - 1]
            BY <2>2, <4>1
      <4> QED BY <4>1, <4>2, <4>3
    <3> QED BY <3>1, <3>2
  <2>6. Merging(g, files, n)
    <3> DEFINE h == [k \in 0..n |-> IF k = 0 THEN <<>> ELSE Extend(g[k - 1], files[k].rules)]
    <3>1. g = [k \in 0..n |-> g[k]]
          OBVIOUS
    <3> HIDE DEF g
    <3> QED BY <2>5, <3>1 DEF Merging
  <2> QED BY <2>1, <2>6
<1> QED BY <1>1, <1>2

\* It is a map with exactly the rules of the files.
LEMMA MergedRules ==
    ASSUME NEW files, NEW L \in Nat, NEW f, Merging(f, files, L),
           \A k \in 1..L : IsIndexMap(files[k].rules),
           \A i, j \in 1..L : i # j => Names(files[i].rules) \cap Names(files[j].rules) = {}
    PROVE  IsIndexMap(f[L]) /\ ToSet(f[L]) = UNION {ToSet(files[k].rules) : k \in 1..L}
<1> DEFINE U(n) == UNION {ToSet(files[k].rules) : k \in 1..n}
           Good(n) == IsIndexMap(f[n]) /\ ToSet(f[n]) = U(n)
           S == {n \in 0..L : ~ Good(n)}
<1>1. \A n \in 0..L : f[n] = IF n = 0 THEN <<>> ELSE Extend(f[n - 1], files[n].rules)
      BY DEF Merging
<1>2. CASE S # {}
  <2>1. PICK n \in S : \A m \in S : n <= m
    <3>1. S \in SUBSET Nat
          OBVIOUS
    <3> HIDE DEF S
    <3> QED BY <1>2, <3>1, LeastNumber
  <2>2. n # 0
    <3>1. f[0] = <<>>
          BY <1>1
    <3>2. IsIndexMap(<<>>) /\ ToSet(<<>>) = {}
          BY DEF IsIndexMap, ToSet
    <3>3. U(0) = {}
          OBVIOUS
    <3>4. Good(0)
          BY <3>1, <3>2, <3>3
    <3> QED BY <2>1, <3>4
  <2>3. n \in 1..L /\ n - 1 \in 0..L /\ n - 1 \notin S
        BY <2>1, <2>2
  <2>4. Good(n - 1)
        BY <2>3
  <2> DEFINE a == f[n - 1]
             b == files[n].rules
  <2>5. IsIndexMap(a) /\ IsIndexMap(b)
        BY <2>3, <2>4
  <2>6. Names(a) \cap Names(b) = {}
    <3> SUFFICES ASSUME NEW x \in DOMAIN a, a[x].name \in Names(b) PROVE FALSE
        BY DEF Names
    <3>1. PICK k \in 1..(n - 1) : a[x] \in ToSet(files[k].rules)
      <4>1. a[x] \in ToSet(a)
            BY DEF ToSet
      <4> QED BY <2>4, <4>1
    <3>2. a[x].name \in Names(files[k].rules)
          BY <3>1 DEF ToSet, Names
    <3>3. k \in 1..L /\ k # n
          BY <2>3, <3>1
    <3> QED BY <2>3, <3>2, <3>3
  <2>7. f[n] = a \o b
        BY <1>1, <2>1, <2>2, <2>5, <2>6, ExtendAppends
  <2>8. IsIndexMap(f[n]) /\ ToSet(f[n]) = ToSet(a) \cup ToSet(b)
    <3> HIDE DEF a, b
    <3> QED BY <2>5, <2>6, <2>7, AppendedMaps
  <2>9. U(n) = U(n - 1) \cup ToSet(b)
    <3>1. \A x : x \in U(n) <=> \E k \in 1..n : x \in ToSet(files[k].rules)
          OBVIOUS
    <3>2. \A x : x \in U(n - 1) <=> \E k \in 1..(n - 1) : x \in ToSet(files[k].rules)
          OBVIOUS
    <3>3. \A k : k \in 1..n <=> (k \in 1..(n - 1) \/ k = n)
          BY <2>3
    <3> HIDE DEF U
    <3>4. ASSUME NEW x PROVE x \in U(n) <=> (x \in U(n - 1) \/ x \in ToSet(b))
          BY <3>1, <3>2, <3>3
    <3> QED BY <3>4
  <2>10. ToSet(a) = U(n - 1)
        BY <2>4
  <2>11. Good(n)
    <3> HIDE DEF a, b, U
    <3> QED BY <2>8, <2>9, <2>10
  <2> QED BY <2>1, <2>11
<1>3. CASE S = {}
  <2>1. L \in 0..L
        OBVIOUS
  <2>2. Good(L)
        BY <1>3, <2>1
  <2> QED BY <2>2
<1> QED BY <1>2, <1>3

\* The files load_rules reads are the readable entries that end in .yml.
LEMMA FilesOfFolder ==
    ASSUME NEW folder, folder.entries \in Seq(ToSet(folder.entries)),
           folder.readable \in 0..Len(folder.entries)
    PROVE  LET files == YmlFiles(folder)
               kept == {i \in 1..folder.readable : folder.entries[i].yml}
           IN  /\ Len(files) \in Nat /\ DOMAIN files = 1..Len(files)
               /\ \A n \in DOMAIN files : \E i \in kept : files[n] = folder.entries[i]
               /\ \A i \in kept : \E n \in DOMAIN files : files[n] = folder.entries[i]
<1> DEFINE entries == SubSeq(folder.entries, 1, folder.readable)
           kept == {i \in 1..folder.readable : folder.entries[i].yml}
           chosen == {i \in DOMAIN entries : entries[i].yml}
           files == YmlFiles(folder)
<1>1. folder.readable \in Nat /\ DOMAIN entries = 1..folder.readable
      /\ \A i \in 1..folder.readable : entries[i] = folder.entries[i]
      OBVIOUS
<1>2. chosen = kept
      BY <1>1
<1>3. files = [n \in 1..Cardinality(chosen) |-> entries[At(chosen, n)]]
      BY DEF YmlFiles, Filter, At
<1> HIDE DEF chosen, files, entries
<1>4. kept \in SUBSET (1..folder.readable)
      OBVIOUS
<1>5. /\ Cardinality(kept) \in Nat
      /\ \A n \in 1..Cardinality(kept) : At(kept, n) \in kept
      /\ \A i \in kept : \E n \in 1..Cardinality(kept) : At(kept, n) = i
  <2> HIDE DEF kept
  <2> QED BY <1>1, <1>4, FilterIsBijective
<1>6. Len(files) = Cardinality(kept) /\ DOMAIN files = 1..Cardinality(kept)
      BY <1>2, <1>3, <1>5
<1>7. \A n \in DOMAIN files : At(kept, n) \in kept /\ files[n] = folder.entries[At(kept, n)]
      BY <1>1, <1>2, <1>3, <1>4, <1>5, <1>6
<1> HIDE DEF kept
<1>8. \A i \in kept : \E n \in DOMAIN files : files[n] = folder.entries[i]
      BY <1>5, <1>6, <1>7
<1> QED BY <1>5, <1>6, <1>7, <1>8 DEF files, kept

\* The rules of the folder are those of its files.
LEMMA FolderRules ==
    ASSUME NEW f, WellFormed(f), RulesFolderLoads(f.folder)
    PROVE  /\ IsIndexMap(load_rules(f.folder))
           /\ ToSet(load_rules(f.folder)) =
                UNION {ToSet(f.folder.entries[i].rules) :
                            i \in {n \in 1..f.folder.readable : f.folder.entries[n].yml}}
<1> DEFINE files == YmlFiles(f.folder)
           kept == {n \in 1..f.folder.readable : f.folder.entries[n].yml}
           merged == CHOOSE g : Merging(g, files, Len(files))
<1>1. /\ f.folder.entries \in Seq(ToSet(f.folder.entries))
      /\ f.folder.readable \in 0..Len(f.folder.entries)
      /\ \A i \in DOMAIN f.folder.entries : IsIndexMap(f.folder.entries[i].rules)
      BY DEF WellFormed
<1>2. /\ Len(files) \in Nat /\ DOMAIN files = 1..Len(files)
      /\ \A n \in DOMAIN files : \E i \in kept : files[n] = f.folder.entries[i]
      /\ \A i \in kept : \E n \in DOMAIN files : files[n] = f.folder.entries[i]
      BY <1>1, FilesOfFolder
<1>3. load_rules(f.folder) = merged[Len(files)]
      BY DEF load_rules, Merging
<1>4. \A i \in kept : i \in DOMAIN f.folder.entries
      BY <1>1
<1>5. \A i, j \in 1..Len(files) : i # j => Names(files[i].rules) \cap Names(files[j].rules) = {}
      BY <1>2 DEF RulesFolderLoads
<1> HIDE DEF files, kept
<1>6. \A n \in 1..Len(files) : IsIndexMap(files[n].rules)
      BY <1>1, <1>2, <1>4
<1>7. Merging(merged, files, Len(files))
      BY <1>2, MergingExists
<1> HIDE DEF merged
<1>8. /\ IsIndexMap(merged[Len(files)])
      /\ ToSet(merged[Len(files)]) = UNION {ToSet(files[k].rules) : k \in 1..Len(files)}
      BY <1>2, <1>5, <1>6, <1>7, MergedRules
<1>9. UNION {ToSet(files[k].rules) : k \in 1..Len(files)}
        = UNION {ToSet(f.folder.entries[i].rules) : i \in kept}
      BY <1>2
<1> QED BY <1>3, <1>8, <1>9 DEF kept

\* No rule that an accepted configuration was read with is lost, added or
\* hidden by another.
LEMMA RulesAreRead ==
    ASSUME file \in ConfigFiles, config_file = Deserialized(file), Accepts(config_file),
           conf = Loaded(config_file)
    PROVE  ToSet(conf.rules) = RulesRead /\ Len(conf.rules) = Cardinality(RulesRead)
<1> DEFINE folder == load_rules(config_file.folder)
           kept == {n \in 1..file.folder.readable : file.folder.entries[n].yml}
<1>0. WellFormed(config_file)
      BY DeserializedIsWellFormed
<1>1. IsIndexMap(config_file.rules)
      BY <1>0 DEF WellFormed
<1>2. RulesFolderLoads(config_file.folder) /\ Names(folder) \cap Names(config_file.rules) = {}
      BY DEF Accepts
<1>3. /\ IsIndexMap(folder)
      /\ ToSet(folder) = UNION {ToSet(config_file.folder.entries[i].rules) :
                            i \in {n \in 1..config_file.folder.readable : config_file.folder.entries[n].yml}}
      BY <1>0, <1>2, FolderRules
<1>4. conf.rules = Extend(config_file.rules, folder)
      BY DEF Loaded
<1> HIDE DEF folder
<1>5. conf.rules = config_file.rules \o folder
      BY <1>1, <1>2, <1>3, <1>4, ExtendAppends
<1>6. IsIndexMap(conf.rules) /\ ToSet(conf.rules) = ToSet(config_file.rules) \cup ToSet(folder)
      BY <1>1, <1>2, <1>3, <1>5, AppendedMaps
<1>7. /\ ToSet(config_file.rules) = InEffect(file.rules)
      /\ \A i \in DOMAIN file.folder.entries :
            /\ config_file.folder.entries[i].yml = file.folder.entries[i].yml
            /\ ToSet(config_file.folder.entries[i].rules) = InEffect(file.folder.entries[i].rules)
      BY DeserializedEntries
<1>8. config_file.folder.readable = file.folder.readable
      BY DEF Deserialized
<1>9. \A i \in 1..file.folder.readable : i \in DOMAIN file.folder.entries
      BY ServerAssumption
<1>10. {n \in 1..config_file.folder.readable : config_file.folder.entries[n].yml} = kept
      BY <1>7, <1>8, <1>9
<1>11. \A i \in kept : ToSet(config_file.folder.entries[i].rules) = InEffect(file.folder.entries[i].rules)
      BY <1>7, <1>9
<1>12. ToSet(conf.rules) = RulesRead
  <2>1. RulesRead = InEffect(file.rules) \cup UNION {InEffect(file.folder.entries[i].rules) : i \in kept}
        BY DEF RulesRead
  <2>2. ToSet(folder) = UNION {ToSet(config_file.folder.entries[i].rules) : i \in kept}
        BY <1>3, <1>10
  <2> HIDE DEF kept
  <2>3. UNION {ToSet(config_file.folder.entries[i].rules) : i \in kept}
            = UNION {InEffect(file.folder.entries[i].rules) : i \in kept}
        BY <1>11, Zenon
  <2> QED BY <1>6, <1>7, <2>1, <2>2, <2>3
<1> QED BY <1>6, <1>12, MapLength

-----------------------------------------------------------------------------
(* A process that runs does what its configuration says. *)

\* The listeners started so far have their services and their protocol.
StartedInv ==
    /\ phase = "running" => started = Len(conf.listeners)
    /\ \A i \in 1..started :
        /\ HasServices(conf.listeners[i])
        /\ protocol[conf.listeners[i].name] = conf.listeners[i].protocol

\* A listener is started with what its configuration says, and keeps it.
LEMMA StartedPreserved ==
    ASSUME ServerInv, StartedInv, [ServerNext]_serverVars
    PROVE  StartedInv'
<1>1. CASE UNCHANGED <<protocol, conf, started>> /\ (phase' = "running" => phase = "running")
      BY <1>1 DEF StartedInv, HasServices
<1>2. CASE Exit \/ UNCHANGED serverVars
      BY <1>1, <1>2 DEF Exit, ProcessEnds, serverVars, listenVars
<1>3. CASE ListenersStep
  <2>1. UNCHANGED <<phase, conf, started>>
        BY <1>3 DEF ListenersStep
  <2>2. protocol' = protocol
    <3>1. ASSUME NEW c \in Connections, ConnectionStep(c) PROVE protocol' = protocol
      <4>1. ClientStep(c) => protocol' = protocol
            BY DEF ClientStep, Connect, ClientHello, HandshakeDone, HandshakeError, Finish
      <4>2. Accept(c) => protocol' = protocol
            BY DEF Accept, AcceptHttp, AcceptHttps, AcceptTcp, AcceptTcpAndTls, Accepted
      <4> QED BY <3>1, <4>1, <4>2 DEF ConnectionStep, AcceptFails, HandshakeExpires, Detach
    <3>2. ASSUME NEW l \in Listeners, ListenerStep(l) PROVE protocol' = protocol
          BY <3>2 DEF ListenerStep, StopAccepting, Drained, GiveUp
    <3>3. Descriptors \/ shutdown_signal \/ Tick => protocol' = protocol
          BY DEF Descriptors, shutdown_signal, Tick
    <3> QED BY <1>3, <3>1, <3>2, <3>3 DEF ListenersStep
  <2> QED BY <1>1, <2>1, <2>2
<1>4. CASE load_and_validate
  <2>1. CASE StartEnds("failed")
        BY <1>1, <2>1 DEF StartEnds, ProcessEnds
  <2>2. CASE /\ conf' = Loaded(config_file) /\ phase' = "child"
             /\ UNCHANGED <<listenVars, file, host, config_file, started>>
    <3>1. started = 0
          BY <1>4 DEF load_and_validate, ServerInv, StartInv
    <3> QED BY <2>2, <3>1 DEF StartedInv
  <2> QED BY <1>4, <2>1, <2>2 DEF load_and_validate
<1>5. CASE Deserialize \/ StartChildProcess \/ SetUp \/ SetUpPanics \/ SetUpFails
  <2>1. UNCHANGED <<protocol, conf, started>>
        BY <1>5 DEF Deserialize, StartChildProcess, SetUp, SetUpPanics, SetUpFails, StartEnds, ProcessEnds,
                    listenVars
  <2>2. phase' # "running"
    <3>1. CASE SetUp
          BY <3>1 DEF SetUp, NextPhase
    <3> QED BY <1>5, <3>1 DEF Deserialize, StartChildProcess, SetUpPanics, SetUpFails, StartEnds
  <2> QED BY <1>1, <2>1, <2>2
<1>6. CASE Started
  <2>1. UNCHANGED <<protocol, conf, started>> /\ started = Len(conf.listeners)
        BY <1>6 DEF Started, listenVars
  <2> QED BY <2>1 DEF StartedInv, HasServices
<1>7. CASE StartListener
  <2> DEFINE config == conf.listeners[started + 1]
             l == config.name
  <2>1. phase = "binding" /\ started < Len(conf.listeners)
        BY <1>7 DEF StartListener
  <2>2. CASE StartEnds("panicked") \/ StartEnds("failed")
        BY <1>1, <2>2 DEF StartEnds, ProcessEnds
  <2>3. CASE /\ HasServices(config) /\ Bind(l, config.protocol) /\ started' = started + 1
             /\ UNCHANGED <<file, host, phase, config_file, conf>>
    <3>1. /\ conf = Loaded(config_file) /\ Accepts(config_file) /\ WellFormed(config_file) /\ started \in Nat
          /\ {k \in Listeners : loop[k] # "unbound"} = {conf.listeners[i].name : i \in 1..started}
          BY <2>1, DeserializedIsWellFormed DEF ServerInv, StartInv
    <3>2. l \in Listeners
          BY <2>1, <3>1, LoadedListeners
    <3> HIDE DEF config
    <3>3. protocol'[l] = config.protocol /\ \A k \in Listeners : k # l => protocol'[k] = protocol[k]
          BY <2>3, <3>2 DEF Bind, ServerInv, ListenTypeOK
    <3>4. \A i \in 1..started : conf.listeners[i].name \in Listeners /\ conf.listeners[i].name # l
          BY <2>3, <3>1 DEF Bind
    <3>5. ASSUME NEW i \in 1..(started + 1)
          PROVE  /\ HasServices(conf.listeners[i])
                 /\ protocol'[conf.listeners[i].name] = conf.listeners[i].protocol
      <4>1. CASE i = started + 1
            BY <2>3, <3>3, <4>1 DEF config
      <4>2. CASE i # started + 1
        <5>1. i \in 1..started
              BY <3>1, <4>2
        <5> QED BY <3>3, <3>4, <5>1 DEF StartedInv
      <4> QED BY <4>1, <4>2
    <3>6. conf' = conf /\ phase' # "running" /\ started' = started + 1
          BY <2>1, <2>3
    <3>7. \A i \in 1..(started + 1) : HasServices(conf.listeners[i])' <=> HasServices(conf.listeners[i])
          BY <3>6 DEF HasServices
    <3> QED BY <3>5, <3>6, <3>7 DEF StartedInv
  <2> QED BY <1>7, <2>2, <2>3 DEF StartListener
<1> QED BY <1>2, <1>3, <1>4, <1>5, <1>6, <1>7 DEF ServerNext, Start

\* A list that is not empty has a first element.
LEMMA FirstElement ==
    ASSUME NEW s, NEW N \in Nat, s = [i \in 1..N |-> s[i]], s # <<>>
    PROVE  1 \in DOMAIN s
<1>1. N = 0 => s = <<>>
      OBVIOUS
<1> QED BY <1>1

\* The names of the services filter() keeps are a list.
LEMMA DefaultIsList ==
    ASSUME NEW proto, NEW services, NEW N \in Nat, DOMAIN services = 1..N,
           NEW names, names = default_services_for_listener(proto, services)
    PROVE  \E n \in Nat : names = [i \in 1..n |-> names[i]]
<1> DEFINE tcp == {i \in DOMAIN services : IsTcp(services[i])}
           http == {i \in DOMAIN services : IsHttp(services[i])}
<1>1. Cardinality(tcp) \in Nat /\ Cardinality(http) \in Nat
  <2>1. tcp \in SUBSET (1..N) /\ http \in SUBSET (1..N)
        OBVIOUS
  <2> HIDE DEF tcp, http
  <2> QED BY <2>1, FilterIsBijective
<1>2. DOMAIN Filter(services, IsTcp) = 1..Cardinality(tcp)
      BY DEF Filter, At
<1>3. DOMAIN Filter(services, IsHttp) = 1..Cardinality(http)
      BY DEF Filter, At
<1> HIDE DEF tcp, http
<1>4. \A t : NamesOf(t) = [i \in DOMAIN t |-> NamesOf(t)[i]]
      BY DEF NamesOf
<1> QED BY <1>1, <1>2, <1>3, <1>4 DEF default_services_for_listener

\* What the start has checked is what RunsAsConfigured asks for.
LEMMA StartedIsConfigured ==
    ASSUME ServerInv, StartedInv
    PROVE  RunsAsConfigured
<1> SUFFICES ASSUME phase = "running" PROVE RunsAsConfigured
    BY DEF RunsAsConfigured
<1> DEFINE services == [i \in DOMAIN config_file.services |-> parse_service(config_file.services[i])]
<1>0. /\ conf = Loaded(config_file) /\ Accepts(config_file)
      /\ config_file = Deserialized(file) /\ file \in ConfigFiles
      BY DEF ServerInv, StartInv
<1>1. conf = Loaded(config_file) /\ Accepts(config_file) /\ WellFormed(config_file)
      BY <1>0, DeserializedIsWellFormed
<1>2. DOMAIN config_file.listeners = 1..Len(config_file.listeners) /\ Len(config_file.listeners) \in Nat
      BY <1>1 DEF WellFormed, IsIndexMap
<1>3. conf.listeners = [i \in DOMAIN config_file.listeners |-> ListenerConfig(config_file.listeners[i], services)]
      BY <1>1 DEF Loaded
<1>4. /\ DOMAIN conf.listeners = DOMAIN config_file.listeners /\ started = Len(conf.listeners)
      /\ Len(conf.listeners) = Len(config_file.listeners)
      BY <1>2, <1>3 DEF StartedInv
<1>5. conf.services = services
      BY <1>1 DEF Loaded
<1>6. \A i, j \in DOMAIN conf.listeners : conf.listeners[i].port = conf.listeners[j].port => i = j
      BY <1>1 DEF Accepts, validate_listeners_config
<1>7. ASSUME NEW i \in DOMAIN config_file.listeners
      PROVE  LET l == config_file.listeners[i] IN
             /\ conf.listeners[i].name = l.name
             /\ loop[l.name] # "unbound" /\ protocol[l.name] = ProtocolOf(l.address)
             /\ \E j \in DOMAIN config_file.services :
                 /\ config_file.services[j].name \in ToSet(conf.listeners[i].services)
                 /\ Usable(config_file.services[j], protocol[l.name])
  <2> DEFINE l == config_file.listeners[i]
             config == conf.listeners[i]
  <2>1. i \in 1..started /\ i \in DOMAIN conf.listeners
        BY <1>2, <1>4, <1>7
  <2>2. /\ config.name = l.name /\ config.protocol = ProtocolOf(l.address)
        /\ config.services = Default(l.services, default_services_for_listener(ProtocolOf(l.address), services))
    <3>1. config = ListenerConfig(l, services)
          BY <1>3, <1>7
    <3> HIDE DEF config, l, services
    <3> QED BY <3>1 DEF ListenerConfig
  <2>3. loop[l.name] # "unbound"
    <3>1. conf.listeners[i].name \in {k \in Listeners : loop[k] # "unbound"}
          BY <2>1 DEF ServerInv, StartInv
    <3> QED BY <2>2, <3>1
  <2>4. protocol[l.name] = ProtocolOf(l.address) /\ HasServices(config)
        BY <2>1, <2>2 DEF StartedInv
  <2>5. config.services # <<>>
        BY <1>1, <2>1 DEF Accepts, validate_listeners_config
  <2>6. \E N \in Nat : config.services = [n \in 1..N |-> config.services[n]]
    <3>1. CASE l.services = {}
      <4>1. config.services = default_services_for_listener(ProtocolOf(l.address), services)
            BY <2>2, <3>1 DEF Default
      <4>2. PICK N \in Nat : DOMAIN services = 1..N
            BY <1>1 DEF WellFormed, IsIndexMap
      <4> DEFINE proto == ProtocolOf(l.address)
                 names == config.services
      <4>3. names = default_services_for_listener(proto, services)
            BY <4>1
      <4> HIDE DEF names, proto, services
      <4>4. \E M \in Nat : names = [n \in 1..M |-> names[n]]
            BY <4>2, <4>3, DefaultIsList
      <4> QED BY <4>4 DEF names
    <3>2. CASE l.services # {}
      <4>1. config.services \in l.services
            BY <2>2, <3>2 DEF Default
      <4>2. config.services \in Seq(ToSet(config.services))
            BY <1>1, <1>7, <4>1 DEF WellFormed
      <4> HIDE DEF config
      <4> QED BY <4>2
    <3> QED BY <3>1, <3>2
  <2>7. PICK name \in ToSet(config.services) : TRUE
    <3> HIDE DEF config
    <3>1. 1 \in DOMAIN config.services
          BY <2>5, <2>6, FirstElement
    <3> QED BY <3>1 DEF ToSet
  <2>8. PICK j \in DOMAIN services :
            /\ services[j].name = name
            /\ IF config.protocol \in Http THEN IsHttp(services[j]) ELSE IsTcp(services[j])
    <3> HIDE DEF config, services
    <3> QED BY <1>5, <2>4, <2>7 DEF HasServices
  <2>9. /\ services[j].name = config_file.services[j].name
        /\ IsTcp(services[j]) <=> config_file.services[j].tcp_proxy # {}
        /\ IsHttp(services[j]) <=> config_file.services[j].tcp_proxy = {}
    <3>1. services[j] = parse_service(config_file.services[j]) /\ ServiceParses(config_file.services[j])
          BY <1>1, <2>8 DEF Accepts
    <3> HIDE DEF services
    <3> QED BY <3>1, ServiceKinds
  <2>10. Usable(config_file.services[j], config.protocol)
        BY <2>8, <2>9 DEF Usable
  <2>11. j \in DOMAIN config_file.services /\ config_file.services[j].name \in ToSet(config.services)
        BY <2>7, <2>8, <2>9
  <2> HIDE DEF services
  <2> QED BY <2>2, <2>3, <2>4, <2>10, <2>11
<1>8. ToSet(conf.rules) = RulesRead /\ Len(conf.rules) = Cardinality(RulesRead)
      BY <1>0, RulesAreRead
<1>9. /\ ToSet(config_file.listeners) = InEffect(file.listeners)
      /\ ToSet(config_file.services) = InEffect(file.services)
      BY <1>0, DeserializedEntries
<1> HIDE DEF services
<1>10. ASSUME NEW l \in InEffect(file.listeners)
       PROVE  /\ loop[l.name] # "unbound" /\ protocol[l.name] = ProtocolOf(l.address)
              /\ \E k \in DOMAIN conf.listeners, service \in InEffect(file.services) :
                    /\ conf.listeners[k].name = l.name
                    /\ service.name \in ToSet(conf.listeners[k].services)
                    /\ Usable(service, protocol[l.name])
  <2>1. PICK i \in DOMAIN config_file.listeners : config_file.listeners[i] = l
        BY <1>9, <1>10 DEF ToSet
  <2>2. /\ loop[l.name] # "unbound" /\ protocol[l.name] = ProtocolOf(l.address)
        /\ conf.listeners[i].name = l.name /\ i \in DOMAIN conf.listeners
        /\ \E j \in DOMAIN config_file.services :
            /\ config_file.services[j].name \in ToSet(conf.listeners[i].services)
            /\ Usable(config_file.services[j], protocol[l.name])
        BY <1>4, <1>7, <2>1
  <2>3. PICK j \in DOMAIN config_file.services :
            /\ config_file.services[j].name \in ToSet(conf.listeners[i].services)
            /\ Usable(config_file.services[j], protocol[l.name])
        BY <2>2
  <2>4. config_file.services[j] \in InEffect(file.services)
        BY <1>9 DEF ToSet
  <2> QED BY <2>2, <2>3, <2>4
<1> QED BY <1>6, <1>8, <1>10 DEF RunsAsConfigured

\* Once Pingoo runs, its listeners and rules are those of the files it could
\* read, for whatever is written there and accepted, repeated names included,
\* with any number of listeners, services, rules and files of rules.
THEOREM ConfigurationIsInForce == ServerSpec => []RunsAsConfigured
<1>1. ServerInit => StartedInv
  <2>1. ServerInit => phase = "config" /\ started = 0
        BY DEF ServerInit
  <2> QED BY <2>1 DEF StartedInv
<1>2. ServerInv /\ StartedInv /\ [ServerNext]_serverVars => StartedInv'
      BY StartedPreserved
<1>3. ServerInv /\ StartedInv => RunsAsConfigured
      BY StartedIsConfigured
<1> QED BY <1>1, <1>2, <1>3, ServerInvariant, PTL DEF ServerSpec
=============================================================================

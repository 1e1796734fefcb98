------------------------ MODULE ServiceRegistryProofs ------------------------
(***************************************************************************)
(* Invariance proofs for ServiceRegistry, for every set of services, hosts *)
(* and containers and every configuration.                                 *)
(***************************************************************************)
EXTENDS ProxyServices, TLAPS

-----------------------------------------------------------------------------
(* The inductive invariant. *)

\* Both maps are empty off their keys, and every configured service is found.
MapsWellFormed ==
    /\ \A s \in Services \ keys : upstreams[s] = {}
    /\ \A s \in Services \ foundKeys : found[s] = {}
    /\ Configured \subseteq foundKeys

\* Until the diff the table is as it was when the round began.
Collecting ==
    phase = "discovering" => before = upstreams /\ missing = Services \ keys

NothingPending ==
    phase # "updating" => updated = {} /\ deleted = {}

\* What the two loops of discover still have to do makes the table right.
Applying ==
    phase = "updating" =>
        /\ updated \subseteq foundKeys
        /\ \A s \in keys : s \in updated \cup deleted \/ (s \in foundKeys /\ upstreams[s] = found[s])
        /\ \A s \in missing \cap foundKeys : s \notin deleted /\ s \in updated \cup keys
        /\ \A s \in updated : found[s] # {} \/ s \notin keys
        /\ \A s \in deleted : \/ ~(before[s] \subseteq found[s])
                              \/ s \notin foundKeys /\ upstreams[s] = {}

RegistryInv ==
    /\ RegistryTypeOK
    /\ MapsWellFormed
    /\ Collecting
    /\ NothingPending
    /\ Applying
    /\ TableMatchesRound
    /\ GapLastsOneRound

-----------------------------------------------------------------------------
(* The discoverers only return upstreams. *)

\* The upstreams of the configuration are upstreams.
LEMMA StaticType ==
    ASSUME NEW s \in Services
    PROVE  get_static_upstreams(s) \subseteq Upstream
BY RegistryAssumption DEF get_static_upstreams, Upstream

\* A service outside the configuration has no static upstreams.
LEMMA StaticEmpty ==
    ASSUME NEW s \in Services \ Configured
    PROVE  get_static_upstreams(s) = {}
BY RegistryAssumption DEF get_static_upstreams

\* DNS discovery returns upstreams.
LEMMA HostType ==
    ASSUME NEW h \in Hosts, answer \in [Hosts -> SUBSET Addresses]
    PROVE  HostUpstreams(h) \subseteq Upstream
BY RegistryAssumption DEF HostUpstreams, Upstream, ToSocketAddress

\* Docker discovery returns upstreams.
LEMMA ContainerType ==
    ASSUME NEW s \in Services, listed \subseteq Containers
    PROVE  ContainerUpstreams(s) \subseteq Upstream
BY RegistryAssumption DEF ContainerUpstreams, Upstream

-----------------------------------------------------------------------------
\* ServiceRegistry::new establishes the inductive invariant.
LEMMA RegistryInitially == RegistryInit => RegistryInv
<1> SUFFICES ASSUME RegistryInit PROVE RegistryInv
  OBVIOUS
<1>1. upstreams \in [Services -> SUBSET Upstream] /\ found = upstreams /\ before = upstreams
  BY StaticType DEF RegistryInit
<1>2. RegistryTypeOK
  BY <1>1, RegistryAssumption DEF RegistryInit, RegistryTypeOK
<1>3. MapsWellFormed
  BY StaticEmpty DEF RegistryInit, MapsWellFormed
<1>4. QED
  BY <1>1, <1>2, <1>3 DEF RegistryInit, RegistryInv, Collecting, NothingPending, Applying,
                          TableMatchesRound, GapLastsOneRound

\* The steps that leave the table and the round alone.
LEMMA EnvironmentPreserves ==
    ASSUME RegistryInv, UNCHANGED <<table, phase, foundKeys, found, updated, deleted, missing, before>>,
           RegistryTypeOK'
    PROVE  RegistryInv'
BY DEF RegistryInv, table, MapsWellFormed, Collecting, NothingPending, Applying,
       TableMatchesRound, GapLastsOneRound

\* The steps that collect what the discoverers return.
LEMMA CollectingPreserves ==
    ASSUME RegistryInv, phase = "discovering",
           UNCHANGED <<table, phase, updated, deleted, missing, before>>, RegistryTypeOK',
           \A s \in Services \ foundKeys' : found'[s] = {}, Configured \subseteq foundKeys'
    PROVE  RegistryInv'
BY DEF RegistryInv, table, MapsWellFormed, Collecting, NothingPending, Applying,
       TableMatchesRound, GapLastsOneRound

\* Starting a round from the static upstreams keeps the invariant.
LEMMA StartRoundPreserves ==
    ASSUME RegistryInv, StartRound PROVE RegistryInv'
<1>1. found' \in [Services -> SUBSET Upstream]
  BY StaticType DEF StartRound
<1>2. RegistryTypeOK'
  BY <1>1, RegistryAssumption DEF RegistryInv, RegistryTypeOK, StartRound, table, world
<1>3. MapsWellFormed'
  BY StaticEmpty DEF RegistryInv, MapsWellFormed, StartRound, table
<1>4. QED
  BY <1>2, <1>3 DEF RegistryInv, StartRound, table, Collecting, NothingPending, Applying,
                    TableMatchesRound, GapLastsOneRound

\* Merging a DNS answer keeps the invariant.
LEMMA LookupPreserves ==
    ASSUME RegistryInv, NEW h \in Hosts, LookupHost(h) PROVE RegistryInv'
<1>1. HostUpstreams(h) \subseteq Upstream
  BY HostType DEF RegistryInv, RegistryTypeOK
<1>2. found' \in [Services -> SUBSET Upstream]
  BY <1>1 DEF LookupHost, RegistryInv, RegistryTypeOK
<1>3. RegistryTypeOK'
  BY <1>2 DEF RegistryInv, RegistryTypeOK, LookupHost, table, world
<1>4. \A s \in Services \ foundKeys : found'[s] = {}
  BY RegistryAssumption DEF RegistryInv, RegistryTypeOK, MapsWellFormed, LookupHost
<1>5. QED
  BY <1>3, <1>4, CollectingPreserves DEF LookupHost, RegistryInv, MapsWellFormed

\* Merging the containers keeps the invariant.
LEMMA RequestPreserves ==
    ASSUME RegistryInv, DockerRequest PROVE RegistryInv'
<1>1. CASE conn = "open" /\ found' = [s \in Services |-> found[s] \cup ContainerUpstreams(s)]
           /\ foundKeys' = foundKeys \cup {s \in Services : ContainerUpstreams(s) # {}}
  <2>1. found' \in [Services -> SUBSET Upstream] /\ foundKeys' \subseteq Services
    BY <1>1, ContainerType DEF RegistryInv, RegistryTypeOK
  <2>2. RegistryTypeOK'
    BY <2>1 DEF RegistryInv, RegistryTypeOK, DockerRequest, table, world
  <2>3. \A s \in Services \ foundKeys' : found'[s] = {}
    BY <1>1 DEF RegistryInv, MapsWellFormed
  <2>4. QED
    BY <1>1, <2>2, <2>3, CollectingPreserves DEF DockerRequest, RegistryInv, MapsWellFormed
<1>2. CASE UNCHANGED <<found, foundKeys>>
  <2>1. RegistryTypeOK'
    BY <1>2 DEF RegistryInv, RegistryTypeOK, DockerRequest, table, world
  <2>2. QED
    BY <1>2, <2>1, EnvironmentPreserves DEF DockerRequest
<1>3. QED
  BY <1>1, <1>2 DEF DockerRequest

\* diff_upstreams names every service whose entry must change.
LEMMA DiffPreserves ==
    ASSUME RegistryInv, DiffUpstreams PROVE RegistryInv'
<1>1. RegistryTypeOK'
  BY DEF RegistryInv, RegistryTypeOK, DiffUpstreams, UpdatedServices, DeletedServices, table, world
<1>2. /\ before = upstreams /\ missing = Services \ keys
      /\ phase' = "updating" /\ updated' = UpdatedServices /\ deleted' = DeletedServices
      /\ UNCHANGED <<keys, upstreams, foundKeys, found, missing, before>>
  BY DEF RegistryInv, Collecting, DiffUpstreams, table
<1>3. Applying'
  <2>1. UpdatedServices \subseteq foundKeys
    BY DEF UpdatedServices
  <2>2. \A s \in keys : s \in UpdatedServices \cup DeletedServices
                        \/ (s \in foundKeys /\ upstreams[s] = found[s])
    BY DEF UpdatedServices, DeletedServices
  <2>3. \A s \in missing \cap foundKeys : s \notin DeletedServices /\ s \in UpdatedServices \cup keys
    BY <1>2 DEF UpdatedServices, DeletedServices
  <2>4. \A s \in UpdatedServices : found[s] # {} \/ s \notin keys
    BY DEF UpdatedServices
  <2>5. \A s \in DeletedServices : \/ ~(before[s] \subseteq found[s])
                                   \/ s \notin foundKeys /\ upstreams[s] = {}
    BY <1>2 DEF DeletedServices, RegistryInv, RegistryTypeOK, MapsWellFormed
  <2>6. QED
    BY <1>2, <2>1, <2>2, <2>3, <2>4, <2>5 DEF Applying
<1>4. QED
  BY <1>1, <1>2, <1>3 DEF RegistryInv, MapsWellFormed, Collecting, NothingPending,
                          TableMatchesRound, GapLastsOneRound

\* Replacing an entry keeps the invariant.
LEMMA UpdatePreserves ==
    ASSUME RegistryInv, NEW s \in Services, UpdateService(s) PROVE RegistryInv'
<1>1. /\ upstreams' \in [Services -> SUBSET Upstream] /\ upstreams'[s] = found[s]
      /\ \A t \in Services \ {s} : upstreams'[t] = upstreams[t]
  BY DEF RegistryInv, RegistryTypeOK, UpdateService
<1>2. /\ phase = "updating" /\ phase' = phase /\ s \in updated /\ updated' = updated \ {s}
      /\ keys' = keys \cup {s}
      /\ UNCHANGED <<foundKeys, found, deleted, missing, before>>
  BY DEF UpdateService
<1>3. RegistryTypeOK'
  BY <1>1, <1>2 DEF RegistryInv, RegistryTypeOK, UpdateService, world
<1>4. MapsWellFormed'
  BY <1>1, <1>2 DEF RegistryInv, MapsWellFormed
<1>5. Applying'
  BY <1>1, <1>2 DEF RegistryInv, RegistryTypeOK, Applying
<1>6. QED
  BY <1>2, <1>3, <1>4, <1>5 DEF RegistryInv, Collecting, NothingPending, TableMatchesRound, GapLastsOneRound

\* Removing an entry keeps the invariant.
LEMMA DeletePreserves ==
    ASSUME RegistryInv, NEW s \in Services, DeleteService(s) PROVE RegistryInv'
<1>1. /\ upstreams' \in [Services -> SUBSET Upstream] /\ upstreams'[s] = {}
      /\ \A t \in Services \ {s} : upstreams'[t] = upstreams[t]
  BY DEF RegistryInv, RegistryTypeOK, DeleteService
<1>2. /\ phase = "updating" /\ phase' = phase /\ s \in deleted /\ deleted' = deleted \ {s}
      /\ keys' = keys \ {s} /\ updated = {}
      /\ UNCHANGED <<foundKeys, found, updated, missing, before>>
  BY DEF DeleteService
<1>3. RegistryTypeOK'
  BY <1>1, <1>2 DEF RegistryInv, RegistryTypeOK, DeleteService, world
<1>4. MapsWellFormed'
  BY <1>1, <1>2 DEF RegistryInv, MapsWellFormed
<1>5. Applying'
  BY <1>1, <1>2 DEF RegistryInv, RegistryTypeOK, Applying
<1>6. QED
  BY <1>2, <1>3, <1>4, <1>5 DEF RegistryInv, Collecting, NothingPending, TableMatchesRound, GapLastsOneRound

\* Ending a round keeps the invariant.
LEMMA EndPreserves ==
    ASSUME RegistryInv, EndRound PROVE RegistryInv'
<1>1. RegistryTypeOK'
  BY DEF RegistryInv, RegistryTypeOK, EndRound, table, world
<1>2. /\ phase = "updating" /\ phase' = "idle" /\ updated = {} /\ deleted = {}
      /\ UNCHANGED <<keys, upstreams, foundKeys, found, updated, deleted, missing, before>>
  BY DEF EndRound, table
<1>3. TableMatchesRound' /\ GapLastsOneRound'
  BY <1>2 DEF RegistryInv, Applying, TableMatchesRound, GapLastsOneRound
<1>4. QED
  BY <1>1, <1>2, <1>3 DEF RegistryInv, MapsWellFormed, Collecting, NothingPending, Applying

\* Every step keeps the invariant.
LEMMA RegistryNextPreserves == RegistryInv /\ [RegistryNext]_registryVars => RegistryInv'
<1> SUFFICES ASSUME RegistryInv, [RegistryNext]_registryVars PROVE RegistryInv'
  OBVIOUS
<1>1. CASE Discover
  <2>1. CASE DockerConnect
    <3>1. RegistryTypeOK'
      BY <2>1 DEF RegistryInv, RegistryTypeOK, DockerConnect, table, world
    <3>2. QED
      BY <2>1, <3>1, EnvironmentPreserves DEF DockerConnect
  <2>2. QED
    BY <1>1, <2>1, StartRoundPreserves, LookupPreserves, RequestPreserves, DiffPreserves,
       UpdatePreserves, DeletePreserves, EndPreserves DEF Discover
<1>2. CASE Environment
  <2>1. RegistryTypeOK'
    <3> USE DEF RegistryInv, RegistryTypeOK, table, round
    <3>1. ASSUME NEW h \in Hosts, AnswerChanges(h) PROVE RegistryTypeOK'
      BY <3>1, RegistryAssumption DEF AnswerChanges
    <3>2. ASSUME NEW c \in Containers, ContainerChanges(c) PROVE RegistryTypeOK'
      BY <3>2, RegistryAssumption DEF ContainerChanges
    <3>3. CASE DockerRefuses
      <4>1. changes' \in 0..MaxChanges
        BY <3>3, RegistryAssumption DEF DockerRefuses
      <4>2. QED
        BY <3>3, <4>1 DEF DockerRefuses
    <3>4. CASE DaemonStops
      <4>1. restarts' \in 0..MaxRestarts
        BY <3>4, RegistryAssumption DEF DaemonStops
      <4>2. conn' \in {"none", "open", "dead", "disabled"} /\ daemon' \in BOOLEAN
        BY <3>4 DEF DaemonStops
      <4>3. QED
        BY <3>4, <4>1, <4>2 DEF DaemonStops
    <3>5. CASE DaemonStarts
      BY <3>5 DEF DaemonStarts
    <3>6. QED
      BY <1>2, <3>1, <3>2, <3>3, <3>4, <3>5 DEF Environment
  <2>2. UNCHANGED <<table, phase, foundKeys, found, updated, deleted, missing, before>>
    BY <1>2 DEF Environment, AnswerChanges, ContainerChanges, DockerRefuses, DaemonStops,
                DaemonStarts, table, round
  <2>3. QED
    BY <2>1, <2>2, EnvironmentPreserves
<1>3. CASE UNCHANGED registryVars
  <2>1. RegistryTypeOK'
    BY <1>3 DEF RegistryInv, RegistryTypeOK, registryVars, table, round, world
  <2>2. QED
    BY <1>3, <2>1, EnvironmentPreserves DEF registryVars, table, round
<1>4. QED
  BY <1>1, <1>2, <1>3 DEF RegistryNext

\* The inductive invariant holds in every reachable state of the registry.
THEOREM RegistryInvariant == RegistrySpec => []RegistryInv
BY RegistryInitially, RegistryNextPreserves, PTL DEF RegistrySpec

\* Every variable of the registry keeps its type.
THEOREM RegistryTypeCorrect == RegistrySpec => []RegistryTypeOK
BY RegistryInvariant, PTL DEF RegistryInv

\* After every round each entry of the table is what the round found.
THEOREM TableIsExact == RegistrySpec => []TableMatchesRound
BY RegistryInvariant, PTL DEF RegistryInv

\* A service without an entry gets one in the next round that finds it.
THEOREM GapIsShort == RegistrySpec => []GapLastsOneRound
BY RegistryInvariant, PTL DEF RegistryInv

\* A serving entry is emptied only if an upstream of it was not found again.
THEOREM GapMeansLoss == RegistrySpec => NoGapWithoutLoss
<1> DEFINE A == \A s \in Services :
                  (upstreams[s] # {} /\ upstreams'[s] = {}) => ~(before[s] \subseteq found[s])
<1>1. RegistryInv /\ [RegistryNext]_registryVars => [A]_registryVars
  <2> SUFFICES ASSUME RegistryInv, RegistryNext, NEW t \in Services,
                      upstreams[t] # {}, upstreams'[t] = {}
               PROVE  ~(before[t] \subseteq found[t])
    BY DEF registryVars
  <2>1. upstreams' # upstreams
    OBVIOUS
  <2>2. PICK s \in Services : UpdateService(s) \/ DeleteService(s)
    BY <2>1 DEF RegistryNext, Discover, StartRound, LookupHost, DockerConnect, DockerRequest,
                DiffUpstreams, EndRound, Environment, AnswerChanges, ContainerChanges,
                DockerRefuses, DaemonStops, DaemonStarts, table
  <2>3. t = s
    BY <2>2 DEF RegistryInv, RegistryTypeOK, UpdateService, DeleteService
  <2>4. CASE UpdateService(s)
    <3>1. found[s] = {} /\ s \in updated /\ phase = "updating" /\ s \in keys
      BY <2>3, <2>4 DEF UpdateService, RegistryInv, RegistryTypeOK, MapsWellFormed
    <3>2. QED
      BY <3>1 DEF RegistryInv, Applying
  <2>5. CASE DeleteService(s)
    BY <2>3, <2>5 DEF DeleteService, RegistryInv, Applying
  <2>6. QED
    BY <2>2, <2>4, <2>5
<1>2. QED
  BY <1>1, RegistryInvariant, PTL DEF RegistrySpec, NoGapWithoutLoss

-----------------------------------------------------------------------------
(* The proxies on top of the registry. *)

\* How often a session may try: retry() goes on, the HTTP proxy does not.
AttemptsAllowed(r) == IF r \in TcpSessions THEN Retries ELSE 1

\* A session that may start an attempt has one left, and one that has not
\* started has used none.
SessionStates == {"new", "connecting", "awaiting", "sleeping", "forwarded", "failed"}

Targets == Upstream \cup {NoTarget} \cup [hostname : Addresses \cup Hosts, address : {ByName}]

SessionInv ==
    /\ state \in [Sessions -> SessionStates]
    /\ target \in [Sessions -> Targets]
    /\ attempt \in [Sessions -> Nat]
    /\ \A r \in Sessions :
        /\ attempt[r] <= AttemptsAllowed(r)
        /\ state[r] \in {"new", "sleeping"} => attempt[r] < AttemptsAllowed(r)

\* The sessions only read the table, so the registry's invariant is kept.
ProxyInv == RegistryInv /\ SessionInv

\* Starting with no attempt establishes the invariant.
LEMMA ProxyInitially == ProxyInit => ProxyInv
<1> SUFFICES ASSUME ProxyInit PROVE SessionInv
  BY RegistryInitially DEF ProxyInit, ProxyInv
<1>1. \A r \in Sessions : attempt[r] = 0 /\ 0 < AttemptsAllowed(r) /\ 0 <= AttemptsAllowed(r)
  BY ProxyAssumption DEF ProxyInit, AttemptsAllowed
<1>2. QED
  BY <1>1 DEF ProxyInit, SessionInv, SessionStates, Targets

\* A step of one session keeps what is known of all of them: a failed attempt
\* is followed by another one only if one is left.
LEMMA SessionPreserves ==
    ASSUME ProxyInv, NEW r \in Sessions, Proceed(r) \/ UpstreamAnswers(r)
    PROVE  SessionInv'
<1> USE DEF SessionInv, SessionStates
<1>1. AttemptsAllowed(r) \in Nat /\ \A n \in Nat : AfterFailure(r, n) \in {"sleeping", "failed"}
  BY ProxyAssumption DEF AttemptsAllowed, AfterFailure
<1>2. \A n \in Nat : AfterFailure(r, n) = "sleeping" => n < AttemptsAllowed(r)
  BY DEF AttemptsAllowed, AfterFailure
<1>3. CASE NoUpstream(r)
  <2>1. attempt'[r] = attempt[r] + 1 /\ attempt[r] < AttemptsAllowed(r)
        /\ attempt' \in [Sessions -> Nat] /\ target' = target
    BY <1>3 DEF NoUpstream, ProxyInv
  <2>2. state'[r] = AfterFailure(r, attempt'[r])
    BY <1>3 DEF NoUpstream, ProxyInv
  <2>3. state' \in [Sessions -> SessionStates]
    BY <1>1, <1>3, <2>1 DEF NoUpstream, ProxyInv
  <2>4. \A q \in Sessions \ {r} : state'[q] = state[q] /\ attempt'[q] = attempt[q]
    BY <1>3 DEF NoUpstream, ProxyInv
  <2>5. attempt'[r] <= AttemptsAllowed(r)
        /\ (state'[r] \in {"new", "sleeping"} => attempt'[r] < AttemptsAllowed(r))
    BY <1>1, <1>2, <2>1, <2>2 DEF ProxyInv
  <2>6. QED
    BY <2>1, <2>3, <2>4, <2>5 DEF ProxyInv, AttemptsAllowed
<1>4. CASE Choose(r)
  <2>1. PICK u \in upstreams[ServiceOf[r]] : target' = [target EXCEPT ![r] = Destination(r, u)]
    BY <1>4 DEF Choose, get_upstreams
  <2>2. u \in Upstream
    BY <2>1, ProxyAssumption DEF ProxyInv, RegistryInv, RegistryTypeOK
  <2>3. target' \in [Sessions -> Targets]
    <3>1. Destination(r, u) \in Targets
      BY <2>2, ProxyAssumption DEF Destination, Targets
    <3>2. QED
      BY <2>1, <3>1 DEF ProxyInv
  <2>4. attempt'[r] = attempt[r] + 1 /\ attempt[r] < AttemptsAllowed(r)
        /\ attempt' \in [Sessions -> Nat] /\ state'[r] = "connecting"
        /\ state' \in [Sessions -> SessionStates]
    BY <1>4 DEF Choose, ProxyInv
  <2>5. \A q \in Sessions \ {r} : state'[q] = state[q] /\ attempt'[q] = attempt[q]
    BY <1>4 DEF Choose, ProxyInv
  <2>6. attempt'[r] <= AttemptsAllowed(r)
    BY <1>1, <2>4 DEF ProxyInv
  <2>7. QED
    BY <2>3, <2>4, <2>5, <2>6 DEF ProxyInv, AttemptsAllowed
<1>5. CASE Connected(r) \/ UpstreamAnswers(r)
  BY <1>5 DEF Connected, UpstreamAnswers, ProxyInv, AttemptsAllowed
<1>6. CASE ConnectFails(r)
  <2>1. state' \in [Sessions -> SessionStates]
        /\ state'[r] = AfterFailure(r, attempt[r]) /\ UNCHANGED <<attempt, target>>
    BY <1>1, <1>6 DEF ConnectFails, ProxyInv
  <2>2. \A q \in Sessions \ {r} : state'[q] = state[q]
    BY <1>6 DEF ConnectFails, ProxyInv
  <2>3. state'[r] \in {"new", "sleeping"} => attempt[r] < AttemptsAllowed(r)
    BY <1>1, <1>2, <2>1 DEF ProxyInv
  <2>4. QED
    BY <2>1, <2>2, <2>3 DEF ProxyInv, AttemptsAllowed
<1>7. QED
  BY <1>3, <1>4, <1>5, <1>6 DEF Proceed

\* Discovery and the sessions together keep the invariant.
LEMMA ProxyNextPreserves ==
    ProxyInv /\ [ProxyNext]_proxyVars => ProxyInv'
<1> SUFFICES ASSUME ProxyInv, [ProxyNext]_proxyVars PROVE ProxyInv'
  OBVIOUS
<1>1. [RegistryNext]_registryVars
  BY DEF ProxyNext, Proceed, NoUpstream, Choose, Connected, ConnectFails, UpstreamAnswers, proxyVars
<1>2. RegistryInv'
  BY <1>1, RegistryNextPreserves DEF ProxyInv
<1>3. CASE UNCHANGED sessionVars
  BY <1>2, <1>3 DEF ProxyInv, SessionInv, sessionVars, AttemptsAllowed
<1>4. QED
  BY <1>2, <1>3, SessionPreserves DEF ProxyNext, ProxyInv, proxyVars

\* With any number of sessions reading the table, the registry's invariant
\* holds, and no session makes more attempts than its proxy allows.
THEOREM ProxyInvariant == ProxySpec => []ProxyInv
BY ProxyInitially, ProxyNextPreserves, PTL DEF ProxySpec

\* The table the proxies read is exact between rounds, whatever they do.
THEOREM ProxiesReadAnExactTable == ProxySpec => [](TableMatchesRound /\ GapLastsOneRound)
BY ProxyInvariant, PTL DEF ProxyInv, RegistryInv

\* An attempt between two rounds goes to an upstream the last round found, by
\* its address or, for a request to one given with https, by its name only.
THEOREM AttemptsAreCurrent == ProxySpec => AttemptsFollowTheTable
<1> DEFINE Follows(r) ==
             \E u \in found[ServiceOf[r]] :
                /\ target'[r].hostname = u.hostname
                /\ \/ target'[r].address = u.address
                   \/ r \in HttpSessions /\ u.hostname \in TlsNames
           A == \A r \in Sessions :
                  (attempt'[r] # attempt[r] /\ state'[r] = "connecting" /\ phase = "idle")
                      => Follows(r)
<1>1. ProxyInv /\ [ProxyNext]_proxyVars => [A]_proxyVars
  <2> SUFFICES ASSUME ProxyInv, ProxyNext, NEW r \in Sessions, attempt'[r] # attempt[r],
                      state'[r] = "connecting", phase = "idle"
               PROVE  Follows(r)
    BY DEF proxyVars
  <2>1. PICK q \in Sessions : Proceed(q) \/ UpstreamAnswers(q)
    BY DEF ProxyNext, sessionVars
  <2>2. attempt' # attempt
    OBVIOUS
  <2>3. NoUpstream(q) \/ Choose(q)
    BY <2>1, <2>2 DEF Proceed, Connected, ConnectFails, UpstreamAnswers
  <2>4. q = r
    BY <2>3 DEF NoUpstream, Choose, ProxyInv, SessionInv
  <2>5. ~NoUpstream(q)
    BY <2>4 DEF NoUpstream, AfterFailure, ProxyInv, SessionInv
  <2>6. PICK u \in upstreams[ServiceOf[r]] : target' = [target EXCEPT ![r] = Destination(r, u)]
    BY <2>3, <2>4, <2>5 DEF Choose, get_upstreams
  <2>7. target'[r] = Destination(r, u) /\ ServiceOf[r] \in Services
    BY <2>6, ProxyAssumption DEF ProxyInv, SessionInv
  <2>8. ServiceOf[r] \in keys
    BY <2>6, <2>7 DEF ProxyInv, RegistryInv, MapsWellFormed
  <2>9. u \in found[ServiceOf[r]]
    BY <2>6, <2>7, <2>8 DEF ProxyInv, RegistryInv, TableMatchesRound
  <2>10. QED
    BY <2>7, <2>9 DEF Destination
<1>2. QED
  BY <1>1, ProxyInvariant, PTL DEF ProxySpec, AttemptsFollowTheTable
=============================================================================

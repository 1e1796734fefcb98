-------------------------- MODULE RateLimiterProofs --------------------------
(***************************************************************************)
(* Invariance proofs for RateLimiter, for every set of clients, every      *)
(* configuration and every clock resolution.                               *)
(***************************************************************************)
EXTENDS RateLimiter, FiniteSetTheorems, TLAPS

-----------------------------------------------------------------------------
(* The inductive invariant. *)

\* A bucket of which can_resume may be sure at time now: the requests admitted
\* into it were counted in it, and no more of them than the limit.
GoodBucket(b, now, limit, capacity) ==
    /\ b \in Bucket
    /\ b.starts_at <= now
    /\ \A i \in Ips : b.admitted[i] <= b.inner[i] /\ b.admitted[i] <= limit
    /\ Cardinality(Known(b)) <= capacity
    /\ b.capacity = capacity

Good(b, now) == GoodBucket(b, now, Limit, CapacityOf(cfg.capacity))

IInv ==
    /\ cfg \in Configs
    /\ clock \in 0..MaxClock
    /\ Good(bucket_green, clock)
    /\ Good(bucket_blue, clock)
    /\ BluePhase
    /\ history \in Seq(Entry)

-----------------------------------------------------------------------------
(* Lemmas about the operators. *)

\* The configuration a limiter works with; u16::MAX is never the limit.
LEMMA ConfigFacts ==
    ASSUME cfg \in Configs
    PROVE  /\ cfg.window \in Nat /\ cfg.capacity \in Nat
           /\ CapacityOf(cfg.capacity) \in Nat
           /\ CapacityOf(CapacityOf(cfg.capacity)) = CapacityOf(cfg.capacity)
           /\ Period \in Nat
           /\ Limit \in Nat /\ Limit < U16Max
<1>1. cfg.window \in Nat /\ cfg.capacity \in Nat /\ cfg.max \in 0..U16Max
  BY ConstantsAssumption
<1>2. Period \in Nat
  BY <1>1, ConstantsAssumption DEF Period
<1>3. Limit \in Nat /\ Limit < U16Max
  BY <1>1, ConstantsAssumption DEF Limit
<1>4. QED
  BY <1>1, <1>2, <1>3, CapacityAssumption

\* The clients a bucket knows are finitely many: there are finitely many addresses.
LEMMA KnownFinite ==
    ASSUME NEW b PROVE IsFiniteSet(Known(b)) /\ Cardinality(Known(b)) \in Nat
<1>1. Known(b) \subseteq Ips
  BY DEF Known
<1>2. QED
  BY <1>1, ConstantsAssumption, FS_Subset, FS_CardinalityType

\* A new bucket is empty, and one made with the room another one reports has
\* the room of the first.
LEMMA FreshBucket ==
    ASSUME cfg \in Configs, NEW t \in Int, NEW now \in Int, t <= now,
           NEW n, CapacityOf(n) = CapacityOf(cfg.capacity)
    PROVE  /\ Good(RateLimiterBucket(t, n), now)
           /\ RateLimiterBucket(t, n).starts_at = t
           /\ Known(RateLimiterBucket(t, n)) = {}
<1> DEFINE b == RateLimiterBucket(t, n)
<1>1. b \in Bucket /\ b.starts_at = t /\ b.capacity = CapacityOf(cfg.capacity)
  BY ConstantsAssumption, ConfigFacts DEF Bucket, RateLimiterBucket
<1>2. \A i \in Ips : b.inner[i] = 0 /\ b.admitted[i] = 0
  BY DEF RateLimiterBucket
<1>3. Known(b) = {}
  BY <1>2 DEF Known
<1>4. Cardinality(Known(b)) = 0
  BY <1>3, FS_EmptySet
<1>5. QED
  BY <1>1, <1>2, <1>3, <1>4, ConfigFacts DEF Good, GoodBucket

\* The weight of the previous window lies between nothing and its full count.
LEMMA ApproxBounds ==
    ASSUME cfg \in Configs, NEW prev \in Nat, NEW needle \in Nat
    PROVE  get_approx(prev, needle) \in Nat /\ get_approx(prev, needle) <= prev
<1>1. CASE needle >= Period
  BY <1>1 DEF get_approx
<1>2. CASE ~(needle >= Period)
  <2> DEFINE w == cfg.window
             q == needle \div TicksPerSec
  <2>1. w \in Nat /\ Period = w * TicksPerSec /\ TicksPerSec \in Nat \ {0}
    BY ConfigFacts, ConstantsAssumption DEF Period
  <2>2. needle < w * TicksPerSec
    BY <1>2, <2>1
  <2>3. w # 0
    BY <2>1, <2>2
  <2>4. q \in Nat /\ q < w
    BY <2>1, <2>2
  <2> HIDE DEF w, q
  <2>5. (prev * (w - q)) \div w \in Nat /\ (prev * (w - q)) \div w <= prev
    <3>1. w - q \in Nat /\ w - q <= w /\ w \in Nat \ {0}
      BY <2>1, <2>3, <2>4
    <3> DEFINE c == w - q
    <3> HIDE DEF c
    <3>2. prev * c \in Nat /\ (prev * c) \div w \in Nat /\ (prev * c) \div w <= prev
      BY <3>1 DEF c
    <3>3. QED
      BY <3>2 DEF c
  <2>6. QED
    BY <1>2, <2>5 DEF get_approx, w, q
<1>3. QED
  BY <1>1, <1>2

\* Rotation keeps the phase, never reaches lines 137-140, and leaves buckets
\* that are good and no younger than now.
LEMMA RotationKeepsPhase ==
    ASSUME IInv
    PROVE  /\ Good(Rotated(clock).green, clock)
           /\ Good(Rotated(clock).blue, clock)
           /\ InPhase(Rotated(clock).green, Rotated(clock).blue)
<1> DEFINE g == bucket_green
           b == bucket_blue
<1>0. /\ g.starts_at \in Int /\ b.starts_at \in Int /\ clock \in Int
      /\ Period \in Nat /\ cfg \in Configs
      /\ CapacityOf(bucket_green.capacity) = CapacityOf(cfg.capacity)
  BY ConfigFacts DEF IInv, Good, GoodBucket, Bucket
<1>1. CASE is_within_curr_bucket_window(clock, Current(g, b).starts_at) \/ Period = 0
  BY <1>1 DEF IInv, BluePhase, Rotated
<1>2. CASE /\ ~(is_within_curr_bucket_window(clock, Current(g, b).starts_at) \/ Period = 0)
           /\ is_outside_next_monothonic_window(clock, g.starts_at)
  <2>1. Rotated(clock) = [green |-> RateLimiterBucket(clock, bucket_green.capacity),
                          blue |-> RateLimiterBucket(clock, bucket_green.capacity)]
    BY <1>2 DEF Rotated
  <2>2. QED
    BY <1>0, <2>1, FreshBucket DEF InPhase
<1>3. CASE /\ ~(is_within_curr_bucket_window(clock, Current(g, b).starts_at) \/ Period = 0)
           /\ ~is_outside_next_monothonic_window(clock, g.starts_at)
  <2>1. is_green_bucket_current(g, b)
    BY <1>0, <1>3 DEF IInv, BluePhase, InPhase, is_green_bucket_current, Current,
                       is_within_curr_bucket_window, is_outside_next_monothonic_window
  <2>2. Rotated(clock) = [green |-> g, blue |-> RateLimiterBucket(g.starts_at + Period, bucket_green.capacity)]
    BY <1>3, <2>1 DEF Rotated
  <2>3. g.starts_at + Period <= clock
    BY <1>0, <1>3, <2>1 DEF Current, is_within_curr_bucket_window
  <2>4. /\ Good(RateLimiterBucket(g.starts_at + Period, bucket_green.capacity), clock)
        /\ RateLimiterBucket(g.starts_at + Period, bucket_green.capacity).starts_at = g.starts_at + Period
    BY <1>0, <2>3, FreshBucket
  <2>5. QED
    BY <2>2, <2>4 DEF IInv, InPhase
<1>4. QED
  BY <1>1, <1>2, <1>3

\* Counting a request keeps a bucket good if it is admitted only within the limit.
LEMMA CountedIsGood ==
    ASSUME cfg \in Configs, NEW now \in Int, NEW b, Good(b, now), NEW ip \in Ips,
           NEW resume \in BOOLEAN, resume => increment(b.inner[ip]) <= Limit,
           ~ FullFor(b, ip)
    PROVE  /\ Good(Counted(b, ip, resume), now)
           /\ Counted(b, ip, resume).starts_at = b.starts_at
<1> DEFINE c == Counted(b, ip, resume)
<1>1. b \in Bucket /\ b.inner[ip] \in 0..U16Max /\ b.admitted[ip] \in Nat
  BY DEF Good, GoodBucket, Bucket
<1>2. increment(b.inner[ip]) \in 1..U16Max
  BY <1>1, ConstantsAssumption DEF increment
<1>3. c = [starts_at |-> b.starts_at, capacity |-> b.capacity,
           inner |-> [b.inner EXCEPT ![ip] = increment(@)],
           admitted |-> [b.admitted EXCEPT ![ip] = IF resume THEN @ + 1 ELSE @]]
  BY DEF Counted
<1>4. c \in Bucket /\ c.starts_at = b.starts_at /\ c.capacity = b.capacity
  BY <1>1, <1>2, <1>3 DEF Bucket
<1>5. \A i \in Ips : c.admitted[i] <= c.inner[i] /\ c.admitted[i] <= Limit
  <2> SUFFICES ASSUME NEW i \in Ips
               PROVE  c.admitted[i] <= c.inner[i] /\ c.admitted[i] <= Limit
    OBVIOUS
  <2>0. /\ b.admitted[i] <= b.inner[i] /\ b.admitted[i] <= Limit
        /\ b.admitted[i] \in Nat /\ b.inner[i] \in 0..U16Max
        /\ Limit \in Nat /\ Limit < U16Max /\ U16Max \in Nat
    BY <1>1, ConfigFacts, ConstantsAssumption DEF Good, GoodBucket, Bucket
  <2>1. CASE i # ip
    <3>1. c.admitted[i] = b.admitted[i] /\ c.inner[i] = b.inner[i]
      BY <1>1, <1>3, <2>1 DEF Bucket
    <3>2. QED
      BY <2>0, <3>1
  <2>2. CASE i = ip
    <3>1. c.inner[i] = increment(b.inner[i])
      BY <1>1, <1>3, <2>2 DEF Bucket
    <3>2. c.admitted[i] = IF resume THEN b.admitted[i] + 1 ELSE b.admitted[i]
      BY <1>1, <1>3, <2>2 DEF Bucket
    <3>3. CASE resume
      BY <2>0, <2>2, <3>1, <3>2, <3>3 DEF increment
    <3>4. CASE ~resume
      BY <2>0, <3>1, <3>2, <3>4 DEF increment
    <3>5. QED
      BY <3>3, <3>4
  <2>3. QED
    BY <2>1, <2>2
<1>6. Cardinality(Known(c)) <= CapacityOf(cfg.capacity)
  <2>1. Known(c) = Known(b) \cup {ip}
    <3>1. \A i \in Ips : c.inner[i] = IF i = ip THEN increment(b.inner[ip]) ELSE b.inner[i]
      BY <1>1, <1>3 DEF Bucket
    <3>2. QED
      BY <1>2, <3>1 DEF Known
  <2>2. CASE ip \in Known(b)
    <3>1. Known(c) = Known(b)
      BY <2>1, <2>2
    <3>2. QED
      BY <3>1 DEF Good, GoodBucket
  <2>3. CASE ip \notin Known(b)
    <3>1. Cardinality(Known(b)) # CapacityOf(cfg.capacity)
      BY <1>1, <2>3 DEF Known, FullFor, Good, GoodBucket
    <3>2. Cardinality(Known(c)) = Cardinality(Known(b)) + 1
      BY <2>1, <2>3, KnownFinite, FS_AddElement
    <3>3. QED
      BY <3>1, <3>2, KnownFinite, ConfigFacts DEF Good, GoodBucket
  <2>4. QED
    BY <2>2, <2>3
<1>7. QED
  BY <1>4, <1>5, <1>6 DEF Good, GoodBucket

\* The phase only depends on where the buckets start and on blue being empty.
LEMMA CountingKeepsPhase ==
    ASSUME cfg \in Configs, NEW now \in Int, NEW g, NEW b, NEW c,
           Good(g, now), Good(b, now),
           InPhase(g, b), c.starts_at = Current(g, b).starts_at
    PROVE  IF is_green_bucket_current(g, b) THEN InPhase(c, b) ELSE InPhase(g, c)
<1>1. g.starts_at \in Int /\ b.starts_at \in Int /\ Period \in Nat
  BY ConfigFacts DEF Good, GoodBucket, Bucket
<1>2. QED
  BY <1>1 DEF InPhase, is_green_bucket_current, Current

\* Time passes: a good bucket stays good.
LEMMA LaterIsGood ==
    ASSUME NEW now \in Int, NEW later \in Int, now <= later, NEW b, Good(b, now)
    PROVE  Good(b, later)
BY DEF Good, GoodBucket, Bucket

-----------------------------------------------------------------------------
(* Invariance. *)

\* RateLimiter::new establishes the inductive invariant.
LEMMA InitEstablishes == Init => IInv
<1> SUFFICES ASSUME Init PROVE IInv
  OBVIOUS
<1>1. cfg \in Configs /\ clock \in 0..MaxClock
  BY ConstantsAssumption DEF Init
<1>2. Period \in Nat /\ clock \in Nat
  BY <1>1, ConfigFacts
<1> DEFINE t == create_prev_window(0, clock)
<1>3. t \in Int /\ t <= clock /\ (t = 0 \/ t = 0 - Period)
  BY <1>2 DEF create_prev_window
<1>4. Good(bucket_green, clock) /\ bucket_green.starts_at = 0
  BY <1>1, <1>2, FreshBucket DEF Init
<1>5. Good(bucket_blue, clock) /\ bucket_blue.starts_at = t /\ Known(bucket_blue) = {}
  BY <1>1, <1>2, <1>3, FreshBucket DEF Init
<1>6. BluePhase
  BY <1>3, <1>4, <1>5 DEF BluePhase, InPhase
<1>7. QED
  BY <1>1, <1>4, <1>5, <1>6 DEF IInv, Init

\* What is recorded is a well-formed entry.
LEMMA RecordType ==
    ASSUME history \in Seq(Entry), NEW ip, NEW at \in Nat, NEW window \in Int,
           NEW result \in Results, Record(ip, at, window, result)
    PROVE  history' \in Seq(Entry)
<1>1. [at |-> at, window |-> window, result |-> result] \in Entry
  BY DEF Entry
<1>2. QED
  BY <1>1 DEF Record

\* Turning a new client away from a full bucket keeps the invariant.
LEMMA OverloadedPreserves ==
    ASSUME IInv, NEW ip \in Ips, NEW result \in Results, Overloaded(ip, result)
    PROVE  IInv'
<1> DEFINE g == Rotated(clock).green
           b == Rotated(clock).blue
<1>1. Good(g, clock) /\ Good(b, clock) /\ InPhase(g, b)
  BY RotationKeepsPhase
<1>2. /\ bucket_green' = g /\ bucket_blue' = b /\ UNCHANGED <<cfg, clock>>
      /\ Record(ip, clock, Current(g, b).starts_at, result)
  BY DEF Overloaded
<1>3. clock \in Nat /\ Current(g, b).starts_at \in Int
  <2>1. g.starts_at \in Int /\ b.starts_at \in Int
    BY <1>1 DEF Good, GoodBucket, Bucket
  <2>2. QED
    BY <2>1, ConstantsAssumption DEF IInv, Current
<1>4. history' \in Seq(Entry)
  BY <1>2, <1>3, RecordType DEF IInv
<1> HIDE DEF g, b
<1>5. Good(bucket_green, clock)' /\ Good(bucket_blue, clock)'
  BY <1>1, <1>2 DEF Good, Limit
<1>6. BluePhase'
  BY <1>1, <1>2 DEF BluePhase, InPhase, Period
<1>7. QED
  BY <1>2, <1>4, <1>5, <1>6 DEF IInv

\* Counting a request and comparing it with the limit keeps the invariant.
LEMMA CountPreserves ==
    ASSUME IInv, NEW ip \in Ips, NEW result \in Results, NEW pause \in 0..MaxPause,
           Count(ip, pause, result)
    PROVE  IInv'
<1> DEFINE g == Rotated(clock).green
           b == Rotated(clock).blue
           curr == Current(g, b)
           approx == get_approx(Previous(g, b).inner[ip], clock + pause - curr.starts_at)
           resume == Limit >= approx + increment(curr.inner[ip])
           c == Counted(curr, ip, resume)
<1>1. Good(g, clock) /\ Good(b, clock) /\ InPhase(g, b)
  BY RotationKeepsPhase
<1>2. /\ clock + pause <= MaxClock /\ clock' = clock + pause /\ cfg' = cfg
      /\ ~ FullFor(curr, ip)
      /\ bucket_green' = IF is_green_bucket_current(g, b) THEN Counted(g, ip, resume) ELSE g
      /\ bucket_blue' = IF is_green_bucket_current(g, b) THEN b ELSE Counted(b, ip, resume)
      /\ Record(ip, clock, curr.starts_at, result)
  BY DEF Count
<1>3. /\ cfg \in Configs /\ clock \in Nat /\ pause \in Nat /\ clock' \in 0..MaxClock
      /\ clock <= clock' /\ clock' \in Int
  BY <1>2, ConstantsAssumption DEF IInv
<1>4. /\ Good(curr, clock) /\ Good(Previous(g, b), clock)
  BY <1>1 DEF Current, Previous
<1>5. curr.starts_at \in Int /\ curr.starts_at <= clock
  BY <1>4 DEF Good, GoodBucket, Bucket
<1>6. history' \in Seq(Entry)
  BY <1>2, <1>3, <1>5, RecordType DEF IInv
<1>7. resume \in BOOLEAN /\ (resume => increment(curr.inner[ip]) <= Limit)
  <2>1. Previous(g, b).inner[ip] \in Nat
    BY <1>4 DEF Good, GoodBucket, Bucket
  <2>2. clock + pause - curr.starts_at \in Nat
    BY <1>3, <1>5
  <2>3. approx \in Nat
    BY <1>3, <2>1, <2>2, ApproxBounds
  <2>4. increment(curr.inner[ip]) \in Nat
    BY <1>4, ConstantsAssumption DEF Good, GoodBucket, Bucket, increment
  <2> HIDE DEF approx, curr
  <2>5. QED
    BY <1>3, <2>3, <2>4, ConfigFacts
<1> HIDE DEF resume
<1>8. Good(c, clock) /\ c.starts_at = curr.starts_at
  BY <1>2, <1>3, <1>4, <1>7, CountedIsGood
<1>9. IF is_green_bucket_current(g, b) THEN InPhase(c, b) ELSE InPhase(g, c)
  BY <1>1, <1>3, <1>8, CountingKeepsPhase
<1>10. Good(c, clock') /\ Good(g, clock') /\ Good(b, clock')
  BY <1>1, <1>3, <1>8, LaterIsGood
<1>11. \/ /\ is_green_bucket_current(g, b) /\ bucket_green' = c /\ bucket_blue' = b
       \/ /\ ~is_green_bucket_current(g, b) /\ bucket_green' = g /\ bucket_blue' = c
  BY <1>2 DEF Current
<1> HIDE DEF g, b, c
<1>12. Good(bucket_green, clock)' /\ Good(bucket_blue, clock)'
  BY <1>2, <1>10, <1>11 DEF Good, Limit
<1>13. BluePhase'
  BY <1>2, <1>9, <1>11 DEF BluePhase, InPhase, Period
<1>14. QED
  BY <1>2, <1>3, <1>6, <1>12, <1>13 DEF IInv

\* Every step keeps the invariant.
LEMMA NextPreserves == IInv /\ [Next]_vars => IInv'
<1> SUFFICES ASSUME IInv, [Next]_vars PROVE IInv'
  OBVIOUS
<1>1. CASE Tick
  <2>1. /\ clock' = clock + 1 /\ clock < MaxClock
        /\ UNCHANGED <<cfg, bucket_green, bucket_blue, history>>
    BY <1>1 DEF Tick
  <2>2. clock \in Int /\ clock' \in 0..MaxClock /\ clock <= clock' /\ clock' \in Int
    BY <2>1, ConstantsAssumption DEF IInv
  <2>3. Good(bucket_green, clock') /\ Good(bucket_blue, clock')
    BY <2>2, LaterIsGood DEF IInv
  <2>4. Good(bucket_green, clock)' /\ Good(bucket_blue, clock)'
    BY <2>1, <2>3 DEF Good, Limit
  <2>5. BluePhase'
    BY <2>1 DEF IInv, BluePhase, InPhase, Period
  <2>6. QED
    BY <2>1, <2>2, <2>4, <2>5 DEF IInv
<1>2. ASSUME NEW ip \in Ips, Probe(ip) PROVE IInv'
  <2>1. PICK result \in Results : can_resume(ip, result)
    BY <1>2 DEF Probe
  <2>2. CASE RefuseAll(ip, result)
    <3>1. /\ UNCHANGED <<cfg, clock, bucket_green, bucket_blue>>
          /\ Record(ip, clock, Current(bucket_green, bucket_blue).starts_at, result)
      BY <2>2 DEF RefuseAll
    <3>2. clock \in Nat /\ Current(bucket_green, bucket_blue).starts_at \in Int
      BY ConstantsAssumption DEF IInv, Good, GoodBucket, Bucket, Current
    <3>3. history' \in Seq(Entry)
      BY <3>1, <3>2, RecordType DEF IInv
    <3>4. QED
      BY <3>1, <3>3 DEF IInv, Good, Limit, BluePhase, InPhase, Period
  <2>3. CASE Overloaded(ip, result)
    BY <2>3, OverloadedPreserves
  <2>4. CASE \E pause \in 0..MaxPause : Count(ip, pause, result)
    BY <2>4, CountPreserves
  <2>5. QED
    BY <2>1, <2>2, <2>3, <2>4 DEF can_resume
<1>3. CASE UNCHANGED vars
  BY <1>3 DEF vars, IInv, Good, Limit, BluePhase, InPhase, Period
<1>4. QED
  BY <1>1, <1>2, <1>3 DEF Next

\* The inductive invariant holds in every reachable state of the limiter.
THEOREM LimiterInvariant == Spec => []IInv
BY InitEstablishes, NextPreserves, PTL DEF Spec

\* The struct's fields keep their types; counters never leave u16.
THEOREM TypeCorrect == Spec => []TypeOK
<1>1. IInv => TypeOK
  BY DEF IInv, TypeOK, Good, GoodBucket
<1>2. QED
  BY <1>1, LimiterInvariant, PTL

\* can_resume never admits more than the configured maximum of one client's
\* requests into one bucket, whatever max, window and capacity are.
THEOREM AdmissionBound == Spec => []AdmittedPerWindow
<1>1. IInv => AdmittedPerWindow
  BY DEF IInv, AdmittedPerWindow, Good, GoodBucket
<1>2. QED
  BY <1>1, LimiterInvariant, PTL

\* Blue is always in phase with green, so lines 137-140 are unreachable.
THEOREM BlueFollowsGreen == Spec => []BluePhase
<1>1. IInv => BluePhase
  BY DEF IInv
<1>2. QED
  BY <1>1, LimiterInvariant, PTL

\* No bucket starts in the future or holds more clients than its map has room
\* for, and however often the buckets rotate that room is what was first
\* allocated for the configured capacity.
THEOREM CapacityBound == Spec => []BucketsBounded
<1>1. IInv => BucketsBounded
  BY DEF IInv, BucketsBounded, Good, GoodBucket
<1>2. QED
  BY <1>1, LimiterInvariant, PTL

-----------------------------------------------------------------------------
(* What the history of the observed client records. *)

\* The requests of h that met window w and were answered one of rs.
Answered(h, w, rs) == {j \in DOMAIN h : h[j].window = w /\ h[j].result \in rs}

\* A request is answered in the window its time falls into.
InItsWindow(e) == e.window <= e.at /\ (Period > 0 => e.at < e.window + Period)

\* Two windows are one and the same or do not overlap.
Apart(v, w) == v = w \/ v + Period <= w \/ w + Period <= v

\* The conjuncts below hold of a history h when c is the current and p the
\* previous bucket.
Windows(h, c) ==
    /\ \A k \in DOMAIN h : /\ InItsWindow(h[k])
                           /\ h[k].window = c.starts_at \/ h[k].window + Period <= c.starts_at
    /\ \A j, k \in DOMAIN h : Apart(h[j].window, h[k].window)

\* The admissions of a window are those its bucket has on record.
Admissions(h, c) ==
    /\ \A w \in Int : Cardinality(Answered(h, w, {"true"})) <= Limit
    /\ Cardinality(Answered(h, c.starts_at, {"true"})) = c.admitted[Observed]

\* A counter never exceeds the requests answered, and is not lost.
Counters(h, c, p) ==
    /\ c.inner[Observed] <= Cardinality(Answered(h, c.starts_at, {"true", "false"}))
    /\ p.inner[Observed] <= Cardinality(Answered(h, p.starts_at, {"true", "false"}))
    /\ Answered(h, c.starts_at, {"true", "false"}) # {} => c.inner[Observed] > 0

Rejections(h) ==
    Period > 0 =>
        \A k \in DOMAIN h : h[k].result = "false" =>
            Cardinality({j \in 1..k : h[j].at > h[k].at - 2 * Period}) > Limit

Served(h) ==
    \A j, k \in DOMAIN h :
        (j < k /\ h[j].window = h[k].window /\ h[j].result # "err") => h[k].result # "err"

HistoryOK(h, c, p) ==
    /\ Windows(h, c) /\ Admissions(h, c) /\ Counters(h, c, p)
    /\ Rejections(h) /\ Served(h)

\* A limiter with a zero limit counts nothing and answers Ok(false) to everybody.
HInv ==
    /\ IInv
    /\ Limit = 0 => \A k \in DOMAIN history : history[k].result = "false"
    /\ Limit > 0 => HistoryOK(history, Current(bucket_green, bucket_blue),
                                       Previous(bucket_green, bucket_blue))

\* The fields of a recorded request.
LEMMA EntryFacts ==
    ASSUME NEW h \in Seq(Entry), NEW k \in DOMAIN h
    PROVE  h[k].at \in Nat /\ h[k].window \in Int /\ h[k].result \in Results
<1>1. h[k] \in Entry
  OBVIOUS
<1>2. QED
  BY <1>1 DEF Entry

\* The requests of a history that meet a window are finitely many.
LEMMA AnsweredFinite ==
    ASSUME NEW h \in Seq(Entry), NEW w, NEW rs
    PROVE  /\ IsFiniteSet(Answered(h, w, rs))
           /\ Cardinality(Answered(h, w, rs)) \in Nat
<1>1. DOMAIN h = 1..Len(h) /\ Len(h) \in Int
  OBVIOUS
<1>2. IsFiniteSet(DOMAIN h)
  BY <1>1, FS_Interval
<1>3. Answered(h, w, rs) \subseteq DOMAIN h
  BY DEF Answered
<1>4. QED
  BY <1>2, <1>3, FS_Subset, FS_CardinalityType

\* One more request counts in the window it met, if it was answered so.
LEMMA AnsweredAppend ==
    ASSUME NEW h \in Seq(Entry), NEW e \in Entry, NEW w, NEW rs
    PROVE  LET old == Answered(h, w, rs)
               new == Answered(Append(h, e), w, rs)
           IN IF e.window = w /\ e.result \in rs
              THEN new = old \cup {Len(h) + 1} /\ Cardinality(new) = Cardinality(old) + 1
              ELSE new = old
<1> DEFINE h2 == Append(h, e)
           n == Len(h) + 1
<1>1. /\ DOMAIN h = 1..Len(h) /\ DOMAIN h2 = 1..n /\ Len(h) \in Nat
      /\ h2[n] = e /\ \A j \in DOMAIN h : h2[j] = h[j]
  OBVIOUS
<1>2. DOMAIN h2 = DOMAIN h \cup {n} /\ n \notin DOMAIN h
  BY <1>1
<1> HIDE DEF h2, n
<1>3. CASE e.window = w /\ e.result \in rs
  <2>1. Answered(h2, w, rs) = Answered(h, w, rs) \cup {n}
    BY <1>1, <1>2, <1>3 DEF Answered
  <2>2. n \notin Answered(h, w, rs)
    BY <1>2 DEF Answered
  <2>3. Cardinality(Answered(h, w, rs) \cup {n}) = Cardinality(Answered(h, w, rs)) + 1
    BY <2>2, AnsweredFinite, FS_AddElement
  <2>4. QED
    BY <1>3, <2>1, <2>3 DEF h2, n
<1>4. CASE ~(e.window = w /\ e.result \in rs)
  <2>1. Answered(h2, w, rs) = Answered(h, w, rs)
    BY <1>1, <1>2, <1>4 DEF Answered
  <2>2. QED
    BY <1>4, <2>1 DEF h2
<1>5. QED
  BY <1>3, <1>4

\* No request of the history meets a window that starts after the current one.
LEMMA NothingInNextWindow ==
    ASSUME NEW h \in Seq(Entry), NEW c, c.starts_at \in Int, Windows(h, c),
           Period \in Nat, NEW w \in Int, w > c.starts_at, NEW rs
    PROVE  Answered(h, w, rs) = {}
<1>1. \A k \in DOMAIN h : h[k].window \in Int
  BY EntryFacts
<1>2. \A k \in DOMAIN h : h[k].window <= c.starts_at
  BY <1>1 DEF Windows
<1>3. QED
  BY <1>1, <1>2 DEF Answered

\* A history that fits the current bucket c also fits a new, empty bucket c2 that
\* starts a period or more later.
LEMMA HistoryFitsNewBucket ==
    ASSUME cfg \in Configs, NEW h \in Seq(Entry), NEW c, c.starts_at \in Int, NEW p,
           HistoryOK(h, c, p), NEW t \in Int, Period > 0, c.starts_at + Period <= t,
           NEW n, NEW p2, \/ p2 = c
                          \/ p2 = RateLimiterBucket(t, n)
    PROVE  HistoryOK(h, RateLimiterBucket(t, n), p2)
<1> DEFINE c2 == RateLimiterBucket(t, n)
<1>1. c2.starts_at = t /\ c2.inner[Observed] = 0 /\ c2.admitted[Observed] = 0
  BY ConstantsAssumption DEF RateLimiterBucket
<1>2. Period \in Nat /\ t > c.starts_at /\ Limit \in Nat
  BY ConfigFacts
<1>3. \A rs : Answered(h, t, rs) = {}
  BY <1>2, NothingInNextWindow DEF HistoryOK
<1>4. Cardinality({}) = 0
  BY FS_EmptySet
<1> HIDE DEF c2
<1>5. Windows(h, c2)
  <2>1. \A k \in DOMAIN h : h[k].window \in Int
    BY EntryFacts
  <2>2. QED
    BY <1>1, <1>2, <2>1 DEF Windows, HistoryOK
<1>6. Admissions(h, c2)
  BY <1>1, <1>3, <1>4 DEF Admissions, HistoryOK
<1>7. Counters(h, c2, p2)
  <2>1. p2 = c \/ p2 = c2
    BY DEF c2
  <2>2. Answered(h, t, {"true", "false"}) = {}
    BY <1>3
  <2>3. Counters(h, c, p)
    BY DEF HistoryOK
  <2>4. Cardinality(Answered(h, t, {"true", "false"})) = 0
    BY <1>4, <2>2
  <2>5. p2.inner[Observed] <= Cardinality(Answered(h, p2.starts_at, {"true", "false"}))
    <3>1. CASE p2 = c
      BY <2>3, <3>1 DEF Counters
    <3>2. CASE p2 = c2
      BY <1>1, <2>4, <3>2
    <3>3. QED
      BY <2>1, <3>1, <3>2
  <2>6. QED
    BY <1>1, <2>2, <2>4, <2>5 DEF Counters
<1>8. QED
  BY <1>5, <1>6, <1>7 DEF HistoryOK, c2

\* After the rotation the history fits the buckets, now lies in the current
\* window, and the previous bucket is the window right before, or empty.
LEMMA RotationKeepsHistory ==
    ASSUME HInv, Limit > 0
    PROVE  LET g == Rotated(clock).green
               b == Rotated(clock).blue
           IN /\ HistoryOK(history, Current(g, b), Previous(g, b))
              /\ Period > 0 => clock < Current(g, b).starts_at + Period
              /\ \/ Previous(g, b).inner[Observed] = 0
                 \/ Previous(g, b).starts_at = Current(g, b).starts_at - Period
<1> DEFINE g0 == bucket_green
           b0 == bucket_blue
           c0 == Current(g0, b0)
           g == Rotated(clock).green
           b == Rotated(clock).blue
<1>1. /\ g0.starts_at \in Int /\ b0.starts_at \in Int /\ clock \in Int
      /\ Period \in Nat /\ cfg \in Configs /\ history \in Seq(Entry)
      /\ HistoryOK(history, c0, Previous(g0, b0))
  BY ConfigFacts DEF HInv, IInv, Good, GoodBucket, Bucket
<1>2. /\ g.starts_at \in Int /\ b.starts_at \in Int /\ InPhase(g, b)
      /\ b.inner[Observed] \in Nat /\ g.inner[Observed] \in Nat
  <2>1. g \in Bucket /\ b \in Bucket /\ InPhase(g, b)
    BY RotationKeepsPhase DEF HInv, Good, GoodBucket
  <2>2. QED
    BY <2>1, ConstantsAssumption DEF Bucket
<1>3. \/ Previous(g, b).inner[Observed] = 0
      \/ Previous(g, b).starts_at = Current(g, b).starts_at - Period
  <2>1. Known(b) = {} => b.inner[Observed] = 0
    BY <1>2, ConstantsAssumption DEF Known
  <2> HIDE DEF g, b
  <2>2. QED
    BY <1>1, <1>2, <2>1 DEF InPhase, Current, Previous, is_green_bucket_current
<1>4. CASE is_within_curr_bucket_window(clock, c0.starts_at) \/ Period = 0
  <2>1. g = g0 /\ b = b0
    BY <1>4 DEF Rotated
  <2>2. Period > 0 => clock < c0.starts_at + Period
    BY <1>1, <1>4 DEF is_within_curr_bucket_window
  <2>3. QED
    BY <1>1, <1>3, <2>1, <2>2
<1>5. CASE ~(is_within_curr_bucket_window(clock, c0.starts_at) \/ Period = 0)
  <2>1. Period > 0 /\ c0.starts_at \in Int /\ c0.starts_at + Period <= clock
    BY <1>1, <1>5 DEF is_within_curr_bucket_window, Current
  <2>2. CASE is_outside_next_monothonic_window(clock, g0.starts_at)
    <3> DEFINE n == bucket_green.capacity
    <3>1. g = RateLimiterBucket(clock, n) /\ b = RateLimiterBucket(clock, n)
      BY <1>5, <2>2 DEF Rotated
    <3>2. g.starts_at = clock /\ Current(g, b) = g /\ Previous(g, b) = g
      BY <3>1 DEF RateLimiterBucket, Current, Previous
    <3>3. HistoryOK(history, RateLimiterBucket(clock, n), RateLimiterBucket(clock, n))
      BY <1>1, <2>1, HistoryFitsNewBucket
    <3>4. QED
      BY <1>1, <1>3, <2>1, <3>1, <3>2, <3>3
  <2>3. CASE ~is_outside_next_monothonic_window(clock, g0.starts_at)
    <3>1. is_green_bucket_current(g0, b0)
      BY <1>1, <1>5, <2>3 DEF HInv, IInv, BluePhase, InPhase, is_green_bucket_current, Current,
                       is_within_curr_bucket_window, is_outside_next_monothonic_window
    <3>2. c0 = g0
      BY <3>1 DEF Current
    <3> DEFINE t == g0.starts_at + Period
               n == bucket_green.capacity
    <3>3. g = g0 /\ b = RateLimiterBucket(t, n)
      BY <1>5, <2>3, <3>1 DEF Rotated
    <3>4. b.starts_at = t /\ t \in Int /\ t > g0.starts_at
      BY <1>1, <2>1, <3>3 DEF RateLimiterBucket
    <3>5. Current(g, b) = b /\ Previous(g, b) = g
      BY <1>1, <3>3, <3>4 DEF Current, Previous, is_green_bucket_current
    <3>6. HistoryOK(history, RateLimiterBucket(t, n), c0)
      BY <1>1, <2>1, <3>2, <3>4, HistoryFitsNewBucket
    <3>7. clock < t + Period
      BY <1>1, <2>3 DEF is_outside_next_monothonic_window
    <3>8. HistoryOK(history, Current(g, b), Previous(g, b))
      BY <3>2, <3>3, <3>5, <3>6
    <3>9. clock < Current(g, b).starts_at + Period
      BY <3>4, <3>5, <3>7
    <3>10. QED
      BY <1>3, <3>8, <3>9
  <2>4. QED
    BY <2>2, <2>3
<1>6. QED
  BY <1>4, <1>5

\* A recorded request keeps the history in step with the buckets: c2 is the
\* current bucket c after the request, which was answered result at time at.
LEMMA RecordKeepsHistory ==
    ASSUME cfg \in Configs, NEW h \in Seq(Entry),
           NEW c, c.starts_at \in Int, c.inner[Observed] \in Nat, c.admitted[Observed] \in Nat,
           NEW p, p.starts_at \in Int, p.inner[Observed] \in Nat,
           HistoryOK(h, c, p),
           p.inner[Observed] = 0 \/ p.starts_at = c.starts_at - Period,
           NEW at \in Nat, c.starts_at <= at, Period > 0 => at < c.starts_at + Period,
           NEW result \in Results,
           NEW c2, c2.starts_at = c.starts_at, c2.inner[Observed] \in Nat,
           c2.admitted[Observed] \in Nat,
           result = "err" => c.inner[Observed] = 0 /\ c2 = c,
           result # "err" => c2.inner[Observed] > 0 /\ c2.inner[Observed] <= c.inner[Observed] + 1,
           result # "err" =>
              /\ c2.admitted[Observed] =
                    IF result = "true" THEN c.admitted[Observed] + 1 ELSE c.admitted[Observed]
              /\ c2.admitted[Observed] <= Limit,
           result = "false" => Limit < p.inner[Observed] + c.inner[Observed] + 1
    PROVE  HistoryOK(Append(h, [at |-> at, window |-> c.starts_at, result |-> result]), c2, p)
<1> DEFINE e == [at |-> at, window |-> c.starts_at, result |-> result]
           h2 == Append(h, e)
           n == Len(h) + 1
<1>1. e \in Entry /\ e.at = at /\ e.window = c.starts_at /\ e.result = result
  BY DEF Entry
<1>2. /\ DOMAIN h = 1..Len(h) /\ DOMAIN h2 = DOMAIN h \cup {n} /\ n \notin DOMAIN h
      /\ Len(h) \in Nat /\ h2[n] = e /\ \A j \in DOMAIN h : h2[j] = h[j]
  BY <1>1
<1>3. Period \in Nat /\ Limit \in Nat
  BY ConfigFacts
<1>4. \A k \in DOMAIN h : h[k].at \in Nat /\ h[k].window \in Int /\ h[k].result \in Results
  BY EntryFacts
<1>5. \A w, rs : LET old == Answered(h, w, rs)
                     new == Answered(h2, w, rs)
                 IN IF e.window = w /\ e.result \in rs
                    THEN new = old \cup {n} /\ Cardinality(new) = Cardinality(old) + 1
                    ELSE new = old
  BY <1>1, AnsweredAppend
<1>6. \A w, rs : IsFiniteSet(Answered(h, w, rs)) /\ Cardinality(Answered(h, w, rs)) \in Nat
  BY AnsweredFinite
<1> HIDE DEF e, h2, n
<1>7. Windows(h2, c2)
  BY <1>1, <1>2, <1>3, <1>4 DEF HistoryOK, Windows, InItsWindow, Apart
<1>8. Admissions(h2, c2)
  <2>1. /\ \A w \in Int : Cardinality(Answered(h, w, {"true"})) <= Limit
        /\ Cardinality(Answered(h, c.starts_at, {"true"})) = c.admitted[Observed]
    BY DEF HistoryOK, Admissions
  <2>2. CASE result = "true"
    <3>1. Cardinality(Answered(h2, c.starts_at, {"true"})) = c.admitted[Observed] + 1
      BY <1>1, <1>5, <2>1, <2>2
    <3>2. \A w \in Int : w # c.starts_at =>
             Cardinality(Answered(h2, w, {"true"})) = Cardinality(Answered(h, w, {"true"}))
      BY <1>1, <1>5
    <3>3. QED
      BY <2>1, <2>2, <3>1, <3>2 DEF Admissions
  <2>3. CASE result # "true"
    <3>1. \A w : Answered(h2, w, {"true"}) = Answered(h, w, {"true"})
      BY <1>1, <1>5, <2>3
    <3>2. c2.admitted[Observed] = c.admitted[Observed]
      BY <2>3 DEF Results
    <3>3. QED
      BY <2>1, <3>1, <3>2 DEF Admissions
  <2>4. QED
    BY <2>2, <2>3
<1>9. Counters(h2, c2, p)
  <2>1. Counters(h, c, p)
    BY DEF HistoryOK
  <2>2. CASE result = "err"
    <3>1. \A w : Answered(h2, w, {"true", "false"}) = Answered(h, w, {"true", "false"})
      BY <1>1, <1>5, <2>2
    <3>2. QED
      BY <2>1, <2>2, <3>1 DEF Counters
  <2>3. CASE result # "err"
    <3>1. result \in {"true", "false"}
      BY <2>3 DEF Results
    <3>2. Cardinality(Answered(h2, c.starts_at, {"true", "false"}))
            = Cardinality(Answered(h, c.starts_at, {"true", "false"})) + 1
      BY <1>1, <1>5, <3>1
    <3>3. p.starts_at # c.starts_at =>
             Answered(h2, p.starts_at, {"true", "false"}) = Answered(h, p.starts_at, {"true", "false"})
      BY <1>1, <1>5
    <3>4. /\ Cardinality(Answered(h, c.starts_at, {"true", "false"})) \in Nat
          /\ Cardinality(Answered(h, p.starts_at, {"true", "false"})) \in Nat
      BY <1>6
    <3>5. p.inner[Observed] <= Cardinality(Answered(h2, p.starts_at, {"true", "false"}))
      <4>1. CASE p.starts_at = c.starts_at
        BY <2>1, <3>2, <3>4, <4>1 DEF Counters
      <4>2. CASE p.starts_at # c.starts_at
        BY <2>1, <3>3, <4>2 DEF Counters
      <4>3. QED
        BY <4>1, <4>2
    <3>6. c2.inner[Observed] <= Cardinality(Answered(h2, c2.starts_at, {"true", "false"}))
      BY <2>1, <2>3, <3>2, <3>4 DEF Counters
    <3>7. QED
      BY <2>3, <3>5, <3>6 DEF Counters
  <2>4. QED
    BY <2>2, <2>3
<1>10. Served(h2)
  <2> SUFFICES ASSUME NEW j \in DOMAIN h2, NEW k \in DOMAIN h2,
                      j < k, h2[j].window = h2[k].window, h2[j].result # "err"
               PROVE  h2[k].result # "err"
    BY DEF Served
  <2>1. j \in DOMAIN h /\ h2[j] = h[j]
    BY <1>2 DEF n
  <2>2. CASE k \in DOMAIN h
    BY <1>2, <2>1, <2>2 DEF HistoryOK, Served
  <2>3. CASE k = n
    <3>1. h[j].window = c.starts_at /\ h[j].result \in {"true", "false"}
      BY <1>1, <1>2, <1>4, <2>1, <2>3 DEF Results
    <3>2. j \in Answered(h, c.starts_at, {"true", "false"})
      BY <2>1, <3>1 DEF Answered
    <3>3. c.inner[Observed] > 0
      BY <3>2 DEF HistoryOK, Counters
    <3>4. QED
      BY <1>1, <1>2, <2>3, <3>3
  <2>4. QED
    BY <1>2, <2>2, <2>3
<1>11. Rejections(h2)
  <2> SUFFICES ASSUME Period > 0, NEW k \in DOMAIN h2, h2[k].result = "false"
               PROVE  Cardinality({j \in 1..k : h2[j].at > h2[k].at - 2 * Period}) > Limit
    BY DEF Rejections
  <2>1. CASE k \in DOMAIN h
    <3>1. 1..k \subseteq DOMAIN h
      BY <1>2, <2>1
    <3>2. {j \in 1..k : h2[j].at > h2[k].at - 2 * Period}
            = {j \in 1..k : h[j].at > h[k].at - 2 * Period}
      BY <1>2, <2>1, <3>1
    <3>3. h[k].result = "false" /\ Rejections(h)
      BY <1>2, <2>1 DEF HistoryOK
    <3>4. QED
      BY <2>1, <3>2, <3>3 DEF Rejections
  <2>2. CASE k = n
    <3> DEFINE S == {j \in 1..k : h2[j].at > h2[k].at - 2 * Period}
               A == Answered(h, c.starts_at, {"true", "false"})
               B == Answered(h, p.starts_at, {"true", "false"})
    <3>1. result = "false" /\ h2[k].at = at
      BY <1>1, <1>2, <2>2
    <3>2. 1..k = DOMAIN h2 /\ IsFiniteSet(1..k)
      <4>1. 1..k = DOMAIN h2
        BY <1>2, <2>2 DEF n
      <4>2. 1 \in Int /\ k \in Int
        BY <1>2, <2>2 DEF n
      <4>3. QED
        BY <4>1, <4>2, FS_Interval
    <3>3. IsFiniteSet(S) /\ Cardinality(S) \in Nat
      <4>1. S \subseteq 1..k
        OBVIOUS
      <4>2. QED
        BY <3>2, <4>1, FS_Subset, FS_CardinalityType
    <3>4. \A j \in A : j \in S /\ j # n
      BY <1>1, <1>2, <1>3, <1>4, <3>1, <3>2 DEF Answered, HistoryOK, Windows, InItsWindow
    <3>5. n \in S
      BY <1>1, <1>2, <1>3, <2>2, <3>1, <3>2
    <3>6. /\ IsFiniteSet(A) /\ IsFiniteSet(B) /\ Cardinality(A) \in Nat /\ Cardinality(B) \in Nat
          /\ c.inner[Observed] <= Cardinality(A) /\ p.inner[Observed] <= Cardinality(B)
      BY <1>6 DEF HistoryOK, Counters
    <3>7. CASE p.inner[Observed] = 0
      <4>1. A \cup {n} \subseteq S /\ n \notin A
        BY <3>4, <3>5
      <4> HIDE DEF A, S
      <4>2. Cardinality(A \cup {n}) = Cardinality(A) + 1
        BY <3>6, <4>1, FS_AddElement
      <4>3. Cardinality(A \cup {n}) <= Cardinality(S)
        BY <3>3, <4>1, FS_Subset
      <4>4. Cardinality(S) > Limit
        BY <1>3, <3>1, <3>3, <3>6, <3>7, <4>2, <4>3
      <4>5. QED
        BY <4>4 DEF S
    <3>8. CASE p.starts_at = c.starts_at - Period
      <4>1. \A j \in B : j \in S /\ j # n
        <5> SUFFICES ASSUME NEW j \in B
                     PROVE  j \in S /\ j # n
          OBVIOUS
        <5>1. j \in DOMAIN h /\ h[j].window = c.starts_at - Period
          BY <3>8 DEF Answered
        <5>2. h[j].at >= c.starts_at - Period /\ h[j].at \in Nat
          BY <1>3, <1>4, <5>1 DEF HistoryOK, Windows, InItsWindow
        <5>3. h[j].at > at - 2 * Period
          BY <1>3, <5>2
        <5>4. QED
          BY <1>2, <3>1, <3>2, <5>1, <5>3
      <4>2. A \cap B = {}
        BY <1>3, <3>8 DEF Answered
      <4>3. (A \cup B) \cup {n} \subseteq S /\ n \notin A \cup B
        BY <3>4, <3>5, <4>1
      <4> HIDE DEF A, B, S
      <4>4. IsFiniteSet(A \cup B) /\ Cardinality(A \cup B) = Cardinality(A) + Cardinality(B)
        <5>1. /\ IsFiniteSet(A \cup B)
              /\ Cardinality(A \cup B) = Cardinality(A) + Cardinality(B) - Cardinality(A \cap B)
          BY <3>6, FS_Union
        <5>2. Cardinality(A \cap B) = 0
          BY <4>2, FS_EmptySet
        <5>3. QED
          BY <3>6, <5>1, <5>2
      <4>5. Cardinality((A \cup B) \cup {n}) = Cardinality(A) + Cardinality(B) + 1
        BY <4>3, <4>4, FS_AddElement
      <4>6. Cardinality((A \cup B) \cup {n}) <= Cardinality(S)
        BY <3>3, <4>3, FS_Subset
      <4>7. Cardinality(S) > Limit
        BY <1>3, <3>1, <3>3, <3>6, <4>5, <4>6
      <4>8. QED
        BY <4>7 DEF S
    <3>9. QED
      BY <3>7, <3>8
  <2>3. QED
    BY <1>2, <2>1, <2>2
<1>12. QED
  BY <1>7, <1>8, <1>9, <1>10, <1>11 DEF HistoryOK, h2, e

-----------------------------------------------------------------------------
(* Invariance of the history. *)

\* A bucket's fields for the observed client.
LEMMA ObservedFields ==
    ASSUME NEW b, NEW now, Good(b, now)
    PROVE  /\ b \in Bucket /\ b.starts_at \in Int /\ b.starts_at <= now
           /\ b.inner[Observed] \in Nat /\ b.inner[Observed] <= U16Max
           /\ b.admitted[Observed] \in Nat
BY ConstantsAssumption DEF Good, GoodBucket, Bucket

\* A rejection for lack of room: the buckets are those of the rotation.
LEMMA OverloadedKeepsHistory ==
    ASSUME HInv, NEW ip \in Ips, NEW result \in Results, Overloaded(ip, result)
    PROVE  HInv'
<1> DEFINE g == Rotated(clock).green
           b == Rotated(clock).blue
           c == Current(g, b)
           p == Previous(g, b)
<1>1. IInv' /\ IInv
  BY OverloadedPreserves DEF HInv
<1>2. /\ Limit > 0 /\ FullFor(c, ip) /\ result = "err"
      /\ bucket_green' = g /\ bucket_blue' = b /\ cfg' = cfg
      /\ Record(ip, clock, c.starts_at, result)
  BY DEF Overloaded
<1>3. /\ HistoryOK(history, c, p)
      /\ Period > 0 => clock < c.starts_at + Period
      /\ p.inner[Observed] = 0 \/ p.starts_at = c.starts_at - Period
  BY <1>2, RotationKeepsHistory
<1>4. Good(c, clock) /\ Good(p, clock)
  BY <1>1, RotationKeepsPhase DEF Current, Previous
<1>5. clock \in Nat /\ history \in Seq(Entry) /\ cfg \in Configs
  BY <1>1, ConstantsAssumption DEF IInv
<1>6. /\ Current(bucket_green, bucket_blue)' = c /\ Previous(bucket_green, bucket_blue)' = p
      /\ Limit' = Limit /\ Period' = Period
  BY <1>2 DEF Current, Previous, is_green_bucket_current, Limit, Period
<1> HIDE DEF c, p
<1>7. HistoryOK(history', c, p)
  <2>1. CASE ip = Observed
    <3>1. history' = Append(history, [at |-> clock, window |-> c.starts_at, result |-> result])
      BY <1>2, <2>1 DEF Record
    <3>2. c.inner[Observed] = 0
      BY <1>2, <2>1 DEF FullFor
    <3>3. HistoryOK(Append(history, [at |-> clock, window |-> c.starts_at, result |-> result]), c, p)
      BY <1>2, <1>3, <1>4, <1>5, <3>2, ObservedFields, RecordKeepsHistory
    <3>4. QED
      BY <3>1, <3>3
  <2>2. CASE ip # Observed
    BY <1>2, <1>3, <2>2 DEF Record
  <2>3. QED
    BY <2>1, <2>2
<1>8. HistoryOK(history, Current(bucket_green, bucket_blue), Previous(bucket_green, bucket_blue))'
  BY <1>6, <1>7 DEF HistoryOK, Windows, Admissions, Counters, Rejections, Served, InItsWindow, Apart
<1>9. QED
  BY <1>1, <1>2, <1>6, <1>8 DEF HInv

\* A request that is counted.
LEMMA CountKeepsHistory ==
    ASSUME HInv, NEW ip \in Ips, NEW result \in Results, NEW pause \in 0..MaxPause,
           Count(ip, pause, result)
    PROVE  HInv'
<1> DEFINE g == Rotated(clock).green
           b == Rotated(clock).blue
           c == Current(g, b)
           p == Previous(g, b)
           approx == get_approx(p.inner[ip], clock + pause - c.starts_at)
           resume == Limit >= approx + increment(c.inner[ip])
           c2 == Counted(c, ip, resume)
<1>1. IInv' /\ IInv
  BY CountPreserves DEF HInv
<1>2. /\ Limit > 0
      /\ result = IF resume THEN "true" ELSE "false"
      /\ bucket_green' = IF is_green_bucket_current(g, b) THEN Counted(g, ip, resume) ELSE g
      /\ bucket_blue' = IF is_green_bucket_current(g, b) THEN b ELSE Counted(b, ip, resume)
      /\ cfg' = cfg
      /\ Record(ip, clock, c.starts_at, result)
  BY DEF Count
<1>3. /\ HistoryOK(history, c, p)
      /\ Period > 0 => clock < c.starts_at + Period
      /\ p.inner[Observed] = 0 \/ p.starts_at = c.starts_at - Period
  BY <1>2, RotationKeepsHistory
<1>4. Good(c, clock) /\ Good(p, clock)
  BY <1>1, RotationKeepsPhase DEF Current, Previous
<1>5. clock \in Nat /\ pause \in Nat /\ history \in Seq(Entry) /\ cfg \in Configs
  BY <1>1, ConstantsAssumption DEF IInv
<1>6. /\ c2.starts_at = c.starts_at
      /\ c2.inner = [c.inner EXCEPT ![ip] = increment(@)]
      /\ c2.admitted = [c.admitted EXCEPT ![ip] = IF resume THEN @ + 1 ELSE @]
  BY DEF Counted
<1>7. /\ Current(bucket_green, bucket_blue)' = c2 /\ Previous(bucket_green, bucket_blue)' = p
      /\ Limit' = Limit /\ Period' = Period
  <2>1. Counted(g, ip, resume).starts_at = g.starts_at /\ Counted(b, ip, resume).starts_at = b.starts_at
    BY DEF Counted
  <2>2. Limit' = Limit /\ Period' = Period
    BY <1>2 DEF Limit, Period
  <2> HIDE DEF g, b, resume
  <2>3. QED
    BY <1>2, <2>1, <2>2 DEF Current, Previous, is_green_bucket_current
<1>8. approx \in Nat /\ approx <= p.inner[ip] /\ p.inner[ip] \in Nat /\ c.inner[ip] \in 0..U16Max
  <2>1. p.inner[ip] \in Nat /\ c.inner[ip] \in 0..U16Max /\ c.starts_at \in Int /\ c.starts_at <= clock
    BY <1>4 DEF Good, GoodBucket, Bucket
  <2>2. clock + pause - c.starts_at \in Nat
    BY <1>5, <2>1
  <2> HIDE DEF c, p
  <2>3. QED
    BY <1>5, <2>1, <2>2, ApproxBounds
<1>9. Good(Current(bucket_green, bucket_blue), clock)'
  BY <1>1 DEF IInv, Current
<1>10. /\ c2.inner[Observed] \in Nat /\ c2.admitted[Observed] \in Nat
       /\ c2.admitted[Observed] <= Limit
  <2> HIDE DEF c2
  <2>1. Good(c2, clock')
    <3>1. Limit' = Limit /\ cfg' = cfg /\ Current(bucket_green, bucket_blue)' = c2
      BY <1>2, <1>7
    <3>2. QED
      BY <1>9, <3>1 DEF Good
  <2>2. QED
    BY <2>1, ConstantsAssumption, ObservedFields DEF Good, GoodBucket
<1> HIDE DEF c, p, c2, approx
<1>11. HistoryOK(history', c2, p)
  <2>1. CASE ip = Observed
    <3>1. history' = Append(history, [at |-> clock, window |-> c.starts_at, result |-> result])
      BY <1>2, <2>1 DEF Record
    <3>2. /\ c.inner[Observed] \in Nat /\ c.inner[Observed] <= U16Max /\ c.admitted[Observed] \in Nat
          /\ c.starts_at \in Int /\ c.starts_at <= clock
          /\ p.starts_at \in Int /\ p.inner[Observed] \in Nat /\ c \in Bucket
      BY <1>4, ObservedFields
    <3>3. c2.inner[Observed] = increment(c.inner[Observed])
      BY <1>6, <2>1, <3>2, ConstantsAssumption DEF Bucket
    <3>4. c2.admitted[Observed] =
             IF resume THEN c.admitted[Observed] + 1 ELSE c.admitted[Observed]
      BY <1>6, <2>1, <3>2, ConstantsAssumption DEF Bucket
    <3>5. c2.inner[Observed] > 0 /\ c2.inner[Observed] <= c.inner[Observed] + 1
      BY <3>2, <3>3, ConstantsAssumption DEF increment
    <3>6. result = "false" => Limit < p.inner[Observed] + c.inner[Observed] + 1
      <4>1. result = "false" => Limit < approx + c2.inner[Observed]
        BY <1>2, <1>5, <1>8, <1>10, <2>1, <3>3, ConfigFacts
      <4>2. Limit \in Nat /\ approx \in Nat /\ approx <= p.inner[Observed]
        BY <1>5, <1>8, <2>1, ConfigFacts
      <4> HIDE DEF resume
      <4>3. QED
        BY <1>10, <3>2, <3>5, <4>1, <4>2
    <3>7. /\ result # "err"
          /\ c2.admitted[Observed] =
                IF result = "true" THEN c.admitted[Observed] + 1 ELSE c.admitted[Observed]
      BY <1>2, <3>4
    <3> HIDE DEF resume
    <3>8. HistoryOK(Append(history, [at |-> clock, window |-> c.starts_at, result |-> result]), c2, p)
      BY <1>3, <1>5, <1>6, <1>10, <3>2, <3>5, <3>6, <3>7, RecordKeepsHistory
    <3>9. QED
      BY <3>1, <3>8
  <2>2. CASE ip # Observed
    <3>1. history' = history
      BY <1>2, <2>2 DEF Record
    <3>2. c \in Bucket
      BY <1>4 DEF Good, GoodBucket
    <3> HIDE DEF resume
    <3>3. c2.inner[Observed] = c.inner[Observed] /\ c2.admitted[Observed] = c.admitted[Observed]
      BY <1>6, <2>2, <3>2, ConstantsAssumption DEF Bucket
    <3>4. QED
      BY <1>3, <1>6, <3>1, <3>3 DEF HistoryOK, Windows, Admissions, Counters
  <2>3. QED
    BY <2>1, <2>2
<1>12. HistoryOK(history, Current(bucket_green, bucket_blue), Previous(bucket_green, bucket_blue))'
  BY <1>7, <1>11 DEF HistoryOK, Windows, Admissions, Counters, Rejections, Served, InItsWindow, Apart
<1>13. QED
  BY <1>1, <1>2, <1>7, <1>12 DEF HInv

\* A new limiter has no history; every step keeps the history in order.
LEMMA HistoryInit == Init => HInv
<1> SUFFICES ASSUME Init PROVE HInv
  OBVIOUS
<1>1. IInv /\ history = <<>>
  BY InitEstablishes DEF Init
<1> DEFINE c == Current(bucket_green, bucket_blue)
           p == Previous(bucket_green, bucket_blue)
<1>2. /\ c.inner[Observed] = 0 /\ p.inner[Observed] = 0 /\ c.admitted[Observed] = 0
  BY ConstantsAssumption DEF Init, Current, Previous, RateLimiterBucket
<1>3. \A w, rs : Answered(history, w, rs) = {} /\ Cardinality(Answered(history, w, rs)) = 0
  <2>1. \A w, rs : Answered(history, w, rs) = {}
    BY <1>1 DEF Answered
  <2>2. QED
    BY <2>1, FS_EmptySet
<1>4. Limit \in Nat
  BY <1>1, ConfigFacts DEF IInv
<1> HIDE DEF c, p
<1>5. Windows(history, c) /\ Rejections(history) /\ Served(history)
  BY <1>1 DEF Windows, Rejections, Served
<1>6. Admissions(history, c) /\ Counters(history, c, p)
  BY <1>2, <1>3, <1>4 DEF Admissions, Counters
<1>7. QED
  BY <1>1, <1>5, <1>6 DEF HInv, HistoryOK, c, p

\* Every step of the limiter keeps what the history says of the current windows.
LEMMA HistoryNext == HInv /\ [Next]_vars => HInv'
<1> SUFFICES ASSUME HInv, [Next]_vars PROVE HInv'
  OBVIOUS
<1>1. IInv /\ IInv'
  BY NextPreserves DEF HInv
<1>2. ASSUME UNCHANGED <<cfg, bucket_green, bucket_blue, history>>
      PROVE  HInv'
  BY <1>1, <1>2 DEF HInv, HistoryOK, Windows, Admissions, Counters, Rejections, Served, InItsWindow,
                    Apart, Limit, Period, Current, Previous, is_green_bucket_current
<1>3. CASE Tick
  BY <1>2, <1>3 DEF Tick
<1>4. ASSUME NEW ip \in Ips, Probe(ip) PROVE HInv'
  <2>1. PICK result \in Results : can_resume(ip, result)
    BY <1>4 DEF Probe
  <2>2. CASE RefuseAll(ip, result)
    <3>1. /\ Limit = 0 /\ result = "false" /\ Limit' = Limit
          /\ \/ history' = history
             \/ history' = Append(history, [at |-> clock, window |->
                    Current(bucket_green, bucket_blue).starts_at, result |-> result])
      BY <2>2 DEF RefuseAll, Record, Limit
    <3>2. \A k \in DOMAIN history' : history'[k].result = "false"
      BY <1>1, <3>1 DEF HInv, IInv
    <3>3. QED
      BY <1>1, <3>1, <3>2 DEF HInv
  <2>3. CASE Overloaded(ip, result)
    BY <2>3, OverloadedKeepsHistory
  <2>4. CASE \E pause \in 0..MaxPause : Count(ip, pause, result)
    BY <2>4, CountKeepsHistory
  <2>5. QED
    BY <2>1, <2>2, <2>3, <2>4 DEF can_resume
<1>5. CASE UNCHANGED vars
  BY <1>2, <1>5 DEF vars
<1>6. QED
  BY <1>3, <1>4, <1>5 DEF Next

\* Buckets and history stay in step in every reachable state.
THEOREM HistoryInvariant == Spec => []HInv
BY HistoryInit, HistoryNext, PTL DEF Spec

\* In any interval of one period at most twice the maximum of a client's
\* requests are admitted: the interval meets at most two windows.
THEOREM AdmissionsInAnyPeriod == Spec => []AdmittedInAnyPeriod
<1>1. HInv => AdmittedInAnyPeriod
  <2> SUFFICES ASSUME HInv, Period > 0, NEW t \in 0..clock
               PROVE  AdmittedAt(t, t + Period - 1) <= 2 * Limit
    BY DEF AdmittedInAnyPeriod
  <2> DEFINE S == {j \in DOMAIN history : history[j].result = "true"
                                          /\ history[j].at \in t..(t + Period - 1)}
             A(w) == Answered(history, w, {"true"})
  <2>1. /\ Limit \in Nat /\ Period \in Nat /\ t \in Nat /\ history \in Seq(Entry)
    BY ConfigFacts, ConstantsAssumption DEF HInv, IInv
  <2>2. \A j \in DOMAIN history : history[j].at \in Nat /\ history[j].window \in Int
    BY <2>1, EntryFacts
  <2>3. CASE S = {}
    <3>1. AdmittedAt(t, t + Period - 1) = Cardinality({})
      BY <2>3 DEF AdmittedAt
    <3>2. Cardinality({}) = 0
      BY FS_EmptySet
    <3>3. QED
      BY <2>1, <3>1, <3>2
  <2>4. CASE S # {}
    <3>1. Limit > 0
      BY <2>1, <2>4 DEF HInv
    <3>2. PICK j1 \in S : TRUE
      BY <2>4
    <3>3. \E w \in Int : \A j \in S : history[j].window \in {history[j1].window, w}
      <4>1. CASE \A j \in S : history[j].window = history[j1].window
        BY <2>2, <3>2, <4>1
      <4>2. CASE \E j \in S : history[j].window # history[j1].window
        <5>1. PICK j2 \in S : history[j2].window # history[j1].window
          BY <4>2
        <5>2. ASSUME NEW j3 \in S
              PROVE  history[j3].window \in {history[j1].window, history[j2].window}
          <6> DEFINE w(j) == history[j].window
                     a(j) == history[j].at
          <6>1. \A i \in {j1, j2, j3} :
                   /\ w(i) <= a(i) /\ a(i) < w(i) + Period /\ t <= a(i) /\ a(i) <= t + Period - 1
                   /\ w(i) \in Int /\ a(i) \in Int
            BY <2>1, <2>2, <3>1, <3>2, <5>1, <5>2 DEF HInv, HistoryOK, Windows, InItsWindow
          <6>2. Apart(w(j1), w(j2)) /\ Apart(w(j1), w(j3)) /\ Apart(w(j2), w(j3))
            BY <3>1, <3>2, <5>1, <5>2 DEF HInv, HistoryOK, Windows
          <6>3. w(j1) # w(j2)
            BY <5>1
          <6> HIDE DEF w, a, S
          <6>4. w(j3) = w(j1) \/ w(j3) = w(j2)
            BY <2>1, <6>1, <6>2, <6>3 DEF Apart
          <6>5. QED
            BY <6>4 DEF w
        <5>3. QED
          BY <2>2, <5>1, <5>2
      <4>3. QED
        BY <4>1, <4>2
    <3>4. PICK w2 \in Int : \A j \in S : history[j].window \in {history[j1].window, w2}
      BY <3>3
    <3> DEFINE w1 == history[j1].window
    <3>5. w1 \in Int
      BY <2>2, <3>2
    <3>6. S \subseteq A(w1) \cup A(w2)
      BY <3>4 DEF Answered
    <3>7. /\ IsFiniteSet(A(w1)) /\ IsFiniteSet(A(w2))
          /\ Cardinality(A(w1)) \in Nat /\ Cardinality(A(w2)) \in Nat
          /\ Cardinality(A(w1)) <= Limit /\ Cardinality(A(w2)) <= Limit
      BY <2>1, <3>1, <3>5, AnsweredFinite DEF HInv, HistoryOK, Admissions
    <3> HIDE DEF A, w1, S
    <3>8. /\ IsFiniteSet(A(w1) \cup A(w2))
          /\ Cardinality(A(w1) \cup A(w2)) <= 2 * Limit
      <4>1. IsFiniteSet(A(w1) \cap A(w2))
        BY <3>7, FS_Subset
      <4>2. Cardinality(A(w1) \cap A(w2)) \in Nat
        BY <4>1, FS_CardinalityType
      <4>3. /\ IsFiniteSet(A(w1) \cup A(w2))
            /\ Cardinality(A(w1) \cup A(w2))
                 = Cardinality(A(w1)) + Cardinality(A(w2)) - Cardinality(A(w1) \cap A(w2))
        BY <3>7, FS_Union
      <4>4. QED
        BY <2>1, <3>7, <4>2, <4>3
    <3>9. IsFiniteSet(S) /\ Cardinality(S) <= Cardinality(A(w1) \cup A(w2))
      BY <3>6, <3>8, FS_Subset
    <3>10. Cardinality(S) \in Nat /\ Cardinality(A(w1) \cup A(w2)) \in Nat
      BY <3>8, <3>9, FS_CardinalityType
    <3>11. Cardinality(S) <= 2 * Limit
      BY <2>1, <3>8, <3>9, <3>10
    <3>12. QED
      BY <3>11 DEF AdmittedAt, S
  <2>5. QED
    BY <2>3, <2>4
<1>2. QED
  BY <1>1, HistoryInvariant, PTL

\* A client is answered 429 only if it made more requests than the maximum in
\* the last two periods.
THEOREM RejectionsAreJustified == Spec => []NoSpuriousRejection
<1>1. HInv => NoSpuriousRejection
  <2> SUFFICES ASSUME HInv, Period > 0, NEW k \in DOMAIN history, history[k].result = "false"
               PROVE  Cardinality({j \in 1..k : history[j].at > history[k].at - 2 * Period}) > Limit
    BY DEF NoSpuriousRejection
  <2>1. Limit \in Nat /\ Period \in Nat /\ history \in Seq(Entry)
    BY ConfigFacts DEF HInv, IInv
  <2>2. CASE Limit > 0
    BY <2>2 DEF HInv, HistoryOK, Rejections
  <2>3. CASE Limit = 0
    <3> DEFINE S == {j \in 1..k : history[j].at > history[k].at - 2 * Period}
    <3>1. k \in Nat /\ k >= 1 /\ history[k].at \in Nat
      BY <2>1, EntryFacts
    <3>2. k \in S
      BY <2>1, <3>1
    <3>3. IsFiniteSet(1..k) /\ S \subseteq 1..k
      BY <3>1, FS_Interval
    <3> HIDE DEF S
    <3>4. IsFiniteSet(S)
      BY <3>3, FS_Subset
    <3>5. Cardinality(S) \in Nat /\ Cardinality(S) # 0
      BY <3>2, <3>4, FS_CardinalityType, FS_EmptySet
    <3>6. Cardinality(S) > Limit
      BY <2>3, <3>5
    <3>7. QED
      BY <3>6 DEF S
  <2>4. QED
    BY <2>1, <2>2, <2>3
<1>2. QED
  BY <1>1, HistoryInvariant, PTL

\* A client that was counted in a window is not turned away for lack of room
\* in that window.
THEOREM CountedClientsAreServed == Spec => []KnownClientsAreServed
<1>1. HInv => KnownClientsAreServed
  <2> SUFFICES ASSUME HInv PROVE KnownClientsAreServed
    OBVIOUS
  <2>1. Limit = 0 \/ Limit > 0
    BY ConfigFacts DEF HInv, IInv
  <2>2. QED
    BY <2>1 DEF HInv, HistoryOK, Served, KnownClientsAreServed
<1>2. QED
  BY <1>1, HistoryInvariant, PTL

=============================================================================

----------------------------- MODULE RateLimiter -----------------------------
(***************************************************************************)
(* The sliding-window rate limiter of pingoo/rate_limiter.rs: the struct   *)
(* RateLimiter with its two buckets and its one operation, can_resume.     *)
(*                                                                         *)
(* Time.  clock is the monotonic clock Instant::now() reads, in ticks;     *)
(* TicksPerSec ticks make one second, so that the truncation of as_secs()  *)
(* in get_approx is visible.  can_resume reads the clock twice (line 126   *)
(* and, through elapsed(), line 168): the task may be descheduled between  *)
(* the two, for at most MaxPause ticks here.                               *)
(*                                                                         *)
(* Counters are u16: U16Max stands for u16::MAX and may be made small.     *)
(*                                                                         *)
(* A bucket's map holds what HashMap::with_capacity allocates, which is at *)
(* least what is asked for and usually more: hashbrown reports 3 for 1, 14 *)
(* for 8 and 1792 for 1024.  CapacityOf(n) is what capacity() then reports.*)
(***************************************************************************)
EXTENDS Integers, Sequences, FiniteSets

CONSTANTS
    Ips,          \* client addresses
    Observed,     \* the client whose requests the history records
    Configs,      \* the limit sections a rule may carry: max, window, capacity
    CapacityOf(_),\* HashMap::with_capacity(n).capacity()
    U16Max,       \* u16::MAX
    TicksPerSec,  \* clock resolution
    MaxClock,     \* bound: the clock stops here
    MaxPause,     \* bound: longest descheduling between two clock reads
    MaxRequests   \* bound: requests of the observed client

ASSUME ConstantsAssumption ==
    /\ IsFiniteSet(Ips)
    /\ Observed \in Ips
    /\ U16Max \in Nat \ {0}
    /\ Configs \subseteq [max : 0..U16Max, window : Nat, capacity : Nat]
    /\ TicksPerSec \in Nat \ {0}
    /\ MaxClock \in Nat /\ MaxPause \in Nat /\ MaxRequests \in Nat
    /\ MaxPause <= MaxClock

\* The standard library allocates for at least what it is asked for; asked for
\* what it once reported it reports the same (a table of buckets holds exactly that).
ASSUME CapacityAssumption ==
    \A c \in Configs :
        /\ CapacityOf(c.capacity) \in Nat
        /\ CapacityOf(c.capacity) >= c.capacity
        /\ CapacityOf(CapacityOf(c.capacity)) = CapacityOf(c.capacity)

VARIABLES
    cfg,          \* the limiter's configuration, fixed at start
    clock,
    bucket_green,
    bucket_blue,
    history       \* the observed client's requests, in order (not in the code)

vars == <<cfg, clock, bucket_green, bucket_blue, history>>

Results == {"true", "false", "err"}  \* Ok(true), Ok(false), Err(())

-----------------------------------------------------------------------------
(* RateLimiter::new and the struct's fields. *)

\* Mutant: u16::MAX is not lowered.
LimitUnsanitized == cfg.max

\* A limit of u16::MAX is lowered by one: a saturated counter must exceed it.
Limit == IF cfg.max = U16Max THEN cfg.max - 1 ELSE cfg.max

Period == cfg.window * TicksPerSec

\* inner[ip] = 0 is an absent entry: a stored counter is at least 1.
\* capacity is what inner.capacity() reports.
\* admitted is history: how often can_resume said Ok(true) while counting here.
RateLimiterBucket(t, capacity) ==
    [starts_at |-> t, capacity |-> CapacityOf(capacity),
     inner |-> [i \in Ips |-> 0], admitted |-> [i \in Ips |-> 0]]

Known(b) == {i \in Ips : b.inner[i] > 0}

create_prev_window(instant, elapsed) ==
    IF elapsed < Period THEN instant ELSE instant - Period

Init ==
    /\ cfg \in Configs
    /\ clock \in 0..MaxPause
    /\ bucket_green = RateLimiterBucket(0, cfg.capacity)
    /\ bucket_blue = RateLimiterBucket(create_prev_window(0, clock), cfg.capacity)
    /\ history = <<>>

-----------------------------------------------------------------------------
(* can_resume *)

is_green_bucket_current(g, b) == g.starts_at >= b.starts_at

Current(g, b) == IF is_green_bucket_current(g, b) THEN g ELSE b
Previous(g, b) == IF is_green_bucket_current(g, b) THEN b ELSE g

is_within_curr_bucket_window(now, curr_starts_at) == now < curr_starts_at + Period

\* Mutant: one window too late.
OutsideTooLate(now, curr_starts_at) == now >= curr_starts_at + 3 * Period

is_outside_next_monothonic_window(now, curr_starts_at) ==
    now >= curr_starts_at + 2 * Period

\* Lines 121-142: the two buckets once the window has been brought up to now.
Rotated(now) ==
    LET capacity == bucket_green.capacity
    IN IF is_within_curr_bucket_window(now, Current(bucket_green, bucket_blue).starts_at) \/ Period = 0
       THEN [green |-> bucket_green, blue |-> bucket_blue]
       ELSE IF is_outside_next_monothonic_window(now, bucket_green.starts_at)
       THEN [green |-> RateLimiterBucket(now, capacity), blue |-> RateLimiterBucket(now, capacity)]
       ELSE IF is_green_bucket_current(bucket_green, bucket_blue)
       THEN [green |-> bucket_green,
             blue |-> RateLimiterBucket(bucket_green.starts_at + Period, capacity)]
       ELSE [green |-> RateLimiterBucket(bucket_blue.starts_at + Period, capacity),
             blue |-> bucket_blue]

\* Mutant: a plain addition.
IncrementWrapping(sum) == sum + 1

\* Counter::increment, u16::saturating_add
increment(sum) == IF sum = U16Max THEN U16Max ELSE sum + 1

\* Mutant: the weight is not divided by the window.
ApproxUndivided(prev_counter, window_needle) ==
    IF window_needle >= Period
    THEN 0
    ELSE prev_counter * (cfg.window - window_needle \div TicksPerSec)

get_approx(prev_counter, window_needle) ==
    IF window_needle >= Period
    THEN 0
    ELSE (prev_counter * (cfg.window - window_needle \div TicksPerSec)) \div cfg.window

\* Mutant: the entry is replaced instead of incremented.
CountedOnce(b, ip, resume) ==
    [b EXCEPT !.inner[ip] = 1,
              !.admitted[ip] = IF resume THEN @ + 1 ELSE @]

\* The current bucket b after counting a request of ip.
Counted(b, ip, resume) ==
    [starts_at |-> b.starts_at, capacity |-> b.capacity,
     inner |-> [b.inner EXCEPT ![ip] = increment(@)],
     admitted |-> [b.admitted EXCEPT ![ip] = IF resume THEN @ + 1 ELSE @]]

\* One request of the observed client; window identifies the bucket it met.
Record(ip, at, window, result) ==
    history' = IF ip = Observed
               THEN Append(history, [at |-> at, window |-> window, result |-> result])
               ELSE history

\* A zero limit answers before anything is read or counted.
RefuseAll(ip, result) ==
    /\ Limit = 0
    /\ result = "false"
    /\ Record(ip, clock, Current(bucket_green, bucket_blue).starts_at, result)
    /\ UNCHANGED <<cfg, clock, bucket_green, bucket_blue>>

\* Mutant: a full bucket turns away everybody.
FullForAll(b, ip) == Cardinality(Known(b)) = b.capacity

\* Mutant: no capacity check.
FullForNobody(b, ip) == FALSE

\* Bucket b has no entry for ip and no room for one.
FullFor(b, ip) == b.inner[ip] = 0 /\ Cardinality(Known(b)) = b.capacity

\* The current bucket is full and has no entry for ip: Err(()), the rotation stays.
Overloaded(ip, result) ==
    LET g == Rotated(clock).green
        b == Rotated(clock).blue
        curr == Current(g, b)
    IN /\ Limit > 0
       /\ FullFor(curr, ip)
       /\ result = "err"
       /\ bucket_green' = g
       /\ bucket_blue' = b
       /\ Record(ip, clock, curr.starts_at, result)
       /\ UNCHANGED <<cfg, clock>>

\* The request is counted and compared with the limit; pause ticks pass
\* before the second clock read.
Count(ip, pause, result) ==
    LET g == Rotated(clock).green
        b == Rotated(clock).blue
        curr == Current(g, b)
        approx == get_approx(Previous(g, b).inner[ip], clock + pause - curr.starts_at)
        resume == Limit >= approx + increment(curr.inner[ip])
    IN /\ Limit > 0
       /\ ~ FullFor(curr, ip)
       /\ clock + pause <= MaxClock
       /\ result = IF resume THEN "true" ELSE "false"
       /\ clock' = clock + pause
       /\ bucket_green' = IF is_green_bucket_current(g, b) THEN Counted(g, ip, resume) ELSE g
       /\ bucket_blue' = IF is_green_bucket_current(g, b) THEN b ELSE Counted(b, ip, resume)
       /\ Record(ip, clock, curr.starts_at, result)
       /\ UNCHANGED cfg

can_resume(ip, result) ==
    \/ RefuseAll(ip, result)
    \/ Overloaded(ip, result)
    \/ \E pause \in 0..MaxPause : Count(ip, pause, result)

-----------------------------------------------------------------------------
Tick ==
    /\ clock < MaxClock
    /\ clock' = clock + 1
    /\ UNCHANGED <<cfg, bucket_green, bucket_blue, history>>

Probe(ip) ==
    /\ ip = Observed => Len(history) < MaxRequests
    /\ \E result \in Results : can_resume(ip, result)

Next == Tick \/ \E ip \in Ips : Probe(ip)

Spec == Init /\ [][Next]_vars

-----------------------------------------------------------------------------
(* Properties *)

Bucket ==
    [starts_at : Int, capacity : Nat, inner : [Ips -> 0..U16Max], admitted : [Ips -> Nat]]

Entry == [at : Nat, window : Int, result : Results]

\* Every field has its Rust type: counters stay within u16.
TypeOK ==
    /\ cfg \in Configs
    /\ clock \in 0..MaxClock
    /\ bucket_green \in Bucket
    /\ bucket_blue \in Bucket
    /\ history \in Seq(Entry)

\* can_resume admits at most the configured maximum of one client's requests
\* into one bucket, also when the u16 counter saturates (rate_limiter.rs:98)
\* and also when the window is zero and buckets never rotate (line 127).
AdmittedPerWindow ==
    \A b \in {bucket_green, bucket_blue}, i \in Ips : b.admitted[i] <= Limit

InPhase(g, b) ==
    \/ b.starts_at = g.starts_at /\ Known(b) = {}
    \/ b.starts_at = g.starts_at + Period
    \/ b.starts_at = g.starts_at - Period /\ Known(b) = {}

\* The blue window is the green one, the one right after it or, from start-up
\* only, the one right before it; it is empty unless it is the one right after.
\* Green is therefore never the bucket that a rotation fills after blue: lines
\* 137-140 are never reached.
BluePhase == InPhase(bucket_green, bucket_blue)

\* A bucket never starts in the future and never stores more clients than its
\* map has room for (line 154); rotations, which hand on the room of the green
\* map (line 128), leave every map as large as the first two were: the room for
\* clients neither grows nor shrinks with the age of the limiter.  It is not the
\* configured number, as docs/rules.md:127-129 has it: 1024 gives room for 1792.
BucketsBounded ==
    \A b \in {bucket_green, bucket_blue} :
        /\ b.starts_at <= clock
        /\ Cardinality(Known(b)) <= b.capacity
        /\ b.capacity = CapacityOf(cfg.capacity)

AdmittedAt(lo, hi) ==
    Cardinality({j \in DOMAIN history : history[j].result = "true" /\ history[j].at \in lo..hi})

\* In any interval as long as the period a client gets at most twice its
\* maximum through: windows start at least one period apart (lines 129-140).
AdmittedInAnyPeriod ==
    Period > 0 => \A t \in 0..clock : AdmittedAt(t, t + Period - 1) <= 2 * Limit

\* A client is answered 429 only if it made more requests than the maximum in
\* the last two periods: get_approx never over-weighs the previous window.
NoSpuriousRejection ==
    Period > 0 =>
        \A k \in DOMAIN history : history[k].result = "false" =>
            Cardinality({j \in 1..k : history[j].at > history[k].at - 2 * Period}) > Limit

\* 503 is only for clients that are not in the bucket: one that was counted in
\* a window is not turned away for lack of capacity in that window (line 154).
KnownClientsAreServed ==
    \A j, k \in DOMAIN history :
        (j < k /\ history[j].window = history[k].window /\ history[j].result # "err")
            => history[k].result # "err"

\* What line 133 says of a rotation: when a request meets the window right
\* after the current one, the counters of the current bucket become those of
\* the previous bucket.
CurrentBecomesPrevious ==
    [][LET curr == Current(bucket_green, bucket_blue)
           next == Current(bucket_green', bucket_blue')
       IN (next.starts_at # curr.starts_at /\ clock < curr.starts_at + 2 * Period)
            => Previous(bucket_green', bucket_blue').inner = curr.inner]_vars
=============================================================================

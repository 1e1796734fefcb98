---------------------------- MODULE MCRateLimiter ----------------------------
(* Instances of RateLimiter for TLC. *)
EXTENDS RateLimiter

CONSTANTS i1, i2, i3

\* Tables scaled down like U16Max: the smallest holds two clients (three in the
\* standard library), also if it is asked for one; the next holds four.
MCCapacityOf(n) == CASE n = 0 -> 0 [] n \in 1..2 -> 2 [] OTHER -> 4

\* A one-second window whose maximum must be lowered (max = U16Max), a
\* two-second window, a zero window, a zero maximum, no room at all.
MCConfigs ==
    { [max |-> 3, window |-> 1, capacity |-> 1],
      [max |-> 2, window |-> 2, capacity |-> 2],
      [max |-> 1, window |-> 0, capacity |-> 1],
      [max |-> 0, window |-> 1, capacity |-> 1],
      [max |-> 1, window |-> 1, capacity |-> 0] }

\* A map for one client, which three clients can fill.
MCCapacityConfigs == { [max |-> 1, window |-> 1, capacity |-> 1] }

MCAllConfigs == MCConfigs \cup MCCapacityConfigs

\* Bound: the third client, and then fewer requests of the observed one, where
\* the question is how many clients a bucket has room for.
MCBound ==
    IF cfg \in MCCapacityConfigs THEN Len(history) <= 2 /\ clock <= 4 ELSE
    Known(bucket_green) \cup Known(bucket_blue) \subseteq {i1, i2}

\* The documented case: a limiter that has room for every client.
MCRotationConfigs == { [max |-> 2, window |-> 2, capacity |-> 2] }
=============================================================================

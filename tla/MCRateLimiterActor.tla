------------------------- MODULE MCRateLimiterActor -------------------------
(* Instance of RateLimiterActor for TLC. *)
EXTENDS RateLimiterActor

CONSTANTS i1, i2, h1, h2

\* A connection of the observed client and one of another.
MCIpOf == [h \in {h1, h2} |-> IF h = h1 THEN i1 ELSE i2]

\* Room for both clients, and room for none: every verdict occurs.
MCConfigs == { [max |-> 1, window |-> 1, capacity |-> c] : c \in {0, 1} }

\* What hashbrown's smallest table holds.
MCCapacityOf(n) == IF n = 0 THEN 0 ELSE 3
=============================================================================

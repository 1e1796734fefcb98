----------------------------- MODULE MCCaptcha -----------------------------
(* The captcha on a small instance. *)
EXTENDS Captcha, TLC

CONSTANTS t1, t2, home, mobile

TabSymmetry == Permutations(Tabs)

\* Bound: two tabs at work at once meet in the cookie jar, crashes and rotations
\* in the keys; the two are not combined.
MCBound ==
    \/ crashes = 0 /\ now < MaxNow - 1
    \/ \E t \in Tabs : \A u \in Tabs \ {t} : tab[u].pc = "browse"
=============================================================================

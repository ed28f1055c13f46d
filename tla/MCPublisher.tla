---------------------------- MODULE MCPublisher ----------------------------
(* One shop with a regular and a code offer, two merchant requests and the *)
(* cron.                                                                   *)
EXTENDS Publisher, TLC

CONSTANTS r1, c1, a, b, cron, none

MCOffers     == {r1, c1}
MCCodeOffers == {c1}
MCCalls      == {a, b}
MCOneCall    == {a}
MCSymmetry   == Permutations(MCCalls)

\* The regular offer starts out active, to halve the state space; a save may
\* pause it, and bring it back.
MCInit == Init /\ status[r1] = "active"
=============================================================================

-------------------------- MODULE MCOfferLifecycle --------------------------
(* One or two offers, one merchant who does one thing after the other, and *)
(* the offers cron.                                                        *)
EXTENDS OfferLifecycle, TLC

CONSTANTS o1, o2, m, cron, none

MCOffers     == {o1, o2}
MCOneOffer   == {o1}
MCRequests   == {m}
MCSymmetry   == Permutations(MCOffers)
MCPause      == {"pause"}
MCReschedule == {"setSchedule"}
=============================================================================

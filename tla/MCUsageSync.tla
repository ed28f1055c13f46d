---------------------------- MODULE MCUsageSync ----------------------------
(* Three orders of one customer, and the cron.                             *)
EXTENDS UsageSync, TLC

CONSTANTS x, y, z, cron

MCOrders     == {x, y, z}
MCTwoOrders  == {x, y}
MCSymmetry   == Permutations(MCOrders)
=============================================================================

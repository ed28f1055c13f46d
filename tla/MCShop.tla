------------------------------- MODULE MCShop -------------------------------
(***************************************************************************)
(* Publishing one shop, in two pictures side by side: what a publish of    *)
(* all its offers does to Shopify call by call, with two requests and the  *)
(* cron (MCPublisher), and what one publish does to the shop's discount    *)
(* nodes (CartShards).  focus says which of them moves.                    *)
(***************************************************************************)
EXTENDS MCPublisher, CartShards

VARIABLE focus

Offer(i, size) == [id |-> i, priority |-> i, bytes |-> size, attributes |-> {}, tags |-> {},
                   order |-> FALSE, stop |-> FALSE, multi |-> FALSE, target |-> {i},
                   mixes |-> TRUE, mixesOrder |-> TRUE]

\* Two such offers fit into no slot together.
Alike == {{}, {Offer(1, 5)}, {Offer(1, 5), Offer(2, 5), Offer(3, 5)}}

\* Catalogs that make the planner take every turn.
Light   == {Offer(i, 1) : i \in 1 .. 3}
Stops   == [Offer(2, 3) EXCEPT !.stop = TRUE]
Orders  == [Offer(5, 3) EXCEPT !.order = TRUE, !.attributes = {"x"}]
Reads   == [Offer(6, 5) EXCEPT !.attributes = {"y"}]
Lines   == [Offer(3, 4) EXCEPT !.multi = TRUE, !.target = {2, 3}]
Varied  ==
  {{Offer(1, 5), Offer(2, 5), Offer(3, 5)}, Light,
   {[Offer(1, 2) EXCEPT !.tags = {"v"}], Offer(2, 4), Lines, [Offer(7, 5) EXCEPT !.tags = {"w"}]},
   {Offer(1, 5), Offer(2, 4), Orders, Reads},
   {Offer(1, 5), Stops, Offer(3, 3)},
   {Offer(1, 5), Stops, Lines, Orders},
   {Offer(1, 2), [Offer(2, 4) EXCEPT !.mixes = FALSE], Offer(7, 5)},
   {Offer(1, 2), Offer(7, 10), [Lines EXCEPT !.target = {1, 3, 7}]},
   {Offer(1, 2), Offer(2, 12)}}

MCCatalogs == Alike \cup Varied
MCNodeIds  == 0 .. 10

MCShopInit ==
  /\ MCInit /\ ShardsInit
  /\ focus \in {"calls", "nodes", "plans"}
  /\ focus # "calls" => status[r1] = "active" /\ status[c1] = "active"
  /\ focus = "calls" => active = {} /\ enabled /\ foreign = 0
  /\ focus = "nodes" => active \in Alike
  /\ focus = "plans" => active \in Varied /\ enabled

\* The catalogs vary while nothing goes wrong, and stay alike while it does.
MCShopNext ==
  \/ focus = "calls" /\ Next /\ UNCHANGED <<focus, shardVars>>
  \/ focus = "nodes" /\ ShardsNext /\ active' \in Alike /\ UNCHANGED <<focus, vars>>
  \/ focus = "plans" /\ ShardsNext /\ active' \in Varied /\ mishaps' = 0 /\ meddles' = 0
       /\ UNCHANGED <<focus, vars>>

MCShopSpec == MCShopInit /\ [][MCShopNext]_<<focus, vars, shardVars>>

\* Every variable of both parts holds a value of its type.
ShopTypeOK == TypeOK /\ ShardsTypeOK
=============================================================================

----------------------------- MODULE CartShards -----------------------------
(***************************************************************************)
(* The automatic discount nodes that carry one shop's cart offers: slot 0  *)
(* and the shards (the shard part of publishOffersForShopLocked in         *)
(* lib/sync/offer-publisher.server.ts, lib/discount-node.server.ts and     *)
(* lib/sync/cart-shards.server.ts, with the plans of ShardPlanner).        *)
(*                                                                         *)
(* Publishes of a shop run one at a time (Publisher), so that one publish  *)
(* is enough.  It makes sure of slot 0's node, reads the offers, plans,    *)
(* makes the shards it needs, writes every node in one request, records    *)
(* what is where, and deletes the shards it has emptied.  Any request or   *)
(* statement may be its last: it fails, or the process dies.  A merchant   *)
(* edits offers, deletes nodes, and adds automatic discounts of their own. *)
(***************************************************************************)
EXTENDS ShardPlanner, Integers

CONSTANTS Catalogs,   \* the sets of active cart offers (units) a merchant may have
          MaxSlots,   \* slots of a shop (11 in the code)
          Limit,      \* active automatic discounts Shopify allows (25)
          Reserve,    \* of which the planner keeps some free (2)
          MaxForeign, \* bound on the discounts of others
          NodeIds,    \* ids Shopify may give to a node
          MaxMishaps, \* bound on failures and crashes
          MaxMeddles, \* bound on what the merchant does in Shopify, and on the flag
          Missing     \* no node, no number

ASSUME ShardsAssumption ==
  /\ NodeIds \subseteq Nat /\ 0 \in NodeIds /\ Missing \notin Nat
  /\ {MaxSlots, Limit, Reserve, MaxForeign, MaxMishaps, MaxMeddles} \subseteq Nat
  /\ MaxSlots > 0

\* Shopify does not run out of ids.
ASSUME IdsAssumption == IsFiniteSet(NodeIds) => Cardinality(NodeIds) >= Limit + 2 * MaxSlots

ASSUME CatalogAssumption == \A us \in Catalogs : IsCatalog(us)

VARIABLES
  active,    \* the units of the active offers
  enabled,   \* function_shards.enabled
  own,       \* shops.discountId
  rows,      \* discount_shards: slot -> node and unit keys
  others,    \* the setting automatic_discounts.others
  nodes,     \* Shopify: the nodes that exist, with their titles and offers
  foreign,   \* Shopify: the other active automatic discounts
  phase,     \* where the publish is
  taken,     \* the units it read
  plan,      \* the slots it planned, with the shards it asked for
  pool,      \* its list of shard nodes
  needed,    \* how many it asked for
  used,      \* titles that are taken
  at,        \* position of a loop over slots or nodes
  gone,      \* drained nodes it deleted
  mishaps, meddles,
  calm       \* history: nothing came in between since the publish began, and
             \* it began from a list without repetition

stores    == <<own, rows, others>>
shopNodes   == <<nodes, foreign>>
locals    == <<taken, plan, pool, needed, used, at, gone>>
merchant  == <<active, enabled, meddles>>
aside     == <<merchant, mishaps, calm>>
shardVars == <<stores, shopNodes, locals, phase, aside>>

Ids(us)    == {u.id : u \in us}
Members(s) == {s[n] : n \in DOMAIN s}

\* readCartShardNodeIds: the nodes of the slots above 0, in slot order.
RecordedSlots == {s \in DOMAIN rows : s > 0 /\ rows[s].node # Missing}
Recorded == LET order == Ascending(RecordedSlots)
            IN [n \in DOMAIN order |-> rows[order[n]].node]

\* The members of a list that are good, in their order.
Kept(ids, good) == LET order == Ascending({n \in DOMAIN ids : ids[n] \in good})
                   IN [n \in DOMAIN order |-> ids[order[n]]]
Live(ids) == Kept(ids, DOMAIN nodes)

ShardMode == enabled \/ Recorded # <<>>

\* The slot of a unit that is in two rows is that of the row read last.
PreviousMaps ==
  LET Where(u) == {s \in DOMAIN rows : u \in rows[s].units}
      known    == UNION {rows[s].units : s \in DOMAIN rows}
  IN {f \in [known -> DOMAIN rows] : \A u \in known : f[u] \in Where(u)}

\* Active automatic discounts: slot 0, shards, the delivery node and those of others.
StoreActive == foreign + 1 + Cardinality(DOMAIN nodes)
Ours        == 1 + Cardinality(DOMAIN nodes \cap (Members(Recorded) \cup {own}))
LiveShards  == Cardinality(DOMAIN nodes \cap Members(Recorded))

AtLeastOne(n) == IF n < 1 THEN 1 ELSE n
Budget(known) ==
  AtLeastOne(Min({MaxSlots, IF known = Missing THEN LiveShards + 2
                            ELSE Limit - known - 1 - Reserve}))

\* A new id: Shopify never gives one twice, so it is one that nobody remembers.
Fresh == Min(NodeIds \ (DOMAIN nodes \cup {own} \cup Members(pool)
                          \cup {rows[s].node : s \in DOMAIN rows}))

NewNode(title) == nodes' = [n \in DOMAIN nodes \cup {Fresh} |->
                              IF n = Fresh THEN [title |-> title, offers |-> {}] ELSE nodes[n]]
Titled(title)  == {n \in DOMAIN nodes : nodes[n].title = title}

Idle == /\ phase' = "idle" /\ calm' = TRUE
        /\ taken' = {} /\ plan' = <<>> /\ pool' = <<>> /\ needed' = 0
        /\ used' = {} /\ at' = 0 /\ gone' = {}

ShardsInit ==
  /\ active \in Catalogs /\ enabled \in BOOLEAN /\ foreign \in 0 .. MaxForeign
  /\ own = 0 /\ nodes = [n \in {0} |-> [title |-> 0, offers |-> {}]]
  /\ rows = <<>> /\ others = Missing
  /\ phase = "idle" /\ calm = TRUE
  /\ taken = {} /\ plan = <<>> /\ pool = <<>> /\ needed = 0 /\ used = {} /\ at = 0 /\ gone = {}
  /\ mishaps = 0 /\ meddles = 0

-----------------------------------------------------------------------------
(* The publish.                                                            *)

\* ensureDiscountNodes, first with slot 0's node in place.
Begin ==
  /\ phase = "idle"
  /\ phase' = IF own \in DOMAIN nodes THEN "read" ELSE "find"
  /\ calm' = (Cardinality(Members(Recorded)) = Len(Recorded))
  /\ UNCHANGED <<stores, shopNodes, locals, merchant, mishaps>>

\* createOrFindAutomaticDiscount: shards have titles of their own (title > 0).
MakeOwn ==
  /\ phase = "find"
  /\ \/ at' \in Titled(0) /\ nodes' = nodes
     \/ Titled(0) = {} /\ StoreActive < Limit /\ at' = Fresh /\ NewNode(0)
  /\ phase' = "store"
  /\ UNCHANGED <<stores, foreign, taken, plan, pool, needed, used, gone, aside>>

StoreOwn ==
  /\ phase = "store"
  /\ own' = at /\ at' = 0
  /\ phase' = "read"
  /\ UNCHANGED <<rows, others, shopNodes, taken, plan, pool, needed, used, gone, aside>>

ReadUnits ==
  /\ phase = "read"
  /\ taken' = active
  /\ phase' = IF active # {} /\ enabled THEN "budget" ELSE "plan"
  /\ UNCHANGED <<stores, shopNodes, plan, pool, needed, used, at, gone, aside>>

\* automaticNodeBudget: the count may be unavailable.
ReadBudget ==
  /\ phase = "budget"
  /\ others' \in {others, StoreActive - Ours}
  /\ at' = Budget(others')
  /\ phase' = "plan"
  /\ UNCHANGED <<own, rows, shopNodes, taken, plan, pool, needed, used, gone, aside>>

\* Without offers the shards are emptied like any that is left over.
PlanSlots ==
  /\ phase = "plan"
  /\ \E previous \in IF ShardMode THEN PreviousMaps ELSE {<<>>} :
     \E slots \in {IF taken = {} THEN Open([n \in {0} |-> {}])
                   ELSE Plan(taken, previous, AtLeastOne(at))} :
       IF slots.blocked = "no"
         THEN /\ plan' = slots.slots
              /\ phase' = "live" /\ at' = 0
              /\ UNCHANGED <<taken, pool, needed, used, gone, calm>>
         ELSE Idle
  /\ UNCHANGED <<stores, shopNodes, merchant, mishaps>>

Wanted == Cardinality(DOMAIN plan) - 1

\* liveCartShardIds: a shard that is gone is not made again to be drained.
CountShards ==
  /\ phase = "live"
  /\ LET live == Live(Recorded) IN
       IF Wanted > 0 THEN /\ needed' = Max({Wanted, Len(live)})
                          /\ phase' = "ensure" /\ UNCHANGED <<pool, at>>
       ELSE pool' = live /\ phase' = "push" /\ at' = 1 /\ UNCHANGED needed
  /\ UNCHANGED <<stores, shopNodes, taken, plan, used, gone, aside>>

\* ensureAutomaticNodePool asks Shopify again.  There is never a surplus: what
\* was live before is needed.
EnsureShards ==
  /\ phase = "ensure"
  /\ LET live == Live(Recorded) IN
       /\ pool' = live
       /\ used' = {nodes[n].title : n \in Members(live)}
       /\ phase' = IF Len(live) < needed THEN "make"
                   ELSE IF live # Recorded THEN "list" ELSE "push"
       /\ at' = 1
  /\ UNCHANGED <<stores, shopNodes, taken, plan, needed, gone, aside>>

\* Shopify refuses a node above its limit (the publish fails: Abort).
MakeShard ==
  /\ phase = "make"
  /\ LET title == Min({k \in 1 .. MaxSlots + Cardinality(used) : k \notin used}) IN
       /\ \/ \E n \in Titled(title) \ Members(pool) : pool' = Append(pool, n) /\ nodes' = nodes
          \/ Titled(title) = {} /\ StoreActive < Limit
               /\ NewNode(title) /\ pool' = Append(pool, Fresh)
       /\ used' = used \cup {title}
  /\ phase' = "list" /\ at' = 1
  /\ UNCHANGED <<stores, foreign, taken, plan, needed, gone, aside>>

\* The node of a slot's row is replaced, its unit keys stay.
WithNode(s, n) == [r \in DOMAIN rows \cup {s} |->
                     IF r # s THEN rows[r]
                     ELSE [node |-> n, units |-> IF s \in DOMAIN rows THEN rows[s].units ELSE {}]]

\* writeCartShardNodeIds: a statement per node, and one for the rows beyond.
WriteList ==
  /\ phase \in {"list", "endlist"}
  /\ IF at <= Len(pool)
       THEN /\ rows' = WithNode(at, pool[at])
            /\ at' = at + 1 /\ phase' = phase
       ELSE /\ rows' = [s \in DOMAIN rows \cap 0 .. Len(pool) |-> rows[s]]
            /\ at' = 0
            /\ phase' = IF phase = "endlist" THEN "done"
                        ELSE IF Len(pool) < needed THEN "make" ELSE "push"
  /\ UNCHANGED <<own, others, shopNodes, taken, plan, pool, needed, used, gone, aside>>

\* What one metafieldsSet writes: the slots in order, then the emptied shards.
SlotEntries ==
  [n \in 1 .. 1 + Wanted |->
     [node |-> IF n = 1 THEN own ELSE pool[n - 1], offers |-> Ids(plan[n - 1])]]
Entries == SlotEntries \o [n \in 1 .. Len(pool) - Wanted |->
                             [node |-> pool[Wanted + n], offers |-> {}]]

\* Of two values for one node the last one counts.
Written(entries) ==
  [n \in DOMAIN nodes |->
     LET mine == {k \in DOMAIN entries : entries[k].node = n}
     IN IF mine = {} THEN nodes[n]
        ELSE [nodes[n] EXCEPT !.offers = entries[Max(mine)].offers]]

\* A node that is gone makes the request fail (Abort).
PushSlots ==
  /\ phase = "push"
  /\ Members(pool) \cup {own} \subseteq DOMAIN nodes
  /\ nodes' = Written(Entries)
  /\ phase' = IF ShardMode /\ (taken # {} \/ pool # <<>>) THEN "save" ELSE "done"
  /\ at' = 0
  /\ UNCHANGED <<stores, foreign, taken, plan, pool, needed, used, gone, aside>>

\* saveShardState: a statement per slot, and one that clears the rows beyond.
SaveSlot ==
  /\ phase = "save"
  /\ IF at <= Wanted
       THEN /\ rows' = [s \in DOMAIN rows \cup {at} |->
                          IF s # at THEN rows[s]
                          ELSE [node |-> IF at = 0 THEN own ELSE pool[at], units |-> Ids(plan[at])]]
            /\ at' = at + 1 /\ phase' = "save"
       ELSE /\ rows' = [s \in DOMAIN rows |-> IF s <= Wanted THEN rows[s]
                                              ELSE [rows[s] EXCEPT !.units = {}]]
            /\ at' = Wanted + 1 /\ phase' = "delete"
  /\ UNCHANGED <<own, others, shopNodes, taken, plan, pool, needed, used, gone, aside>>

\* deleteDrainedShards: a delete that is refused leaves an inert node on the list.
DeleteShard ==
  /\ phase = "delete"
  /\ IF at <= Len(pool)
       THEN /\ \/ /\ nodes' = [n \in DOMAIN nodes \ {pool[at]} |-> nodes[n]]
                  /\ gone' = gone \cup {pool[at]}
                  /\ UNCHANGED mishaps
               \/ /\ mishaps < MaxMishaps /\ mishaps' = mishaps + 1
                  /\ UNCHANGED <<nodes, gone>>
            /\ at' = at + 1
            /\ UNCHANGED <<phase, pool>>
       ELSE /\ pool' = Kept(pool, NodeIds \ gone)
            /\ phase' = "endlist" /\ at' = 1
            /\ UNCHANGED <<nodes, gone, mishaps>>
  /\ UNCHANGED <<stores, foreign, taken, plan, needed, used, merchant, calm>>

Done == /\ phase = "done" /\ Idle
        /\ UNCHANGED <<stores, shopNodes, merchant, mishaps>>

\* A request that cannot succeed ends the publish.
Hopeless ==
  \/ phase = "find" /\ Titled(0) = {} /\ StoreActive >= Limit
  \/ phase = "ensure" /\ needed > Len(Live(Recorded))
       /\ StoreActive + needed - Len(Live(Recorded)) > Limit
  \/ phase = "make" /\ StoreActive >= Limit
  \/ phase = "push" /\ ~(Members(pool) \cup {own} \subseteq DOMAIN nodes)

Abort ==
  /\ phase # "idle"
  /\ \/ Hopeless /\ UNCHANGED mishaps
     \/ mishaps < MaxMishaps /\ mishaps' = mishaps + 1
  /\ Idle
  /\ UNCHANGED <<stores, shopNodes, merchant>>

-----------------------------------------------------------------------------
(* The merchant and operations, in the app and in Shopify's admin.         *)

EditOffers ==
  /\ active' \in Catalogs \ {active}
  /\ phase = "idle"
  /\ UNCHANGED <<enabled, meddles, stores, shopNodes, locals, phase, mishaps, calm>>

Meddle == meddles < MaxMeddles /\ meddles' = meddles + 1

SetFlag ==
  /\ Meddle /\ phase = "idle"
  /\ enabled' = ~enabled
  /\ UNCHANGED <<active, stores, shopNodes, locals, phase, mishaps, calm>>

DeleteNode ==
  /\ Meddle
  /\ \E n \in DOMAIN nodes : nodes' = [k \in DOMAIN nodes \ {n} |-> nodes[k]]
  /\ calm' = (phase = "idle")
  /\ UNCHANGED <<active, enabled, stores, foreign, locals, phase, mishaps>>

OtherDiscounts ==
  /\ Meddle
  /\ foreign' \in {k \in 0 .. MaxForeign : k # foreign}
  /\ UNCHANGED <<active, enabled, stores, nodes, locals, phase, mishaps, calm>>

PublishStep == \/ Begin \/ MakeOwn \/ StoreOwn \/ ReadUnits \/ ReadBudget \/ PlanSlots
               \/ CountShards \/ EnsureShards \/ MakeShard \/ WriteList \/ PushSlots
               \/ SaveSlot \/ DeleteShard \/ Done

ShardsNext == PublishStep \/ Abort \/ EditOffers \/ SetFlag \/ DeleteNode \/ OtherDiscounts

ShardsSpec == ShardsInit /\ [][ShardsNext]_shardVars

-----------------------------------------------------------------------------
(* Properties.                                                             *)

ShardsTypeOK ==
  /\ active \in Catalogs /\ taken \in Catalogs \cup {{}} /\ enabled \in BOOLEAN
  /\ own \in NodeIds /\ others \in Nat \cup {Missing} /\ foreign \in 0 .. MaxForeign
  /\ DOMAIN nodes \subseteq NodeIds
  /\ \A n \in DOMAIN nodes : nodes[n].title \in Nat /\ nodes[n].offers \subseteq Nat
  /\ DOMAIN rows \subseteq 0 .. MaxSlots
  /\ \A s \in DOMAIN rows : rows[s].node \in NodeIds /\ rows[s].units \subseteq Nat
  /\ DOMAIN plan \subseteq 0 .. MaxSlots - 1
  /\ \A n \in DOMAIN plan : plan[n] \subseteq taken
  /\ pool \in Seq(NodeIds) /\ needed \in 0 .. MaxSlots - 1 /\ used \subseteq Nat /\ gone \subseteq NodeIds
  /\ at \in Nat /\ mishaps \in 0 .. MaxMishaps /\ meddles \in 0 .. MaxMeddles
  /\ calm \in BOOLEAN
  /\ phase \in {"idle", "find", "store", "read", "budget", "plan", "live", "ensure", "make",
                "list", "push", "save", "delete", "endlist", "done"}

Serving(u) == {n \in DOMAIN nodes : u \in nodes[n].offers}

\* At no moment does Shopify hold an offer in two of the shop's nodes, which
\* would discount a cart twice; every node that serves something is one the
\* shop has recorded, so that a later publish can empty it; and a publish that
\* ends undisturbed leaves exactly the offers it read (publishOffersForShopLocked,
\* deleteDrainedShards: "a failed delete leaves an inert node that stays recorded").
OfferOnOneNode ==
  /\ \A u \in UNION {nodes[n].offers : n \in DOMAIN nodes} : Cardinality(Serving(u)) = 1
  /\ \A n \in DOMAIN nodes :
       nodes[n].offers # {} => n \in {own} \cup Members(Recorded) \cup Members(pool)
  /\ phase = "done" /\ calm => UNION {nodes[n].offers : n \in DOMAIN nodes} = Ids(taken)

Placement(slots) == [u \in Ids(active) |-> CHOOSE n \in DOMAIN slots : u \in Ids(slots[n])]

\* Whatever was published before, and whatever number of slots is allowed, a
\* plan keeps the planner's rules, and planning once more settles.
PlansAreSound ==
  phase = "idle" =>
    \A previous \in PreviousMaps, max \in 1 .. MaxSlots :
    \A first \in {Plan(active, previous, max)} :
      /\ KeepsRules(active, max, first)
      /\ first.blocked = "no" =>
           \A again \in {Plan(active, Placement(first.slots), max)} :
             again.blocked = "no" /\ Settles(first.slots, again.slots)
=============================================================================

---------------------------- MODULE ShardPlanner ----------------------------
(***************************************************************************)
(* How the active cart offers are distributed over automatic discounts     *)
(* (planShards in lib/sync/shard-planner.ts, on the units of plan-units.ts *)
(* and the limits of discount-node.server.ts).  Slot 0 is the shop's own   *)
(* node, the others are shards.                                            *)
(*                                                                         *)
(* A unit is a record: id (ordered like the keys), priority, bytes, the    *)
(* cart attributes and customer tags it reads, order (it has order         *)
(* rewards), stop (it stops lower priorities), multi (multi-line fixed     *)
(* candidates), target (the products it may touch, all of them when it is  *)
(* sitewide), mixes (it combines with product discounts) and mixesOrder.   *)
(***************************************************************************)
EXTENDS Integers, Sequences, SequencesExt

CONSTANTS SlotBytes,      \* the hard limit of a slot (9500 in the code)
          TargetBytes,    \* what a slot is filled to first (85 % of it)
          Envelope,       \* bytes of a configuration without offers
          AttributeLimit, \* cart attributes a slot may read (3)
          TagLimit        \* customer tags a slot may read (100)

ASSUME PlannerAssumption ==
  /\ {SlotBytes, TargetBytes, Envelope, AttributeLimit, TagLimit} \subseteq Nat
  /\ Envelope < TargetBytes /\ TargetBytes <= SlotBytes

\* The elements of s in an order, each behind as many as come before it (what
\* SetToSortSeq gives, in a form that proofs can take apart).
Ordered(s, Before(_, _)) ==
  [n \in 1 .. Cardinality(s) |->
     CHOOSE x \in s : Cardinality({y \in s : Before(y, x)}) = n - 1]

\* What planShards is given: one unit per active offer, told apart by its id.
IsCatalog(us) ==
  /\ IsFiniteSet(us)
  /\ \A u \in us : /\ {u.id, u.priority, u.bytes} \subseteq Nat
                   /\ IsFiniteSet(u.attributes) /\ IsFiniteSet(u.tags)
  /\ \A u, v \in us : u.id = v.id => u = v

Ascending(s) == Ordered(s, <)

Earlier(u, v) == u.priority < v.priority \/ (u.priority = v.priority /\ u.id < v.id)
ByPriority(us) == Ordered(us, Earlier)
FirstOf(us)   == CHOOSE u \in us : \A v \in us : u = v \/ Earlier(u, v)

Size(us)       == MapThenSumSet(LAMBDA u : u.bytes, us)
Attributes(us) == UNION {u.attributes : u \in us}
TagsOf(us)     == UNION {u.tags : u \in us}

\* An attribute and a tag take a byte each.
Bytes(us) == Envelope + Cardinality(Attributes(us)) + Cardinality(TagsOf(us))
               + Size(us) - (IF us = {} THEN 0 ELSE 1)

Fits(us, cap) == /\ Bytes(us) <= cap
                 /\ Cardinality(Attributes(us)) <= AttributeLimit
                 /\ Cardinality(TagsOf(us)) <= TagLimit

-----------------------------------------------------------------------------
(* What must share a slot.                                                 *)

\* Slot 0 only: order rewards, and whatever a stopping offer has to be compared with.
OrderAndStop(us) == {u \in us : u.order \/ u.stop}
Pinned(us) == {u \in us : \/ u.order \/ u.stop
                          \/ \E s \in us : s.stop /\ s.priority < u.priority}

Intersects(u, v) == u.target \cap v.target # {}

Tied(us, u, v) == \/ {u, v} \subseteq Pinned(us)
                  \/ (u.multi \/ v.multi) /\ Intersects(u, v)

\* The smallest set with u that holds whatever is tied to a member of it.
GroupOf(us, u) ==
  LET Closed(s) == \A v \in s, w \in us : Tied(us, v, w) => w \in s
  IN {w \in us : \A s \in SUBSET us : u \in s /\ Closed(s) => w \in s}

Groups(us)      == {GroupOf(us, u) : u \in us}
PinnedGroup(us) == {g \in Groups(us) : g \cap Pinned(us) # {}}

-----------------------------------------------------------------------------
(* Bins: slot indexes with the set of groups in each.                      *)

Larger(g, h) == \/ Size(g) > Size(h)
                \/ Size(g) = Size(h) /\ FirstOf(g).id < FirstOf(h).id
LargestFirst(gs) == Ordered(gs, Larger)

Load(bins, i)    == UNION bins[i]
Put(bins, i, g)  == [j \in DOMAIN bins \cup {i} |->
                       (IF j \in DOMAIN bins THEN bins[j] ELSE {}) \cup (IF j = i THEN {g} ELSE {})]
Room(bins, g, cap) == {i \in DOMAIN bins : Fits(Load(bins, i) \cup g, cap)}
LowestFree(bins)   == Min((0 .. Cardinality(DOMAIN bins)) \ DOMAIN bins)

\* A unit stays where it was; a group meets in the lowest of its slots.
PreviousSlots(previous, g, max) ==
  {previous[u.id] : u \in {w \in g : w.id \in DOMAIN previous}} \cap 0 .. max - 1

Sticky(free, pinned, previous, max) ==
  LET Slot(g) == Min(PreviousSlots(previous, g, max))
      kept    == {g \in free : PreviousSlots(previous, g, max) # {}}
  IN [i \in {0} \cup {Slot(g) : g \in kept} |->
        {g \in kept : Slot(g) = i} \cup (IF i = 0 THEN pinned ELSE {})]

\* The groups an overflowing slot gives up, the largest first.
Evicted(gs, pinned) ==
  LET order == LargestFirst(gs \ pinned)
      Gone(n) == {order[k] : k \in 1 .. n}
      enough  == {n \in 0 .. Len(order) : n = Len(order) \/ Fits(UNION (gs \ Gone(n)), SlotBytes)}
  IN Gone(Min(enough))

\* The first slot below the target, else (no slot left to open) below the limit, else a new one.
Place(bins, g, max) ==
  LET soft == Room(bins, g, TargetBytes)
      hard == Room(bins, g, SlotBytes)
  IN IF soft # {} THEN Put(bins, Min(soft), g)
     ELSE IF Cardinality(DOMAIN bins) >= max /\ hard # {} THEN Put(bins, Min(hard), g)
     ELSE Put(bins, LowestFree(bins), g)

PlaceAll(bins, gs, max) == FoldLeft(LAMBDA bs, g : Place(bs, g, max), bins, LargestFirst(gs))

\* Empty the lightest shard into the others, if all its groups find room.
Lighter(bins, i, j) == \/ Bytes(Load(bins, i)) < Bytes(Load(bins, j))
                       \/ Bytes(Load(bins, i)) = Bytes(Load(bins, j)) /\ i > j
Victim(bins) == CHOOSE i \in DOMAIN bins \ {0} :
                  \A j \in DOMAIN bins \ {0, i} : Lighter(bins, i, j)

Move(bins, g) == LET room == Room(bins, g, TargetBytes)
                 IN IF room = {} THEN bins ELSE Put(bins, Min(room), g)
MoveAll(bins, gs) == FoldLeft(Move, bins, LargestFirst(gs))

Compacted(bins) ==
  LET victim == Victim(bins)
      moved  == MoveAll([i \in DOMAIN bins \ {victim} |-> bins[i]], bins[victim])
  IN IF \A g \in bins[victim] : \E i \in DOMAIN moved : g \in moved[i] THEN moved ELSE bins

\* More than one slot above what the bytes need.
Wasteful(bins) ==
  LET total == MapThenSumSet(LAMBDA i : Bytes(Load(bins, i)), DOMAIN bins)
  IN /\ DOMAIN bins # {0}
     /\ Cardinality(DOMAIN bins) > (total + TargetBytes - 1) \div TargetBytes + 1

-----------------------------------------------------------------------------
(* The plan.  A blocked plan is never written; its slots are left out.     *)

BlockedBy(code) == [blocked |-> code, slots |-> <<>>]
Open(slots)   == [blocked |-> "no", slots |-> slots]

\* One node must do: no room for a second one, or discounts that do not combine.
Single(us, max) ==
  \/ max <= 1
  \/ \E u \in us : ~u.mixes
  \/ (\E u \in us : u.order) /\ (\E u \in us : ~u.mixesOrder)

\* The greedy filling of the only slot skips something.
Add(s, u)     == IF Fits(s \cup {u}, SlotBytes) THEN s \cup {u} ELSE s
Overflows(us) == FoldLeft(Add, {}, ByPriority(us)) # us

\* The slots in the order of their indexes, numbered 0, 1, ... by the publisher.
Dense(bins) ==
  LET order == Ascending(DOMAIN bins)
  IN [n \in 0 .. Cardinality(DOMAIN bins) - 1 |-> Load(bins, order[n + 1])]

\* The overflow of the sticky slots and all new groups are placed, the largest first.
Filled(free, sticky, out, max) ==
  LET kept == [i \in {0} \cup {j \in DOMAIN sticky : sticky[j] # out[j]} |-> sticky[i] \ out[i]]
  IN PlaceAll(kept, free \ UNION {kept[i] : i \in DOMAIN kept}, max)

\* Op of a value that is computed once.
With(value, Op(_)) == CHOOSE r \in {Op(v) : v \in {value}} : TRUE

Packed(free, pinned, previous, max) ==
  With(Sticky(free, pinned, previous, max), LAMBDA sticky :
  With([i \in DOMAIN sticky |-> Evicted(sticky[i], pinned)], LAMBDA out :
  With(Filled(free, sticky, out, max), LAMBDA bins :
    IF Wasteful(bins) THEN Compacted(bins) ELSE bins)))

Plan(us, previous, max) ==
  IF \E u \in us : ~Fits({u}, SlotBytes) THEN BlockedBy("OFFER_TOO_LARGE")
  ELSE IF Single(us, max)
    THEN IF Overflows(us) THEN BlockedBy("SLOT_FULL") ELSE Open([n \in {0} |-> us])
  ELSE IF /\ \A u \in us : u.id \in DOMAIN previous => previous[u.id] = 0
          /\ Fits(us, SlotBytes)
    THEN Open([n \in {0} |-> us])
  ELSE IF \E g \in PinnedGroup(us) : ~Fits(g, SlotBytes) THEN BlockedBy("SLOT0_GROUP_TOO_LARGE")
  ELSE IF \E g \in Groups(us) : ~Fits(g, SlotBytes) THEN BlockedBy("GROUP_TOO_LARGE")
  ELSE With(Packed(Groups(us) \ PinnedGroup(us), PinnedGroup(us), previous, max), LAMBDA bins :
         IF Cardinality(DOMAIN bins) > max THEN BlockedBy("AUTOMATIC_DISCOUNT_LIMIT")
         ELSE Open(Dense(bins)))

-----------------------------------------------------------------------------
(* What a plan promises.                                                   *)

\* A plan that may be written puts every unit into exactly one slot, within the
\* limits and the slots allowed; what stops lower priorities or discounts the
\* order is in slot 0 with all that depends on it, and offers that compete for
\* lines of a multi-line discount are together (assemble, buildGroups, fits).
KeepsRules(us, max, plan) ==
  plan.blocked = "no" =>
    LET slots == plan.slots IN
    /\ UNION {slots[n] : n \in DOMAIN slots} = us
    /\ \A n, k \in DOMAIN slots : n # k => slots[n] \cap slots[k] = {}
    /\ \A n \in DOMAIN slots : Fits(slots[n], SlotBytes)
    /\ Cardinality(DOMAIN slots) <= max \/ DOMAIN slots = {0}
    /\ DOMAIN slots # {0} =>
         /\ \A u \in us : u.order \/ u.stop => u \in slots[0]
         /\ \A s, u \in us : s.stop /\ s.priority < u.priority => u \in slots[0]
         /\ \A u, v \in us : u.multi /\ Intersects(u, v)
              => \A n \in DOMAIN slots : u \in slots[n] <=> v \in slots[n]

\* Planning again what was planned moves nothing, except that one shard may be
\* emptied into the others (shard-planner.test.ts: "re-planning an unchanged
\* set moves nothing", "frees at most one slot per run").
Settles(old, new) ==
  \E victim \in DOMAIN old :
    \A n \in DOMAIN old \ {victim} : \E k \in DOMAIN new : old[n] \subseteq new[k]
=============================================================================

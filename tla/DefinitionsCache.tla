-------------------------- MODULE DefinitionsCache --------------------------
(***************************************************************************)
(* The active offers of one shop as the storefront routes read them        *)
(* (lib/offer-definitions.server.ts): from the memory of their instance    *)
(* (lib/memory-cache.server.ts), from Redis, or from the database, whose   *)
(* answer is put into both.  A change is written, published, and then      *)
(* invalidates the copies it can reach.                                    *)
(*                                                                         *)
(* A copy is the version of the offers it was read at.  A tick is the unit *)
(* of the times to live.                                                   *)
(***************************************************************************)
EXTENDS Naturals

CONSTANTS Instances,    \* processes that keep a memory cache
          Readers,      \* requests that read the offers
          MemoryTtl,    \* the time to live of createMemoryCache
          RedisTtl,     \* OFFER_DEFINITIONS_TTL_SECONDS
          ReadTime,     \* maxDuration of the routes that read
          MaxVersion,   \* bound on changes
          MaxLapses     \* bound on calls of Redis that fail

ASSUME CacheAssumption ==
  /\ MemoryTtl \in Nat \ {0} /\ RedisTtl \in Nat \ {0} /\ ReadTime \in Nat \ {0}
  /\ MaxVersion \in Nat /\ MaxLapses \in Nat

VARIABLES
  version,   \* the offers in the database
  outdated,  \* history: ticks since a version was superseded
  memory,    \* an instance's copy
  shared,    \* the copy in Redis
  reader,    \* a request: phase, instance, the version it holds, time left
  change,    \* the last change: "written" until it has invalidated the copies
  lapses,
  served,    \* history: how outdated the last served copy was
  raced      \* history: a load was under way, or a call failed, at or since
             \* the last change

cacheCopies == <<memory, shared>>
definitionVars == <<version, outdated, cacheCopies, reader, change, lapses, served, raced>>

NoCopy   == [of |-> 0, ttl |-> 0]
NoReader == [phase |-> "idle", on |-> {}, of |-> 0, left |-> 0]

\* A reader, a key, a copy: each is gone at the last tick of its life.
Bound == (ReadTime - 1) + (RedisTtl - 1) + (MemoryTtl - 1)

DefinitionsInit ==
  /\ version = 0 /\ outdated = [v \in 0 .. MaxVersion |-> 0]
  /\ memory = [n \in Instances |-> NoCopy] /\ shared = NoCopy
  /\ reader = [r \in Readers |-> NoReader]
  /\ change = "done" /\ lapses = 0 /\ served = 0 /\ raced = FALSE

Lapse == lapses < MaxLapses /\ lapses' = lapses + 1

\* The request has its offers and goes on with them.
Serves(r, v) == /\ served' = outdated[v]
                /\ reader' = [reader EXCEPT ![r] = NoReader]

Loading == {r \in Readers : reader[r].phase \in {"load", "keep", "share"}}

----------------------------------------------------------------------------
(* getOfferDefinitions                                                     *)

ReadMemory(r, n) ==
  /\ reader[r].phase = "idle"
  /\ IF memory[n].ttl > 0
     THEN Serves(r, memory[n].of)
     ELSE /\ \E left \in 1 .. ReadTime :
               reader' = [reader EXCEPT ![r] =
                            [phase |-> "redis", on |-> {n}, of |-> 0, left |-> left]]
          /\ UNCHANGED served
  /\ UNCHANGED <<version, outdated, cacheCopies, change, lapses, raced>>

InMemory(v) == [of |-> v, ttl |-> MemoryTtl]

\* A copy from Redis starts a life of its own in memory.
ReadRedis(r) ==
  /\ reader[r].phase = "redis"
  /\ \/ /\ shared.ttl > 0
        /\ memory' = [n \in Instances |->
             IF n \in reader[r].on THEN InMemory(shared.of) ELSE memory[n]]
        /\ Serves(r, shared.of)
        /\ UNCHANGED <<lapses, raced>>
     \/ /\ \/ shared.ttl = 0 /\ UNCHANGED lapses
           \/ Lapse
        /\ reader' = [reader EXCEPT ![r].phase = "load"]
        /\ UNCHANGED <<memory, served, raced>>
  /\ UNCHANGED <<version, outdated, shared, change>>

\* loadOfferDefinitions
Load(r) ==
  /\ reader[r].phase = "load"
  /\ reader' = [reader EXCEPT ![r].phase = "keep", ![r].of = version]
  /\ UNCHANGED <<version, outdated, cacheCopies, change, lapses, served, raced>>

Keep(r) ==
  /\ reader[r].phase = "keep"
  /\ memory' = [n \in Instances |->
       IF n \in reader[r].on THEN InMemory(reader[r].of) ELSE memory[n]]
  /\ reader' = [reader EXCEPT ![r].phase = "share"]
  /\ UNCHANGED <<version, outdated, shared, change, lapses, served, raced>>

\* redisSetString, which ignores failures.
Share(r) ==
  /\ reader[r].phase = "share"
  /\ \/ shared' = [of |-> reader[r].of, ttl |-> RedisTtl] /\ UNCHANGED lapses
     \/ Lapse /\ UNCHANGED shared
  /\ Serves(r, reader[r].of)
  /\ UNCHANGED <<version, outdated, memory, change, raced>>

----------------------------------------------------------------------------
(* Changes.                                                                *)

WriteOffers ==
  /\ version < MaxVersion /\ version' = version + 1
  /\ change' = "written"
  /\ raced' = (Loading # {})
  /\ UNCHANGED <<outdated, cacheCopies, reader, lapses, served>>

\* invalidateOfferDefinitions, when the change is published.
MemoryOnly(n) == UNCHANGED <<shared, lapses, raced>>
DropCopies(n) ==
  \/ shared' = NoCopy /\ UNCHANGED <<lapses, raced>>
  \/ Lapse /\ raced' = TRUE /\ UNCHANGED shared

Invalidate(n) ==
  /\ change = "written" /\ change' = "done"
  /\ memory' = [memory EXCEPT ![n] = NoCopy]
  /\ DropCopies(n)
  /\ UNCHANGED <<version, outdated, reader, served>>

----------------------------------------------------------------------------
(* Time.                                                                   *)

Eternal(copy) == copy
Shorter(copy) == IF copy.ttl <= 1 THEN NoCopy ELSE [copy EXCEPT !.ttl = @ - 1]

\* Copies expire, requests that reach maxDuration are ended.
SecondPasses ==
  /\ outdated' = [v \in 0 .. MaxVersion |->
       IF v < version /\ outdated[v] <= Bound THEN outdated[v] + 1 ELSE outdated[v]]
  /\ memory' = [n \in Instances |-> Shorter(memory[n])]
  /\ shared' = Shorter(shared)
  /\ reader' = [r \in Readers |->
       IF reader[r].left <= 1 THEN NoReader ELSE [reader[r] EXCEPT !.left = @ - 1]]
  /\ UNCHANGED <<version, change, lapses, served, raced>>

DefinitionsNext ==
  \/ WriteOffers \/ SecondPasses
  \/ \E n \in Instances : Invalidate(n)
  \/ \E r \in Readers : \/ \E n \in Instances : ReadMemory(r, n)
                        \/ ReadRedis(r) \/ Load(r) \/ Keep(r) \/ Share(r)

DefinitionsSpec == DefinitionsInit /\ [][DefinitionsNext]_definitionVars

----------------------------------------------------------------------------
(* Properties.                                                             *)

\* Every variable holds a value of its type.
Copies == [of : 0 .. version, ttl : Nat]
DefinitionsTypeOK ==
  /\ version \in 0 .. MaxVersion
  /\ outdated \in [0 .. MaxVersion -> 0 .. Bound + 1]
  /\ memory \in [Instances -> Copies] /\ \A n \in Instances : memory[n].ttl <= MemoryTtl
  /\ shared \in Copies /\ shared.ttl <= RedisTtl
  /\ reader \in [Readers -> [phase : {"idle", "redis", "load", "keep", "share"},
                             on : SUBSET Instances, of : 0 .. version, left : 0 .. ReadTime]]
  /\ change \in {"written", "done"} /\ lapses \in 0 .. MaxLapses
  /\ served \in 0 .. Bound + 1 /\ raced \in BOOLEAN

\* "a reader that raced a publish can re-cache the old value, so staleness is
\* bounded by the TTL": a shopper never sees offers that were changed longer
\* ago than a slow reader, Redis and an instance's memory together may keep
\* them, even if no invalidation ever reaches a copy.
StalenessBounded == served <= Bound

\* Unless a load overlapped the change or a call failed, the copy in Redis is
\* never older than the last change that was published.
InvalidationHolds == change = "done" /\ ~raced /\ shared.ttl > 0 => shared.of = version
=============================================================================

------------------------------ MODULE CronLock ------------------------------
(***************************************************************************)
(* The overlap lock of a cron (lib/cron-run.server.ts): a Redis key with a *)
(* time to live, a row of rate_limits when Redis does not answer, and no   *)
(* lock at all when neither does.  Vercel may deliver a run at any time,   *)
(* and ends one that is older than maxDuration.                            *)
(***************************************************************************)
EXTENDS Naturals

CONSTANTS Runs,         \* deliveries of the cron's request
          MaxDuration,  \* maxDuration, in ticks
          MaxOutages,   \* bound on calls of Redis or the database that fail
          None

ASSUME CronLockAssumption == /\ None \notin Runs
                             /\ MaxDuration \in Nat \ {0}
                             /\ MaxOutages \in Nat

VARIABLES
  run,       \* where a delivery is: "new" .. "ended"
  via,       \* the lock it runs under
  age,       \* ticks since it started; once it ended, since its end
  hasRedis,  \* Redis is configured
  key,       \* the Redis key: the token in it and the ticks it has left
  row,       \* the rate_limits row: who wrote it (unknown to the code), its age
  outages

vars == <<run, via, age, hasRedis, key, row, outages>>

NoKey == [owner |-> None, ttl |-> 0]
NoRow == [owner |-> None, age |-> 0]

Alive(r) == run[r] \in {"started", "fallback", "running"}

\* The lock's time to live is the route's maxDuration, in both stores.
ShortTtl == MaxDuration - 1
LongTtl  == MaxDuration + 1
LockTtl  == MaxDuration

Init ==
  /\ run = [r \in Runs |-> "new"]
  /\ via = [r \in Runs |-> "none"]
  /\ age = [r \in Runs |-> 0]
  /\ hasRedis \in BOOLEAN
  /\ key = NoKey /\ row = NoRow
  /\ outages = 0

Outage == outages < MaxOutages /\ outages' = outages + 1

Enter(r, where, lock) ==
  /\ run' = [run EXCEPT ![r] = where]
  /\ via' = [via EXCEPT ![r] = lock]
  /\ age' = IF where = "ended" THEN [age EXCEPT ![r] = 0] ELSE age

\* Vercel delivers a request, perhaps while another one runs.
Deliver(r) ==
  /\ run[r] = "new"
  /\ run' = [run EXCEPT ![r] = IF hasRedis THEN "started" ELSE "fallback"]
  /\ UNCHANGED <<via, age, hasRedis, key, row, outages>>

\* redisAcquireLock: SET NX PX
AcquireRedis(r) ==
  /\ run[r] = "started" /\ key = NoKey
  /\ key' = [owner |-> r, ttl |-> LockTtl]
  /\ Enter(r, "running", "redis")
  /\ UNCHANGED <<hasRedis, row, outages>>

SkipRedis(r) ==
  /\ run[r] = "started" /\ key # NoKey
  /\ Enter(r, "ended", "none")
  /\ UNCHANGED <<hasRedis, key, row, outages>>

\* No answer within REST_TIMEOUT_MS: the key may have been set all the same.
RedisSilent(r) ==
  /\ run[r] = "started" /\ Outage
  /\ Enter(r, "fallback", "none")
  /\ \/ key = NoKey /\ key' = [owner |-> r, ttl |-> LockTtl]
     \/ UNCHANGED key
  /\ UNCHANGED <<hasRedis, row>>

\* acquireDbLock: insert the row, or take over one that is too old.
AcquireDb(r) ==
  /\ run[r] = "fallback"
  /\ row = NoRow \/ row.age > LockTtl
  /\ row' = [owner |-> r, age |-> 0]
  /\ Enter(r, "running", "db")
  /\ UNCHANGED <<hasRedis, key, outages>>

SkipDb(r) ==
  /\ run[r] = "fallback" /\ row # NoRow /\ row.age <= LockTtl
  /\ Enter(r, "ended", "none")
  /\ UNCHANGED <<hasRedis, key, row, outages>>

\* Neither store answers: the cron runs without a lock.
FailOpen(r) ==
  /\ run[r] = "fallback" /\ Outage
  /\ Enter(r, "running", "open")
  /\ UNCHANGED <<hasRedis, key, row>>

\* The work is done and the lock released: the Redis key if it is still this
\* run's, the row whoever wrote it.  A release that fails is ignored.
Release(r) ==
  /\ key' = IF via[r] = "redis" /\ key.owner = r THEN NoKey ELSE key
  /\ row' = IF via[r] = "db" THEN NoRow ELSE row

Finish(r) ==
  /\ run[r] = "running"
  /\ \/ Release(r) /\ UNCHANGED outages
     \/ Outage /\ UNCHANGED <<key, row>>
  /\ Enter(r, "ended", "none")
  /\ UNCHANGED hasRedis

\* The process dies and releases nothing.
Crash(r) ==
  /\ Alive(r)
  /\ Enter(r, "ended", "none")
  /\ UNCHANGED <<hasRedis, key, row, outages>>

\* Time passes.  Runs that reach maxDuration are ended by Vercel, keys that
\* reach their time to live vanish.  Ages beyond the interesting are not told
\* apart.
Killed(r)     == Alive(r) /\ age[r] + 1 = MaxDuration

Older(n) == IF n > LockTtl + MaxDuration THEN n ELSE n + 1

Tick ==
  /\ \E r \in Runs : run[r] # "new"
  /\ run' = [r \in Runs |-> IF Killed(r) THEN "ended" ELSE run[r]]
  /\ via' = [r \in Runs |-> IF Killed(r) THEN "none" ELSE via[r]]
  /\ age' = [r \in Runs |-> CASE run[r] = "new" -> 0
                              [] Killed(r) -> 0
                              [] OTHER -> Older(age[r])]
  /\ key' = IF key.ttl <= 1 THEN NoKey ELSE [key EXCEPT !.ttl = @ - 1]
  /\ row' = IF row = NoRow THEN NoRow ELSE [row EXCEPT !.age = Older(@)]
  /\ UNCHANGED <<hasRedis, outages>>

Next ==
  \/ Tick
  \/ \E r \in Runs :
       \/ Deliver(r) \/ AcquireRedis(r) \/ SkipRedis(r) \/ RedisSilent(r)
       \/ AcquireDb(r) \/ SkipDb(r) \/ FailOpen(r) \/ Finish(r) \/ Crash(r)

Spec == Init /\ [][Next]_vars

----------------------------------------------------------------------------
\* Every variable holds a value of its type, and whoever is ended or not yet
\* running is under no lock.
TypeOK ==
  /\ run \in [Runs -> {"new", "started", "fallback", "running", "ended"}]
  /\ via \in [Runs -> {"none", "redis", "db", "open"}]
  /\ \A r \in Runs : run[r] = "running" <=> via[r] # "none"
  /\ age \in [Runs -> Nat]
  /\ \A r \in Runs : /\ run[r] = "new" => age[r] = 0
                     /\ Alive(r) => age[r] < MaxDuration
  /\ hasRedis \in BOOLEAN
  /\ key \in [owner : Runs \cup {None}, ttl : 0 .. LockTtl]
  /\ row \in [owner : Runs \cup {None}, age : Nat]
  /\ outages \in 0 .. MaxOutages

\* "a slow run or a duplicate Vercel delivery cannot overlap itself".
NoOverlap == \A r, s \in Runs : run[r] = "running" /\ run[s] = "running" => r = s

\* As long as every call of the lock is answered, two runs never overlap,
\* whichever store holds the lock, however slow they are and wherever they
\* crash: the lock outlives every run.
OverlapNeedsOutage == outages = 0 => NoOverlap

\* "so a crashed run can never block the next one for longer": whatever fails,
\* a lock that still keeps others out belongs to a run that is alive or that
\* ended no longer than maxDuration ago.
StuckLockExpires ==
  LET Recent(r) == Alive(r) \/ age[r] <= MaxDuration
  IN /\ key # NoKey => Recent(key.owner)
     /\ row # NoRow /\ row.age <= LockTtl => Recent(row.owner)
=============================================================================

------------------------------ MODULE JobsProofs ------------------------------
(***************************************************************************)
(* The theorems about four of the parts that MCJobs runs side by side, for *)
(* every number of actors and every bound: the cron's overlap lock, the    *)
(* pushes of the customers' offer counts, and what shoppers meet: the      *)
(* cached offers that an evaluation reads, and the page that keeps a gift  *)
(* in the cart.                                                            *)
(***************************************************************************)
EXTENDS CronLock, UsageSync, DefinitionsCache, StorefrontRuntime, TLAPS

-----------------------------------------------------------------------------
(* The cron's overlap lock.                                                *)

\* Every reachable state of the cron's lock is well typed, and Vercel has ended
\* every run that reached maxDuration.
LEMMA LockTypeInit == Init => TypeOK
BY CronLockAssumption DEF Init, TypeOK, NoKey, NoRow, Alive, LockTtl

LEMMA LockTypeNext == TypeOK /\ [Next]_vars => TypeOK'
<1> SUFFICES ASSUME TypeOK, [Next]_vars PROVE TypeOK'
  OBVIOUS
<1> USE CronLockAssumption DEF TypeOK, Alive
<1>1. CASE Tick
  <2>1. age' \in [Runs -> Nat]
    BY <1>1 DEF Tick, Older, Killed, LockTtl
  <2>2. \A r \in Runs : /\ run'[r] = "new" => age'[r] = 0
                        /\ Alive(r)' => age'[r] < MaxDuration
    <3> TAKE r \in Runs
    <3>1. CASE run[r] = "new"
      BY <1>1, <3>1 DEF Tick, Killed
    <3>2. CASE run[r] # "new" /\ Killed(r)
      BY <1>1, <3>2 DEF Tick, Killed
    <3>3. CASE run[r] # "new" /\ ~Killed(r)
      <4>1. run'[r] = run[r] /\ age'[r] = Older(age[r])
        BY <1>1, <3>3 DEF Tick
      <4>2. Older(age[r]) <= age[r] + 1
        BY DEF Older, LockTtl
      <4>3. Alive(r) => age[r] + 1 # MaxDuration
        BY <3>3 DEF Killed
      <4> QED BY <4>1, <4>2, <4>3, <3>3 DEF Older, LockTtl
    <3> QED BY <3>1, <3>2, <3>3
  <2>3. key' \in [owner : Runs \cup {None}, ttl : 0 .. LockTtl]
    BY <1>1 DEF Tick, NoKey, LockTtl
  <2>4. row' \in [owner : Runs \cup {None}, age : Nat]
    BY <1>1 DEF Tick, NoRow, Older, LockTtl
  <2>5. /\ run' \in [Runs -> {"new", "started", "fallback", "running", "ended"}]
        /\ via' \in [Runs -> {"none", "redis", "db", "open"}]
        /\ \A r \in Runs : run'[r] = "running" <=> via'[r] # "none"
    BY <1>1 DEF Tick, Killed
  <2> QED BY <1>1, <2>1, <2>2, <2>3, <2>4, <2>5 DEF Tick
<1>2. ASSUME NEW r \in Runs, NEW where \in {"fallback", "running", "ended"},
             NEW lock \in {"none", "redis", "db", "open"}, Alive(r),
             where = "running" <=> lock # "none", Enter(r, where, lock)
      PROVE  /\ run' \in [Runs -> {"new", "started", "fallback", "running", "ended"}]
             /\ via' \in [Runs -> {"none", "redis", "db", "open"}]
             /\ \A s \in Runs : run'[s] = "running" <=> via'[s] # "none"
             /\ age' \in [Runs -> Nat]
             /\ \A s \in Runs : /\ run'[s] = "new" => age'[s] = 0
                                /\ Alive(s)' => age'[s] < MaxDuration
  BY <1>2 DEF Enter
<1>3. ASSUME NEW r \in Runs, Deliver(r) PROVE TypeOK'
  BY <1>3 DEF Deliver
<1>4. ASSUME NEW r \in Runs, AcquireRedis(r) PROVE TypeOK'
  BY <1>4, <1>2 DEF AcquireRedis, LockTtl
<1>5. ASSUME NEW r \in Runs, SkipRedis(r) PROVE TypeOK'
  BY <1>5, <1>2 DEF SkipRedis
<1>6. ASSUME NEW r \in Runs, RedisSilent(r) PROVE TypeOK'
  BY <1>6, <1>2 DEF RedisSilent, Outage, LockTtl
<1>7. ASSUME NEW r \in Runs, AcquireDb(r) PROVE TypeOK'
  BY <1>7, <1>2 DEF AcquireDb
<1>8. ASSUME NEW r \in Runs, SkipDb(r) PROVE TypeOK'
  BY <1>8, <1>2 DEF SkipDb
<1>9. ASSUME NEW r \in Runs, FailOpen(r) PROVE TypeOK'
  BY <1>9, <1>2 DEF FailOpen, Outage
<1>10. ASSUME NEW r \in Runs, Finish(r) PROVE TypeOK'
  <2>1. /\ key' \in [owner : Runs \cup {None}, ttl : 0 .. LockTtl]
        /\ row' \in [owner : Runs \cup {None}, age : Nat]
        /\ outages' \in 0 .. MaxOutages
    BY <1>10 DEF Finish, Release, Outage, NoKey, NoRow, LockTtl
  <2> QED BY <1>10, <1>2, <2>1 DEF Finish
<1>11. ASSUME NEW r \in Runs, Crash(r) PROVE TypeOK'
  BY <1>11, <1>2 DEF Crash
<1>12. CASE UNCHANGED vars
  BY <1>12 DEF vars
<1> QED BY <1>1, <1>3, <1>4, <1>5, <1>6, <1>7, <1>8, <1>9, <1>10, <1>11, <1>12
        DEF Next

\* Every reachable state of the cron's lock is well typed.
THEOREM LockTypeCorrect == Spec => []TypeOK
<1>1. Init => TypeOK
  BY LockTypeInit
<1>2. TypeOK /\ [Next]_vars => TypeOK'
  BY LockTypeNext
<1> QED BY <1>1, <1>2, PTL DEF Spec

----------------------------------------------------------------------------
(* No overlap while the lock's calls are answered.                         *)

\* Whoever runs holds the lock of the only store in use, and the lock has at
\* least as long to go as the run.
LockInv ==
  outages = 0 =>
    \A r \in Runs :
      /\ hasRedis => /\ run[r] # "fallback"
                     /\ run[r] = "running" => /\ via[r] = "redis"
                                               /\ key.owner = r
                                               /\ age[r] + key.ttl >= MaxDuration
      /\ ~hasRedis => /\ run[r] # "started"
                      /\ run[r] = "running" => /\ via[r] = "db"
                                                /\ row.owner = r
                                                /\ row.age <= age[r]

\* With a lock of its own, each running delivery is alone.
LEMMA LockInvNoOverlap == LockInv => OverlapNeedsOutage
BY DEF LockInv, OverlapNeedsOutage, NoOverlap

LEMMA LockInvInit == Init => LockInv
BY DEF Init, LockInv

LEMMA LockInvNext == TypeOK /\ LockInv /\ [Next]_vars => LockInv'
<1> SUFFICES ASSUME TypeOK, LockInv, [Next]_vars, outages' = 0 PROVE LockInv'
  BY DEF LockInv
<1> USE CronLockAssumption
<1>0. outages = 0
  BY DEF TypeOK, Next, vars, Tick, Deliver, AcquireRedis, SkipRedis, RedisSilent,
         AcquireDb, SkipDb, FailOpen, Finish, Crash, Outage
<1>1. CASE Tick
  <2> SUFFICES ASSUME NEW r \in Runs, run'[r] # "new"
               PROVE  /\ hasRedis => /\ run'[r] # "fallback"
                                     /\ run'[r] = "running" => /\ via'[r] = "redis"
                                                               /\ key'.owner = r
                                                               /\ age'[r] + key'.ttl >= MaxDuration
                      /\ ~hasRedis => /\ run'[r] # "started"
                                      /\ run'[r] = "running" => /\ via'[r] = "db"
                                                                /\ row'.owner = r
                                                                /\ row'.age <= age'[r]
    BY <1>0, <1>1 DEF LockInv, Tick
  <2>1. CASE Killed(r)
    BY <1>1, <2>1 DEF Tick
  <2>2. CASE ~Killed(r)
    <3>1. run'[r] = run[r] /\ via'[r] = via[r]
      BY <1>1, <2>2 DEF Tick
    <3>2. CASE run[r] # "running"
      BY <3>1, <3>2, <1>0 DEF LockInv
    <3>3. CASE run[r] = "running"
      <4>1. age[r] \in Nat /\ age[r] + 1 < MaxDuration
        BY <2>2, <3>3 DEF TypeOK, Killed, Alive
      <4>2. age'[r] = age[r] + 1
        BY <1>1, <2>2, <3>3, <4>1 DEF Tick, Older, LockTtl
      <4>3. CASE hasRedis
        <5>1. via[r] = "redis" /\ key.owner = r /\ age[r] + key.ttl >= MaxDuration
          BY <1>0, <3>3, <4>3 DEF LockInv
        <5>2. key.ttl > 1 /\ key.ttl \in Nat
          BY <4>1, <5>1 DEF TypeOK, LockTtl
        <5>3. key' = [key EXCEPT !.ttl = @ - 1]
          BY <1>1, <5>2 DEF Tick
        <5>4. key'.owner = r /\ key'.ttl = key.ttl - 1
          BY <5>1, <5>3 DEF TypeOK
        <5> QED BY <3>1, <3>3, <4>1, <4>2, <4>3, <5>1, <5>2, <5>4
      <4>4. CASE ~hasRedis
        <5>1. via[r] = "db" /\ row.owner = r /\ row.age <= age[r] /\ row.age \in Nat
          BY <1>0, <3>3, <4>4 DEF LockInv, TypeOK
        <5>2. row # NoRow
          BY <5>1 DEF NoRow
        <5>3. row'.owner = r /\ row'.age = Older(row.age)
          BY <1>1, <5>1, <5>2 DEF Tick, TypeOK
        <5>4. Older(row.age) <= row.age + 1
          BY <5>1 DEF Older, LockTtl
        <5>5. row'.age \in Nat
          BY <5>1, <5>3 DEF Older, LockTtl
        <5> QED BY <3>1, <3>3, <4>1, <4>2, <4>4, <5>1, <5>3, <5>4, <5>5
      <4> QED BY <4>3, <4>4
    <3> QED BY <3>2, <3>3
  <2> QED BY <2>1, <2>2
<1> USE <1>0 DEF LockInv, TypeOK
<1>2. ASSUME NEW r \in Runs, Deliver(r) PROVE LockInv'
  BY <1>2 DEF Deliver
<1>3. ASSUME NEW r \in Runs, AcquireRedis(r) PROVE LockInv'
  <2>1. \A s \in Runs : hasRedis => run[s] # "running"
    BY <1>3 DEF AcquireRedis, NoKey
  <2>2. hasRedis
    BY <1>3 DEF AcquireRedis
  <2>3. /\ run' = [run EXCEPT ![r] = "running"] /\ via' = [via EXCEPT ![r] = "redis"]
        /\ UNCHANGED <<age, hasRedis>> /\ key' = [owner |-> r, ttl |-> MaxDuration]
    BY <1>3 DEF AcquireRedis, Enter, LockTtl
  <2>4. age[r] \in Nat
    OBVIOUS
  <2> QED BY <2>1, <2>2, <2>3, <2>4
<1>4. ASSUME NEW r \in Runs, SkipRedis(r) PROVE LockInv'
  BY <1>4 DEF SkipRedis, Enter
<1>5. ASSUME NEW r \in Runs, RedisSilent(r) PROVE LockInv'
  BY <1>5 DEF RedisSilent, Outage
<1>6. ASSUME NEW r \in Runs, AcquireDb(r) PROVE LockInv'
  <2>1. ~hasRedis
    BY <1>6 DEF AcquireDb
  <2>2. \A s \in Runs : run[s] # "running"
    <3> SUFFICES ASSUME NEW s \in Runs, run[s] = "running" PROVE FALSE
      OBVIOUS
    <3>1. row.owner = s /\ row.age <= age[s] /\ age[s] < MaxDuration
      BY <2>1 DEF Alive
    <3>2. row # NoRow
      BY <3>1 DEF NoRow
    <3> QED BY <1>6, <3>1, <3>2 DEF AcquireDb, LockTtl
  <2>3. /\ run' = [run EXCEPT ![r] = "running"] /\ via' = [via EXCEPT ![r] = "db"]
        /\ UNCHANGED <<age, hasRedis>> /\ row' = [owner |-> r, age |-> 0]
    BY <1>6 DEF AcquireDb, Enter
  <2> QED BY <2>1, <2>2, <2>3
<1>7. ASSUME NEW r \in Runs, SkipDb(r) PROVE LockInv'
  BY <1>7 DEF SkipDb, Enter
<1>8. ASSUME NEW r \in Runs, FailOpen(r) PROVE LockInv'
  BY <1>8 DEF FailOpen, Outage
<1>9. ASSUME NEW r \in Runs, Finish(r) PROVE LockInv'
  <2>1. run' = [run EXCEPT ![r] = "ended"] /\ via' = [via EXCEPT ![r] = "none"]
        /\ age' = [age EXCEPT ![r] = 0] /\ UNCHANGED hasRedis
    BY <1>9 DEF Finish, Enter
  <2>2. \A s \in Runs : run[s] = "running" => s = r
    BY <1>9 DEF Finish
  <2> QED BY <2>1, <2>2
<1>10. ASSUME NEW r \in Runs, Crash(r) PROVE LockInv'
  BY <1>10 DEF Crash, Enter
<1>11. CASE UNCHANGED vars
  BY <1>11 DEF vars
<1> QED BY <1>1, <1>2, <1>3, <1>4, <1>5, <1>6, <1>7, <1>8, <1>9, <1>10, <1>11
        DEF Next

\* As long as every call of the lock is answered, two runs of a cron never
\* overlap: the lock outlives the run that took it.
THEOREM NeverOverlaps == Spec => []OverlapNeedsOutage
<1>1. Init => TypeOK /\ LockInv
  BY LockTypeInit, LockInvInit
<1>2. TypeOK /\ LockInv /\ [Next]_vars => TypeOK' /\ LockInv'
  BY LockTypeNext, LockInvNext
<1>3. LockInv => OverlapNeedsOutage
  BY LockInvNoOverlap
<1> QED BY <1>1, <1>2, <1>3, PTL DEF Spec

----------------------------------------------------------------------------
(* A lock outlives its run by maxDuration at most.                         *)

\* The key runs out before its ended owner is maxDuration old, and the row is
\* at least as old as its owner's end.
StuckInv ==
  /\ key # NoKey => /\ key.owner \in Runs /\ run[key.owner] # "new"
                    /\ ~Alive(key.owner) => age[key.owner] + key.ttl <= MaxDuration
  /\ row # NoRow => /\ row.owner \in Runs /\ run[row.owner] # "new"
                    /\ ~Alive(row.owner) => age[row.owner] <= row.age

LEMMA StuckInvImplies == TypeOK /\ StuckInv => StuckLockExpires
BY CronLockAssumption DEF TypeOK, StuckInv, StuckLockExpires, LockTtl

LEMMA StuckInvInit == Init => StuckInv
BY DEF Init, StuckInv

LEMMA StuckInvNext == TypeOK /\ StuckInv /\ [Next]_vars => StuckInv'
<1> SUFFICES ASSUME TypeOK, StuckInv, [Next]_vars PROVE StuckInv'
  OBVIOUS
<1> USE CronLockAssumption
<1>1. CASE Tick
  <2>1. ASSUME NEW r \in Runs, run[r] # "new", run'[r] \notin {"started", "fallback", "running"}
        PROVE  /\ Alive(r) => age'[r] = 0
               /\ ~Alive(r) => age'[r] = Older(age[r])
    <3>1. CASE Killed(r)
      BY <1>1, <2>1, <3>1 DEF Tick, Killed
    <3>2. CASE ~Killed(r)
      BY <1>1, <2>1, <3>2 DEF Tick, Alive
    <3> QED BY <3>1, <3>2
  <2>2. ASSUME NEW r \in Runs, run[r] # "new" PROVE run'[r] # "new"
    BY <1>1, <2>2 DEF Tick
  <2>3. ASSUME key' # NoKey
        PROVE  /\ key'.owner \in Runs /\ run'[key'.owner] # "new"
               /\ ~(Alive(key.owner)') => age'[key'.owner] + key'.ttl <= MaxDuration
    <3> DEFINE r == key.owner
    <3>1. key.ttl > 1 /\ key' = [key EXCEPT !.ttl = @ - 1]
      BY <1>1, <2>3 DEF Tick, TypeOK, LockTtl
    <3>2. key # NoKey /\ key'.owner = r /\ key'.ttl = key.ttl - 1
          /\ key.ttl \in Nat /\ key.ttl <= MaxDuration
      BY <3>1 DEF NoKey, TypeOK, LockTtl
    <3>3. r \in Runs /\ run[r] # "new" /\ (~Alive(r) => age[r] + key.ttl <= MaxDuration)
      BY <3>2 DEF StuckInv
    <3>4. age[r] \in Nat /\ Older(age[r]) \in Nat /\ Older(age[r]) <= age[r] + 1
      BY <3>3 DEF TypeOK, Older, LockTtl
    <3>5. ASSUME ~(Alive(key.owner)') PROVE age'[r] + key'.ttl <= MaxDuration
      <4>1. run'[r] \notin {"started", "fallback", "running"}
        BY <3>2, <3>5 DEF Alive
      <4>2. CASE Alive(r)
        BY <2>1, <3>2, <3>3, <4>1, <4>2
      <4>3. CASE ~Alive(r)
        BY <2>1, <3>2, <3>3, <3>4, <4>1, <4>3
      <4> QED BY <4>2, <4>3
    <3> QED BY <2>2, <3>2, <3>3, <3>5
  <2>4. ASSUME row' # NoRow
        PROVE  /\ row'.owner \in Runs /\ run'[row'.owner] # "new"
               /\ ~(Alive(row.owner)') => age'[row'.owner] <= row'.age
    <3> DEFINE r == row.owner
    <3>1. row # NoRow /\ row' = [row EXCEPT !.age = Older(@)]
      BY <1>1, <2>4 DEF Tick
    <3>2. row'.owner = r /\ row'.age = Older(row.age) /\ row.age \in Nat
      BY <3>1 DEF TypeOK
    <3>3. r \in Runs /\ run[r] # "new" /\ (~Alive(r) => age[r] <= row.age)
      BY <3>1 DEF StuckInv
    <3>4. age[r] \in Nat
      BY <3>3 DEF TypeOK
    <3>5. 0 <= Older(row.age) /\ (age[r] <= row.age => Older(age[r]) <= Older(row.age))
      BY <3>2, <3>4 DEF Older, LockTtl
    <3>6. ASSUME ~(Alive(row.owner)') PROVE age'[r] <= row'.age
      <4>1. run'[r] \notin {"started", "fallback", "running"}
        BY <3>2, <3>6 DEF Alive
      <4> QED BY <2>1, <3>2, <3>3, <3>5, <4>1
    <3> QED BY <2>2, <3>2, <3>3, <3>6
  <2> QED BY <2>3, <2>4 DEF StuckInv
<1>2. ASSUME NEW r \in Runs, NEW where \in {"fallback", "running", "ended"},
             NEW lock, Alive(r), Enter(r, where, lock), UNCHANGED <<key, row>>
      PROVE  StuckInv'
  BY <1>2 DEF StuckInv, TypeOK, Enter, Alive, LockTtl
<1>3. ASSUME NEW r \in Runs, Deliver(r) PROVE StuckInv'
  BY <1>3 DEF Deliver, StuckInv, TypeOK, Alive
<1>4. ASSUME NEW r \in Runs, AcquireRedis(r) PROVE StuckInv'
  BY <1>4 DEF AcquireRedis, Enter, StuckInv, TypeOK, Alive
<1>5. ASSUME NEW r \in Runs, SkipRedis(r) PROVE StuckInv'
  BY <1>2, <1>5 DEF SkipRedis, Alive
<1>6. ASSUME NEW r \in Runs, RedisSilent(r) PROVE StuckInv'
  <2>1. CASE UNCHANGED key
    BY <1>2, <1>6, <2>1 DEF RedisSilent, Alive
  <2>2. CASE key = NoKey /\ key' = [owner |-> r, ttl |-> LockTtl]
    BY <1>6, <2>2 DEF RedisSilent, Enter, StuckInv, TypeOK, Alive
  <2> QED BY <1>6, <2>1, <2>2 DEF RedisSilent
<1>7. ASSUME NEW r \in Runs, AcquireDb(r) PROVE StuckInv'
  BY <1>7 DEF AcquireDb, Enter, StuckInv, TypeOK, Alive
<1>8. ASSUME NEW r \in Runs, SkipDb(r) PROVE StuckInv'
  BY <1>2, <1>8 DEF SkipDb, Alive
<1>9. ASSUME NEW r \in Runs, FailOpen(r) PROVE StuckInv'
  BY <1>2, <1>9 DEF FailOpen, Alive
<1>10. ASSUME NEW r \in Runs, Finish(r) PROVE StuckInv'
  <2>1. key' \in {key, NoKey} /\ row' \in {row, NoRow}
    BY <1>10 DEF Finish, Release
  <2>2. Enter(r, "ended", "none") /\ run[r] = "running"
    BY <1>10 DEF Finish
  <2> QED BY <2>1, <2>2 DEF Enter, StuckInv, TypeOK, Alive, LockTtl
<1>11. ASSUME NEW r \in Runs, Crash(r) PROVE StuckInv'
  BY <1>2, <1>11 DEF Crash
<1>12. CASE UNCHANGED vars
  BY <1>12 DEF vars, StuckInv, Alive
<1> QED BY <1>1, <1>3, <1>4, <1>5, <1>6, <1>7, <1>8, <1>9, <1>10, <1>11, <1>12
        DEF Next

\* Whatever fails, a lock keeps the next run out only while its own run is
\* alive and for maxDuration after its end.
THEOREM LocksExpire == Spec => []StuckLockExpires
<1>1. Init => TypeOK /\ StuckInv
  BY LockTypeInit, StuckInvInit
<1>2. TypeOK /\ StuckInv /\ [Next]_vars => TypeOK' /\ StuckInv'
  BY LockTypeNext, StuckInvNext
<1>3. TypeOK /\ StuckInv => StuckLockExpires
  BY StuckInvImplies
<1> QED BY <1>1, <1>2, <1>3, PTL DEF Spec

-----------------------------------------------------------------------------
(* The pushes of offer counts.                                             *)

Running == {"count", "push", "failed", "check", "clear"}

\* UsageTypeOK, and a push that has begun remembers a mark.
TypeInv == UsageTypeOK /\ \A w \in Workers : pc[w] \in Running => token[w] # 0

LEMMA DoneTyped ==
  ASSUME TypeInv, NEW w \in Workers, Done(w)
  PROVE  /\ pc' \in [Workers -> PcValues]
         /\ token' \in [Workers -> 0 .. stamp]
         /\ value' \in [Workers -> SUBSET recorded]
         /\ \A v \in Workers : pc'[v] \in Running => token'[v] # 0
  BY DEF TypeInv, UsageTypeOK, Done, Goto, PcValues, Running, Workers

LEMMA UsageTypeInit == UsageInit => TypeInv
<1> SUFFICES ASSUME UsageInit PROVE TypeInv
  OBVIOUS
<1>1. /\ recorded = {} /\ metafield = {} /\ late = {} /\ since = 0 /\ attempts = 0
      /\ cooling = FALSE /\ stamp = 0 /\ faults = 0 /\ exact = TRUE
  BY DEF UsageInit
<1>2. /\ pc \in [Workers -> {"idle"}] /\ token \in [Workers -> {0}]
      /\ value = [w \in Workers |-> {}]
  BY DEF UsageInit
<1>3. value \in [Workers -> SUBSET recorded] /\ late \subseteq SUBSET recorded
  BY <1>1, <1>2
<1>4. 0 \in 0 .. MaxAttempts /\ 0 \in 0 .. MaxFaults
  BY UsageAssumption
<1>5. token \in [Workers -> 0 .. stamp]
  BY <1>1, <1>2
<1>6. pc \in [Workers -> PcValues] /\ \A w \in Workers : pc[w] \notin Running
  BY <1>2 DEF PcValues, Running
<1>7. UsageTypeOK
  <2>1. recorded \subseteq Orders /\ metafield \subseteq recorded
    BY <1>1
  <2>2. stamp \in Nat /\ since \in 0 .. stamp
    BY <1>1
  <2>3. attempts \in 0 .. MaxAttempts /\ faults \in 0 .. MaxFaults
    BY <1>1, <1>4
  <2>4. cooling \in BOOLEAN /\ exact \in BOOLEAN
    BY <1>1
  <2>5. QED BY <1>3, <1>5, <1>6, <2>1, <2>2, <2>3, <2>4 DEF UsageTypeOK
<1>8. QED BY <1>6, <1>7 DEF TypeInv

LEMMA UsageTypeNext == TypeInv /\ [UsageNext]_usageVars => TypeInv'
<1> SUFFICES ASSUME TypeInv, [UsageNext]_usageVars PROVE TypeInv'
  OBVIOUS
<1> USE UsageAssumption DEF TypeInv, UsageTypeOK, pendingRow, push
<1>1. ASSUME NEW o \in Orders, DeliverOrder(o) \/ Backfill(o) PROVE TypeInv'
  <2>1. /\ recorded' = recorded \cup {o} /\ stamp' = stamp + 1 /\ since' = stamp + 1
        /\ attempts' = 0 /\ exact' = FALSE
        /\ UNCHANGED <<cooling, metafield, late, token, value, faults>>
    BY <1>1 DEF DeliverOrder, Backfill, Record, Mark, Now
  <2>2. \E step \in {"mark", "end"} : pc' = [pc EXCEPT ![o] = step]
    BY <1>1 DEF DeliverOrder, Backfill, Goto
  <2>3. /\ pc' \in [Workers -> PcValues]
        /\ \A v \in Workers : pc'[v] \in Running => pc[v] \in Running
    BY <2>2 DEF PcValues, Running, Workers
  <2>4. /\ value' \in [Workers -> SUBSET recorded'] /\ token' \in [Workers -> 0 .. stamp']
        /\ late' \subseteq SUBSET recorded'
    BY <2>1
  <2>5. /\ recorded' \subseteq Orders /\ metafield' \subseteq recorded'
        /\ stamp' \in Nat /\ since' \in 0 .. stamp'
        /\ attempts' \in 0 .. MaxAttempts /\ faults' \in 0 .. MaxFaults
    BY <2>1
  <2>6. cooling' \in BOOLEAN /\ exact' \in BOOLEAN
    BY <2>1
  <2>7. \A v \in Workers : pc'[v] \in Running => token'[v] # 0
    BY <2>1, <2>3
  <2>8. QED BY <2>3, <2>4, <2>5, <2>6, <2>7
<1>2. CASE Drain
  BY <1>2 DEF Drain, Goto, PcValues, Running, Workers
<1>3. CASE CoolDown
  BY <1>3 DEF CoolDown
<1>4. ASSUME NEW w \in Workers, ReadMark(w) PROVE TypeInv'
  <2>1. CASE since = 0
    BY <1>4, <2>1, DoneTyped DEF ReadMark
  <2>2. CASE since # 0
    BY <1>4, <2>2 DEF ReadMark, Goto, PcValues, Running
  <2>3. QED BY <2>1, <2>2
<1>5. ASSUME NEW w \in Workers, Count(w) PROVE TypeInv'
  BY <1>5 DEF Count, Goto, PcValues, Running
<1>6. ASSUME NEW w \in Workers, Push(w) PROVE TypeInv'
  BY <1>6 DEF Push, Goto, PcValues, Running, Set, Fault
<1>7. ASSUME NEW w \in Workers, PushThrows(w) PROVE TypeInv'
  <2>1. pc' = [pc EXCEPT ![w] = "failed"] /\ pc[w] = "push"
    BY <1>7 DEF PushThrows, Goto
  <2>2. UNCHANGED <<recorded, since, attempts, cooling, stamp, token, value>>
    BY <1>7 DEF PushThrows
  <2>3. faults' \in 0 .. MaxFaults
    BY <1>7 DEF PushThrows, Fault
  <2>4. /\ metafield' \in {metafield, value[w]} /\ exact' \in BOOLEAN
        /\ late' \in {late, late \cup {value[w]}}
    BY <1>7 DEF PushThrows, Set
  <2>5. metafield' \subseteq recorded /\ late' \subseteq SUBSET recorded
    BY <2>4
  <2>6. /\ pc' \in [Workers -> PcValues]
        /\ \A v \in Workers : pc'[v] \in Running => pc[v] \in Running
    BY <2>1 DEF PcValues, Running
  <2>7. QED BY <2>2, <2>3, <2>4, <2>5, <2>6
<1>8. ASSUME NEW w \in Workers, MissingScope(w) PROVE TypeInv'
  BY <1>8, DoneTyped DEF MissingScope, Fault
<1>9. ASSUME NEW w \in Workers, Failed(w) PROVE TypeInv'
  BY <1>9, DoneTyped DEF Failed
<1>10. ASSUME NEW w \in Workers, Recheck(w) PROVE TypeInv'
  <2>1. CASE IsStale(w)
    BY <1>10, <2>1, DoneTyped DEF Recheck, Mark, Now
  <2>2. CASE ~IsStale(w)
    BY <1>10, <2>2 DEF Recheck, Goto, PcValues, Running
  <2>3. QED BY <2>1, <2>2
<1>11. ASSUME NEW w \in Workers, Clear(w) PROVE TypeInv'
  <2>1. UNCHANGED <<recorded, stamp, metafield, late, faults, exact>>
    BY <1>11 DEF Clear
  <2>2. since' \in 0 .. stamp /\ attempts' \in 0 .. MaxAttempts
    BY <1>11 DEF Clear
  <2>3. cooling' \in BOOLEAN
    BY <1>11 DEF Clear
  <2>4. Done(w)
    BY <1>11 DEF Clear
  <2>5. /\ pc' \in [Workers -> PcValues] /\ token' \in [Workers -> 0 .. stamp]
        /\ value' \in [Workers -> SUBSET recorded]
        /\ \A v \in Workers : pc'[v] \in Running => token'[v] # 0
    BY <2>4, DoneTyped
  <2>6. QED BY <2>1, <2>2, <2>3, <2>5
<1>12. ASSUME NEW v \in late, Late(v) PROVE TypeInv'
  BY <1>12 DEF Late, Set
<1>13. ASSUME NEW w \in Workers, CrashPush(w) PROVE TypeInv'
  BY <1>13, DoneTyped DEF CrashPush, Fault
<1>14. CASE UNCHANGED usageVars
  BY <1>14 DEF usageVars
<1>15. QED
  BY <1>1, <1>2, <1>3, <1>4, <1>5, <1>6, <1>7, <1>8, <1>9, <1>10, <1>11, <1>12,
     <1>13, <1>14 DEF UsageNext, Step, Trouble

\* Every reachable state is well typed, whatever the orders, the attempts and
\* the failures: in particular only recorded orders are ever pushed.
THEOREM UsageTypeCorrect == UsageSpec => []UsageTypeOK
<1>1. UsageSpec => []TypeInv
  BY UsageTypeInit, UsageTypeNext, PTL DEF UsageSpec
<1>2. TypeInv => UsageTypeOK
  BY DEF TypeInv
<1>3. QED BY <1>1, <1>2, PTL

----------------------------------------------------------------------------
(* A cleared mark.  The strengthening: as long as the mark is the one a    *)
(* push began with, nothing was recorded since, so what the push read is   *)
(* right, and once it has pushed it, the metafield was right.              *)

ReadIsRight == \A w \in Workers :
  pc[w] \in {"push", "check", "clear"} /\ since = token[w] => value[w] = recorded

PushedIsExact == \A w \in Workers :
  pc[w] \in {"check", "clear"} /\ since = token[w] => exact

MarkInv == ReadIsRight /\ PushedIsExact /\ ClearedMeansPushed

\* A fresh mark is nobody's, so there is nothing to show after it.
LEMMA FreshMark ==
  ASSUME TypeInv, NEW w \in Workers, Now = token[w] PROVE FALSE
  BY DEF TypeInv, UsageTypeOK, Now

LEMMA MarkInit == UsageInit => MarkInv
  BY DEF UsageInit, MarkInv, ReadIsRight, PushedIsExact, ClearedMeansPushed

LEMMA MarkNext == TypeInv /\ MarkInv /\ [UsageNext]_usageVars => MarkInv'
<1> SUFFICES ASSUME TypeInv, MarkInv, [UsageNext]_usageVars PROVE MarkInv'
  OBVIOUS
<1>a. /\ since \in Nat /\ stamp \in Nat /\ pc \in [Workers -> PcValues]
      /\ token \in [Workers -> 0 .. stamp] /\ value \in [Workers -> SUBSET recorded]
      /\ \A w \in Workers : pc[w] \in Running => token[w] # 0
  BY DEF TypeInv, UsageTypeOK
<1> USE <1>a DEF MarkInv, ReadIsRight, PushedIsExact, ClearedMeansPushed, pendingRow, push
<1>1. ASSUME NEW o \in Orders, DeliverOrder(o) \/ Backfill(o) PROVE MarkInv'
  <2>1. since' = Now /\ token' = token /\ since' # 0
    BY <1>1 DEF DeliverOrder, Backfill, Record, Mark, Now
  <2>2. QED BY <2>1, FreshMark
<1>2. CASE Drain
  BY <1>2 DEF Drain, Goto
<1>3. CASE CoolDown
  BY <1>3 DEF CoolDown
<1>4. ASSUME NEW w \in Workers, ReadMark(w) PROVE MarkInv'
  BY <1>4 DEF ReadMark, Goto, Done
<1>5. ASSUME NEW w \in Workers, Count(w) PROVE MarkInv'
  BY <1>5 DEF Count, Goto
<1>6. ASSUME NEW w \in Workers, Push(w) PROVE MarkInv'
  BY <1>6 DEF Push, Goto, Set
<1>7. ASSUME NEW w \in Workers, PushThrows(w) PROVE MarkInv'
  <2>1. UNCHANGED <<recorded, since, token, value>>
    BY <1>7 DEF PushThrows
  <2>2. pc' = [pc EXCEPT ![w] = "failed"]
    BY <1>7 DEF PushThrows, Goto
  <2>3. exact => exact'
    BY <1>7 DEF PushThrows, Set
  <2>4. QED BY <2>1, <2>2, <2>3
<1>8. ASSUME NEW w \in Workers, MissingScope(w) PROVE MarkInv'
  BY <1>8 DEF MissingScope, Done, Goto
<1>9. ASSUME NEW w \in Workers, Failed(w) PROVE MarkInv'
  BY <1>9 DEF Failed, Done, Goto
<1>10. ASSUME NEW w \in Workers, Recheck(w) PROVE MarkInv'
  <2>1. CASE IsStale(w)
    <3>1. since' = Now /\ since' # 0
      BY <1>10, <2>1 DEF Recheck, Mark, Now
    <3>2. \A v \in Workers : token'[v] = token[v] \/ v = w
      BY <1>10, <2>1 DEF Recheck, Done
    <3>3. pc'[w] \in {"idle", "end"}
      BY <1>10, <2>1 DEF Recheck, Done, Goto
    <3>4. QED BY <3>1, <3>2, <3>3, FreshMark
  <2>2. CASE ~IsStale(w)
    BY <1>10, <2>2 DEF Recheck, Goto
  <2>3. QED BY <2>1, <2>2
<1>11. ASSUME NEW w \in Workers, Clear(w) PROVE MarkInv'
  <2>1. pc'[w] \in {"idle", "end"}
    BY <1>11 DEF Clear, Done, Goto
  <2>2. \A v \in Workers \ {w} : pc'[v] = pc[v] /\ token'[v] = token[v] /\ value'[v] = value[v]
    BY <1>11 DEF Clear, Done, Goto
  <2>3. recorded' = recorded /\ exact' = exact
    BY <1>11 DEF Clear
  <2>4. CASE OwnMark(w)
    <3>1. since' = 0 /\ exact
      BY <1>11, <2>4 DEF Clear, OwnMark
    <3>2. QED BY <2>1, <2>2, <2>3, <3>1 DEF Running
  <2>5. CASE ~OwnMark(w)
    <3>1. since' = since
      BY <1>11, <2>5 DEF Clear
    <3>2. QED BY <2>1, <2>2, <2>3, <3>1
  <2>6. QED BY <2>4, <2>5
<1>12. ASSUME NEW v \in late, Late(v) PROVE MarkInv'
  BY <1>12 DEF Late, Set
<1>13. ASSUME NEW w \in Workers, CrashPush(w) PROVE MarkInv'
  BY <1>13 DEF CrashPush, Done, Goto
<1>14. CASE UNCHANGED usageVars
  BY <1>14 DEF usageVars
<1>15. QED
  BY <1>1, <1>2, <1>3, <1>4, <1>5, <1>6, <1>7, <1>8, <1>9, <1>10, <1>11, <1>12,
     <1>13, <1>14 DEF UsageNext, Step, Trouble

\* "The pending mark is cleared only if no order landed since it was read": a
\* customer who is not pending had the counts of all recorded orders pushed
\* since the last one, whatever failed, died or came late.
THEOREM MarkIsHonest == UsageSpec => []ClearedMeansPushed
<1>1. UsageInit => TypeInv /\ MarkInv
  BY UsageTypeInit, MarkInit
<1>2. TypeInv /\ MarkInv /\ [UsageNext]_usageVars => (TypeInv /\ MarkInv)'
  BY UsageTypeNext, MarkNext
<1>3. TypeInv /\ MarkInv => ClearedMeansPushed
  BY DEF MarkInv
<1>4. QED BY <1>1, <1>2, <1>3, PTL DEF UsageSpec

----------------------------------------------------------------------------
(* Side-by-side pushes without failures.  The strengthening: when the mark *)
(* is cleared, or about to be, the metafield is right or a push that made  *)
(* it wrong has yet to look at the counts again.                           *)

Clearing  == since = 0 \/ \E w \in Workers : pc[w] \in {"check", "clear"} /\ since = token[w]
WillCheck == \E v \in Workers : pc[v] = "check" /\ value[v] # recorded

CalmInv == faults = 0 => late = {} /\ (Clearing => metafield = recorded \/ WillCheck)

LEMMA CalmInit == UsageInit => CalmInv
  BY DEF UsageInit, CalmInv

LEMMA CalmNext == TypeInv /\ CalmInv /\ [UsageNext]_usageVars => CalmInv'
<1> DEFINE Calm == late = {} /\ (Clearing => metafield = recorded \/ WillCheck)
<1> SUFFICES ASSUME TypeInv, CalmInv, [UsageNext]_usageVars, faults' = 0 PROVE Calm'
  BY DEF CalmInv
<1>a. /\ since \in Nat /\ stamp \in Nat /\ pc \in [Workers -> PcValues]
      /\ token \in [Workers -> 0 .. stamp] /\ value \in [Workers -> SUBSET recorded]
      /\ \A w \in Workers : pc[w] \in Running => token[w] # 0
      /\ faults \in Nat
  BY UsageAssumption DEF TypeInv, UsageTypeOK
<1>0. faults = 0 => Calm
  BY DEF CalmInv
<1> HIDE DEF Calm
<1> USE <1>a DEF pendingRow, push
<1>1. ASSUME NEW o \in Orders, DeliverOrder(o) \/ Backfill(o) PROVE Calm'
  <2>1. since' = Now /\ token' = token /\ since' # 0 /\ late' = late /\ faults' = faults
    BY <1>1 DEF DeliverOrder, Backfill, Record, Mark, Now
  <2>2. ~Clearing'
    BY <2>1, FreshMark DEF Clearing
  <2>3. QED BY <1>0, <2>1, <2>2 DEF Calm
<1>2. CASE Drain
  BY <1>0, <1>2 DEF Drain, Goto, Calm, Clearing, WillCheck
<1>3. CASE CoolDown
  BY <1>0, <1>3 DEF CoolDown, Calm, Clearing, WillCheck
<1>4. ASSUME NEW w \in Workers, ReadMark(w) PROVE Calm'
  BY <1>0, <1>4 DEF ReadMark, Goto, Done, Calm, Clearing, WillCheck
<1>5. ASSUME NEW w \in Workers, Count(w) PROVE Calm'
  BY <1>0, <1>5 DEF Count, Goto, Calm, Clearing, WillCheck
<1>6. ASSUME NEW w \in Workers, Push(w) PROVE Calm'
  <2>1. /\ metafield' = value[w] /\ recorded' = recorded /\ value' = value
        /\ pc' = [pc EXCEPT ![w] = "check"] /\ late' = late /\ faults' = faults
    BY <1>6 DEF Push, Goto, Set, Fault
  <2>2. metafield' = recorded' \/ WillCheck'
    BY <2>1 DEF WillCheck
  <2>3. QED BY <1>0, <2>1, <2>2 DEF Calm
<1>7. ASSUME NEW w \in Workers, PushThrows(w) \/ MissingScope(w) \/ CrashPush(w) PROVE FALSE
  BY <1>7 DEF PushThrows, MissingScope, CrashPush, Fault
<1>8. ASSUME NEW w \in Workers, Failed(w) PROVE Calm'
  BY <1>0, <1>8 DEF Failed, Done, Goto, Calm, Clearing, WillCheck
<1>9. ASSUME NEW w \in Workers, Recheck(w) PROVE Calm'
  <2>1. CASE IsStale(w)
    <3>1. since' = Now /\ since' # 0 /\ late' = late /\ faults' = faults
      BY <1>9, <2>1 DEF Recheck, Mark, Now
    <3>2. \A v \in Workers : token'[v] = token[v] \/ v = w
      BY <1>9, <2>1 DEF Recheck, Done
    <3>3. pc'[w] \in {"idle", "end"}
      BY <1>9, <2>1 DEF Recheck, Done, Goto
    <3>4. ~Clearing'
      BY <3>1, <3>2, <3>3, FreshMark DEF Clearing
    <3>5. QED BY <1>0, <3>1, <3>4 DEF Calm
  <2>2. CASE ~IsStale(w)
    BY <1>0, <1>9, <2>2 DEF Recheck, IsStale, Goto, Calm, Clearing, WillCheck
  <2>3. QED BY <2>1, <2>2
<1>10. ASSUME NEW w \in Workers, Clear(w) PROVE Calm'
  <2>1. /\ pc[w] = "clear" /\ pc'[w] \in {"idle", "end"}
        /\ recorded' = recorded /\ metafield' = metafield /\ late' = late /\ faults' = faults
    BY <1>10 DEF Clear, Done, Goto
  <2>2. \A v \in Workers \ {w} : pc'[v] = pc[v] /\ token'[v] = token[v] /\ value'[v] = value[v]
    BY <1>10 DEF Clear, Done, Goto
  <2>3. WillCheck => WillCheck'
    BY <2>1, <2>2 DEF WillCheck
  <2>4. Clearing' => Clearing
    <3>1. CASE OwnMark(w)
      BY <2>1, <3>1 DEF OwnMark, Clearing
    <3>2. CASE ~OwnMark(w)
      <4>1. since' = since
        BY <1>10, <3>2 DEF Clear
      <4>2. QED BY <2>1, <2>2, <4>1 DEF Clearing
    <3>3. QED BY <3>1, <3>2
  <2>5. QED BY <1>0, <2>1, <2>3, <2>4 DEF Calm
<1>11. ASSUME NEW v \in late, Late(v) PROVE FALSE
  BY <1>0, <1>11 DEF Late, Calm
<1>12. CASE UNCHANGED usageVars
  BY <1>0, <1>12 DEF usageVars, Calm, Clearing, WillCheck
<1>13. QED
  BY <1>1, <1>2, <1>3, <1>4, <1>5, <1>6, <1>7, <1>8, <1>9, <1>10, <1>11, <1>12
     DEF UsageNext, Step, Trouble

\* Without failures the pushes of one customer, in whatever order they land,
\* leave the right counts behind.
THEOREM PushesConverge == UsageSpec => []SyncedWithoutFaults
<1>1. UsageInit => TypeInv /\ CalmInv
  BY UsageTypeInit, CalmInit
<1>2. TypeInv /\ CalmInv /\ [UsageNext]_usageVars => (TypeInv /\ CalmInv)'
  BY UsageTypeNext, CalmNext
<1>3. TypeInv /\ CalmInv => SyncedWithoutFaults
  BY DEF CalmInv, SyncedWithoutFaults, LostPushIsRetried, AtRest, Clearing, WillCheck
<1>4. QED BY <1>1, <1>2, <1>3, PTL DEF UsageSpec

-----------------------------------------------------------------------------
(* DefinitionsCache.                                                       *)

ReaderPhases == {"idle", "redis", "load", "keep", "share"}
ReaderType == [phase : ReaderPhases, on : SUBSET Instances, of : 0 .. version, left : 0 .. ReadTime]

LEMMA BoundIsNat == Bound \in Nat
  BY CacheAssumption DEF Bound

LEMMA DefinitionsTypeInit == DefinitionsInit => DefinitionsTypeOK
<1> SUFFICES ASSUME DefinitionsInit PROVE DefinitionsTypeOK
  OBVIOUS
<1>1. 0 \in 0 .. MaxVersion /\ 0 \in 0 .. MaxLapses /\ 0 \in 0 .. Bound + 1 /\ 0 \in 0 .. ReadTime
  BY CacheAssumption, BoundIsNat
<1>2. NoCopy \in Copies /\ NoCopy.ttl = 0 /\ 0 <= MemoryTtl /\ 0 <= RedisTtl
  BY CacheAssumption DEF DefinitionsInit, NoCopy, Copies
<1>3. NoReader \in ReaderType
  BY <1>1 DEF DefinitionsInit, NoReader, ReaderType, ReaderPhases
<1>4. QED BY <1>1, <1>2, <1>3 DEF DefinitionsInit, DefinitionsTypeOK, ReaderType, ReaderPhases

\* A request that has been served keeps the types.
LEMMA ServesTyped ==
  ASSUME DefinitionsTypeOK, NEW r \in Readers, NEW v \in 0 .. version, Serves(r, v),
         UNCHANGED <<version, outdated>>
  PROVE  served' \in 0 .. Bound + 1 /\ reader' \in [Readers -> ReaderType']
<1>1. v \in 0 .. MaxVersion
  BY CacheAssumption DEF DefinitionsTypeOK
<1>2. NoReader \in ReaderType
  BY CacheAssumption DEF DefinitionsTypeOK, NoReader, ReaderType, ReaderPhases
<1>3. QED BY <1>1, <1>2 DEF Serves, DefinitionsTypeOK, ReaderType, ReaderPhases

LEMMA DefinitionsTypeNext ==
  DefinitionsTypeOK /\ [DefinitionsNext]_definitionVars => DefinitionsTypeOK'
<1> SUFFICES ASSUME DefinitionsTypeOK, [DefinitionsNext]_definitionVars
             PROVE  DefinitionsTypeOK'
  OBVIOUS
<1> USE CacheAssumption, BoundIsNat DEF DefinitionsTypeOK, cacheCopies, Copies
<1>1. CASE WriteOffers
  <2>1. version' = version + 1 /\ version' \in 0 .. MaxVersion
    BY <1>1 DEF WriteOffers
  <2>2. 0 .. version \subseteq 0 .. version'
    BY <2>1
  <2>3. memory' \in [Instances -> Copies'] /\ shared' \in Copies'
    BY <1>1, <2>2 DEF WriteOffers
  <2>4. reader' \in [Readers -> ReaderType']
    BY <1>1, <2>2 DEF WriteOffers, ReaderType, ReaderPhases
  <2>5. raced' \in BOOLEAN
    BY <1>1 DEF WriteOffers
  <2>6. QED BY <1>1, <2>1, <2>3, <2>4, <2>5 DEF WriteOffers, ReaderType, ReaderPhases
<1>2. CASE SecondPasses
  <2>1. outdated' \in [0 .. MaxVersion -> 0 .. Bound + 1]
    BY <1>2, SMTT(30) DEF SecondPasses
  <2>2. ASSUME NEW copy \in Copies, NEW ttl \in Nat, copy.ttl <= ttl
        PROVE  Shorter(copy) \in Copies /\ Shorter(copy).ttl <= ttl
    <3>1. 0 \in 0 .. version /\ copy.ttl \in Nat
      OBVIOUS
    <3>2. CASE copy.ttl <= 1
      BY <3>1, <3>2 DEF Shorter, NoCopy
    <3>3. CASE ~(copy.ttl <= 1)
      <4>1. copy = [of |-> copy.of, ttl |-> copy.ttl] /\ copy.of \in 0 .. version
        OBVIOUS
      <4>2. Shorter(copy) = [of |-> copy.of, ttl |-> copy.ttl - 1]
        BY <3>3, <4>1 DEF Shorter
      <4>3. copy.ttl - 1 \in Nat /\ copy.ttl - 1 <= ttl
        BY <2>2, <3>1, <3>3
      <4>4. QED BY <4>1, <4>2, <4>3
    <3>4. QED BY <3>2, <3>3
  <2>3. memory' \in [Instances -> Copies] /\ \A n \in Instances : memory'[n].ttl <= MemoryTtl
    <3>1. ASSUME NEW n \in Instances
          PROVE  Shorter(memory[n]) \in Copies /\ Shorter(memory[n]).ttl <= MemoryTtl
      BY <2>2
    <3>2. QED BY <1>2, <3>1 DEF SecondPasses
  <2>4. shared' \in Copies /\ shared'.ttl <= RedisTtl
    BY <1>2, <2>2 DEF SecondPasses
  <2>5. reader' \in [Readers -> ReaderType]
    <3>1. ASSUME NEW r \in Readers, reader[r].left > 1
          PROVE  [reader[r] EXCEPT !.left = @ - 1] \in ReaderType
      <4>1. reader[r] \in ReaderType
        BY DEF ReaderType, ReaderPhases
      <4>2. reader[r].left - 1 \in 0 .. ReadTime
        BY <3>1, <4>1, SMTT(20) DEF ReaderType
      <4>3. QED BY <4>1, <4>2 DEF ReaderType
    <3>2. NoReader \in ReaderType
      BY DEF NoReader, ReaderType, ReaderPhases
    <3>4. ASSUME NEW r \in Readers PROVE reader'[r] \in ReaderType
      <4>1. reader[r] \in ReaderType /\ reader[r].left \in 0 .. ReadTime
        BY DEF ReaderType, ReaderPhases
      <4>2. CASE reader[r].left <= 1
        BY <1>2, <3>2, <4>2 DEF SecondPasses
      <4>3. CASE reader[r].left > 1
        BY <1>2, <3>1, <4>3, SMTT(30) DEF SecondPasses
      <4>4. QED BY <4>1, <4>2, <4>3
    <3>5. QED BY <1>2, <3>4 DEF SecondPasses
  <2>6. QED BY <1>2, <2>1, <2>3, <2>4, <2>5 DEF SecondPasses, ReaderType, ReaderPhases
<1>3. ASSUME NEW n \in Instances, Invalidate(n) PROVE DefinitionsTypeOK'
  <2>1. shared' \in Copies /\ shared'.ttl <= RedisTtl
    BY <1>3 DEF Invalidate, DropCopies, NoCopy
  <2>2. memory' \in [Instances -> Copies] /\ \A m \in Instances : memory'[m].ttl <= MemoryTtl
    BY <1>3 DEF Invalidate, NoCopy
  <2>3. lapses' \in 0 .. MaxLapses
    BY <1>3, SMTT(30) DEF Invalidate, DropCopies, Lapse
  <2>4. raced' \in BOOLEAN
    BY <1>3 DEF Invalidate, DropCopies
  <2>5. QED BY <1>3, <2>1, <2>2, <2>3, <2>4 DEF Invalidate
<1>4. ASSUME NEW r \in Readers, NEW n \in Instances, ReadMemory(r, n) PROVE DefinitionsTypeOK'
  <2>1. CASE memory[n].ttl > 0
    <3>1. memory[n].of \in 0 .. version
      OBVIOUS
    <3>2. QED BY <1>4, <2>1, <3>1, ServesTyped DEF ReadMemory, ReaderType, ReaderPhases
  <2>2. CASE ~(memory[n].ttl > 0)
    <3>1. PICK rest \in 1 .. ReadTime :
            reader' = [reader EXCEPT ![r] =
                         [phase |-> "redis", on |-> {n}, of |-> 0, left |-> rest]]
      BY <1>4, <2>2 DEF ReadMemory
    <3>2. [phase |-> "redis", on |-> {n}, of |-> 0, left |-> rest] \in ReaderType
      BY DEF ReaderType, ReaderPhases
    <3>3. QED BY <1>4, <2>2, <3>1, <3>2 DEF ReadMemory, ReaderType, ReaderPhases
  <2>3. QED BY <2>1, <2>2
<1>5. ASSUME NEW r \in Readers, ReadRedis(r) PROVE DefinitionsTypeOK'
  <2>1. CASE shared.ttl > 0 /\ Serves(r, shared.of) /\ UNCHANGED <<lapses, raced>>
             /\ memory' = [n \in Instances |->
                  IF n \in reader[r].on THEN InMemory(shared.of) ELSE memory[n]]
    <3>1. shared.of \in 0 .. version
      OBVIOUS
    <3>2. InMemory(shared.of) \in Copies /\ InMemory(shared.of).ttl <= MemoryTtl
      BY DEF InMemory
    <3>3. memory' \in [Instances -> Copies] /\ \A n \in Instances : memory'[n].ttl <= MemoryTtl
      BY <2>1, <3>2
    <3>4. QED BY <1>5, <2>1, <3>1, <3>3, ServesTyped DEF ReadRedis, ReaderType, ReaderPhases
  <2>2. CASE /\ (shared.ttl = 0 /\ UNCHANGED lapses) \/ Lapse
             /\ reader' = [reader EXCEPT ![r].phase = "load"]
             /\ UNCHANGED <<memory, served, raced>>
    <3>1. lapses' \in 0 .. MaxLapses
      BY <2>2, SMTT(30) DEF Lapse
    <3>2. QED BY <1>5, <2>2, <3>1, ZenonT(30) DEF ReadRedis
  <2>3. QED BY <1>5, <2>1, <2>2 DEF ReadRedis
<1>6. ASSUME NEW r \in Readers, Load(r) PROVE DefinitionsTypeOK'
  <2>1. version \in 0 .. version
    OBVIOUS
  <2>2. [reader[r] EXCEPT !.phase = "keep", !.of = version] \in ReaderType
    BY <2>1 DEF ReaderType, ReaderPhases
  <2>3. reader' \in [Readers -> ReaderType]
    BY <1>6, <2>2 DEF Load, ReaderType, ReaderPhases
  <2>4. QED BY <1>6, <2>3 DEF Load, ReaderType, ReaderPhases
<1>7. ASSUME NEW r \in Readers, Keep(r) PROVE DefinitionsTypeOK'
  <2>1. InMemory(reader[r].of) \in Copies /\ InMemory(reader[r].of).ttl <= MemoryTtl
    BY DEF InMemory
  <2>2. memory' \in [Instances -> Copies] /\ \A n \in Instances : memory'[n].ttl <= MemoryTtl
    BY <1>7, <2>1 DEF Keep
  <2>3. QED BY <1>7, <2>2, ZenonT(30) DEF Keep
<1>8. ASSUME NEW r \in Readers, Share(r) PROVE DefinitionsTypeOK'
  <2>1. reader[r].of \in 0 .. version
    OBVIOUS
  <2>2. shared' \in Copies /\ shared'.ttl <= RedisTtl /\ lapses' \in 0 .. MaxLapses
    BY <1>8, <2>1, SMTT(30) DEF Share, Lapse
  <2>3. QED BY <1>8, <2>1, <2>2, ServesTyped DEF Share, ReaderType, ReaderPhases
<1>9. CASE UNCHANGED definitionVars
  BY <1>9 DEF definitionVars
<1>10. QED
  BY <1>1, <1>2, <1>3, <1>4, <1>5, <1>6, <1>7, <1>8, <1>9 DEF DefinitionsNext

\* DefinitionsTypeOK is an invariant: whatever the times to live, every copy is
\* a version that existed and lives no longer than its level allows.
THEOREM DefinitionsTypeCorrect == DefinitionsSpec => []DefinitionsTypeOK
<1>1. QED BY DefinitionsTypeInit, DefinitionsTypeNext, PTL DEF DefinitionsSpec

-----------------------------------------------------------------------------
(* How old an answer may be.                                               *)

\* What a request has loaded, what Redis and what an instance keep is as old at
\* most as the time that has gone by since, each on top of the one before it.
FreshInv ==
  /\ \A r \in Readers : reader[r].phase \in {"keep", "share"}
        => outdated[reader[r].of] + reader[r].left <= ReadTime
  /\ \A r \in Readers : reader[r].phase # "idle" => reader[r].left > 0
  /\ shared.ttl > 0 => outdated[shared.of] + shared.ttl <= (ReadTime - 1) + RedisTtl
  /\ \A n \in Instances : memory[n].ttl > 0
        => outdated[memory[n].of] + memory[n].ttl <= Bound + 1
  /\ outdated[version] = 0 /\ \A v \in 0 .. MaxVersion : v > version => outdated[v] = 0
  /\ StalenessBounded

\* The numbers that FreshInv adds and compares.
LEMMA Numbers ==
  ASSUME DefinitionsTypeOK
  PROVE  /\ \A v \in 0 .. MaxVersion : outdated[v] \in Nat
         /\ \A r \in Readers : reader[r].of \in 0 .. MaxVersion /\ reader[r].left \in Nat
         /\ \A n \in Instances : memory[n].of \in 0 .. MaxVersion /\ memory[n].ttl \in Nat
         /\ shared.of \in 0 .. MaxVersion /\ shared.ttl \in Nat /\ version \in 0 .. MaxVersion
<1>1. version \in 0 .. MaxVersion /\ 0 .. version \subseteq 0 .. MaxVersion
  BY CacheAssumption DEF DefinitionsTypeOK
<1>2. \A v \in 0 .. MaxVersion : outdated[v] \in Nat
  BY BoundIsNat DEF DefinitionsTypeOK
<1>3. \A r \in Readers : reader[r].of \in 0 .. version /\ reader[r].left \in 0 .. ReadTime
  BY DEF DefinitionsTypeOK
<1>4. \A n \in Instances : memory[n].of \in 0 .. version /\ memory[n].ttl \in Nat
  BY DEF DefinitionsTypeOK, Copies
<1>5. shared.of \in 0 .. version /\ shared.ttl \in Nat
  BY DEF DefinitionsTypeOK, Copies
<1>6. QED BY <1>1, <1>2, <1>3, <1>4, <1>5

LEMMA FreshInit == DefinitionsInit => FreshInv
<1>1. Bound \in Nat /\ 0 \in 0 .. MaxVersion
  BY CacheAssumption, BoundIsNat
<1>2. QED BY <1>1 DEF DefinitionsInit, FreshInv, StalenessBounded, NoReader, NoCopy

LEMMA FreshNext ==
  DefinitionsTypeOK /\ FreshInv /\ [DefinitionsNext]_definitionVars => FreshInv'
<1> SUFFICES ASSUME DefinitionsTypeOK, FreshInv, [DefinitionsNext]_definitionVars
             PROVE  FreshInv'
  OBVIOUS
<1> USE CacheAssumption, BoundIsNat DEF DefinitionsTypeOK, cacheCopies, Copies, FreshInv,
        StalenessBounded
<1>1. CASE WriteOffers
  BY <1>1 DEF WriteOffers
<1>2. CASE SecondPasses
  <2>1. /\ \A v \in 0 .. MaxVersion : /\ outdated'[v] <= outdated[v] + 1 /\ outdated'[v] \in Nat
                                      /\ v >= version => outdated'[v] = outdated[v]
        /\ version' = version /\ served' = served
    <3>1. /\ version' = version /\ served' = served
          /\ outdated' = [v \in 0 .. MaxVersion |->
               IF v < version /\ outdated[v] <= Bound THEN outdated[v] + 1 ELSE outdated[v]]
      BY <1>2 DEF SecondPasses
    <3>2. ASSUME NEW v \in 0 .. MaxVersion
          PROVE  /\ outdated'[v] <= outdated[v] + 1 /\ outdated'[v] \in Nat
                 /\ v >= version => outdated'[v] = outdated[v]
      <4>1. outdated[v] \in Nat /\ version \in Nat /\ v \in Nat
        BY Numbers
      <4>2. CASE v < version /\ outdated[v] <= Bound
        BY <3>1, <4>1, <4>2
      <4>3. CASE ~(v < version /\ outdated[v] <= Bound)
        BY <3>1, <4>1, <4>3
      <4>4. QED BY <4>2, <4>3
    <3>3. QED BY <3>1, <3>2
  <2>2. ASSUME NEW r \in Readers, reader'[r].phase # "idle"
        PROVE  /\ reader[r].phase = reader'[r].phase /\ reader'[r].of = reader[r].of
               /\ reader'[r].left = reader[r].left - 1 /\ reader[r].left > 1
    BY <1>2, <2>2, SMTT(30) DEF SecondPasses, NoReader
  <2>3. \A r \in Readers : reader'[r].phase \in {"keep", "share"}
           => outdated'[reader'[r].of] + reader'[r].left <= ReadTime
    <3>1. SUFFICES ASSUME NEW r \in Readers, reader'[r].phase \in {"keep", "share"}
                   PROVE  outdated'[reader'[r].of] + reader'[r].left <= ReadTime
      OBVIOUS
    <3>2. /\ reader[r].phase \in {"keep", "share"} /\ reader'[r].of = reader[r].of
          /\ reader'[r].left = reader[r].left - 1
      BY <2>2, <3>1
    <3>3. outdated[reader[r].of] + reader[r].left <= ReadTime
      BY <3>2
    <3>4. /\ reader[r].of \in 0 .. MaxVersion /\ reader[r].left \in Nat
          /\ outdated[reader[r].of] \in Nat
      BY Numbers
    <3>5. /\ outdated'[reader[r].of] <= outdated[reader[r].of] + 1
          /\ outdated'[reader[r].of] \in Nat
      BY <2>1, <3>4
    <3>6. QED BY <3>2, <3>3, <3>4, <3>5, SMTT(30)
  <2>4. \A r \in Readers : reader'[r].phase # "idle" => reader'[r].left > 0
    BY <2>2
  <2>5. shared'.ttl > 0 => outdated'[shared'.of] + shared'.ttl <= (ReadTime - 1) + RedisTtl
    <3>1. SUFFICES ASSUME shared'.ttl > 0
                   PROVE  outdated'[shared'.of] + shared'.ttl <= (ReadTime - 1) + RedisTtl
      OBVIOUS
    <3>2. shared'.of = shared.of /\ shared'.ttl = shared.ttl - 1 /\ shared.ttl > 1
      BY <1>2, <3>1 DEF SecondPasses, Shorter, NoCopy
    <3>3. shared.of \in 0 .. MaxVersion /\ shared.ttl \in Nat /\ outdated[shared.of] \in Nat
      BY Numbers
    <3>4. outdated'[shared.of] <= outdated[shared.of] + 1 /\ outdated'[shared.of] \in Nat
      BY <2>1, <3>3
    <3>5. QED BY <3>2, <3>3, <3>4, SMTT(30)
  <2>6. ASSUME NEW n \in Instances, memory'[n].ttl > 0
        PROVE  outdated'[memory'[n].of] + memory'[n].ttl <= Bound + 1
    <3>1. memory'[n].of = memory[n].of /\ memory'[n].ttl = memory[n].ttl - 1 /\ memory[n].ttl > 1
      BY <1>2, <2>6, SMTT(20) DEF SecondPasses, Shorter, NoCopy
    <3>2. /\ memory[n].of \in 0 .. MaxVersion /\ memory[n].ttl \in Nat
          /\ outdated[memory[n].of] \in Nat
      BY Numbers
    <3>3. outdated'[memory[n].of] <= outdated[memory[n].of] + 1 /\ outdated'[memory[n].of] \in Nat
      BY <2>1, <3>2
    <3>4. outdated[memory[n].of] + memory[n].ttl <= Bound + 1
      <4>1. \A m \in Instances : memory[m].ttl > 0
               => outdated[memory[m].of] + memory[m].ttl <= Bound + 1
        BY Zenon
      <4>2. memory[n].ttl > 0
        BY <3>1, <3>2
      <4>3. QED BY <4>1, <4>2, Zenon
    <3>5. memory'[n].of = memory[n].of /\ memory'[n].ttl = memory[n].ttl - 1
      BY <3>1
    <3>6. outdated'[memory[n].of] + (memory[n].ttl - 1) <= Bound + 1
      BY <3>2, <3>3, <3>4, BoundIsNat, SMTT(30)
    <3>7. QED BY <3>5, <3>6
  <2>7. /\ outdated'[version'] = 0
        /\ \A v \in 0 .. MaxVersion : v > version' => outdated'[v] = 0
    BY <2>1, SMTT(20)
  <2>8. QED BY <2>1, <2>3, <2>4, <2>5, <2>6, <2>7
<1>3. ASSUME NEW n \in Instances, Invalidate(n) PROVE FreshInv'
  BY <1>3 DEF Invalidate, DropCopies, NoCopy
<1>4. ASSUME NEW r \in Readers, NEW n \in Instances, ReadMemory(r, n) PROVE FreshInv'
  <2>1. CASE memory[n].ttl > 0
    <3>1. outdated[memory[n].of] \in Nat /\ outdated[memory[n].of] <= Bound
      BY <2>1, Numbers, SMTT(30)
    <3>2. \A q \in Readers \ {r} : reader'[q] = reader[q]
      BY <1>4, <2>1 DEF ReadMemory, Serves
    <3>3. reader'[r] = NoReader /\ served' = outdated[memory[n].of]
      BY <1>4, <2>1 DEF ReadMemory, Serves
    <3>4. \A q \in Readers : reader'[q].phase # "idle" => reader'[q] = reader[q]
      BY <3>2, <3>3, SMTT(20) DEF NoReader
    <3>5. QED BY <1>4, <3>1, <3>3, <3>4 DEF ReadMemory
  <2>2. CASE ~(memory[n].ttl > 0)
    <3>1. PICK rest \in 1 .. ReadTime :
            reader' = [reader EXCEPT ![r] =
                         [phase |-> "redis", on |-> {n}, of |-> 0, left |-> rest]]
      BY <1>4, <2>2 DEF ReadMemory
    <3>2. \A q \in Readers : \/ reader'[q] = reader[q]
                             \/ reader'[q].phase = "redis" /\ reader'[q].left > 0
      BY <3>1
    <3>3. UNCHANGED <<outdated, shared, memory, version, served>>
      BY <1>4, <2>2 DEF ReadMemory
    <3>4. QED BY <3>2, <3>3
  <2>3. QED BY <2>1, <2>2
<1>5. ASSUME NEW r \in Readers, ReadRedis(r) PROVE FreshInv'
  <2>1. CASE shared.ttl > 0 /\ Serves(r, shared.of) /\ UNCHANGED <<lapses, raced>>
             /\ memory' = [n \in Instances |->
                  IF n \in reader[r].on THEN InMemory(shared.of) ELSE memory[n]]
    <3>1. outdated[shared.of] \in Nat /\ outdated[shared.of] <= (ReadTime - 1) + (RedisTtl - 1)
      BY <2>1, SMTT(20)
    <3>2. outdated[shared.of] <= Bound /\ outdated[shared.of] + MemoryTtl <= Bound + 1
      BY <3>1, SMTT(20) DEF Bound
    <3>3. \A n \in Instances : memory'[n].ttl > 0
             => outdated[memory'[n].of] + memory'[n].ttl <= Bound + 1
      BY <2>1, <3>2 DEF InMemory
    <3>4. QED BY <1>5, <2>1, <3>2, <3>3 DEF ReadRedis, Serves, NoReader
  <2>2. CASE /\ (shared.ttl = 0 /\ UNCHANGED lapses) \/ Lapse
             /\ reader' = [reader EXCEPT ![r].phase = "load"]
             /\ UNCHANGED <<memory, served, raced>>
    BY <1>5, <2>2 DEF ReadRedis
  <2>3. QED BY <1>5, <2>1, <2>2 DEF ReadRedis
<1>6. ASSUME NEW r \in Readers, Load(r) PROVE FreshInv'
  <2>1. \A q \in Readers \ {r} : reader'[q] = reader[q]
    BY <1>6 DEF Load
  <2>2. reader'[r].of = version /\ reader'[r].left = reader[r].left /\ reader[r].left > 0
    BY <1>6 DEF Load
  <2>3. outdated[version] + reader[r].left <= ReadTime
    OBVIOUS
  <2>4. QED BY <1>6, <2>1, <2>2, <2>3 DEF Load
<1>7. ASSUME NEW r \in Readers, Keep(r) PROVE FreshInv'
  <2>1. outdated[reader[r].of] \in Nat /\ outdated[reader[r].of] <= ReadTime - 1
    <3>1. reader[r].phase \in {"keep", "share"}
      BY <1>7 DEF Keep
    <3>2. outdated[reader[r].of] + reader[r].left <= ReadTime /\ reader[r].left > 0
      BY <3>1
    <3>3. outdated[reader[r].of] \in Nat /\ reader[r].left \in Nat
      BY Numbers
    <3>4. QED BY <3>2, <3>3, SMTT(20)
  <2>2. outdated[reader[r].of] + MemoryTtl <= Bound + 1
    BY <2>1, SMTT(20) DEF Bound
  <2>3. \A n \in Instances : memory'[n].ttl > 0
           => outdated[memory'[n].of] + memory'[n].ttl <= Bound + 1
    BY <1>7, <2>2 DEF Keep, InMemory
  <2>4. QED BY <1>7, <2>3, SMTT(30) DEF Keep
<1>8. ASSUME NEW r \in Readers, Share(r) PROVE FreshInv'
  <2>1. outdated[reader[r].of] \in Nat /\ outdated[reader[r].of] <= ReadTime - 1
    <3>1. reader[r].phase \in {"keep", "share"}
      BY <1>8 DEF Share
    <3>2. outdated[reader[r].of] + reader[r].left <= ReadTime /\ reader[r].left > 0
      BY <3>1
    <3>3. outdated[reader[r].of] \in Nat /\ reader[r].left \in Nat
      BY Numbers
    <3>4. QED BY <3>2, <3>3
  <2>2. outdated[reader[r].of] <= Bound
    BY <2>1 DEF Bound
  <2>3. shared'.ttl > 0 => outdated[shared'.of] + shared'.ttl <= (ReadTime - 1) + RedisTtl
    BY <1>8, <2>1, SMTT(30) DEF Share
  <2>4. QED BY <1>8, <2>2, <2>3 DEF Share, Serves, NoReader
<1>9. CASE UNCHANGED definitionVars
  BY <1>9 DEF definitionVars
<1>10. QED
  BY <1>1, <1>2, <1>3, <1>4, <1>5, <1>6, <1>7, <1>8, <1>9 DEF DefinitionsNext

\* StalenessBounded: no request is served offers that were changed more than a
\* slow load and the two times to live ago, whatever was never invalidated.
THEOREM NothingOlderServed == DefinitionsSpec => []StalenessBounded
<1>1. FreshInv => StalenessBounded
  BY DEF FreshInv
<1>2. QED BY <1>1, FreshInit, FreshNext, DefinitionsTypeCorrect, PTL DEF DefinitionsSpec

-----------------------------------------------------------------------------
(* Invalidation.                                                           *)

\* Without a race, what a request has loaded is the current version.
CurrentInv ==
  ~raced => /\ \A r \in Readers : reader[r].phase \in {"keep", "share"} => reader[r].of = version
            /\ change = "done" /\ shared.ttl > 0 => shared.of = version

LEMMA CurrentNext ==
  DefinitionsTypeOK /\ CurrentInv /\ [DefinitionsNext]_definitionVars => CurrentInv'
<1> SUFFICES ASSUME DefinitionsTypeOK, CurrentInv, [DefinitionsNext]_definitionVars
             PROVE  CurrentInv'
  OBVIOUS
<1> USE CacheAssumption DEF DefinitionsTypeOK, cacheCopies, Copies, CurrentInv
<1>1. CASE WriteOffers
  <2>1. /\ reader' = reader /\ change' = "written"
        /\ ~raced' => \A r \in Readers : reader[r].phase \notin {"keep", "share"}
    BY <1>1 DEF WriteOffers, Loading
  <2>2. QED BY <2>1
<1>2. CASE SecondPasses
  <2>1. \A r \in Readers : reader'[r].phase \in {"keep", "share"}
           => reader[r].phase = reader'[r].phase /\ reader'[r].of = reader[r].of
    BY <1>2 DEF SecondPasses, NoReader
  <2>2. shared'.ttl > 0 => shared.ttl > 0 /\ shared'.of = shared.of
    BY <1>2 DEF SecondPasses, Shorter, NoCopy
  <2>3. QED BY <1>2, <2>1, <2>2 DEF SecondPasses
<1>3. ASSUME NEW n \in Instances, Invalidate(n) PROVE CurrentInv'
  BY <1>3 DEF Invalidate, DropCopies, NoCopy
<1>4. ASSUME NEW r \in Readers, NEW n \in Instances, ReadMemory(r, n) PROVE CurrentInv'
  <2>1. \A q \in Readers : \/ reader'[q] = reader[q]
                           \/ reader'[q].phase \in {"idle", "redis"}
    BY <1>4, SMTT(30) DEF ReadMemory, Serves, NoReader
  <2>2. QED BY <1>4, <2>1 DEF ReadMemory
<1>5. ASSUME NEW r \in Readers, ReadRedis(r) PROVE CurrentInv'
  <2>1. \A q \in Readers : \/ reader'[q] = reader[q]
                           \/ reader'[q].phase \in {"idle", "load"}
    BY <1>5 DEF ReadRedis, Serves, NoReader
  <2>2. UNCHANGED <<version, shared, change, raced>>
    BY <1>5 DEF ReadRedis
  <2>3. QED BY <2>1, <2>2
<1>6. ASSUME NEW r \in Readers, Load(r) \/ Keep(r) PROVE CurrentInv'
  <2>1. \A q \in Readers : reader'[q].phase \in {"keep", "share"} =>
           \/ reader'[q].of = version
           \/ reader[q].phase = "keep" /\ reader'[q].of = reader[q].of
           \/ reader'[q] = reader[q]
    BY <1>6, SMTT(20) DEF Load, Keep
  <2>2. UNCHANGED <<version, shared, change, raced>>
    BY <1>6 DEF Load, Keep
  <2>3. QED BY <2>1, <2>2
<1>7. ASSUME NEW r \in Readers, Share(r) PROVE CurrentInv'
  BY <1>7 DEF Share, Serves, NoReader
<1>8. CASE UNCHANGED definitionVars
  BY <1>8 DEF definitionVars
<1>9. QED BY <1>1, <1>2, <1>3, <1>4, <1>5, <1>6, <1>7, <1>8 DEF DefinitionsNext

\* InvalidationHolds: unless a load overlapped the change or a call failed, the
\* copy in Redis is never older than the last change that was published.
THEOREM RedisIsCurrent == DefinitionsSpec => []InvalidationHolds
<1>1. DefinitionsInit => CurrentInv
  BY DEF DefinitionsInit, CurrentInv, NoReader, NoCopy
<1>2. CurrentInv => InvalidationHolds
  BY DEF CurrentInv, InvalidationHolds
<1>3. QED BY <1>1, <1>2, CurrentNext, DefinitionsTypeCorrect, PTL DEF DefinitionsSpec

-----------------------------------------------------------------------------
(* StorefrontRuntime: the evaluation at the head of the chain.             *)

\* The evaluations, and what every one of them keeps to: only one that acts has
\* an action.
RunPhases == {"none", "cart", "compare", "ask", "act", "applied"}
Actions == {"none", "add", "shrink", "remove"}
Evaluations ==
  [phase : RunPhases, aborted : BOOLEAN, snap : SUBSET Carts,
   action : Actions, done : BOOLEAN]

\* eval is a record of an evaluation, and only one that acts has an action.
RunOK == /\ eval \in Evaluations
         /\ eval.phase \in {"compare", "ask", "act", "applied"} <=> eval.snap # {}
         /\ eval.phase \notin {"act", "applied"} => eval.action = "none" /\ ~eval.done

\* The page, the cart and the history.
PageOK ==
  /\ cart \in Carts /\ timer \in BOOLEAN /\ retry \in BOOLEAN
  /\ retries \in 0 .. MaxRateRetries /\ waiting \in BOOLEAN
  /\ lastHash \subseteq Carts
  /\ known \in {"none", "gift", "no gift"} /\ knownPaid \subseteq Lines
  /\ seen \in BOOLEAN /\ addedAt \in {"unset", "recent", "before"} /\ declined \in BOOLEAN
  /\ turns \in 0 .. MaxTurns /\ glitches \in 0 .. MaxGlitches
  /\ left \in BOOLEAN /\ stale \in BOOLEAN /\ refused \in BOOLEAN

StoreTyped == RunOK /\ PageOK

LEMMA NoRunTyped == NoRun \in Evaluations /\ NoRun.phase = "none" /\ NoRun.snap = {}
                    /\ NoRun.action = "none" /\ ~NoRun.done
  BY DEF NoRun, Evaluations, RunPhases, Actions

LEMMA SnapTyped ==
  ASSUME StoreTyped, eval.snap # {}
  PROVE  /\ Snap \in eval.snap /\ Snap \in Carts
         /\ Snap.paid \in SUBSET Lines /\ Snap.gift \in 0 .. 2
<1>1. Snap \in eval.snap
  BY DEF Snap
<1>2. Snap \in Carts
  BY <1>1 DEF StoreTyped, RunOK, Evaluations
<1>3. QED BY <1>1, <1>2 DEF Carts

LEMMA SameSnap == ASSUME eval'.snap = eval.snap PROVE Snap' = Snap /\ HasGift' = HasGift
  BY DEF Snap, HasGift

\* What a request does to the cart.
LEMMA ActEffect ==
  ASSUME NEW c \in Carts, NEW action
  PROVE  /\ Act(action, c) \in Carts /\ Act(action, c).paid = c.paid
         /\ action = "add" => Act(action, c).gift > 0
         /\ action # "add" /\ c.gift = 0 => Act(action, c).gift = 0
         /\ action # "remove" /\ c.gift > 0 => Act(action, c).gift > 0
<1> USE DEF Act, Carts
<1>1. c.gift \in 0 .. 2 /\ c.paid \in SUBSET Lines
  OBVIOUS
<1>2. CASE action = "add" /\ c.gift < 2
  <2>1. Act(action, c) = [c EXCEPT !.gift = c.gift + 1] /\ c.gift + 1 \in 1 .. 2
    BY <1>1, <1>2
  <2>2. QED BY <1>2, <2>1
<1>3. CASE action = "shrink" /\ c.gift > 0
  <2>1. Act(action, c) = [c EXCEPT !.gift = 1]
    BY <1>3
  <2>2. QED BY <1>3, <2>1
<1>4. CASE action = "remove"
  <2>1. Act(action, c) = [c EXCEPT !.gift = 0]
    BY <1>4
  <2>2. QED BY <1>4, <2>1
<1>5. CASE ~(action = "add" /\ c.gift < 2) /\ ~(action = "shrink" /\ c.gift > 0)
           /\ action # "remove"
  <2>1. Act(action, c) = c
    BY <1>5
  <2>2. QED BY <1>1, <1>5, <2>1
<1>6. QED BY <1>2, <1>3, <1>4, <1>5

\* What an answer asks for.
LEMMA AnswerEffect ==
  ASSUME StoreTyped, eval.snap # {}
  PROVE  /\ CartAction \in Actions
         /\ CartAction = "add" => ~HasGift /\ ~declined /\ Qualifies(Snap)
         /\ CartAction = "remove" => ~Qualifies(Snap)
<1>1. Snap.gift \in 0 .. 2
  BY SnapTyped
<1>2. CASE ~Qualifies(Snap)
  BY <1>2 DEF CartAction, Actions
<1>3. CASE Qualifies(Snap) /\ declined
  BY <1>3 DEF CartAction, Actions
<1>4. CASE Qualifies(Snap) /\ ~declined
  <2>1. CartAction = CASE Snap.gift = 0 -> "add" [] Snap.gift = 1 -> "none" [] OTHER -> "shrink"
    BY <1>4 DEF CartAction
  <2>2. CASE Snap.gift = 0
    BY <1>4, <2>1, <2>2 DEF Actions, HasGift
  <2>3. CASE Snap.gift = 1
    BY <2>1, <2>3 DEF Actions
  <2>4. CASE Snap.gift # 0 /\ Snap.gift # 1
    BY <2>1, <2>4 DEF Actions
  <2>5. QED BY <2>2, <2>3, <2>4
<1>5. QED BY <1>2, <1>3, <1>4

\* A trigger marks the run, and changes nothing else of it.
LEMMA TriggerEffect ==
  ASSUME eval \in Evaluations, Trigger
  PROVE  /\ eval' \in Evaluations /\ eval'.phase = eval.phase /\ eval'.snap = eval.snap
         /\ eval'.action = eval.action /\ eval'.done = eval.done
         /\ eval'.aborted = (eval.phase # "none") /\ waiting' = TRUE /\ retry' = FALSE
<1>1. (eval.phase # "none") \in BOOLEAN
  OBVIOUS
<1>2. QED BY <1>1 DEF Trigger, Evaluations

\* The run goes on to a phase that has seen the cart.
LEMMA PhaseMoves ==
  ASSUME eval \in Evaluations, NEW p \in RunPhases, eval' = [eval EXCEPT !.phase = p]
  PROVE  /\ eval' \in Evaluations /\ eval'.phase = p /\ eval'.snap = eval.snap
         /\ eval'.action = eval.action /\ eval'.done = eval.done
         /\ eval'.aborted = eval.aborted
  BY DEF Evaluations

-----------------------------------------------------------------------------
(* The types.                                                              *)

LEMMA StoreTypeInit == StorefrontInit => StoreTyped
<1> SUFFICES ASSUME StorefrontInit PROVE StoreTyped
  OBVIOUS
<1>1. cart \in Carts
  BY DEF StorefrontInit, Carts
<1>2. waiting \in BOOLEAN
  BY DEF StorefrontInit, FirstLook
<1>3. 0 \in 0 .. MaxTurns /\ 0 \in 0 .. MaxRateRetries /\ 0 \in 0 .. MaxGlitches
  BY StorefrontAssumption
<1>4. RunOK
  BY NoRunTyped DEF StorefrontInit, RunOK
<1>5. PageOK
  BY <1>1, <1>2, <1>3 DEF StorefrontInit, PageOK
<1>6. QED BY <1>4, <1>5 DEF StoreTyped

LEMMA TurnCounted == ASSUME StoreTyped, turns < MaxTurns PROVE turns + 1 \in 0 .. MaxTurns
<1>1. turns \in 0 .. MaxTurns
  BY DEF StoreTyped, RunOK, PageOK
<1>2. QED BY <1>1, StorefrontAssumption

LEMMA GlitchCounted ==
  ASSUME StoreTyped, Glitch PROVE glitches' \in 0 .. MaxGlitches /\ glitches' > 0
<1>1. glitches \in 0 .. MaxGlitches
  BY DEF StoreTyped, RunOK, PageOK
<1>2. QED BY <1>1, StorefrontAssumption DEF Glitch

\* What the shopper does to the cart, and what the timers do.
LEMMA ShopperTyped ==
  ASSUME StoreTyped,
         (\E l \in Lines : AddPaid(l) \/ RemovePaid(l)) \/ RaiseGift \/ RemoveGift \/ ClearCart
  PROVE  StoreTyped'
<1> USE DEF memoryVars
<1>1. eval' \in Evaluations /\ eval'.phase = eval.phase /\ eval'.snap = eval.snap
      /\ eval'.action = eval.action /\ eval'.done = eval.done
      /\ waiting' \in BOOLEAN /\ retry' \in BOOLEAN /\ timer' \in BOOLEAN
  BY TriggerEffect DEF StoreTyped, RunOK, PageOK, AddPaid, RemovePaid, RaiseGift,
     RemoveGift, ClearCart, Debounced
<1>2. turns' \in 0 .. MaxTurns /\ UNCHANGED <<retries, memoryVars, glitches, stale>>
  BY TurnCounted DEF AddPaid, RemovePaid, RaiseGift, RemoveGift, ClearCart, Turn
<1>3. left' \in BOOLEAN /\ refused' \in BOOLEAN
  BY DEF AddPaid, RemovePaid, RaiseGift, RemoveGift, ClearCart, Turn, StoreTyped, RunOK, PageOK
<1>4. cart' \in Carts
  <2>1. cart \in Carts
    BY DEF StoreTyped, PageOK
  <2>2. ASSUME NEW P \in SUBSET Lines PROVE [cart EXCEPT !.paid = P] \in Carts
    BY <2>1 DEF Carts
  <2>3. ASSUME NEW l \in Lines, AddPaid(l) \/ RemovePaid(l) PROVE cart' \in Carts
    <3>1. cart.paid \in SUBSET Lines
      BY <2>1 DEF Carts
    <3>2. cart' = [cart EXCEPT !.paid = cart.paid \cup {l}]
          \/ cart' = [cart EXCEPT !.paid = cart.paid \ {l}]
      BY <2>3 DEF AddPaid, RemovePaid, Turn
    <3>3. cart.paid \cup {l} \in SUBSET Lines /\ cart.paid \ {l} \in SUBSET Lines
      BY <3>1
    <3>4. QED BY <2>2, <3>2, <3>3
  <2>4. CASE RaiseGift \/ RemoveGift \/ ClearCart
    BY <2>1, <2>4 DEF RaiseGift, RemoveGift, ClearCart, Turn, Carts
  <2>5. QED BY <2>3, <2>4
<1>5. QED BY <1>1, <1>2, <1>3, <1>4 DEF StoreTyped, RunOK, PageOK

LEMMA OpenPageTyped == ASSUME StoreTyped, OpenPage PROVE StoreTyped'
<1>1. cart' \in Carts
  BY ActEffect DEF OpenPage, StoreTyped, RunOK, PageOK
<1>2. waiting' \in BOOLEAN
  BY DEF OpenPage, FirstLook
<1>3. turns' \in 0 .. MaxTurns /\ 0 \in 0 .. MaxRateRetries
  BY TurnCounted, StorefrontAssumption DEF OpenPage
<1>4. eval' = NoRun
  BY DEF OpenPage
<1>5. RunOK'
  BY <1>4, NoRunTyped DEF RunOK
<1>6. PageOK'
  BY <1>1, <1>2, <1>3 DEF OpenPage, StoreTyped, PageOK
<1>7. QED BY <1>5, <1>6 DEF StoreTyped

LEMMA TimerTyped == ASSUME StoreTyped, FireTimer \/ FireRetry \/ GraceEnds PROVE StoreTyped'
<1>1. CASE FireTimer \/ FireRetry
  <2>1. /\ eval' \in Evaluations /\ eval'.phase = eval.phase /\ eval'.snap = eval.snap
        /\ eval'.action = eval.action /\ eval'.done = eval.done
        /\ waiting' = TRUE /\ retry' = FALSE
    BY <1>1, TriggerEffect DEF FireTimer, FireRetry, StoreTyped, RunOK
  <2>2. timer' \in BOOLEAN
    BY <1>1 DEF FireTimer, FireRetry, StoreTyped, RunOK, PageOK
  <2>3. QED BY <1>1, <2>1, <2>2, ZenonT(30)
       DEF FireTimer, FireRetry, memoryVars, historyVars, StoreTyped, RunOK, PageOK, Evaluations
<1>2. CASE GraceEnds
  <2>1. UNCHANGED eval
    BY <1>2 DEF GraceEnds, chainVars
  <2>2. RunOK'
    BY <2>1 DEF StoreTyped, RunOK
  <2>3. PageOK'
    BY <1>2 DEF GraceEnds, StoreTyped, PageOK, chainVars, historyVars
  <2>4. QED BY <2>2, <2>3 DEF StoreTyped
<1>3. QED BY <1>1, <1>2

\* An answer shows the paid lines as they are; it misses a gift only right
\* after the page added it.
LEMMA FetchCartEffect ==
  ASSUME StoreTyped, NEW c \in Fetched
  PROVE  /\ c \in Carts /\ c.paid = cart.paid
         /\ c = cart \/ (c.gift = 0 /\ addedAt = "recent")
<1>1. cart \in Carts
  BY DEF StoreTyped, PageOK
<1>2. CASE c = cart
  BY <1>1, <1>2
<1>3. CASE c # cart
  <2>1. c = [cart EXCEPT !.gift = 0] /\ addedAt = "recent"
    BY <1>3 DEF Fetched
  <2>2. QED BY <1>1, <2>1 DEF Carts
<1>4. QED BY <1>2, <1>3

\* What a step of the run leaves in eval.
LEMMA RunTyped ==
  ASSUME StoreTyped, StartRun \/ FetchCart \/ Compare \/ AnswerArrives \/ NoAnswer
                     \/ RateLimited \/ ApplyAction \/ EndOfRun
  PROVE  RunOK'
<1> USE DEF RunPhases, RunOK
<1>1. CASE eval' = NoRun
  BY <1>1, NoRunTyped
<1>2. CASE StartRun
  BY <1>2 DEF StartRun, NoRun, Evaluations, Actions
<1>3. CASE FetchCart
  <2>1. SUFFICES ASSUME NEW c \in Fetched, eval' = [eval EXCEPT !.phase = "compare", !.snap = {c}]
                 PROVE  /\ eval' \in Evaluations /\ eval'.phase = "compare" /\ eval'.snap # {}
                        /\ eval'.action = "none" /\ ~eval'.done
    BY <1>1, <1>3 DEF FetchCart, EndRun
  <2>2. c \in Carts
    BY <2>1, FetchCartEffect
  <2>3. QED BY <1>3, <2>1, <2>2 DEF FetchCart, StoreTyped, Evaluations
<1>4. CASE Compare
  BY <1>1, <1>4, PhaseMoves DEF Compare, EndRun, StoreTyped, RunOK, PageOK
<1>5. CASE AnswerArrives
  <2>1. eval.snap # {} /\ eval \in Evaluations
    BY <1>5 DEF AnswerArrives, StoreTyped, RunOK, PageOK
  <2>2. CartAction \in Actions
    BY <2>1, AnswerEffect
  <2>3. eval' = [eval EXCEPT !.phase = "act", !.action = CartAction]
    BY <1>5 DEF AnswerArrives
  <2>4. QED BY <2>1, <2>2, <2>3 DEF Evaluations
<1>6. CASE NoAnswer \/ RateLimited \/ EndOfRun
  BY <1>1, <1>6 DEF NoAnswer, RateLimited, EndOfRun, EndRun
<1>7. CASE ApplyAction
  <2>1. eval.snap # {} /\ eval \in Evaluations
    BY <1>7 DEF ApplyAction, StoreTyped, RunOK, PageOK
  <2>2. QED BY <1>7, <2>1 DEF ApplyAction, Evaluations
<1>8. QED BY <1>2, <1>3, <1>4, <1>5, <1>6, <1>7

LEMMA RunStepTyped == ASSUME StoreTyped, RunStep \/ RateLimited PROVE StoreTyped'
<1> USE DEF memoryVars, historyVars
<1>1. RunOK'
  BY RunTyped DEF RunStep
<1>3. CASE StartRun
  BY <1>1, <1>3 DEF StartRun, StoreTyped, PageOK
<1>4. CASE FetchCart
  <2>1. glitches' \in 0 .. MaxGlitches
    BY <1>4, GlitchCounted DEF FetchCart, StoreTyped, RunOK, PageOK
  <2>2. left' \in BOOLEAN /\ stale' \in BOOLEAN
    BY <1>4 DEF FetchCart, StoreTyped, RunOK, PageOK
  <2>3. QED BY <1>1, <1>4, <2>1, <2>2 DEF FetchCart, StoreTyped, PageOK
<1>5. CASE Compare
  <2>1. Snap.paid \in SUBSET Lines
    BY <1>5, SnapTyped DEF Compare, StoreTyped, RunOK, PageOK
  <2>2. knownPaid' \subseteq Lines /\ addedAt' \in {"unset", "recent", "before"}
    BY <1>5, <2>1 DEF Compare, Detect, StoreTyped, RunOK, PageOK
  <2>3. seen' \in BOOLEAN /\ declined' \in BOOLEAN
    BY <1>5 DEF Compare, Detect, StoreTyped, RunOK, PageOK, HasGift
  <2>4. QED BY <1>1, <1>5, <2>2, <2>3 DEF Compare, StoreTyped, PageOK
<1>6. CASE AnswerArrives
  <2>1. retries' \in 0 .. MaxRateRetries /\ declined' \in BOOLEAN /\ lastHash' \subseteq Carts
    <3>1. 0 \in 0 .. MaxRateRetries
      BY StorefrontAssumption
    <3>2. eval.snap \subseteq Carts
      BY DEF StoreTyped, RunOK, Evaluations
    <3>3. QED BY <1>6, <3>1, <3>2 DEF AnswerArrives, StoreTyped, PageOK
  <2>2. QED BY <1>1, <1>6, <2>1 DEF AnswerArrives, StoreTyped, PageOK
<1>7. CASE NoAnswer
  <2>1. glitches' \in 0 .. MaxGlitches
    BY <1>7, GlitchCounted DEF NoAnswer, StoreTyped, RunOK, PageOK
  <2>2. QED BY <1>1, <1>7, <2>1, ZenonT(30) DEF NoAnswer, StoreTyped, PageOK
<1>8. CASE RateLimited
  <2>1. glitches' \in 0 .. MaxGlitches /\ retry' \in BOOLEAN
    BY <1>8, GlitchCounted DEF RateLimited, RetryLater, StoreTyped, RunOK, PageOK
  <2>2. retries \in 0 .. MaxRateRetries
    BY DEF StoreTyped, RunOK, PageOK
  <2>3. retries' \in 0 .. MaxRateRetries
    BY <1>8, <2>2, StorefrontAssumption DEF RateLimited, RetryLater
  <2>4. QED BY <1>1, <1>8, <2>1, <2>3 DEF RateLimited, StoreTyped, PageOK
<1>9. CASE ApplyAction
  <2>1. glitches' \in 0 .. MaxGlitches
    BY <1>9, GlitchCounted DEF ApplyAction, StoreTyped, RunOK, PageOK
  <2>2. cart' \in Carts
    BY <1>9, ActEffect DEF ApplyAction, StoreTyped, RunOK, PageOK
  <2>3. QED BY <1>1, <1>9, <2>1, <2>2, ZenonT(30) DEF ApplyAction, StoreTyped, PageOK
<1>10. CASE EndOfRun
  <2>1. timer' \in BOOLEAN /\ seen' \in BOOLEAN
    BY <1>10 DEF EndOfRun, StoreTyped, RunOK, PageOK
  <2>2. known' \in {"none", "gift", "no gift"} /\ addedAt' \in {"unset", "recent", "before"}
    BY <1>10 DEF EndOfRun, StoreTyped, RunOK, PageOK
  <2>3. QED BY <1>1, <1>10, <2>1, <2>2 DEF EndOfRun, StoreTyped, PageOK
<1>11. QED BY <1>3, <1>4, <1>5, <1>6, <1>7, <1>8, <1>9, <1>10 DEF RunStep

LEMMA StoreTypeNext == StoreTyped /\ [StorefrontNext]_storefrontVars => StoreTyped'
<1> SUFFICES ASSUME StoreTyped, [StorefrontNext]_storefrontVars PROVE StoreTyped'
  OBVIOUS
<1>1. CASE UNCHANGED storefrontVars
  <2>1. RunOK'
    BY <1>1 DEF storefrontVars, chainVars, StoreTyped, RunOK
  <2>2. PageOK'
    BY <1>1, ZenonT(30) DEF storefrontVars, chainVars, memoryVars, historyVars, StoreTyped, PageOK
  <2>3. QED BY <2>1, <2>2 DEF StoreTyped
<1>2. CASE StorefrontNext
  BY <1>2, ShopperTyped, OpenPageTyped, TimerTyped, RunStepTyped DEF StorefrontNext
<1>3. QED BY <1>1, <1>2

\* StorefrontTypeOK is an invariant: whatever the shopper does and Shopify
\* answers, every variable of the page keeps its type.
THEOREM StorefrontTypeCorrect == StorefrontSpec => []StorefrontTypeOK
<1>1. StoreTyped => StorefrontTypeOK
  BY DEF StoreTyped, RunOK, PageOK, StorefrontTypeOK, Evaluations, RunPhases
<1>2. QED BY <1>1, StoreTypeInit, StoreTypeNext, PTL DEF StorefrontSpec

-----------------------------------------------------------------------------
(* Refusals: the inductive invariant.                                      *)

\* Nothing that the page could take for a removal has happened.
Unexplained == ~left /\ glitches = 0

\* The gift is not there, and not because the run has just taken it out.
Gone == cart.gift = 0 /\ ~(eval.phase = "applied" /\ Removed)

\* What the page remembers is the cart that its run has seen.
LookInv ==
  /\ eval.phase \in {"act", "applied"} =>
       (eval.action = "add" => ~HasGift) /\ (eval.action = "remove" => ~Qualifies(Snap))
  /\ eval.phase \in {"ask", "act", "applied"} => knownPaid = Snap.paid
  /\ eval.phase \in {"compare", "ask"} /\ ~eval.aborted /\ Qualifies(cart) => Qualifies(Snap)

\* A refused gift is declined, or the page still has what tells it so.
RefusedInv == refused =>
  /\ Qualifies(cart) /\ cart.gift = 0 /\ eval.action # "add"
  /\ ~declined => /\ known = "gift" /\ seen /\ addedAt # "recent" /\ Anchor \in knownPaid
                  /\ eval.phase \in {"ask", "act", "applied"} => HasGift

\* A cart that lost no gift since the last look has shown none.
GoneInv == Unexplained /\ Gone =>
  /\ known # "gift"
  /\ eval.snap # {} => ~HasGift
  /\ eval.phase = "applied" => ~Added

\* A look that misses a gift that the page knows is not from before.
MissedInv ==
  eval.phase = "compare" /\ ~HasGift /\ known = "gift" /\ addedAt # "recent" => ~Unexplained

StoreInv == LookInv /\ RefusedInv /\ GoneInv /\ MissedInv

-----------------------------------------------------------------------------
(* What the shopper and the timers do to it.                               *)

Shopper == \/ \E l \in Lines : AddPaid(l) \/ RemovePaid(l)
           \/ RaiseGift \/ RemoveGift \/ ClearCart

LEMMA ShopperEffect ==
  ASSUME StoreTyped, Shopper
  PROVE  /\ eval'.phase = eval.phase /\ eval'.snap = eval.snap
         /\ eval'.action = eval.action /\ eval'.done = eval.done
         /\ UNCHANGED <<known, knownPaid, seen, addedAt, declined>>
         /\ Unexplained' => Unexplained
<1>1. CASE \E l \in Lines : AddPaid(l)
  BY <1>1, TriggerEffect DEF AddPaid, StoreTyped, RunOK, memoryVars, Unexplained
<1>2. CASE (\E l \in Lines : RemovePaid(l)) \/ RaiseGift \/ RemoveGift \/ ClearCart
  <2>1. eval' = eval /\ UNCHANGED <<memoryVars, glitches>>
    BY <1>2 DEF RemovePaid, RaiseGift, RemoveGift, ClearCart, Debounced
  <2>2. left => left'
    BY <1>2 DEF RemovePaid, RaiseGift, RemoveGift, ClearCart
  <2>3. QED BY <2>1, <2>2 DEF memoryVars, Unexplained
<1>3. QED BY <1>1, <1>2 DEF Shopper

\* A shopper who puts the paid line back supersedes the run, so what a run goes
\* on with qualifies if the cart does.
LEMMA ShopperPaid ==
  ASSUME StoreTyped, Shopper, ~eval'.aborted, eval.phase # "none"
  PROVE  Qualifies(cart') => Qualifies(cart)
<1>1. ~(\E l \in Lines : AddPaid(l))
  BY TriggerEffect DEF AddPaid, StoreTyped, RunOK
<1>2. cart \in Carts
  BY DEF StoreTyped, PageOK
<1>3. cart'.paid \subseteq cart.paid
  <2>1. CASE \E l \in Lines : RemovePaid(l)
    BY <1>2, <2>1 DEF RemovePaid, Turn, Carts
  <2>2. CASE RaiseGift \/ RemoveGift
    BY <1>2, <2>2 DEF RaiseGift, RemoveGift, Turn, Carts
  <2>3. CASE ClearCart
    BY <2>3 DEF ClearCart, Turn
  <2>4. QED BY <1>1, <2>1, <2>2, <2>3 DEF Shopper
<1>4. QED BY <1>3 DEF Qualifies

\* A gift that goes leaves a trace.
LEMMA ShopperGift ==
  ASSUME StoreTyped, Shopper, Unexplained', cart'.gift = 0
  PROVE  cart.gift = 0
<1>1. cart \in Carts /\ cart.gift \in 0 .. 2
  BY DEF StoreTyped, PageOK, Carts
<1>2. CASE \E l \in Lines : AddPaid(l) \/ RemovePaid(l)
  <2>1. cart'.gift = cart.gift
    BY <1>1, <1>2 DEF AddPaid, RemovePaid, Turn, Carts
  <2>2. QED BY <2>1
<1>3. CASE RaiseGift
  BY <1>1, <1>3 DEF RaiseGift, Turn, Carts
<1>4. CASE RemoveGift
  BY <1>4 DEF RemoveGift, Unexplained
<1>5. CASE ClearCart
  <2>1. ~left' /\ (left' <=> left \/ cart.gift > 0)
    BY <1>5 DEF ClearCart, Unexplained
  <2>2. QED BY <1>1, <2>1
<1>6. QED BY <1>2, <1>3, <1>4, <1>5 DEF Shopper

\* The shopper refuses a gift that the page knows.
LEMMA ShopperRefuses ==
  ASSUME StoreTyped, LookInv, RefusedInv, Shopper, refused'
  PROVE  /\ Qualifies(cart') /\ cart'.gift = 0
         /\ refused \/ (RemoveGift /\ Known /\ Anchor \in knownPaid)
<1>1. cart \in Carts /\ cart.gift \in 0 .. 2
  BY DEF StoreTyped, PageOK, Carts
<1>2. CASE \E l \in Lines : AddPaid(l) \/ RemovePaid(l)
  <2>1. cart'.gift = cart.gift
    BY <1>1, <1>2 DEF AddPaid, RemovePaid, Turn, Carts
  <2>2. QED BY <1>2, <2>1 DEF AddPaid, RemovePaid, Turn, RefusedInv
<1>3. CASE RaiseGift
  <2>1. cart.gift = 1 /\ refused
    BY <1>3 DEF RaiseGift, Turn
  <2>2. QED BY <2>1 DEF RefusedInv
<1>4. CASE RemoveGift
  <2>1. ~refused
    BY <1>4, <1>1 DEF RemoveGift, RefusedInv
  <2>2. cart'.gift = 0 /\ cart'.paid = cart.paid
    BY <1>1, <1>4 DEF RemoveGift, Carts
  <2>3. QED BY <1>4, <2>1, <2>2 DEF RemoveGift, Qualifies
<1>5. CASE ClearCart
  BY <1>5 DEF ClearCart, Turn, Qualifies
<1>6. QED BY <1>2, <1>3, <1>4, <1>5 DEF Shopper

LEMMA ShopperKeeps == ASSUME StoreTyped, StoreInv, Shopper PROVE StoreInv'
<1> USE ShopperEffect DEF StoreInv
<1>1. Snap' = Snap /\ (HasGift <=> HasGift') /\ (Removed <=> Removed') /\ (Added <=> Added')
  BY SameSnap DEF Removed, Added
<1>2. LookInv'
  <2>1. /\ eval'.phase \in {"act", "applied"} =>
             (eval'.action = "add" => ~HasGift') /\ (eval'.action = "remove" => ~Qualifies(Snap'))
        /\ eval'.phase \in {"ask", "act", "applied"} => knownPaid' = Snap'.paid
    BY <1>1 DEF LookInv
  <2>2. ASSUME eval'.phase \in {"compare", "ask"}, ~eval'.aborted, Qualifies(cart')
        PROVE  Qualifies(Snap')
    <3>1. Qualifies(cart) /\ ~eval.aborted
      <4>1. Qualifies(cart)
        BY <2>2, ShopperPaid
      <4>2. ~(\E l \in Lines : AddPaid(l))
        BY <2>2, TriggerEffect DEF AddPaid, StoreTyped, RunOK
      <4>3. eval' = eval
        BY <4>2 DEF Shopper, RemovePaid, RaiseGift, RemoveGift, ClearCart, Debounced
      <4>4. QED BY <2>2, <4>1, <4>3
    <3>2. QED BY <1>1, <2>2, <3>1 DEF LookInv
  <2>3. QED BY <2>1, <2>2 DEF LookInv
<1>3. RefusedInv'
  <2>1. SUFFICES ASSUME refused'
                 PROVE  /\ Qualifies(cart') /\ cart'.gift = 0 /\ eval'.action # "add"
                        /\ ~declined' =>
                             /\ known' = "gift" /\ seen' /\ addedAt' # "recent" /\ Anchor \in knownPaid'
                             /\ eval'.phase \in {"ask", "act", "applied"} => HasGift'
    BY DEF RefusedInv
  <2>2. Qualifies(cart') /\ cart'.gift = 0
    BY <2>1, ShopperRefuses
  <2>3. CASE refused
    BY <1>1, <2>2, <2>3 DEF RefusedInv
  <2>4. CASE Known /\ Anchor \in knownPaid
    <3>1. eval.snap # {} => HasGift
      BY <2>4, SnapTyped DEF Known, HasGift
    <3>2. eval.action # "add"
      BY <3>1 DEF LookInv, StoreTyped, RunOK
    <3>3. eval.phase \in {"ask", "act", "applied"} => HasGift
      BY <3>1 DEF StoreTyped, RunOK
    <3>4. QED BY <1>1, <2>2, <2>4, <3>2, <3>3 DEF Known
  <2>5. QED BY <2>1, <2>3, <2>4, ShopperRefuses
<1>4. GoneInv'
  BY <1>1, ShopperGift DEF GoneInv, Gone
<1>5. MissedInv'
  BY <1>1 DEF MissedInv
<1>6. QED BY <1>2, <1>3, <1>4, <1>5

\* A new page knows nothing and refuses nothing.
LEMMA OpenPageKeeps == ASSUME StoreTyped, StoreInv, OpenPage PROVE StoreInv'
<1>1. eval' = NoRun /\ ~refused' /\ known' = "none"
  BY DEF OpenPage
<1>2. QED BY <1>1, NoRunTyped DEF StoreInv, LookInv, RefusedInv, GoneInv, MissedInv

\* A step that changes nothing of what the properties speak of.
LEMMA QuietTurnKeeps ==
  ASSUME StoreInv,
         eval'.phase = eval.phase, eval'.snap = eval.snap, eval'.action = eval.action,
         eval'.done = eval.done, eval.aborted => eval'.aborted,
         UNCHANGED <<cart, known, knownPaid, seen, declined, left, glitches, refused>>,
         addedAt' = addedAt \/ (addedAt = "recent" /\ eval.phase # "compare")
  PROVE  StoreInv'
<1> USE DEF StoreInv
<1>1. Snap' = Snap /\ (HasGift <=> HasGift') /\ (Removed <=> Removed') /\ (Added <=> Added')
      /\ (Unexplained <=> Unexplained') /\ (Qualifies(cart) <=> Qualifies(cart'))
      /\ (Qualifies(Snap) <=> Qualifies(Snap'))
  BY SameSnap DEF Removed, Added, Unexplained, Qualifies
<1>2. LookInv'
  BY <1>1 DEF LookInv
<1>3. RefusedInv'
  <2>1. CASE addedAt' = addedAt
    BY <1>1, <2>1 DEF RefusedInv
  <2>2. CASE addedAt = "recent" /\ eval.phase # "compare"
    BY <1>1, <2>2 DEF RefusedInv
  <2>3. QED BY <2>1, <2>2
<1>4. GoneInv'
  BY <1>1 DEF GoneInv, Gone
<1>5. MissedInv'
  BY <1>1 DEF MissedInv
<1>6. QED BY <1>2, <1>3, <1>4, <1>5

LEMMA TimerKeeps ==
  ASSUME StoreTyped, StoreInv, FireTimer \/ FireRetry \/ GraceEnds PROVE StoreInv'
<1>1. CASE FireTimer \/ FireRetry
  <2>1. /\ eval'.phase = eval.phase /\ eval'.snap = eval.snap /\ eval'.action = eval.action
        /\ eval'.done = eval.done /\ eval'.aborted = (eval.phase # "none")
    BY <1>1, TriggerEffect DEF FireTimer, FireRetry, StoreTyped, RunOK
  <2>2. CASE eval.phase = "none"
    <3>1. eval'.phase = "none" /\ eval'.snap = {} /\ eval.snap = {}
      BY <2>1, <2>2 DEF StoreTyped, RunOK
    <3>2. UNCHANGED <<cart, memoryVars, glitches, historyVars>>
      BY <1>1 DEF FireTimer, FireRetry
    <3>3. LookInv' /\ MissedInv'
      BY <3>1 DEF LookInv, MissedInv
    <3>4. (Gone' => Gone) /\ (Unexplained' => Unexplained)
      BY <2>1, <2>2, <3>2 DEF Gone, Unexplained, historyVars
    <3>5. GoneInv'
      BY <3>1, <3>2, <3>4 DEF GoneInv, StoreInv, memoryVars
    <3>6. RefusedInv'
      BY <2>1, <3>1, <3>2 DEF RefusedInv, StoreInv, memoryVars, historyVars, Qualifies
    <3>7. QED BY <3>3, <3>5, <3>6 DEF StoreInv
  <2>3. CASE eval.phase # "none"
    <3>1. UNCHANGED <<cart, memoryVars, glitches, historyVars>>
      BY <1>1 DEF FireTimer, FireRetry
    <3>2. QED BY <2>1, <2>3, <3>1, QuietTurnKeeps DEF memoryVars, historyVars
  <2>4. QED BY <2>2, <2>3
<1>2. CASE GraceEnds
  BY <1>2, QuietTurnKeeps DEF GraceEnds, chainVars, historyVars
<1>3. QED BY <1>1, <1>2

\* A run that starts, or ends before the cart is changed.
LEMMA IdleKeeps ==
  ASSUME StoreInv, eval.phase # "applied",
         eval'.phase \in {"none", "cart"}, eval'.snap = {}, eval'.action = "none",
         UNCHANGED <<cart, known, knownPaid, seen, addedAt, declined, refused>>,
         Unexplained' => Unexplained
  PROVE  StoreInv'
<1> USE DEF StoreInv
<1>1. LookInv' /\ MissedInv'
  BY DEF LookInv, MissedInv
<1>2. RefusedInv'
  BY DEF RefusedInv, Qualifies
<1>3. GoneInv'
  BY DEF GoneInv, Gone
<1>4. QED BY <1>1, <1>2, <1>3

-----------------------------------------------------------------------------
(* What the run does to it.                                                *)

\* The run looks at the cart.
LEMMA FetchKeeps == ASSUME StoreTyped, StoreInv, FetchCart PROVE StoreInv'
<1> USE DEF StoreInv
<1>1. CASE Glitch /\ EndRun
  <2>1. ~Unexplained'
    BY <1>1, GlitchCounted DEF Unexplained
  <2>2. QED BY <1>1, <2>1, NoRunTyped, IdleKeeps DEF FetchCart, EndRun, memoryVars
<1>2. ASSUME NEW c \in Fetched, eval' = [eval EXCEPT !.phase = "compare", !.snap = {c}],
             left' = (left /\ c.gift = 0), UNCHANGED glitches
      PROVE  StoreInv'
  <2>1. /\ eval'.phase = "compare" /\ eval'.snap = {c} /\ eval'.action = "none"
    BY <1>2 DEF FetchCart, StoreTyped, RunOK, Evaluations
  <2>2. Snap' = c
    BY <2>1 DEF Snap
  <2>3. /\ c.paid = cart.paid /\ (c = cart \/ (c.gift = 0 /\ addedAt = "recent"))
        /\ c.gift \in 0 .. 2
    BY <1>2, FetchCartEffect DEF Carts
  <2>4. UNCHANGED <<cart, known, knownPaid, seen, addedAt, declined, refused>> /\ eval.phase = "cart"
    BY DEF FetchCart, memoryVars
  <2>5. LookInv'
    BY <2>1, <2>2, <2>3, <2>4 DEF LookInv, Qualifies
  <2>6. RefusedInv'
    BY <2>1, <2>4 DEF RefusedInv, Qualifies
  <2>7. HasGift' <=> c.gift > 0
    BY <2>2 DEF HasGift
  <2>8. ASSUME Unexplained', cart.gift = 0 PROVE known # "gift" /\ ~HasGift'
    <3>1. c.gift = 0
      BY <2>3, <2>8
    <3>2. Unexplained /\ Gone
      BY <1>2, <2>4, <2>8, <3>1 DEF Unexplained, Gone
    <3>3. QED BY <2>7, <3>1, <3>2 DEF GoneInv
  <2>9. GoneInv'
    BY <2>1, <2>4, <2>8 DEF GoneInv, Gone
  <2>10. MissedInv'
    <3>1. SUFFICES ASSUME ~HasGift', known = "gift", addedAt # "recent" PROVE ~Unexplained'
      BY <2>4 DEF MissedInv
    <3>2. cart.gift = 0
      BY <2>3, <2>7, <3>1
    <3>3. QED BY <2>8, <3>1, <3>2
  <2>11. QED BY <2>5, <2>6, <2>9, <2>10
<1>3. QED BY <1>1, <1>2 DEF FetchCart

\* The run compares it with what the page knows.
LEMMA CompareKeeps == ASSUME StoreTyped, StoreInv, Compare PROVE StoreInv'
<1> USE DEF StoreInv
<1>1. eval.phase = "compare" /\ eval.snap # {} /\ eval.action = "none" /\ eval \in Evaluations
      /\ UNCHANGED <<cart, known, glitches, left, refused>>
  BY DEF Compare, StoreTyped, RunOK, historyVars
<1>2. (Unexplained' <=> Unexplained) /\ (Gone <=> cart.gift = 0)
  BY <1>1 DEF Unexplained, Gone
<1>3. CASE eval.aborted
  BY <1>1, <1>2, <1>3, NoRunTyped, IdleKeeps DEF Compare, EndRun
<1>4. CASE ~eval.aborted
  <2>1. Detect
    BY <1>4 DEF Compare
  <2>2. \/ eval'.phase = "none" /\ eval'.snap = {} /\ eval'.action = "none"
        \/ /\ eval'.phase = "ask" /\ eval'.snap = eval.snap /\ eval'.action = "none"
           /\ eval'.aborted = eval.aborted
    BY <1>1, <1>4, NoRunTyped, PhaseMoves DEF Compare, EndRun, RunPhases
  <2>3. eval'.phase = "ask" => Snap' = Snap /\ (HasGift' <=> HasGift)
    BY <2>2, SameSnap
  <2>4. LookInv'
    BY <1>1, <1>4, <2>1, <2>2, <2>3 DEF LookInv, Detect, Qualifies
  <2>5. RefusedInv'
    <3>1. SUFFICES ASSUME refused
                   PROVE  /\ Qualifies(cart) /\ cart.gift = 0 /\ eval'.action # "add"
                          /\ ~declined' => /\ known = "gift" /\ seen' /\ addedAt' # "recent"
                                           /\ Anchor \in knownPaid' /\ HasGift
      BY <1>1, <2>2, <2>3 DEF RefusedInv, Qualifies
    <3>2. Qualifies(cart) /\ cart.gift = 0 /\ eval'.action # "add" /\ Qualifies(Snap)
      BY <1>1, <1>4, <2>2, <3>1 DEF RefusedInv, LookInv
    <3>3. ASSUME ~declined' PROVE known = "gift" /\ seen /\ addedAt # "recent" /\ HasGift
      <4>1. ~declined /\ ~TakenOut
        BY <2>1, <3>3 DEF Detect
      <4>2. known = "gift" /\ seen /\ addedAt # "recent" /\ Anchor \in knownPaid
        BY <3>1, <4>1 DEF RefusedInv
      <4>3. ~Replaced
        BY <3>2, <4>2 DEF Replaced, Qualifies
      <4>4. QED BY <4>1, <4>2, <4>3 DEF TakenOut
    <3>4. HasGift => seen' /\ addedAt' # "recent"
      BY <2>1 DEF Detect
    <3>5. Anchor \in knownPaid'
      BY <2>1, <3>2 DEF Detect, Qualifies
    <3>6. QED BY <3>2, <3>3, <3>4, <3>5
  <2>6. GoneInv'
    <3>1. Gone' => Gone
      BY <1>1, <1>2 DEF Gone
    <3>2. QED BY <1>1, <1>2, <2>2, <2>3, <3>1 DEF GoneInv
  <2>7. MissedInv'
    BY <2>2 DEF MissedInv
  <2>8. QED BY <2>4, <2>5, <2>6, <2>7
<1>5. QED BY <1>3, <1>4

\* The offers have been evaluated.
LEMMA AnswerKeeps == ASSUME StoreTyped, StoreInv, AnswerArrives PROVE StoreInv'
<1> USE DEF StoreInv
<1>1. /\ eval.phase = "ask" /\ eval.snap # {} /\ ~eval.aborted /\ eval \in Evaluations
      /\ UNCHANGED <<cart, known, knownPaid, seen, addedAt, glitches, left, refused>>
      /\ declined' = (declined /\ Qualifies(Snap))
      /\ eval' = [eval EXCEPT !.phase = "act", !.action = CartAction]
  BY DEF AnswerArrives, StoreTyped, RunOK, historyVars, StaysDeclined
<1>2. eval'.phase = "act" /\ eval'.snap = eval.snap /\ eval'.action = CartAction
  BY <1>1 DEF Evaluations
<1>3. Snap' = Snap /\ (HasGift' <=> HasGift)
  BY <1>2, SameSnap
<1>4. /\ CartAction = "add" => ~HasGift /\ ~declined
      /\ CartAction = "remove" => ~Qualifies(Snap)
  BY <1>1, AnswerEffect
<1>5. LookInv'
  BY <1>1, <1>2, <1>3, <1>4 DEF LookInv, Qualifies
<1>6. RefusedInv'
  <2>1. SUFFICES ASSUME refused
                 PROVE  /\ Qualifies(cart) /\ cart.gift = 0 /\ CartAction # "add"
                        /\ ~declined' => /\ known = "gift" /\ seen /\ addedAt # "recent"
                                         /\ Anchor \in knownPaid /\ HasGift
    BY <1>1, <1>2, <1>3 DEF RefusedInv, Qualifies
  <2>2. Qualifies(cart) /\ cart.gift = 0 /\ Qualifies(Snap)
    BY <1>1, <2>1 DEF RefusedInv, LookInv
  <2>3. declined' <=> declined
    BY <1>1, <2>2
  <2>4. ~declined => /\ known = "gift" /\ seen /\ addedAt # "recent"
                     /\ Anchor \in knownPaid /\ HasGift
    BY <1>1, <2>1 DEF RefusedInv
  <2>5. QED BY <1>4, <2>2, <2>3, <2>4
<1>7. GoneInv'
  <2>1. (Unexplained' => Unexplained) /\ (Gone' => Gone)
    BY <1>1, <1>2 DEF Unexplained, Gone
  <2>2. QED BY <1>1, <1>2, <1>3, <2>1 DEF GoneInv
<1>8. MissedInv'
  BY <1>2 DEF MissedInv
<1>9. QED BY <1>5, <1>6, <1>7, <1>8

\* The action has been tried.
LEMMA ApplyKeeps == ASSUME StoreTyped, StoreInv, ApplyAction PROVE StoreInv'
<1> USE DEF StoreInv
<1>1. /\ eval.phase = "act" /\ eval.snap # {} /\ eval \in Evaluations /\ cart \in Carts
      /\ UNCHANGED <<known, knownPaid, seen, addedAt, declined, left, refused>>
  BY DEF ApplyAction, StoreTyped, RunOK, PageOK, memoryVars, historyVars
<1>2. eval'.phase = "applied" /\ eval'.snap = eval.snap /\ eval'.action = eval.action
  BY <1>1 DEF ApplyAction, Evaluations
<1>3. Snap' = Snap /\ (HasGift' <=> HasGift)
  BY <1>2, SameSnap
<1>4. cart' \in {cart, Act(eval.action, cart)}
  BY DEF ApplyAction
<1>5. LookInv'
  BY <1>1, <1>2, <1>3 DEF LookInv, Qualifies
<1>6. RefusedInv'
  <2>1. SUFFICES ASSUME refused PROVE Qualifies(cart') /\ cart'.gift = 0
    BY <1>1, <1>2, <1>3 DEF RefusedInv
  <2>2. Qualifies(cart) /\ cart.gift = 0 /\ eval.action # "add"
    BY <2>1 DEF RefusedInv
  <2>3. QED BY <1>1, <1>4, <2>2, ActEffect DEF Qualifies
<1>7. GoneInv'
  <2>1. SUFFICES ASSUME Unexplained', Gone' PROVE known # "gift" /\ ~HasGift /\ ~Added'
    BY <1>1, <1>3 DEF GoneInv
  <2>2. ~Glitch
    BY <2>1, GlitchCounted DEF Unexplained
  <2>3. cart' = Act(eval.action, cart) /\ UNCHANGED glitches
        /\ eval' = [eval EXCEPT !.phase = "applied",
                                !.done = (eval.action = "remove" => cart.gift > 0)]
    BY <2>2 DEF ApplyAction
  <2>4. eval'.done <=> (eval.action = "remove" => cart.gift > 0)
    BY <1>1, <2>3 DEF Evaluations
  <2>5. cart'.gift = 0 /\ (eval.action = "remove" => ~(cart.gift > 0))
    BY <1>2, <2>1, <2>4 DEF Gone, Removed
  <2>6. eval.action # "add" /\ cart.gift = 0
    <3>1. cart.gift \in 0 .. 2
      BY <1>1 DEF Carts
    <3>2. eval.action # "add" /\ ~(cart.gift > 0)
      <4>1. ~(cart'.gift > 0)
        BY <2>5
      <4>2. CASE eval.action = "remove"
        BY <2>5, <4>2
      <4>3. CASE eval.action # "remove"
        BY <1>1, <2>3, <4>1, <4>3, ActEffect
      <4>4. QED BY <4>2, <4>3
    <3>3. QED BY <3>1, <3>2
  <2>7. Unexplained /\ Gone
    BY <1>1, <2>1, <2>3, <2>6 DEF Unexplained, Gone
  <2>8. QED BY <1>1, <1>2, <2>6, <2>7 DEF GoneInv, Added
<1>8. MissedInv'
  BY <1>2 DEF MissedInv
<1>9. QED BY <1>5, <1>6, <1>7, <1>8

\* The page remembers what it has done.
LEMMA EvaluationEndKeeps == ASSUME StoreTyped, StoreInv, EndOfRun PROVE StoreInv'
<1> USE DEF StoreInv
<1>1. /\ eval.phase = "applied" /\ eval.snap # {} /\ eval' = NoRun
      /\ UNCHANGED <<cart, knownPaid, declined, glitches, left, refused>>
  BY DEF EndOfRun, EndRun, StoreTyped, RunOK, historyVars
<1>2. eval'.phase = "none" /\ eval'.snap = {} /\ eval'.action = "none"
  BY <1>1, NoRunTyped
<1>3. LookInv' /\ MissedInv'
  BY <1>2 DEF LookInv, MissedInv
<1>4. RefusedInv'
  <2>1. SUFFICES ASSUME refused
                 PROVE  /\ Qualifies(cart) /\ cart.gift = 0
                        /\ ~declined => /\ known' = "gift" /\ seen' /\ addedAt' # "recent"
                                        /\ Anchor \in knownPaid
    BY <1>1, <1>2 DEF RefusedInv, Qualifies
  <2>2. Qualifies(cart) /\ cart.gift = 0 /\ ~Added
    BY <2>1 DEF RefusedInv, Added
  <2>3. ASSUME ~declined
        PROVE  known' = "gift" /\ seen' /\ addedAt' # "recent" /\ Anchor \in knownPaid
    <3>1. seen /\ addedAt # "recent" /\ Anchor \in knownPaid /\ HasGift
      BY <1>1, <2>1, <2>3 DEF RefusedInv
    <3>2. ~Removed
      BY <1>1, <3>1 DEF LookInv, Qualifies, Removed
    <3>3. QED BY <2>2, <3>1, <3>2 DEF EndOfRun
  <2>4. QED BY <2>2, <2>3
<1>5. GoneInv'
  <2>1. SUFFICES ASSUME Unexplained, cart.gift = 0 PROVE known' # "gift"
    BY <1>1, <1>2 DEF GoneInv, Unexplained, Gone
  <2>2. CASE Removed
    BY <2>2 DEF EndOfRun
  <2>3. CASE ~Removed
    <3>1. ~HasGift /\ ~Added
      BY <1>1, <2>1, <2>3 DEF GoneInv, Gone
    <3>2. QED BY <3>1 DEF EndOfRun
  <2>4. QED BY <2>2, <2>3
<1>6. QED BY <1>3, <1>4, <1>5

LEMMA StoreInvNext == StoreTyped /\ StoreInv /\ [StorefrontNext]_storefrontVars => StoreInv'
<1> SUFFICES ASSUME StoreTyped, StoreInv, [StorefrontNext]_storefrontVars PROVE StoreInv'
  OBVIOUS
<1>1. CASE UNCHANGED storefrontVars
  BY <1>1, QuietTurnKeeps DEF storefrontVars, chainVars, memoryVars, historyVars
<1>2. CASE StartRun
  <2>1. eval'.phase = "cart" /\ eval'.snap = {} /\ eval'.action = "none"
    BY <1>2 DEF StartRun, NoRun
  <2>2. eval.phase # "applied" /\ (Unexplained' => Unexplained)
        /\ UNCHANGED <<cart, known, knownPaid, seen, addedAt, declined, refused>>
    BY <1>2 DEF StartRun, Unexplained, memoryVars, historyVars
  <2>3. QED BY <2>1, <2>2, IdleKeeps
<1>3. CASE NoAnswer \/ RateLimited
  <2>1. eval' = NoRun /\ eval.phase # "applied"
        /\ UNCHANGED <<cart, known, knownPaid, seen, addedAt, declined, refused, left>>
    BY <1>3 DEF NoAnswer, RateLimited, EndRun, memoryVars, historyVars
  <2>2. glitches' = 0 => glitches = 0
    <3>1. UNCHANGED glitches \/ Glitch
      BY <1>3 DEF NoAnswer, RateLimited, RetryLater
    <3>2. QED BY <3>1, GlitchCounted
  <2>3. QED BY <2>1, <2>2, NoRunTyped, IdleKeeps DEF Unexplained
<1>4. QED
  BY <1>1, <1>2, <1>3, ShopperKeeps, OpenPageKeeps, TimerKeeps, FetchKeeps, CompareKeeps,
     AnswerKeeps, ApplyKeeps, EvaluationEndKeeps DEF StorefrontNext, RunStep, Shopper

LEMMA StoreInvInit == StorefrontInit => StoreInv
<1> SUFFICES ASSUME StorefrontInit PROVE StoreInv
  OBVIOUS
<1>1. eval = NoRun /\ ~refused /\ known = "none"
  BY DEF StorefrontInit
<1>2. QED BY <1>1, NoRunTyped DEF StoreInv, LookInv, RefusedInv, GoneInv, MissedInv

\* What RefusalsAreRespected says of a step.
Respected == /\ eval.action = "add" /\ cart'.gift > cart.gift => ~refused
             /\ declined' /\ ~declined => left \/ glitches > 0

\* Only the comparison declines a gift.
LEMMA DeclinedOnlyIfLost ==
  ASSUME StoreTyped, StoreInv, [StorefrontNext]_storefrontVars, declined', ~declined
  PROVE  left \/ glitches > 0
<1>1. CASE Compare
  <2>1. eval.phase = "compare" /\ TakenOut
    BY <1>1 DEF Compare, Detect
  <2>2. ~Unexplained
    BY <2>1 DEF TakenOut, StoreInv, MissedInv
  <2>3. glitches \in Nat
    <3>1. glitches \in 0 .. MaxGlitches
      BY DEF StoreTyped, PageOK
    <3>2. QED BY <3>1, StorefrontAssumption
  <2>4. QED BY <2>2, <2>3 DEF Unexplained
<1>2. CASE AnswerArrives
  BY <1>2 DEF AnswerArrives
<1>3. CASE ~Compare /\ ~AnswerArrives
  <2>1. UNCHANGED declined
    BY <1>3 DEF StorefrontNext, RunStep, storefrontVars, memoryVars, AddPaid, RemovePaid,
         RaiseGift, RemoveGift, ClearCart, OpenPage, FireTimer, FireRetry, GraceEnds, StartRun,
         FetchCart, NoAnswer, RateLimited, ApplyAction, EndOfRun
  <2>2. QED BY <2>1
<1>4. QED BY <1>1, <1>2, <1>3

\* RefusalsAreRespected: a gift that the page knew and the shopper took out is
\* not added again while the page is open and the offer qualifies, and without
\* failures nothing is declined that the shopper did not take out, however the
\* turns of the shopper, the timers and the superseded evaluations interleave.
THEOREM RefusalsStand == StorefrontSpec => RefusalsAreRespected
<1>1. StoreTyped /\ StoreInv /\ [StorefrontNext]_storefrontVars => [Respected]_storefrontVars
  <2>1. SUFFICES ASSUME StoreTyped, StoreInv, [StorefrontNext]_storefrontVars
                 PROVE  [Respected]_storefrontVars
    OBVIOUS
  <2>2. eval.action = "add" => ~refused
    BY <2>1 DEF StoreInv, RefusedInv
  <2>3. declined' /\ ~declined => left \/ glitches > 0
    BY <2>1, DeclinedOnlyIfLost
  <2>4. QED BY <2>2, <2>3 DEF Respected
<1>2. StorefrontInit => StoreTyped /\ StoreInv
  BY StoreTypeInit, StoreInvInit
<1>3. StorefrontSpec => [][Respected]_storefrontVars
  BY <1>1, <1>2, StoreTypeNext, StoreInvNext, PTL DEF StorefrontSpec
<1>4. QED BY <1>3 DEF RefusalsAreRespected, Respected
=============================================================================

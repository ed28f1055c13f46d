---------------------------- MODULE MerchantProofs ----------------------------
(***************************************************************************)
(* The theorems about the two ways to an offer's status, for every number  *)
(* of offers, requests, calls, tokens and keys and every bound: the status *)
(* operations with the offers cron, and the write tools of the MCP server. *)
(***************************************************************************)
EXTENDS MCMerchant, TLAPS

----------------------------------------------------------------------------
(* Jobs and the steps of a worker.                                         *)

\* What an operation found or sets is a function on some of the offers.
LEMMA StatusMap ==
  /\ \A f \in StatusMaps : DOMAIN f \subseteq Offers /\ \A o \in DOMAIN f : f[o] \in Status
  /\ \A T \in SUBSET Offers : [T -> Status] \subseteq StatusMaps
  BY DEF StatusMaps

\* The merchant's operations and the scheduler decide within the types.
LEMMA Decided ==
  ASSUME NEW op \in AllOps \cup {"none", "schedule"}, NEW T \in SUBSET Offers,
         NEW s \in 0 .. LastTick, NEW e \in 0 .. LastTick + 1,
         NEW from \in [T -> Status], NEW to \in [T -> Status]
  PROVE  Job(op, from, to, s, e) \in Jobs
<1>1. from \in StatusMaps /\ to \in StatusMaps /\ DOMAIN from = DOMAIN to
  BY StatusMap
<1>2. QED BY <1>1 DEF Job, Jobs, JobRecords

LEMMA NoJobTyped ==
  /\ NoJob \in Jobs /\ DOMAIN NoJob.from = {}
  /\ \A op \in AllOps : Job(op, <<>>, <<>>, 0, 0) \in Jobs
<1>1. <<>> \in [{} -> Status] /\ {} \in SUBSET Offers /\ DOMAIN <<>> = {}
  OBVIOUS
<1>2. 0 \in 0 .. LastTick /\ 0 \in 0 .. LastTick + 1
  BY LifecycleAssumption
<1>3. \A op \in AllOps \cup {"none", "schedule"} : Job(op, <<>>, <<>>, 0, 0) \in Jobs
  BY <1>1, <1>2, Decided
<1>4. QED BY <1>1, <1>3 DEF NoJob, Job

\* The scheduler moves only live offers.
LiveOnly(j) == \A o \in DOMAIN j.from : j.from[o] \in {"active", "scheduled"}

\* The part of TypeOK that is about the workers.
Control ==
  /\ pc \in [Workers -> PcValues] /\ job \in [Workers -> Jobs]
  /\ lock \in Workers \cup {None}
  /\ lock # None => pc[lock] \in Publishing
  /\ newer \subseteq {w \in Workers : pc[w] \in Publishing}
  /\ LiveOnly(job[Cron])

\* w goes to step s with job j.
Moves(w, s, j) == pc' = [pc EXCEPT ![w] = s] /\ job' = [job EXCEPT ![w] = j]

LEMMA ControlMoves ==
  ASSUME Control, NEW w \in Workers, NEW s \in PcValues, NEW j \in Jobs, Moves(w, s, j),
         w = Cron => LiveOnly(j),
         lock' \in {lock, None}, lock' = w => s \in Publishing,
         newer' \subseteq newer \cup {v \in Workers \ {w} : pc[v] \in Publishing},
         w \in newer' => s \in Publishing
  PROVE  Control'
<1> USE DEF Control, Moves
<1>1. pc' \in [Workers -> PcValues] /\ job' \in [Workers -> Jobs]
  OBVIOUS
<1>2. lock' # None => pc'[lock'] \in Publishing
  OBVIOUS
<1>3. newer' \subseteq {v \in Workers : pc'[v] \in Publishing}
  OBVIOUS
<1>4. LiveOnly(job[Cron])'
  <2>1. job'[Cron] = IF w = Cron THEN j ELSE job[Cron]
    BY DEF Workers
  <2>2. QED BY <2>1 DEF LiveOnly
<1>5. QED BY <1>1, <1>2, <1>3, <1>4

LEMMA Pcs ==
  /\ Publishing \subseteq PcValues
  /\ {"idle", "write", "undo", "pause", "load", "apply", "check"}
       \subseteq PcValues \ Publishing
  BY DEF PcValues, Publishing

\* After a publish that succeeded a worker is done or goes on with its run ...
LEMMA SucceedMoves ==
  ASSUME Control, NEW w \in Workers, Succeed(w)
  PROVE  \E s \in {"idle", "load", "check"}, j \in Jobs :
           Moves(w, s, j) /\ (w = Cron => LiveOnly(j))
<1> USE DEF Succeed, Moves, Goto
<1>1. CASE Finish(w)
  <2>1. LiveOnly(NoJob)
    BY NoJobTyped DEF LiveOnly
  <2>2. QED BY <1>1, <2>1, NoJobTyped DEF Finish
<1>2. CASE \E s \in {"load", "check"} : Goto(w, s) /\ UNCHANGED job
  <2>1. job' = [job EXCEPT ![w] = job[w]] /\ job[w] \in Jobs
    BY <1>2 DEF Control
  <2>2. w = Cron => LiveOnly(job[w])
    BY DEF Control
  <2>3. QED BY <1>2, <2>1, <2>2
<1>3. QED BY <1>1, <1>2

\* ... and after one that failed it undoes, pauses, or the same.
LEMMA GiveUpMoves ==
  ASSUME Control, NEW w \in Workers, NEW blame \in Offers \cup {None}, GiveUp(w, blame)
  PROVE  /\ \E s \in {"idle", "load", "check", "undo", "pause"}, j \in Jobs :
              Moves(w, s, j) /\ (w = Cron => LiveOnly(j))
         /\ w \notin newer' /\ UNCHANGED confirmed
         /\ newer' \subseteq newer \cup {v \in Workers \ {w} : pc[v] \in Publishing}
         /\ pending' \in {TRUE, pending}
         /\ NoFlag(w) \/ Flag(w)
<1> USE DEF GiveUp, Moves, Goto
<1>1. CASE Finish(w)
  <2>1. LiveOnly(NoJob)
    BY NoJobTyped DEF LiveOnly
  <2>2. \E s \in {"idle", "load", "check", "undo", "pause"}, j \in Jobs :
              Moves(w, s, j) /\ (w = Cron => LiveOnly(j))
    BY <1>1, <2>1, NoJobTyped DEF Finish
  <2>3. QED BY <1>1, <2>2 DEF Flag, NoFlag
<1>2. CASE /\ \E s \in {"load", "check", "undo"} : Goto(w, s) /\ UNCHANGED job
           /\ NoFlag(w)
  <2>1. job' = [job EXCEPT ![w] = job[w]] /\ job[w] \in Jobs
    BY <1>2 DEF Control
  <2>2. w = Cron => LiveOnly(job[w])
    BY DEF Control
  <2>3. QED BY <1>2, <2>1, <2>2 DEF NoFlag
<1>3. CASE /\ Goto(w, "pause") /\ NoFlag(w)
           /\ job' = [job EXCEPT ![w].blame = blame]
  <2> DEFINE j == [job[w] EXCEPT !.blame = blame]
  <2>1. job' = [job EXCEPT ![w] = j]
    BY <1>3 DEF Control
  <2>2. j \in Jobs /\ j.from = job[w].from
    BY DEF Control, Jobs, JobRecords
  <2>3. w = Cron => LiveOnly(j)
    BY <2>2 DEF Control, LiveOnly
  <2> HIDE DEF j
  <2>4. QED BY <1>3, <2>1, <2>2, <2>3 DEF NoFlag
<1>4. QED BY <1>1, <1>2, <1>3

LEMMA PublishEnds ==
  ASSUME Control, NEW w \in Workers,
         NEW s \in {"idle", "load", "check", "undo", "pause"}, NEW j \in Jobs, Moves(w, s, j),
         w = Cron => LiveOnly(j), w \notin newer', lock = w => lock' = None,
         lock' \in {lock, None},
         newer' \subseteq newer \cup {v \in Workers \ {w} : pc[v] \in Publishing}
  PROVE  Control'
<1>1. s \in PcValues
  BY Pcs
<1>2. lock' # w
  BY LifecycleAssumption DEF Workers
<1>3. QED BY <1>1, <1>2, ControlMoves

----------------------------------------------------------------------------
(* The types.                                                              *)

OfferRows ==
  /\ status \in [Offers -> Status]
  /\ starts \in [Offers -> 0 .. LastTick] /\ ends \in [Offers -> 0 .. LastTick + 1]
  /\ stamped \subseteq Offers
  /\ author \in [Offers -> Workers \cup {None}] /\ confirmed \subseteq Offers

Shop ==
  /\ compiled \subseteq Offers /\ served \subseteq Offers /\ manifest \subseteq Offers
  /\ snap \subseteq Offers /\ pending \in BOOLEAN

Bounds ==
  /\ now \in 0 .. LastTick /\ ops \in 0 .. MaxOps
  /\ faults \in 0 .. MaxFaults /\ crashes \in 0 .. MaxCrashes

LEMMA TypeParts == /\ TypeOK <=> OfferRows /\ Shop /\ Control /\ Bounds
                   /\ TypeOK' <=> OfferRows' /\ Shop' /\ Control' /\ Bounds'
  BY DEF TypeOK, OfferRows, Shop, Control, Bounds, LiveOnly

LEMMA Written ==
  ASSUME OfferRows, NEW w \in Workers \cup {None}, NEW f \in StatusMaps, NEW stamp \in SUBSET Offers,
         Write(w, f, stamp)
  PROVE  /\ status' \in [Offers -> Status] /\ stamped' \subseteq Offers
         /\ author' \in [Offers -> Workers \cup {None}] /\ confirmed' \subseteq confirmed
<1>1. \A o \in DOMAIN f : f[o] \in Status
  BY StatusMap
<1>2. QED BY <1>1 DEF OfferRows, Write

LEMMA OfferConfirmed ==
  ASSUME OfferRows, Control, NEW w \in Workers, Succeed(w)
  PROVE  confirmed' \subseteq Offers
<1>1. job[w].to \in StatusMaps
  BY DEF Control, Jobs, JobRecords
<1>2. DOMAIN job[w].to \subseteq Offers
  BY <1>1, StatusMap
<1>3. QED BY <1>2 DEF Succeed, OfferRows

LEMMA PartialTyped ==
  ASSUME Shop, Partial PROVE served' \subseteq Offers /\ compiled' \subseteq Offers
  BY DEF Shop, Partial

LEMMA Faulted == ASSUME Bounds, Fault PROVE faults' \in 0 .. MaxFaults
  BY LifecycleAssumption DEF Bounds, Fault

LEMMA TypeInit == Init => TypeOK
<1> SUFFICES ASSUME Init PROVE TypeOK
  OBVIOUS
<1>1. OfferRows
  BY DEF Init, OfferRows, Status
<1>2. Shop
  BY DEF Init, Shop, Active
<1>3. Control
  <2>1. pc \in [Workers -> PcValues] /\ job \in [Workers -> Jobs]
    BY Pcs, NoJobTyped DEF Init
  <2>2. LiveOnly(job[Cron])
    BY NoJobTyped DEF Init, LiveOnly, Workers
  <2>3. QED BY <2>1, <2>2 DEF Init, Control
<1>4. Bounds
  BY LifecycleAssumption DEF Init, Bounds
<1>5. QED BY <1>1, <1>2, <1>3, <1>4, TypeParts

\* A worker goes on outside a publish, or into one, without lock and flag.
LEMMA Steps ==
  ASSUME Control, NEW w \in Workers, pc[w] \notin Publishing, NEW s \in PcValues,
         NEW j \in Jobs, Moves(w, s, j), w = Cron => LiveOnly(j), UNCHANGED <<lock, flag>>
  PROVE  Control'
<1>1. lock # w /\ w \notin newer
  BY LifecycleAssumption DEF Control, Workers
<1>2. QED BY <1>1, ControlMoves DEF flag

LEMMA KeepsJob ==
  ASSUME Control, NEW w \in Workers, NEW s, Goto(w, s), UNCHANGED job
  PROVE  Moves(w, s, job[w]) /\ job[w] \in Jobs /\ (w = Cron => LiveOnly(job[w]))
  BY DEF Control, Moves, Goto

LEMMA Finishes ==
  ASSUME NEW w \in Workers, Finish(w)
  PROVE  Moves(w, "idle", NoJob) /\ NoJob \in Jobs /\ LiveOnly(NoJob)
  BY NoJobTyped DEF Finish, Moves, Goto, LiveOnly

LEMMA PublishTypes ==
  ASSUME TypeOK, NEW w \in Workers, PublishStep(w) PROVE TypeOK'
<1>1. OfferRows /\ Shop /\ Control /\ Bounds
  BY TypeParts
<1> USE DEF rows, shopify, flag, bounds
<1>2. CASE PublishRead(w)
  <2>1. OfferRows' /\ Shop' /\ Bounds'
    BY <1>1, <1>2 DEF PublishRead, OfferRows, Shop, Bounds, Active
  <2>2. Control'
    BY <1>1, <1>2 DEF PublishRead, Control
  <2>3. QED BY <2>1, <2>2, TypeParts
<1>3. CASE PublishOk(w)
  <2>1. OfferRows'
    BY <1>1, <1>3, OfferConfirmed DEF PublishOk, OfferRows, Touch
  <2>2. Shop' /\ Bounds'
    BY <1>1, <1>3 DEF PublishOk, Release, Shop, Bounds
  <2>3. Control'
    <3>1. PICK s \in {"idle", "load", "check"}, j \in Jobs :
              Moves(w, s, j) /\ (w = Cron => LiveOnly(j))
      BY <1>1, <1>3, SucceedMoves DEF PublishOk
    <3>2. lock' = None /\ newer' = newer \ {w}
      BY <1>3 DEF PublishOk, Release
    <3>3. QED BY <1>1, <3>1, <3>2, PublishEnds
  <2>4. QED BY <2>1, <2>2, <2>3, TypeParts
<1>4. CASE PublishParked(w)
  <2>1. OfferRows'
    BY <1>1, <1>4, OfferConfirmed DEF PublishParked, OfferRows, Touch
  <2>2. Shop' /\ Bounds'
    BY <1>1, <1>4, PartialTyped, Faulted DEF PublishParked, Release, Flag, Shop, Bounds
  <2>3. Control'
    <3>1. PICK s \in {"idle", "load", "check"}, j \in Jobs :
              Moves(w, s, j) /\ (w = Cron => LiveOnly(j))
      BY <1>1, <1>4, SucceedMoves DEF PublishParked
    <3>2. lock' \in {lock, None} /\ (lock = w => lock' = None)
      BY <1>4 DEF PublishParked, Release
    <3>3. newer' = {v \in Workers \ {w} : pc[v] \in Publishing}
      BY <1>4 DEF PublishParked, Flag
    <3>4. QED BY <1>1, <3>1, <3>2, <3>3, PublishEnds
  <2>4. QED BY <2>1, <2>2, <2>3, TypeParts
<1>5. CASE PublishFailed(w)
  <2>1. PICK blame \in Offers \cup {None} : GiveUp(w, blame)
    BY <1>1, <1>5 DEF PublishFailed, Shop
  <2>2. confirmed' = confirmed /\ pending' \in BOOLEAN
    BY <1>1, <2>1, GiveUpMoves DEF Shop
  <2>3. OfferRows'
    BY <1>1, <1>5, <2>2 DEF PublishFailed, OfferRows, Touch
  <2>4. Shop' /\ Bounds'
    BY <1>1, <1>5, <2>2, PartialTyped, Faulted DEF PublishFailed, Release, Shop, Bounds
  <2>5. Control'
    <3>1. PICK s \in {"idle", "load", "check", "undo", "pause"}, j \in Jobs :
              Moves(w, s, j) /\ (w = Cron => LiveOnly(j))
      BY <1>1, <2>1, GiveUpMoves
    <3>2. /\ w \notin newer'
          /\ newer' \subseteq newer \cup {v \in Workers \ {w} : pc[v] \in Publishing}
      BY <1>1, <2>1, GiveUpMoves
    <3>3. lock' = None
      BY <1>5 DEF PublishFailed, Release
    <3>4. QED BY <1>1, <3>1, <3>2, <3>3, PublishEnds
  <2>6. QED BY <2>3, <2>4, <2>5, TypeParts
<1>6. QED BY <1>2, <1>3, <1>4, <1>5 DEF PublishStep

LEMMA StatusAfterTyped ==
  /\ \A op, o : StatusAfter(op, o) \in Status
  /\ \A s, e : \A current \in Status : StatusForScheduleSave(current, s, e) \in Status
  BY DEF StatusAfter, StatusForScheduleSave, ActivationStatus, Status

LEMMA RequestTypes ==
  ASSUME TypeOK, NEW w \in Requests, RequestStep(w) PROVE TypeOK'
<1>1. /\ OfferRows /\ Shop /\ Control /\ Bounds
      /\ w \in Workers /\ w # Cron /\ {"publish", "republish"} \subseteq PcValues
  BY TypeParts, LifecycleAssumption DEF Workers, PcValues, Publishing
<1>2. job[w] \in Jobs /\ job[w].to \in StatusMaps /\ job[w].from \in StatusMaps
  BY <1>1 DEF Control, Jobs, JobRecords
<1> USE DEF rows, shopify, flag, bounds
<1>3. CASE WriteStatus(w)
  <2>1. OfferRows'
    BY <1>1, <1>2, <1>3, Written DEF WriteStatus, OfferRows
  <2>2. Shop' /\ Bounds'
    BY <1>1, <1>3 DEF WriteStatus, Shop, Bounds
  <2>3. Moves(w, "publish", job[w])
    BY <1>1, <1>3, KeepsJob DEF WriteStatus
  <2>4. Control'
    BY <1>1, <1>2, <1>3, <2>3, Pcs, Steps DEF WriteStatus
  <2>5. QED BY <2>1, <2>2, <2>4, TypeParts
<1>4. CASE WriteSchedule(w)
  <2>1. job[w].starts \in 0 .. LastTick /\ job[w].ends \in 0 .. LastTick + 1
    BY <1>2 DEF Jobs, JobRecords
  <2>2. OfferRows'
    BY <1>1, <1>2, <1>4, <2>1, Written DEF WriteSchedule, OfferRows
  <2>3. Shop' /\ Bounds'
    BY <1>1, <1>4 DEF WriteSchedule, Shop, Bounds
  <2>4. /\ Moves(w, "publish", job[w]) \/ Moves(w, "idle", NoJob)
        /\ NoJob \in Jobs
    <3>1. \/ Goto(w, "publish") /\ UNCHANGED job
          \/ Finish(w)
      BY <1>4 DEF WriteSchedule
    <3>2. CASE Goto(w, "publish") /\ UNCHANGED job
      BY <1>1, <3>2, KeepsJob, NoJobTyped
    <3>3. CASE Finish(w)
      BY <1>1, <3>3, Finishes
    <3>4. QED BY <3>1, <3>2, <3>3
  <2>5. Control'
    BY <1>1, <1>2, <1>4, <2>4, Pcs, Steps DEF WriteSchedule
  <2>6. QED BY <2>2, <2>3, <2>5, TypeParts
<1>5. CASE RefuseRepublish(w)
  <2>1. DOMAIN job[w].to \subseteq Offers
    BY <1>2, StatusMap
  <2>2. PICK blame \in Offers \cup {None} : GiveUp(w, blame)
    BY <1>5, <2>1 DEF RefuseRepublish, Active
  <2>3. confirmed' = confirmed /\ pending' \in BOOLEAN
    BY <1>1, <2>2, GiveUpMoves DEF Shop
  <2>4. OfferRows' /\ Shop' /\ Bounds'
    BY <1>1, <1>5, <2>3, Faulted DEF RefuseRepublish, OfferRows, Shop, Bounds
  <2>5. Control'
    <3>1. PICK s \in {"idle", "load", "check", "undo", "pause"}, j \in Jobs :
              Moves(w, s, j) /\ (w = Cron => LiveOnly(j))
      BY <1>1, <2>2, GiveUpMoves
    <3>2. /\ w \notin newer'
          /\ newer' \subseteq newer \cup {v \in Workers \ {w} : pc[v] \in Publishing}
      BY <1>1, <2>2, GiveUpMoves
    <3>3. QED BY <1>1, <1>5, <3>1, <3>2, PublishEnds DEF RefuseRepublish
  <2>6. QED BY <2>4, <2>5, TypeParts
<1>6. CASE PauseOffer(w)
  <2>1. PauseOffer(w) => DOMAIN [x \in {job[w].blame} |-> "paused"] = {job[w].blame}
    OBVIOUS
  <2>2. OfferRows'
    BY <1>1, <1>6 DEF PauseOffer, Write, OfferRows, Status
  <2>3. Shop' /\ Bounds'
    BY <1>1, <1>6 DEF PauseOffer, Shop, Bounds
  <2>4. Moves(w, "republish", job[w])
    BY <1>1, <1>6, KeepsJob DEF PauseOffer
  <2>5. Control'
    BY <1>1, <1>2, <1>6, <2>4, Pcs, Steps DEF PauseOffer
  <2>6. QED BY <2>2, <2>3, <2>5, TypeParts
<1>7. CASE UndoStatus(w)
  <2>1. Restores(w) \subseteq DOMAIN job[w].to
    BY DEF Restores
  <2>2. DOMAIN job[w].from = DOMAIN job[w].to /\ DOMAIN job[w].to \subseteq Offers
    BY <1>2, StatusMap DEF Jobs
  <2>3. [o \in Restores(w) |-> job[w].from[o]] \in [Restores(w) -> Status]
    BY <1>2, <2>1, <2>2, StatusMap
  <2>4. [o \in Restores(w) |-> job[w].from[o]] \in StatusMaps
    BY <2>1, <2>2, <2>3, StatusMap
  <2>5. OfferRows'
    <3> DEFINE f == [o \in Restores(w) |-> job[w].from[o]]
    <3>1. f \in StatusMaps /\ Write(None, f, {}) /\ UNCHANGED <<starts, ends>>
      BY <1>7, <2>4 DEF UndoStatus
    <3> HIDE DEF f
    <3>2. QED BY <1>1, <3>1, Written DEF OfferRows
  <2>6. Shop' /\ Bounds'
    BY <1>1, <1>7 DEF UndoStatus, Shop, Bounds
  <2>7. Control'
    BY <1>1, <1>7, Finishes, Pcs, Steps DEF UndoStatus
  <2>8. QED BY <2>5, <2>6, <2>7, TypeParts
<1>8. QED BY <1>3, <1>4, <1>5, <1>6, <1>7 DEF RequestStep

LEMMA DecisionTypes ==
  ASSUME TypeOK, NEW w \in Requests, NEW j \in Jobs, NEW s \in {"write", "publish"},
         pc[w] = "idle", Moves(w, s, j), ops < MaxOps, ops' = ops + 1,
         UNCHANGED <<rows, shopify, flag, lock, snap, now, faults, crashes, confirmed>>
  PROVE  TypeOK'
<1>1. OfferRows /\ Shop /\ Control /\ Bounds /\ w \in Workers /\ w # Cron /\ s \in PcValues
  BY TypeParts, LifecycleAssumption DEF Workers, PcValues, Publishing
<1>2. OfferRows' /\ Shop'
  BY <1>1 DEF rows, shopify, flag, OfferRows, Shop
<1>3. Bounds'
  BY <1>1, LifecycleAssumption DEF Bounds
<1>4. Control'
  BY <1>1, Pcs, Steps
<1>5. QED BY <1>2, <1>3, <1>4, TypeParts

LEMMA Decisions ==
  ASSUME TypeOK, NEW w \in Requests,
         \/ Republish(w)
         \/ \E op \in Ops, T \in SUBSET Offers \ {{}} : DecideStatus(w, op, T)
         \/ \E o \in Offers : DecideSchedule(w, o)
  PROVE  \E j \in Jobs, s \in {"write", "publish"} :
           /\ pc[w] = "idle" /\ Moves(w, s, j) /\ ops < MaxOps /\ ops' = ops + 1
           /\ UNCHANGED <<rows, shopify, flag, lock, snap, now, faults, crashes, confirmed>>
<1>1. /\ status \in [Offers -> Status] /\ Ops \subseteq AllOps
      /\ 0 \in 0 .. LastTick /\ 0 \in 0 .. LastTick + 1
  BY TypeParts, LifecycleAssumption DEF OfferRows
<1>2. CASE Republish(w)
  <2> DEFINE j == Job("republish", <<>>, <<>>, 0, 0)
  <2>1. j \in Jobs
    BY NoJobTyped DEF AllOps
  <2> HIDE DEF j
  <2>2. Moves(w, "publish", j)
    BY <1>2 DEF Republish, Moves, Goto, j
  <2>3. QED BY <1>2, <2>1, <2>2 DEF Republish, Begin
<1>3. ASSUME NEW op \in Ops, NEW T \in SUBSET Offers, DecideStatus(w, op, T)
      PROVE  \E j \in Jobs :
               /\ pc[w] = "idle" /\ Moves(w, "write", j) /\ ops < MaxOps /\ ops' = ops + 1
               /\ UNCHANGED <<rows, shopify, flag, lock, snap, now, faults, crashes, confirmed>>
  <2> DEFINE from == [o \in T |-> status[o]]
             to == [o \in T |-> StatusAfter(op, o)]
             j == Job(op, from, to, 0, 0)
  <2>1. from \in [T -> Status] /\ to \in [T -> Status]
    BY <1>1, StatusAfterTyped
  <2>2. job' = [job EXCEPT ![w] = j]
    BY <1>3 DEF DecideStatus
  <2> HIDE DEF from, to
  <2>3. j \in Jobs
    BY <1>1, <2>1, Decided
  <2> HIDE DEF j
  <2>4. QED BY <1>3, <2>2, <2>3 DEF DecideStatus, Begin, Moves, Goto
<1>4. ASSUME NEW o \in Offers, DecideSchedule(w, o)
      PROVE  \E j \in Jobs :
               /\ pc[w] = "idle" /\ Moves(w, "write", j) /\ ops < MaxOps /\ ops' = ops + 1
               /\ UNCHANGED <<rows, shopify, flag, lock, snap, now, faults, crashes, confirmed>>
  <2> DEFINE from == [x \in {o} |-> status[o]]
             to(s, e) == [x \in {o} |-> StatusForScheduleSave(status[o], s, e)]
             j(s, e) == Job("setSchedule", from, to(s, e), s, e)
  <2>1. from \in [{o} -> Status] /\ \A s, e : to(s, e) \in [{o} -> Status]
    BY <1>1, StatusAfterTyped
  <2>2. PICK s \in 0 .. LastTick, e \in 1 .. LastTick + 1 : job' = [job EXCEPT ![w] = j(s, e)]
    BY <1>4 DEF DecideSchedule
  <2>3. e \in 0 .. LastTick + 1
    BY <2>2, LifecycleAssumption
  <2> HIDE DEF from, to
  <2>4. j(s, e) \in Jobs
    BY <1>1, <2>1, <2>3, Decided DEF AllOps
  <2> HIDE DEF j
  <2>5. QED BY <1>4, <2>2, <2>4 DEF DecideSchedule, Begin, Moves, Goto
<1>5. QED BY <1>2, <1>3, <1>4

LEMMA CronTypes ==
  ASSUME TypeOK, CronStep PROVE TypeOK'
<1>1. /\ OfferRows /\ Shop /\ Control /\ Bounds /\ Cron \in Workers
      /\ Publishing \subseteq PcValues
  BY TypeParts, Pcs DEF Workers
<1>2. /\ job[Cron] \in Jobs /\ job[Cron].to \in StatusMaps /\ job[Cron].from \in StatusMaps
      /\ DOMAIN job[Cron].to \subseteq Offers
  BY <1>1, StatusMap DEF Control, Jobs, JobRecords
<1> USE DEF rows, shopify, flag, bounds
<1>3. CASE StartRun
  <2>1. OfferRows' /\ Shop' /\ Bounds'
    BY <1>1, <1>3 DEF StartRun, OfferRows, Shop, Bounds
  <2>2. PICK s \in {"reconcile", "load"} : Goto(Cron, s) /\ UNCHANGED job
    BY <1>3 DEF StartRun
  <2>3. s \in PcValues /\ Moves(Cron, s, job[Cron]) /\ LiveOnly(job[Cron])
    BY <1>1, <2>2, KeepsJob, Pcs DEF Publishing
  <2>4. Control'
    BY <1>1, <1>2, <1>3, <2>3, Pcs, Steps DEF StartRun
  <2>5. QED BY <2>1, <2>4, TypeParts
<1>4. CASE Load
  <2>1. OfferRows' /\ Shop'
    BY <1>1, <1>4 DEF Load, OfferRows, Shop
  <2>2. Bounds'
    BY <1>1, <1>4, Faulted DEF Load, Bounds
  <2>3. PICK T \in SUBSET {o \in Offers : Due(o)} :
          \/ Goto(Cron, "check") /\ UNCHANGED job
          \/ /\ Goto(Cron, "apply")
             /\ job' = [job EXCEPT ![Cron] = Job("schedule", [o \in T |-> status[o]],
                  [o \in T |-> IF ends[o] <= now THEN "expired" ELSE "active"], 0, 0)]
    BY <1>4 DEF Load
  <2>4. CASE Goto(Cron, "check") /\ UNCHANGED job
    <3>1. Moves(Cron, "check", job[Cron]) /\ LiveOnly(job[Cron])
      BY <1>1, <2>4, KeepsJob
    <3>2. Control'
      BY <1>1, <1>2, <1>4, <3>1, Pcs, Steps DEF Load
    <3>3. QED BY <2>1, <2>2, <3>2, TypeParts
  <2>5. CASE /\ Goto(Cron, "apply")
             /\ job' = [job EXCEPT ![Cron] = Job("schedule", [o \in T |-> status[o]],
                  [o \in T |-> IF ends[o] <= now THEN "expired" ELSE "active"], 0, 0)]
    <3> DEFINE from == [o \in T |-> status[o]]
               to == [o \in T |-> IF ends[o] <= now THEN "expired" ELSE "active"]
               j == Job("schedule", from, to, 0, 0)
    <3>1. from \in [T -> Status] /\ to \in [T -> Status] /\ T \in SUBSET Offers
      BY <1>1, <2>3 DEF OfferRows, Status
    <3>3. Goto(Cron, "apply") /\ job' = [job EXCEPT ![Cron] = j]
      BY <2>5
    <3>4. LiveOnly(j)
      BY <2>3 DEF Due, LiveOnly, Job
    <3>5. 0 \in 0 .. LastTick /\ 0 \in 0 .. LastTick + 1
      BY LifecycleAssumption
    <3> HIDE DEF from, to
    <3>6. j \in Jobs
      BY <3>1, <3>5, Decided
    <3> HIDE DEF j
    <3>7. Moves(Cron, "apply", j)
      BY <3>3 DEF Moves, Goto
    <3>8. Control'
      BY <1>1, <1>4, <3>4, <3>6, <3>7, Pcs, Steps DEF Load
    <3>9. QED BY <2>1, <2>2, <3>8, TypeParts
  <2>6. QED BY <2>3, <2>4, <2>5
<1>5. CASE Apply
  <2>1. OfferRows'
    BY <1>1, <1>2, <1>5, Written DEF Apply, OfferRows
  <2>2. Shop' /\ Bounds'
    BY <1>1, <1>5 DEF Apply, Shop, Bounds
  <2>3. PICK s \in {"publish", "check"} : Goto(Cron, s) /\ UNCHANGED job
    BY <1>5 DEF Apply
  <2>4. s \in PcValues /\ Moves(Cron, s, job[Cron]) /\ LiveOnly(job[Cron])
    BY <1>1, <2>3, KeepsJob, Pcs DEF Publishing
  <2>5. Control'
    BY <1>1, <1>2, <1>5, <2>4, Pcs, Steps DEF Apply
  <2>6. QED BY <2>1, <2>2, <2>5, TypeParts
<1>6. CASE UndoSchedule
  <2>1. OfferRows'
    <3>1. CASE Write(None, job[Cron].from, {})
      <4>1. /\ status' \in [Offers -> Status] /\ stamped' \subseteq Offers
            /\ author' \in [Offers -> Workers \cup {None}] /\ confirmed' \subseteq confirmed
        BY <1>1, <1>2, <3>1, Written
      <4>2. QED BY <1>1, <1>6, <4>1 DEF UndoSchedule, OfferRows
    <3>2. CASE UNCHANGED <<status, stamped, author, confirmed>>
      BY <1>1, <1>6, <3>2 DEF UndoSchedule, OfferRows
    <3>3. QED BY <1>6, <3>1, <3>2 DEF UndoSchedule
  <2>2. Shop' /\ Bounds'
    BY <1>1, <1>6 DEF UndoSchedule, Shop, Bounds
  <2>3. PICK s \in {"restore", "check"} : Goto(Cron, s) /\ UNCHANGED job
    BY <1>6 DEF UndoSchedule
  <2>4. s \in PcValues /\ Moves(Cron, s, job[Cron]) /\ LiveOnly(job[Cron])
    BY <1>1, <2>3, KeepsJob, Pcs DEF Publishing
  <2>5. Control'
    BY <1>1, <1>2, <1>6, <2>4, Pcs, Steps DEF UndoSchedule
  <2>6. QED BY <2>1, <2>2, <2>5, TypeParts
<1>7. CASE CheckDrift
  <2>1. OfferRows' /\ Shop'
    BY <1>1, <1>7 DEF CheckDrift, OfferRows, Shop
  <2>2. Bounds'
    BY <1>1, <1>7, Faulted DEF CheckDrift, Bounds
  <2>3. CASE Goto(Cron, "repair") /\ UNCHANGED job
    <3>1. "repair" \in PcValues /\ Moves(Cron, "repair", job[Cron]) /\ LiveOnly(job[Cron])
      BY <1>1, <2>3, KeepsJob, Pcs DEF Publishing
    <3>2. Control'
      BY <1>1, <1>2, <1>7, <3>1, Pcs, Steps DEF CheckDrift
    <3>3. QED BY <2>1, <2>2, <3>2, TypeParts
  <2>4. CASE Finish(Cron)
    <3>1. Control'
      BY <1>1, <1>7, <2>4, Finishes, Pcs, Steps DEF CheckDrift
    <3>2. QED BY <2>1, <2>2, <3>1, TypeParts
  <2>5. QED BY <1>7, <2>3, <2>4 DEF CheckDrift
<1>8. QED BY <1>3, <1>4, <1>5, <1>6, <1>7 DEF CronStep

LEMMA CrashTypes ==
  ASSUME TypeOK, NEW w \in Workers, Crash(w) PROVE TypeOK'
<1>1. OfferRows /\ Shop /\ Control /\ Bounds
  BY TypeParts
<1>2. OfferRows'
  BY <1>1 DEF Crash, OfferRows, Touch
<1>3. Shop' /\ Bounds'
  BY <1>1, PartialTyped, LifecycleAssumption DEF Crash, Release, NoFlag, Shop, Bounds
<1>4. Control'
  <2>1. /\ Moves(w, "idle", NoJob) /\ NoJob \in Jobs /\ LiveOnly(NoJob)
        /\ newer' = newer \ {w} /\ lock' \in {lock, None} /\ (lock = w => lock' = None)
    BY Finishes DEF Crash, NoFlag, Release
  <2>2. QED BY <1>1, <2>1, PublishEnds
<1>5. QED BY <1>2, <1>3, <1>4, TypeParts

LEMMA TypeNext == TypeOK /\ [Next]_vars => TypeOK'
<1> SUFFICES ASSUME TypeOK, [Next]_vars PROVE TypeOK'
  OBVIOUS
<1>1. CASE Tick
  <2>1. Bounds'
    BY <1>1, TypeParts, LifecycleAssumption DEF Tick, Bounds
  <2>2. OfferRows' /\ Shop' /\ Control'
    BY <1>1, TypeParts DEF Tick, rows, shopify, flag, OfferRows, Shop, Control
  <2>3. QED BY <2>1, <2>2, TypeParts
<1>2. CASE UNCHANGED vars
  BY <1>2 DEF vars, rows, shopify, flag, bounds, TypeOK
<1>3. ASSUME NEW w \in Requests,
             \/ Republish(w)
             \/ \E op \in Ops, T \in SUBSET Offers \ {{}} : DecideStatus(w, op, T)
             \/ \E o \in Offers : DecideSchedule(w, o)
      PROVE  TypeOK'
  BY <1>3, Decisions, DecisionTypes
<1>4. QED
  BY <1>1, <1>2, <1>3, CronTypes, PublishTypes, CrashTypes, RequestTypes DEF Next

\* TypeOK is an invariant: for any offers, requests and bounds, every variable
\* keeps its type, the lock is held by a publish, only publishes under way are
\* older than the flag, and the scheduler moves only live offers.
THEOREM OfferTypeCorrect == Spec => []TypeOK
<1>1. QED BY TypeInit, TypeNext, PTL DEF Spec

----------------------------------------------------------------------------
(* What was confirmed is served.                                           *)

Live(o) == status[o] = "active"

\* Besides the property: the publish that holds the lock has read the status
\* of every confirmed offer as it stands, unless the shop will stay flagged
\* after it, and of every offer that its own worker wrote last.
ServedInv ==
  /\ ConfirmedStatusIsServed
  /\ lock # None /\ (pending => lock \notin newer)
       => \A o \in confirmed : o \in snap <=> Live(o)
  /\ lock # None => \A o \in Offers : author[o] = lock => (o \in snap <=> Live(o))

LEMMA ServedInit == Init => ServedInv
  BY DEF Init, ServedInv, ConfirmedStatusIsServed

\* A step that neither writes statuses nor publishes.
LEMMA QuietStep ==
  ASSUME ServedInv, UNCHANGED <<status, author, confirmed, served, pending, newer, lock, snap>>
  PROVE  ServedInv'
  BY DEF ServedInv, ConfirmedStatusIsServed, Live

\* A write by somebody who is not publishing: what it writes is no longer
\* confirmed and not the publisher's own.
LEMMA WriteStep ==
  ASSUME TypeOK, ServedInv, NEW w \in Workers \cup {None}, NEW f, NEW stamp, Write(w, f, stamp),
         lock # None => lock # w, UNCHANGED <<served, pending, newer, lock, snap>>
  PROVE  ServedInv'
<1>1. /\ \A o \in Offers : o \notin DOMAIN f => status'[o] = status[o] /\ author'[o] = author[o]
      /\ \A o \in Offers : o \in DOMAIN f => author'[o] = w
      /\ confirmed' = confirmed \ DOMAIN f /\ confirmed \subseteq Offers
  BY DEF Write, TypeOK
<1>2. QED BY <1>1 DEF ServedInv, ConfirmedStatusIsServed, Live

\* Another worker's publish ends while the lock is taken: a flag that it sets
\* outlives the publish that holds the lock.
LEMMA OutsideStep ==
  ASSUME TypeOK, ServedInv, NEW w \in Workers, lock # w, NoFlag(w) \/ Flag(w),
         UNCHANGED <<status, author, confirmed, served, lock, snap>>
  PROVE  ServedInv'
<1>1. CASE NoFlag(w)
  BY <1>1 DEF NoFlag, ServedInv, ConfirmedStatusIsServed, Live
<1>2. CASE Flag(w)
  <2>1. pending' /\ (lock' # None => lock' \in newer')
    BY <1>2 DEF Flag, TypeOK
  <2>2. QED BY <2>1 DEF ServedInv, ConfirmedStatusIsServed, Live
<1>3. QED BY <1>1, <1>2

\* A publish that ends without completing leaves what was served, takes some of
\* it away that is not live, or serves what it has read.
LEMMA BrokenStep ==
  ASSUME TypeOK, ServedInv, NEW w \in Workers, lock = w, lock' = None,
         served' \in {served, served \cap snap, snap}, pending' \in {TRUE, pending},
         UNCHANGED <<status, author, confirmed>>
  PROVE  ServedInv'
<1>1. lock # None
  BY LifecycleAssumption DEF Workers
<1>2. ASSUME NEW o \in confirmed, ~pending' PROVE o \in served' <=> Live(o)
  <2>1. ~pending
    BY <1>2 DEF TypeOK
  <2>2. (o \in served <=> Live(o)) /\ (o \in snap <=> Live(o))
    BY <1>1, <2>1 DEF ServedInv, ConfirmedStatusIsServed, Live
  <2>3. QED BY <2>2
<1>3. QED BY <1>2 DEF ServedInv, ConfirmedStatusIsServed, Live

LEMMA PublishServed ==
  ASSUME TypeOK, ServedInv, NEW w \in Workers, PublishStep(w) PROVE ServedInv'
<1> USE DEF rows, shopify, flag, bounds
<1>1. w # None
  BY LifecycleAssumption DEF Workers
<1>2. CASE PublishRead(w)
  BY <1>2 DEF PublishRead, Active, TypeOK, ServedInv, ConfirmedStatusIsServed, Live
<1>3. CASE PublishOk(w)
  <2>1. /\ lock = w /\ lock' = None /\ served' = snap
        /\ pending' = (pending /\ w \in newer) /\ UNCHANGED <<status, author>>
    BY <1>3 DEF PublishOk, Release, ClearsFlag
  <2>2. \A o \in confirmed' : o \in confirmed \/ (o \in Offers /\ author[o] = w)
    <3>1. DOMAIN job[w].to \subseteq Offers
      BY StatusMap DEF TypeOK, Jobs, JobRecords
    <3>2. QED BY <1>3, <3>1 DEF PublishOk, Succeed
  <2>3. ASSUME NEW o \in confirmed', ~pending' PROVE o \in served' <=> Live(o)
    BY <1>1, <2>1, <2>2, <2>3 DEF ServedInv
  <2>4. QED BY <2>1, <2>3 DEF ServedInv, ConfirmedStatusIsServed, Live
<1>4. CASE PublishParked(w)
  <2>1. pending' /\ UNCHANGED <<status, author>>
    BY <1>4 DEF PublishParked, Flag
  <2>2. CASE lock = w /\ Release
    BY <2>1, <2>2 DEF Release, ServedInv, ConfirmedStatusIsServed
  <2>3. CASE lock \notin {w, None} /\ UNCHANGED <<lock, snap>>
    <3>1. lock' \in newer'
      BY <1>4, <2>3 DEF PublishParked, Flag, TypeOK
    <3>2. QED BY <2>1, <2>3, <3>1 DEF ServedInv, ConfirmedStatusIsServed, Live
  <2>4. QED BY <1>4, <2>2, <2>3 DEF PublishParked
<1>5. CASE PublishFailed(w)
  <2>1. PICK blame \in Offers \cup {None} : GiveUp(w, blame)
    BY <1>5 DEF PublishFailed, TypeOK
  <2>2. Control
    BY TypeParts
  <2>3. UNCHANGED confirmed /\ pending' \in {TRUE, pending}
    BY <2>1, <2>2, GiveUpMoves
  <2>4. served' \in {served, served \cap snap, snap}
    BY <1>5 DEF PublishFailed, Partial
  <2>5. lock = w /\ lock' = None /\ UNCHANGED <<status, author>>
    BY <1>5 DEF PublishFailed, Release
  <2>6. QED BY <2>3, <2>4, <2>5, BrokenStep
<1>6. QED BY <1>2, <1>3, <1>4, <1>5 DEF PublishStep

LEMMA RequestServed ==
  ASSUME TypeOK, ServedInv, NEW w \in Requests, RequestStep(w) PROVE ServedInv'
<1> USE DEF rows, shopify, flag, bounds
<1>1. w \in Workers /\ Control
  BY TypeParts DEF Workers
<1>2. CASE WriteStatus(w) \/ WriteSchedule(w) \/ PauseOffer(w)
  <2>1. pc[w] \notin Publishing
    BY <1>2, Pcs DEF WriteStatus, WriteSchedule, PauseOffer
  <2>2. lock # None => lock # w
    BY <2>1 DEF TypeOK
  <2>3. UNCHANGED <<served, pending, newer, lock, snap>>
    BY <1>2 DEF WriteStatus, WriteSchedule, PauseOffer
  <2>4. PICK f : Write(w, f, {})
    BY <1>2 DEF WriteStatus, WriteSchedule, PauseOffer
  <2>5. QED BY <1>1, <2>2, <2>3, <2>4, WriteStep
<1>3. CASE UndoStatus(w)
  <2>1. UNCHANGED <<served, pending, newer, lock, snap>>
    BY <1>3 DEF UndoStatus
  <2>2. PICK f : Write(None, f, {})
    BY <1>3 DEF UndoStatus
  <2>3. QED BY <2>1, <2>2, WriteStep
<1>4. CASE RefuseRepublish(w)
  <2>1. DOMAIN job[w].to \subseteq Offers
    BY <1>1, StatusMap DEF Control, Jobs, JobRecords
  <2>2. PICK blame \in Offers \cup {None} : GiveUp(w, blame)
    BY <1>4, <2>1 DEF RefuseRepublish, Active
  <2>3. UNCHANGED confirmed /\ (NoFlag(w) \/ Flag(w))
    BY <1>1, <2>2, GiveUpMoves
  <2>4. lock # w /\ UNCHANGED <<status, author, served, lock, snap>>
    BY <1>4 DEF RefuseRepublish
  <2>5. QED BY <1>1, <2>3, <2>4, OutsideStep
<1>5. QED BY <1>2, <1>3, <1>4 DEF RequestStep

LEMMA CronServed ==
  ASSUME TypeOK, ServedInv, CronStep PROVE ServedInv'
<1> USE DEF rows, shopify, flag, bounds
<1>1. CASE StartRun \/ Load \/ CheckDrift
  <2>1. UNCHANGED <<status, author, confirmed, served, pending, newer, lock, snap>>
    BY <1>1 DEF StartRun, Load, CheckDrift
  <2>2. QED BY <2>1, QuietStep
<1>2. CASE Apply \/ UndoSchedule
  <2>1. UNCHANGED <<served, pending, newer, lock, snap>>
    BY <1>2 DEF Apply, UndoSchedule
  <2>2. pc[Cron] \notin Publishing
    BY <1>2, Pcs DEF Apply, UndoSchedule
  <2>3. lock # None => lock # Cron
    BY <2>2 DEF TypeOK
  <2>4. CASE \E w \in {Cron, None} : \E f, stamp : Write(w, f, stamp)
    BY <2>1, <2>3, <2>4, WriteStep DEF Workers
  <2>5. CASE UNCHANGED <<status, author, confirmed>>
    BY <2>1, <2>5, QuietStep
  <2>6. QED BY <1>2, <2>4, <2>5 DEF Apply, UndoSchedule
<1>3. QED BY <1>1, <1>2 DEF CronStep

LEMMA ServedNext == TypeOK /\ ServedInv /\ [Next]_vars => ServedInv'
<1> SUFFICES ASSUME TypeOK, ServedInv, [Next]_vars PROVE ServedInv'
  OBVIOUS
<1> USE DEF rows, shopify, flag, bounds
<1>1. CASE Tick \/ UNCHANGED vars
  BY <1>1, QuietStep DEF Tick, vars
<1>2. ASSUME NEW w \in Workers, Crash(w) PROVE ServedInv'
  <2>1. NoFlag(w) /\ UNCHANGED <<status, author, confirmed>> /\ pending' = pending
    BY <1>2 DEF Crash, NoFlag
  <2>2. CASE lock = w /\ Release /\ Partial
    BY <2>1, <2>2, BrokenStep DEF Release, Partial
  <2>3. CASE lock # w /\ UNCHANGED <<lock, snap, served>>
    BY <2>1, <2>3, OutsideStep
  <2>4. QED BY <1>2, <2>2, <2>3 DEF Crash
<1>3. ASSUME NEW w \in Requests,
             \/ Republish(w)
             \/ \E op \in Ops, T \in SUBSET Offers \ {{}} : DecideStatus(w, op, T)
             \/ \E o \in Offers : DecideSchedule(w, o)
      PROVE  ServedInv'
  BY <1>3, Decisions, QuietStep
<1>4. QED BY <1>1, <1>2, <1>3, CronServed, PublishServed, RequestServed DEF Next

\* ConfirmedStatusIsServed is an invariant, for any number of sessions and
\* operations, failures and crashes: what was answered as done stays live, or
\* the shop stays flagged for a publish that will read it.
THEOREM ConfirmedServed == Spec => []ConfirmedStatusIsServed
<1>1. ServedInv => ConfirmedStatusIsServed
  BY DEF ServedInv
<1>2. QED BY <1>1, TypeInit, TypeNext, ServedInit, ServedNext, PTL DEF Spec

----------------------------------------------------------------------------
(* The scheduler's rollback.                                               *)

\* Only the scheduler's own write carries the updatedAt of its run.
StampInv == \A o \in stamped : author[o] = Cron

LEMMA StampNext == TypeOK /\ StampInv /\ [Next]_vars => StampInv'
<1> SUFFICES ASSUME TypeOK, StampInv, [Next]_vars PROVE StampInv'
  OBVIOUS
<1> USE DEF rows, shopify, flag, bounds, StampInv
<1>1. ASSUME NEW w, NEW f, NEW stamp, Write(w, f, stamp),
             stamp \subseteq DOMAIN f, stamp \subseteq Offers, stamp # {} => w = Cron
      PROVE  StampInv'
  BY <1>1 DEF Write, TypeOK
<1>2. CASE Tick \/ UNCHANGED vars
  BY <1>2 DEF Tick, vars
<1>3. ASSUME NEW w \in Workers, PublishStep(w) \/ Crash(w) PROVE StampInv'
  BY <1>3 DEF PublishStep, PublishRead, PublishOk, PublishParked, PublishFailed, Crash, Touch
<1>4. ASSUME NEW w \in Requests,
             \/ Republish(w)
             \/ \E op \in Ops, T \in SUBSET Offers \ {{}} : DecideStatus(w, op, T)
             \/ \E o \in Offers : DecideSchedule(w, o)
      PROVE  StampInv'
  BY <1>4, Decisions
<1>5. ASSUME NEW w \in Requests, RequestStep(w) PROVE StampInv'
  BY <1>1, <1>5 DEF RequestStep, WriteStatus, WriteSchedule, RefuseRepublish, PauseOffer,
                    UndoStatus
<1>6. CASE CronStep
  <2>1. DOMAIN job[Cron].to \subseteq Offers
    BY StatusMap DEF TypeOK, Jobs, JobRecords, Workers
  <2>2. QED BY <1>1, <1>6, <2>1 DEF CronStep, StartRun, Load, Apply, UndoSchedule, CheckDrift
<1>7. QED BY <1>2, <1>3, <1>4, <1>5, <1>6 DEF Next

LEMMA StepsIntoRestore ==
  ASSUME TypeOK, Next, pc[Cron] = "undo", pc'[Cron] = "restore" PROVE UndoSchedule
<1>1. Cron \in Workers /\ Cron \notin Requests /\ Control
  BY TypeParts, LifecycleAssumption DEF Workers
<1>2. \A s, j : \A w \in Workers : Moves(w, s, j) => (w = Cron /\ s = "restore")
  BY <1>1 DEF Moves, Control
<1>3. ASSUME NEW w \in Workers, PublishStep(w) \/ Crash(w) PROVE FALSE
  <2>1. CASE PublishRead(w)
    BY <2>1 DEF PublishRead
  <2>2. CASE PublishOk(w) \/ PublishParked(w)
    BY <1>1, <1>2, <2>2, SucceedMoves DEF PublishOk, PublishParked
  <2>3. CASE PublishFailed(w)
    <3>1. PICK blame \in Offers \cup {None} : GiveUp(w, blame)
      BY <2>3 DEF PublishFailed, TypeOK
    <3>2. QED BY <1>1, <1>2, <3>1, GiveUpMoves
  <2>4. CASE Crash(w)
    BY <1>2, <2>4, Finishes DEF Crash
  <2>5. QED BY <1>3, <2>1, <2>2, <2>3, <2>4 DEF PublishStep
<1>4. ASSUME NEW w \in Requests, RequestStep(w) \/ Republish(w)
               \/ (\E op \in Ops, T \in SUBSET Offers \ {{}} : DecideStatus(w, op, T))
               \/ (\E o \in Offers : DecideSchedule(w, o))
      PROVE  FALSE
  <2>1. w \in Workers /\ w # Cron
    BY <1>1 DEF Workers
  <2>2. CASE RefuseRepublish(w)
    <3>1. DOMAIN job[w].to \subseteq Offers
      BY <1>1, <2>1, StatusMap DEF Control, Jobs, JobRecords
    <3>2. PICK blame \in Offers \cup {None} : GiveUp(w, blame)
      BY <2>2, <3>1 DEF RefuseRepublish, Active
    <3>3. QED BY <1>1, <1>2, <2>1, <3>2, GiveUpMoves
  <2>3. CASE RequestStep(w) /\ ~RefuseRepublish(w)
    <3>1. PICK s : Goto(w, s)
      BY <2>3 DEF RequestStep, WriteStatus, WriteSchedule, PauseOffer, UndoStatus, Finish
    <3>2. pc'[Cron] = pc[Cron]
      BY <1>1, <2>1, <3>1 DEF Goto, Control
    <3>3. QED BY <3>2
  <2>4. CASE ~RequestStep(w)
    BY <1>2, <1>4, <2>1, <2>4, Decisions
  <2>5. QED BY <2>2, <2>3, <2>4
<1>5. CASE Tick
  BY <1>5 DEF Tick
<1>6. CASE StartRun \/ Load \/ Apply \/ CheckDrift
  BY <1>6 DEF StartRun, Load, Apply, CheckDrift
<1>7. QED BY <1>3, <1>4, <1>5, <1>6 DEF Next, CronStep

\* SchedulerUndoesOnlyItsOwn holds of every step, whatever others do: a row
\* that still has the run's updatedAt was written last by the run.
THEOREM UndoesOnlyItsOwn == Spec => SchedulerUndoesOnlyItsOwn
<1>1. TypeOK /\ StampInv /\ [Next]_vars =>
        [\A o \in Offers :
           pc[Cron] = "undo" /\ pc'[Cron] = "restore" /\ status'[o] # status[o]
           => author[o] = Cron]_vars
  <2> SUFFICES ASSUME TypeOK, StampInv, Next, NEW o \in Offers, pc[Cron] = "undo",
                      pc'[Cron] = "restore", status'[o] # status[o]
               PROVE  author[o] = Cron
    OBVIOUS
  <2>1. UndoSchedule
    BY StepsIntoRestore
  <2>2. Write(None, job[Cron].from, {}) /\ \A x \in DOMAIN job[Cron].to : MayUndo(x)
    BY <2>1 DEF UndoSchedule
  <2>3. o \in DOMAIN job[Cron].from /\ DOMAIN job[Cron].from = DOMAIN job[Cron].to
    BY <2>2 DEF Write, TypeOK, Jobs, Workers
  <2>4. QED BY <2>2, <2>3 DEF MayUndo, StampInv
<1>2. Init => StampInv
  BY DEF Init, StampInv
<1>3. QED BY <1>1, <1>2, TypeInit, TypeNext, StampNext, PTL DEF Spec, SchedulerUndoesOnlyItsOwn

----------------------------------------------------------------------------
(* What the scheduler wrote after a merchant's operation.                  *)

\* One session at a time changes the shop's offers.
OneSession == \A r, q \in Requests : r = q

\* The scheduler only moves an offer on, never back.
Later(s)     == {t \in {"active", "expired"} : s = "scheduled" \/ (s = "active" /\ t = "expired")}
NotBefore(s) == {s} \cup Later(s)

LEMMA LaterIsOrder ==
  \A s : /\ s \notin Later(s)
         /\ \A t \in NotBefore(s) : Later(t) \subseteq Later(s)
  BY DEF Later, NotBefore

MovesOn == \A o \in DOMAIN job[Cron].from : job[Cron].to[o] \in Later(job[Cron].from[o])

\* A status operation has been written and may still be undone.
Settling(w) == pc[w] \in {"publish", "undo"} /\ job[w].op \in StatusOps

\* Since then only the scheduler wrote: it moved the offer on from what the
\* operation set, and would put back nothing from before.
KeptInv ==
  \A w \in Requests : Settling(w) =>
    \A o \in DOMAIN job[w].to :
      /\ status[o] \in NotBefore(job[w].to[o])
      /\ author[o] = Cron => status[o] # job[w].to[o]
      /\ pc[Cron] \in {"publish", "undo"} /\ o \in stamped /\ o \in DOMAIN job[Cron].from
           => job[Cron].from[o] \in NotBefore(job[w].to[o])

\* A worker's job is the same as before, or over.
SameJob(w) == /\ job'[w].op = job[w].op
              /\ job'[w].from = job[w].from /\ job'[w].to = job[w].to

LEMMA FinishedJob == ASSUME Control, NEW w \in Workers, Finish(w)
                     PROVE  pc'[w] = "idle" /\ job'[w] = NoJob
  BY DEF Control, Finish, Goto

\* What a publish, its end and a crash leave of the jobs.
LEMMA PublishKeepsJobs ==
  ASSUME TypeOK, NEW v \in Workers, PublishStep(v) \/ Crash(v)
  PROVE  /\ UNCHANGED <<status, author>> /\ stamped' \subseteq stamped
         /\ \A w \in Workers \ {v} : pc'[w] = pc[w] /\ job'[w] = job[w]
         /\ SameJob(v) \/ (pc'[v] = "idle" /\ job'[v] = NoJob)
         /\ pc'[v] \in {"publish", "undo"} => pc[v] \in {"publish", "undo"}
<1> Control
  BY TypeParts
<1>1. CASE PublishRead(v)
  BY <1>1 DEF PublishRead, SameJob, rows
<1>2. CASE PublishOk(v) \/ PublishParked(v)
  <2>1. UNCHANGED <<status, author>> /\ stamped' \subseteq stamped /\ Succeed(v)
    BY <1>2 DEF PublishOk, PublishParked, Touch
  <2>2. CASE Finish(v)
    BY <2>1, <2>2, FinishedJob DEF Finish, Goto, Control
  <2>3. CASE \E s \in {"load", "check"} : Goto(v, s) /\ UNCHANGED job
    BY <2>1, <2>3 DEF Goto, SameJob, Control
  <2>4. QED BY <2>1, <2>2, <2>3 DEF Succeed
<1>3. CASE PublishFailed(v)
  <2>1. /\ UNCHANGED <<status, author>> /\ stamped' \subseteq stamped
        /\ \E b \in snap \cup {None} : GiveUp(v, b)
    BY <1>3 DEF PublishFailed, Touch
  <2>2. PICK b \in snap \cup {None} : GiveUp(v, b)
    BY <2>1
  <2>3. CASE Finish(v)
    BY <2>1, <2>3, FinishedJob DEF Finish, Goto, Control
  <2>4. CASE pc[v] = "publish" /\ Goto(v, "undo") /\ UNCHANGED job
    BY <2>1, <2>4 DEF Goto, SameJob, Control
  <2>5. CASE Goto(v, "pause") /\ job' = [job EXCEPT ![v].blame = b]
    <3>1. job[v] \in JobRecords /\ job'[v] = [job[v] EXCEPT !.blame = b]
      BY <2>5 DEF Control, Jobs
    <3>2. SameJob(v)
      BY <3>1 DEF JobRecords, SameJob
    <3>3. QED BY <2>1, <2>5, <3>2 DEF Goto, Control
  <2>6. CASE \E s \in {"load", "check"} : Goto(v, s) /\ UNCHANGED job
    BY <2>1, <2>6 DEF Goto, SameJob, Control
  <2>7. QED BY <2>2, <2>3, <2>4, <2>5, <2>6 DEF GiveUp
<1>4. CASE Crash(v)
  BY <1>4, FinishedJob DEF Crash, Finish, Goto, Touch, Control
<1>5. QED BY <1>1, <1>2, <1>3, <1>4 DEF PublishStep

\* A step that writes no status keeps what holds of those that still settle.
LEMMA QuietKeeps ==
  ASSUME KeptInv, UNCHANGED <<status, author>>, stamped' \subseteq stamped,
         \A w \in Requests : Settling(w)' => Settling(w) /\ job'[w].to = job[w].to,
         pc'[Cron] \in {"publish", "undo"}
           => pc[Cron] \in {"publish", "undo"} /\ job'[Cron].from = job[Cron].from
  PROVE  KeptInv'
  BY DEF KeptInv

\* The only session's own steps.
LEMMA SessionKeeps ==
  ASSUME OneSession, TypeOK, KeptInv, MovesOn, NEW w \in Requests,
         \/ RequestStep(w) \/ Republish(w)
         \/ \E op \in Ops, T \in SUBSET Offers \ {{}} : DecideStatus(w, op, T)
         \/ \E o \in Offers : DecideSchedule(w, o)
  PROVE  KeptInv' /\ MovesOn'
<1>1. /\ Control /\ w \in Workers /\ w # Cron /\ Cron \in Workers
      /\ \A v \in Requests : v = w
  BY TypeParts, LifecycleAssumption DEF Workers, OneSession
<1>2. pc'[Cron] = pc[Cron] /\ job'[Cron] = job[Cron]
  BY <1>1 DEF RequestStep, WriteStatus, WriteSchedule, RefuseRepublish, PauseOffer, UndoStatus,
              Republish, DecideStatus, DecideSchedule, Goto, Finish, GiveUp, Control
<1>3. MovesOn'
  BY <1>2 DEF MovesOn
<1>4. CASE WriteStatus(w)
  <2>1. /\ DOMAIN job[w].to \subseteq Offers /\ UNCHANGED job
        /\ \A o \in DOMAIN job[w].to : /\ status'[o] = job[w].to[o] /\ author'[o] = w
                                       /\ o \notin stamped'
    BY <1>1, <1>4, StatusMap DEF Control, Jobs, JobRecords, WriteStatus, Write
  <2>2. QED BY <1>1, <1>3, <2>1 DEF KeptInv, NotBefore
<1>5. CASE ~WriteStatus(w)
  <2>1. ~Settling(w)'
    <3>1. job \in [Workers -> Jobs] /\ pc \in [Workers -> PcValues]
      BY <1>1 DEF Control
    <3>2. CASE WriteSchedule(w)
      BY <1>1, <3>1, <3>2, FinishedJob DEF WriteSchedule, Goto, Settling, StatusOps
    <3>3. CASE RefuseRepublish(w)
      <4>1. PICK b \in DOMAIN job[w].to \cup Active \cup {None} : GiveUp(w, b)
        BY <3>3 DEF RefuseRepublish
      <4>2. job[w].op = "setSchedule" /\ pc[w] = "publish"
        BY <3>3 DEF RefuseRepublish
      <4>3. CASE Goto(w, "pause")
        BY <1>1, <3>1, <4>3 DEF Goto, Settling
      <4>4. CASE Finish(w)
        BY <1>1, <4>4, FinishedJob DEF Settling
      <4>5. QED BY <1>1, <4>1, <4>2, <4>3, <4>4 DEF GiveUp, StatusOps
    <3>4. CASE PauseOffer(w)
      BY <1>1, <3>1, <3>4 DEF PauseOffer, Goto, Settling
    <3>5. CASE UndoStatus(w)
      BY <1>1, <3>5, FinishedJob DEF UndoStatus, Settling
    <3>6. CASE Republish(w)
      BY <1>1, <3>1, <3>6 DEF Republish, Settling, StatusOps, Job
    <3>7. CASE \/ \E op \in Ops, T \in SUBSET Offers \ {{}} : DecideStatus(w, op, T)
               \/ \E o \in Offers : DecideSchedule(w, o)
      BY <1>1, <3>1, <3>7 DEF DecideStatus, DecideSchedule, Goto, Settling
    <3>8. QED
      BY <1>5, <3>2, <3>3, <3>4, <3>5, <3>6, <3>7 DEF RequestStep
  <2>2. QED BY <1>1, <1>3, <2>1 DEF KeptInv
<1>6. QED BY <1>4, <1>5

\* The scheduler's steps.
LEMMA SchedulerKeeps ==
  ASSUME TypeOK, StampInv, KeptInv, MovesOn, CronStep PROVE KeptInv' /\ MovesOn'
<1>1. /\ Control /\ Cron \in Workers /\ Cron \notin Requests /\ None # Cron
      /\ DOMAIN job[Cron].from = DOMAIN job[Cron].to
      /\ DOMAIN job[Cron].from \subseteq Offers /\ Requests \subseteq Workers
  BY TypeParts, StatusMap, LifecycleAssumption DEF Workers, Control, Jobs, JobRecords
<1>2. \A w \in Requests : DOMAIN job[w].to \subseteq Offers
  BY <1>1, StatusMap DEF Control, Jobs, JobRecords
<1>3. \A w \in Requests : pc'[w] = pc[w] /\ job'[w] = job[w]
  BY <1>1 DEF CronStep, StartRun, Load, Apply, UndoSchedule, CheckDrift, Goto, Finish, Control
<1>4. CASE StartRun \/ CheckDrift
  BY <1>1, <1>3, <1>4, QuietKeeps, NoJobTyped DEF StartRun, CheckDrift, Goto, Finish, Control,
     Settling, MovesOn, rows
<1>5. CASE Load
  <2>1. KeptInv'
    BY <1>1, <1>3, <1>5, QuietKeeps DEF Load, Goto, Control, Settling, rows
  <2>2. MovesOn'
    <3>1. ASSUME NEW T \in SUBSET {o \in Offers : Due(o)},
                 job' = [job EXCEPT ![Cron] = Job("schedule", [o \in T |-> status[o]],
                       [o \in T |-> IF ends[o] <= now THEN "expired" ELSE "active"], 0, 0)]
          PROVE  MovesOn'
      <4>1. /\ job'[Cron].from = [o \in T |-> status[o]]
            /\ job'[Cron].to = [o \in T |-> IF ends[o] <= now THEN "expired" ELSE "active"]
        BY <1>1, <3>1 DEF Job, Control
      <4>2. ASSUME NEW o \in T
            PROVE  (IF ends[o] <= now THEN "expired" ELSE "active") \in Later(status[o])
        BY <4>2 DEF Due, Later
      <4>3. QED BY <4>1, <4>2 DEF MovesOn
    <3>2. CASE UNCHANGED job
      BY <3>2 DEF MovesOn
    <3>3. QED BY <1>5, <3>1, <3>2 DEF Load
  <2>3. QED BY <2>1, <2>2
<1>6. CASE Apply
  <2>1. CASE \E o \in DOMAIN job[Cron].from : status[o] # job[Cron].from[o]
    BY <1>1, <1>3, <1>6, <2>1, QuietKeeps DEF Apply, Goto, Control, Settling, MovesOn
  <2>2. CASE \A o \in DOMAIN job[Cron].from : status[o] = job[Cron].from[o]
    <3>1. /\ Write(Cron, job[Cron].to, DOMAIN job[Cron].to) /\ UNCHANGED job
      BY <1>6, <2>2 DEF Apply
    <3>2. \A o \in Offers : IF o \in DOMAIN job[Cron].from
                            THEN status'[o] = job[Cron].to[o]
                            ELSE /\ status'[o] = status[o] /\ author'[o] = author[o]
                                 /\ o \in stamped' => o \in stamped
      BY <1>1, <3>1 DEF Write
    <3>3. ASSUME NEW w \in Requests, Settling(w)', NEW o \in DOMAIN job[w].to
          PROVE  /\ status'[o] \in NotBefore(job[w].to[o])
                 /\ author'[o] = Cron => status'[o] # job[w].to[o]
                 /\ o \in DOMAIN job[Cron].from => job[Cron].from[o] \in NotBefore(job[w].to[o])
      <4>1. /\ o \in Offers /\ status[o] \in NotBefore(job[w].to[o])
            /\ author[o] = Cron => status[o] # job[w].to[o]
        BY <1>2, <1>3, <3>3 DEF KeptInv, Settling
      <4>2. CASE o \in DOMAIN job[Cron].from
        <5>1. status'[o] \in Later(status[o])
          BY <2>2, <3>2, <4>1, <4>2 DEF MovesOn
        <5>2. status'[o] \in Later(job[w].to[o])
          BY <4>1, <5>1, LaterIsOrder
        <5>3. QED BY <2>2, <4>1, <4>2, <5>2, LaterIsOrder DEF NotBefore
      <4>3. CASE o \notin DOMAIN job[Cron].from
        BY <3>2, <4>1, <4>3
      <4>4. QED BY <4>2, <4>3
    <3>4. QED BY <1>3, <3>1, <3>3 DEF KeptInv, MovesOn
  <2>3. QED BY <2>1, <2>2
<1>7. CASE UndoSchedule
  <2>1. UNCHANGED job /\ pc'[Cron] \in {"restore", "check"}
    BY <1>1, <1>7 DEF UndoSchedule, Goto, Control
  <2>2. CASE UNCHANGED <<status, stamped, author>>
    BY <1>3, <2>1, <2>2, QuietKeeps DEF Settling, MovesOn
  <2>3. CASE Write(None, job[Cron].from, {}) /\ \A o \in DOMAIN job[Cron].to : MayUndo(o)
    <3>1. \A o \in Offers : IF o \in DOMAIN job[Cron].from
                            THEN status'[o] = job[Cron].from[o] /\ author'[o] = None
                            ELSE status'[o] = status[o] /\ author'[o] = author[o]
      BY <2>3 DEF Write
    <3>2. ASSUME NEW w \in Requests, Settling(w)', NEW o \in DOMAIN job[w].to
          PROVE  /\ status'[o] \in NotBefore(job[w].to[o])
                 /\ author'[o] = Cron => status'[o] # job[w].to[o]
      <4>1. /\ o \in Offers /\ status[o] \in NotBefore(job[w].to[o])
            /\ author[o] = Cron => status[o] # job[w].to[o]
            /\ o \in stamped /\ o \in DOMAIN job[Cron].from
                 => job[Cron].from[o] \in NotBefore(job[w].to[o])
        BY <1>2, <1>3, <1>7, <3>2 DEF KeptInv, Settling, UndoSchedule
      <4>2. o \in DOMAIN job[Cron].from => o \in stamped
        BY <1>1, <2>3 DEF MayUndo
      <4>3. QED BY <1>1, <3>1, <4>1, <4>2
    <3>3. QED BY <1>3, <2>1, <3>2 DEF KeptInv, MovesOn
  <2>4. QED BY <1>7, <2>2, <2>3 DEF UndoSchedule
<1>8. QED BY <1>4, <1>5, <1>6, <1>7 DEF CronStep

LEMMA KeptNext ==
  ASSUME OneSession, TypeOK, StampInv, KeptInv, MovesOn, [Next]_vars
  PROVE  KeptInv' /\ MovesOn'
<1>1. Cron \in Workers /\ Cron \notin Requests /\ Requests \subseteq Workers
  BY LifecycleAssumption DEF Workers
<1>2. CASE Tick \/ UNCHANGED vars
  BY <1>2 DEF Tick, vars, rows, KeptInv, MovesOn, Settling
<1>3. ASSUME NEW v \in Workers, PublishStep(v) \/ Crash(v) PROVE KeptInv' /\ MovesOn'
  <2>1. /\ UNCHANGED <<status, author>> /\ stamped' \subseteq stamped
        /\ \A w \in Workers : SameJob(w) \/ (pc'[w] = "idle" /\ job'[w] = NoJob)
        /\ \A w \in Workers : pc'[w] \in {"publish", "undo"} => pc[w] \in {"publish", "undo"}
    BY <1>3, PublishKeepsJobs DEF SameJob
  <2>2. KeptInv'
    BY <1>1, <2>1, QuietKeeps DEF Settling, SameJob
  <2>3. MovesOn'
    BY <1>1, <2>1, NoJobTyped DEF MovesOn, SameJob
  <2>4. QED BY <2>2, <2>3
<1>4. QED BY <1>2, <1>3, SessionKeeps, SchedulerKeeps DEF Next

\* Only a session's own rollback writes when it leaves "undo".
LEMMA LeavesUndo ==
  ASSUME TypeOK, Next, NEW w \in Requests, pc[w] = "undo", pc'[w] # "undo"
  PROVE  UndoStatus(w) \/ UNCHANGED status
<1>1. Control /\ Cron \notin Requests /\ Cron \in Workers /\ Requests \subseteq Workers
  BY TypeParts, LifecycleAssumption DEF Workers
<1>2. CASE CronStep
  BY <1>1, <1>2 DEF CronStep, StartRun, Load, Apply, UndoSchedule, CheckDrift, Goto, Finish,
     Control
<1>3. ASSUME NEW v \in Workers, PublishStep(v) \/ Crash(v) PROVE UNCHANGED status
  BY <1>3, PublishKeepsJobs
<1>4. ASSUME NEW v \in Requests, RequestStep(v) PROVE UndoStatus(w) \/ UNCHANGED status
  BY <1>1, <1>4 DEF RequestStep, WriteStatus, WriteSchedule, RefuseRepublish, PauseOffer,
     UndoStatus, Goto, Finish, GiveUp, Control, rows
<1>5. QED
  BY <1>2, <1>3, <1>4 DEF Next, Tick, Republish, DecideStatus, DecideSchedule, rows

\* CronTransitionIsKept: as long as one session at a time changes the shop's
\* offers, its conditional rollback leaves alone what the scheduler wrote after
\* the operation, whatever was published, failed or died in between.
THEOREM CronWins == ASSUME OneSession PROVE Spec => CronTransitionIsKept
<1>1. Init => KeptInv /\ MovesOn
  BY NoJobTyped, LifecycleAssumption DEF Init, KeptInv, MovesOn, Settling, Workers
<1>2. ASSUME TypeOK, KeptInv, [Next]_vars
      PROVE  [\A w \in Requests, o \in Offers :
                /\ pc[w] = "undo" /\ pc'[w] # "undo"
                /\ job[w].op \in Conditional /\ author[o] = Cron
                => status'[o] = status[o]]_vars
  <2>1. ASSUME Next, NEW w \in Requests, NEW o \in Offers, pc[w] = "undo", pc'[w] # "undo",
               job[w].op \in Conditional, author[o] = Cron
        PROVE  status'[o] = status[o]
    <3>1. CASE UndoStatus(w)
      <4>1. o \notin Restores(w)
        BY <1>2, <2>1 DEF Restores, KeptInv, Settling, StatusOps, Conditional, AllOps
      <4>2. QED BY <3>1, <4>1 DEF UndoStatus, Write
    <3>2. QED BY <1>2, <2>1, <3>1, LeavesUndo
  <2>2. QED BY <1>2, <2>1
<1>3. OneSession
  OBVIOUS
<1>4. TypeOK /\ StampInv /\ KeptInv /\ MovesOn /\ [Next]_vars => (KeptInv /\ MovesOn)'
  BY <1>3, KeptNext
<1>5. Init => StampInv
  BY DEF Init, StampInv
<1>6. QED
  BY <1>1, <1>2, <1>4, <1>5, TypeInit, TypeNext, StampNext, PTL DEF Spec, CronTransitionIsKept

-----------------------------------------------------------------------------
(* The write tools.                                                        *)

McpRows  == [key : Keys \cup {Nothing}, born : Nat, stored : BOOLEAN]
Calls == [jti : Tokens \cup {Nothing}, key : Keys \cup {Nothing},
          input : Inputs \cup {Nothing}, since : Nat, old : Tokens \cup {Nothing}]
Runs  == [times : Nat, key : Keys \cup {Nothing}, born : Nat,
          threw : {"nothing", "service", "store"}]

\* The part of McpTypeOK that is about single variables.
Types ==
  /\ hour \in 0 .. LastHour
  /\ minted \subseteq Tokens /\ logged \subseteq minted
  /\ claims \in [Tokens -> [input : Inputs \cup {Nothing}, exp : Nat]]
  /\ entry \in [Tokens -> McpRows]
  /\ step \in [Callers -> McpSteps]
  /\ call \in [Callers -> Calls]
  /\ upsets \in 0 .. MaxUpsets
  /\ ran \in [Tokens -> Runs]

----------------------------------------------------------------------------
(* What the steps do to a row, a history and a call.                       *)

LEMMA Inserted ==
  ASSUME Types, NEW c \in Callers, call[c].jti \in Tokens, Insert(c)
  PROVE  LET t == call[c].jti IN
         /\ entry' \in [Tokens -> McpRows] /\ ran' \in [Tokens -> Runs]
         /\ logged' = logged \cup {t}
         /\ entry'[t].key = call[c].key /\ entry'[t].born = hour /\ ~entry'[t].stored
         /\ ran'[t].key = call[c].key /\ ran'[t].born = hour
         /\ ran'[t].times = ran[t].times /\ ran'[t].threw = ran[t].threw
         /\ \A u \in Tokens : u # t => entry'[u] = entry[u] /\ ran'[u] = ran[u]
<1> DEFINE t == call[c].jti
<1>1. /\ entry \in [Tokens -> McpRows] /\ ran \in [Tokens -> Runs] /\ hour \in Nat
      /\ t \in Tokens /\ call[c].key \in Keys \cup {Nothing}
  BY McpAssumption DEF Types, Calls
<1>2. /\ logged' = logged \cup {t}
      /\ entry' = [entry EXCEPT ![t] = [key |-> call[c].key, born |-> hour, stored |-> FALSE]]
      /\ ran' = [ran EXCEPT ![t].key = call[c].key, ![t].born = hour]
  BY DEF Insert
<1> HIDE DEF t
<1>3. /\ entry' \in [Tokens -> McpRows]
      /\ entry'[t].key = call[c].key /\ entry'[t].born = hour /\ ~entry'[t].stored
      /\ \A u \in Tokens : u # t => entry'[u] = entry[u]
  BY <1>1, <1>2 DEF McpRows
<1>4. /\ ran' \in [Tokens -> Runs]
      /\ ran'[t].key = call[c].key /\ ran'[t].born = hour
      /\ ran'[t].times = ran[t].times /\ ran'[t].threw = ran[t].threw
      /\ \A u \in Tokens : u # t => ran'[u] = ran[u]
  BY <1>1, <1>2 DEF Runs
<1>5. QED BY <1>2, <1>3, <1>4 DEF t

LEMMA CallTyped ==
  /\ \A t, u \in Tokens \cup {Nothing}, k \in Keys \cup {Nothing}, i \in Inputs \cup {Nothing},
        since \in Nat : Call(t, k, i, since, u) \in Calls
  /\ NoCall \in Calls
  BY DEF Call, Calls, NoCall

\* Only c moves: to a step s, with the call x.
Only(c, s, x) ==
  /\ step' = [step EXCEPT ![c] = s] /\ call' = [call EXCEPT ![c] = x]

LEMMA OnlyMoves ==
  ASSUME Types, NEW c \in Callers, NEW s \in McpSteps, NEW x \in Calls, Only(c, s, x)
  PROVE  /\ step' \in [Callers -> McpSteps] /\ call' \in [Callers -> Calls]
         /\ step'[c] = s /\ call'[c] = x
         /\ \A d \in Callers : d # c => step'[d] = step[d] /\ call'[d] = call[d]
  BY DEF Types, Only

LEMMA McpConfirmed ==
  ASSUME NEW c \in Callers, NEW t, NEW k, NEW i, NEW since, Confirm(c, t, k, i, since)
  PROVE  \/ /\ Only(c, "claim", Call(t, k, Nothing, since, Nothing))
            /\ t \in minted /\ hour < claims[t].exp /\ claims[t].input = i
         \/ Only(c, "away", NoCall)
<1>1. CASE Verified(t, i)
  BY <1>1 DEF Confirm, Goes, Only, Verified
<1>2. CASE ~Verified(t, i)
  BY <1>2 DEF Confirm, Goes, Quits, Only
<1>3. QED BY <1>1, <1>2

----------------------------------------------------------------------------
(* The inductive invariant.                                                *)

Running == {"apply", "store", "fail"}

\* A token can be claimed for no longer than its row, or the memory of it,
\* says: it was minted before it was claimed.
Lived(t) == claims[t].exp <= ran[t].born + ConfirmTtl
Gone(t)  == hour > ran[t].born + Retention

\* What is known of a token: its row agrees with what has been run for it,
\* keeps its key for a day unless its call threw, and stays until no call can
\* claim the token again.
Used(t) == ran[t].times = 1 \/ ran[t].key # Nothing

TokenInv(t) ==
  /\ ran[t].times \in {0, 1}
  /\ t \in minted => claims[t].input \in Inputs /\ claims[t].exp <= hour + ConfirmTtl
  /\ t \in logged =>
       /\ entry[t].born = ran[t].born /\ ran[t].born <= hour /\ Lived(t)
       /\ entry[t].stored => ran[t].times = 1
       /\ entry[t].key \in {Nothing, ran[t].key}
       /\ \/ ran[t].threw # "nothing" \/ hour >= ran[t].born + KeyTtl
          \/ entry[t].key = ran[t].key
  /\ Used(t) => t \in minted /\ Lived(t) /\ (t \notin logged => Gone(t))

\* The unique index on the keys.
KeyInv ==
  \A t, u \in logged : entry[t].key = entry[u].key /\ entry[t].key # Nothing => t = u

\* A call that frees a key has seen it a day old; one that goes to claim its
\* token has a valid one and has seen nobody with its key; one that runs has
\* its row, of its own time; one that frees its own key has seen something throw.
CallInv(c) == LET t == call[c].jti  u == call[c].old  since == call[c].since IN
  /\ step[c] # "away" => since <= hour /\ hour < since + CallTime
  /\ step[c] = "free" =>
       /\ t \in minted \cup {Nothing} /\ call[c].key # Nothing /\ call[c].input \in Inputs
       /\ u \in minted /\ Lived(u) /\ hour >= ran[u].born + KeyTtl
       /\ u \notin logged => Gone(u)
       /\ \A v \in Holders(call[c].key) : v = u \/ entry[v].born >= since
  /\ step[c] = "claim" => since < claims[t].exp
  /\ step[c] \in {"claim", "findAgain"} =>
       t \in minted /\ \A v \in Holders(call[c].key) : entry[v].born >= since
  /\ step[c] \in Running => t \in logged /\ since <= ran[t].born
  /\ step[c] = "apply" => ran[t].times = 0
  /\ step[c] = "store" => ran[t].times = 1
  /\ step[c] = "fail" => ran[t].threw # "nothing"

\* One call runs for a token at a time.
OneRuns == \A c, d \in Callers :
  step[c] \in Running /\ step[d] \in Running /\ call[c].jti = call[d].jti => c = d

AnswerInv ==
  /\ answer \in {Nothing} \cup [of : Tokens, input : Inputs, key : Keys, age : Nat]
  /\ answer # Nothing => answer.of \in minted
  /\ ReplayWasApplied

McpInv ==
  /\ Types
  /\ \A t \in Tokens : TokenInv(t)
  /\ KeyInv
  /\ \A c \in Callers : CallInv(c)
  /\ OneRuns /\ AnswerInv

LEMMA InvImplies == McpInv => McpTypeOK /\ TokenAppliesOnce /\ ReplayWasApplied
<1> SUFFICES ASSUME McpInv PROVE McpTypeOK /\ TokenAppliesOnce /\ ReplayWasApplied
  OBVIOUS
<1>1. McpTypeOK
  BY DEF McpInv, Types, McpRows, Calls, Runs, CallInv, Running, AnswerInv, McpTypeOK
<1>2. TokenAppliesOnce
  BY DEF McpInv, TokenInv, TokenAppliesOnce
<1>3. QED BY <1>1, <1>2 DEF McpInv, AnswerInv

----------------------------------------------------------------------------
(* Steps in general.                                                       *)

LEMMA InvInit == McpInit => McpInv
<1> SUFFICES ASSUME McpInit PROVE McpInv
  OBVIOUS
<1>1. Types
  BY CallTyped, McpAssumption DEF McpInit, Types, NoEntry, McpRows, Runs, McpSteps
<1>2. /\ minted = {} /\ logged = {}
      /\ \A t \in Tokens : ran[t].times = 0 /\ ran[t].key = Nothing
      /\ \A c \in Callers : step[c] = "away"
      /\ answer = Nothing
  BY DEF McpInit
<1>3. \A t \in Tokens : TokenInv(t)
  BY <1>2 DEF TokenInv, Used
<1>4. KeyInv
  BY <1>2 DEF KeyInv
<1>5. (\A c \in Callers : CallInv(c)) /\ OneRuns /\ AnswerInv
  BY <1>2 DEF CallInv, Running, OneRuns, AnswerInv, ReplayWasApplied
<1>6. QED BY <1>1, <1>3, <1>4, <1>5 DEF McpInv

LEMMA AnswerKept ==
  ASSUME Types, AnswerInv, UNCHANGED answer, minted \subseteq minted',
         \A t \in minted : claims'[t] = claims[t],
         \A t \in Tokens : ran[t].times = 1 => ran'[t].times = 1 /\ ran'[t].key = ran[t].key
  PROVE  AnswerInv'
<1>1. CASE answer = Nothing
  BY <1>1 DEF AnswerInv, ReplayWasApplied
<1>2. CASE answer # Nothing
  <2>1. answer.of \in minted /\ answer.of \in Tokens
    BY <1>2 DEF AnswerInv, Types
  <2>2. QED BY <1>2, <2>1 DEF AnswerInv, ReplayWasApplied
<1>3. QED BY <1>1, <1>2

LEMMA NoAnswer == ASSUME answer' = Nothing PROVE AnswerInv'
  BY DEF AnswerInv, ReplayWasApplied

\* A step of the call c that touches the row or the history of one token t at
\* most, and adds and deletes none.
LEMMA StepInv ==
  ASSUME McpInv, NEW c \in Callers, NEW s \in McpSteps, NEW x \in Calls, Only(c, s, x),
         NEW t,
         UNCHANGED <<hour, minted, claims, logged>>, upsets' \in 0 .. MaxUpsets,
         entry' \in [Tokens -> McpRows], ran' \in [Tokens -> Runs],
         \A u \in Tokens : /\ entry'[u].born = entry[u].born /\ ran'[u].born = ran[u].born
                           /\ ran'[u].key = ran[u].key
                           /\ entry'[u].key \in {Nothing, entry[u].key}
                           /\ u # t => entry'[u] = entry[u] /\ ran'[u] = ran[u],
         t \in Tokens => TokenInv(t)',
         ran' = ran \/ (step[c] \in Running /\ call[c].jti = t),
         s \in Running => step[c] \in Running /\ x.jti = call[c].jti,
         CallInv(c)', AnswerInv'
  PROVE  McpInv'
<1>1. /\ Types /\ KeyInv /\ OneRuns /\ (\A u \in Tokens : TokenInv(u))
      /\ \A d \in Callers : CallInv(d)
  BY DEF McpInv
<1>2. Types'
  BY <1>1, OnlyMoves DEF Types
<1>3. /\ step'[c] = s /\ call'[c] = x
      /\ \A d \in Callers : d # c => step'[d] = step[d] /\ call'[d] = call[d]
  BY <1>1, OnlyMoves
<1>4. ASSUME NEW u \in Tokens PROVE TokenInv(u)'
  <2>1. CASE u # t
    BY <1>1, <2>1 DEF TokenInv, Used, Lived, Gone
  <2>2. QED BY <2>1
<1>5. KeyInv'
  BY <1>1 DEF KeyInv, Types
<1>6. ASSUME NEW d \in Callers, d # c PROVE CallInv(d)'
  <2>1. \A k : \A v \in Holders(k)' : v \in Holders(k) /\ entry'[v].born = entry[v].born
    BY <1>1 DEF Holders, Types
  <2>2. step[d] \in Running => call[d].jti \in Tokens /\ ran'[call[d].jti] = ran[call[d].jti]
    BY <1>1, <1>6 DEF OneRuns, CallInv, Types
  <2>3. step'[d] = step[d] /\ call'[d] = call[d] /\ CallInv(d)
    BY <1>1, <1>3, <1>6
  <2>4. step[d] = "free" => call[d].old \in Tokens
    BY <1>1, <2>3 DEF CallInv, Types
  <2>5. QED BY <1>1, <2>1, <2>2, <2>3, <2>4 DEF CallInv, Running, Lived, Gone
<1>7. OneRuns'
  BY <1>1, <1>3 DEF OneRuns
<1>8. QED BY <1>2, <1>4, <1>5, <1>6, <1>7 DEF McpInv

\* A step that only moves the call.
LEMMA MoveInv ==
  ASSUME McpInv, NEW c \in Callers, NEW s \in McpSteps, NEW x \in Calls, Only(c, s, x),
         UNCHANGED <<hour, minted, claims, logged, entry, ran>>, upsets' \in 0 .. MaxUpsets,
         s \in Running => step[c] \in Running /\ x.jti = call[c].jti,
         CallInv(c)', AnswerInv'
  PROVE  McpInv'
<1>1. entry' \in [Tokens -> McpRows] /\ ran' \in [Tokens -> Runs] /\ Nothing \notin Tokens
  BY McpAssumption DEF McpInv, Types
<1>2. \A u \in Tokens : /\ entry'[u].born = entry[u].born /\ ran'[u].born = ran[u].born
                        /\ ran'[u].key = ran[u].key
                        /\ entry'[u].key \in {Nothing, entry[u].key}
                        /\ u # Nothing => entry'[u] = entry[u] /\ ran'[u] = ran[u]
  OBVIOUS
<1>3. QED BY <1>1, <1>2, StepInv

LEMMA LeavesInv ==
  ASSUME McpInv, NEW c \in Callers, Quits(c)
  PROVE  Only(c, "away", NoCall) /\ NoCall \in Calls /\ "away" \in McpSteps /\ CallInv(c)'
<1>1. Only(c, "away", NoCall) /\ NoCall \in Calls /\ "away" \in McpSteps
  BY CallTyped DEF Quits, Goes, Only, McpSteps
<1>2. step'[c] = "away"
  BY <1>1, OnlyMoves DEF McpInv
<1>3. QED BY <1>1, <1>2 DEF CallInv, Running

----------------------------------------------------------------------------
(* Claims.                                                                 *)

\* A token that is about to be claimed and has no row has never been used: a
\* row is not cleaned up while a call may still claim its token.
LEMMA FreshClaim ==
  ASSUME McpInv, NEW c \in Callers, step[c] = "claim", ~TokenUsed(c)
  PROVE  LET t == call[c].jti IN
         /\ t \in minted /\ t \in Tokens /\ t \notin logged /\ ran[t].times = 0
         /\ \A d \in Callers : /\ step[d] = "free" => call[d].old # t
                               /\ step[d] \in Running => call[d].jti # t
<1> DEFINE t == call[c].jti
<1>1. t \in minted /\ t \in Tokens /\ t \notin logged /\ TokenInv(t) /\ CallInv(c)
  BY DEF McpInv, CallInv, Types, TokenUsed
<1>2. /\ hour \in Nat /\ ran[t].born \in Nat /\ ran[t].times \in Nat /\ claims[t].exp \in Nat
      /\ call[c].since \in Nat
  BY <1>1, McpAssumption DEF McpInv, Types, Runs, Calls
<1>3. hour < call[c].since + CallTime /\ call[c].since < claims[t].exp
  BY <1>1 DEF CallInv
<1> HIDE DEF t
<1>4. Lived(t) => ~Gone(t)
  BY <1>2, <1>3, McpAssumption DEF Lived, Gone
<1>5. ran[t].times = 0
  BY <1>1, <1>4 DEF TokenInv, Used
<1>6. ASSUME NEW d \in Callers
      PROVE  /\ step[d] = "free" => call[d].old # t
             /\ step[d] \in Running => call[d].jti # t
  <2>1. CallInv(d)
    BY DEF McpInv
  <2>2. QED BY <1>1, <1>4, <2>1 DEF CallInv
<1>7. QED BY <1>1, <1>5, <1>6 DEF t

\* A claim that both unique indexes let through, told to its call or not.
LEMMA InsertInv ==
  ASSUME McpInv, NEW c \in Callers, step[c] = "claim", ~TokenUsed(c), ~KeyTaken(c), Insert(c),
         \/ Only(c, "apply", call[c]) /\ UNCHANGED answer
         \/ Only(c, "away", NoCall) /\ answer' = Nothing,
         UNCHANGED <<hour, minted, claims>>, upsets' \in 0 .. MaxUpsets
  PROVE  McpInv'
<1>0. PICK t : t = call[c].jti
  OBVIOUS
<1>1. /\ Types /\ KeyInv /\ OneRuns /\ AnswerInv /\ (\A u \in Tokens : TokenInv(u))
      /\ \A d \in Callers : CallInv(d)
  BY DEF McpInv
<1>2. /\ t \in minted /\ t \in Tokens /\ t \notin logged /\ ran[t].times = 0
      /\ \A d \in Callers : /\ step[d] = "free" => call[d].old # t
                            /\ step[d] \in Running => call[d].jti # t
  BY <1>0, FreshClaim
<1>3. /\ entry' \in [Tokens -> McpRows] /\ ran' \in [Tokens -> Runs]
      /\ logged' = logged \cup {t}
      /\ entry'[t].key = call[c].key /\ entry'[t].born = hour /\ ~entry'[t].stored
      /\ ran'[t].key = call[c].key /\ ran'[t].born = hour
      /\ ran'[t].times = 0
      /\ \A u \in Tokens : u # t => entry'[u] = entry[u] /\ ran'[u] = ran[u]
  BY <1>0, <1>1, <1>2, Inserted
<1>4. call[c] \in Calls /\ NoCall \in Calls /\ "apply" \in McpSteps /\ "away" \in McpSteps
  BY <1>1, CallTyped DEF Types, McpSteps
<1>5. /\ step' \in [Callers -> McpSteps] /\ call' \in [Callers -> Calls]
      /\ \A d \in Callers : d # c => step'[d] = step[d] /\ call'[d] = call[d]
      /\ step'[c] = "away" \/ (step'[c] = "apply" /\ call'[c] = call[c])
  BY <1>1, <1>4, OnlyMoves
<1>6. /\ hour \in Nat /\ \A u \in Tokens : ran[u].born \in Nat /\ claims[u].exp \in Nat
      /\ \A u \in Tokens : ran[u].times \in Nat /\ entry[u].born \in Nat
      /\ \A d \in Callers : call[d].since \in Nat /\ call[d].jti \in Tokens \cup {Nothing}
      /\ minted \subseteq Tokens /\ logged \subseteq minted
  BY <1>1, McpAssumption DEF Types, McpRows, Runs, Calls
<1>7. CallInv(c)
  BY <1>1
<1>8. \A v \in logged : entry[v].key = call[c].key => call[c].key = Nothing
  BY DEF KeyTaken, Holders
<1>9. Types'
  BY <1>1, <1>2, <1>3, <1>5 DEF Types
<1>10. ASSUME NEW u \in Tokens PROVE TokenInv(u)'
  <2>1. CASE u # t
    BY <1>1, <1>3, <2>1 DEF TokenInv, Used, Lived, Gone
  <2>2. CASE u = t
    BY <1>1, <1>2, <1>3, <1>6, <2>2 DEF TokenInv, Used, Lived, Gone
  <2>3. QED BY <2>1, <2>2
<1>11. KeyInv'
  BY <1>1, <1>3, <1>6, <1>8 DEF KeyInv
<1>12. ASSUME NEW d \in Callers, d # c PROVE CallInv(d)'
  <2>1. \A k : \A v \in Holders(k)' : \/ v = t
                                      \/ v \in Holders(k) /\ entry'[v].born = entry[v].born
    BY <1>3, <1>6 DEF Holders
  <2>2. step[d] \in Running => call[d].jti \in Tokens /\ ran'[call[d].jti] = ran[call[d].jti]
    BY <1>1, <1>2, <1>3, <1>6 DEF CallInv
  <2>3. step'[d] = step[d] /\ call'[d] = call[d] /\ CallInv(d)
    BY <1>1, <1>5, <1>12
  <2>4. step[d] = "free" => call[d].old \in Tokens /\ ran'[call[d].old] = ran[call[d].old]
                            /\ (call[d].old \in logged' <=> call[d].old \in logged)
    BY <1>2, <1>3, <1>6, <2>3 DEF CallInv
  <2>5. step[d] # "away" => call[d].since <= hour
    BY <2>3 DEF CallInv
  <2>6. CASE step[d] \in {"claim", "findAgain"}
    BY <1>3, <2>1, <2>3, <2>5, <2>6 DEF CallInv, Running
  <2>7. CASE step[d] = "free"
    BY <1>3, <2>1, <2>3, <2>4, <2>5, <2>7 DEF CallInv, Running, Lived, Gone
  <2>8. CASE step[d] \in Running
    BY <1>3, <2>2, <2>3, <2>8 DEF CallInv, Running
  <2>9. CASE step[d] = "away"
    BY <2>3, <2>9 DEF CallInv, Running
  <2>10. QED BY <1>1, <2>6, <2>7, <2>8, <2>9 DEF Types, McpSteps, Running
<1>13. CallInv(c)'
  <2>1. CASE step'[c] = "away"
    BY <2>1 DEF CallInv, Running
  <2>2. CASE step'[c] = "apply" /\ call'[c] = call[c]
    BY <1>3, <1>6, <1>7, <2>2, <1>0 DEF CallInv, Running
  <2>3. QED BY <1>5, <2>1, <2>2
<1>14. OneRuns'
  BY <1>1, <1>2, <1>5, <1>0 DEF OneRuns, Running
<1>15. AnswerInv'
  <2>1. CASE answer' = Nothing
    BY <2>1, NoAnswer
  <2>2. CASE UNCHANGED answer
    BY <1>1, <1>2, <1>3, <2>2, AnswerKept
  <2>3. QED BY <2>1, <2>2
<1>16. QED BY <1>9, <1>10, <1>11, <1>12, <1>13, <1>14, <1>15 DEF McpInv

----------------------------------------------------------------------------
(* The steps, one lemma for each that does more than move its call.        *)

LEMMA ReplayIsTrueNow ==
  ASSUME McpInv, NEW k \in Keys \cup {Nothing}, NEW t \in Holders(k), NEW i \in Inputs,
         ~Expired(t), Replay(t, k, i), UNCHANGED <<minted, claims, ran>>
  PROVE  AnswerInv'
<1>1. /\ t \in Tokens /\ t \in minted /\ t \in logged /\ entry[t].key = k /\ k \in Keys
      /\ TokenInv(t)
  BY DEF McpInv, Types, Holders
<1>2. /\ hour \in Nat /\ entry[t].born \in Nat /\ ran[t].times \in Nat
      /\ hour < entry[t].born + KeyTtl
  BY <1>1, McpAssumption DEF McpInv, Types, McpRows, Runs, Expired
<1>3. CASE entry[t].stored /\ SameInput(t, i)
  <2>1. answer' = [of |-> t, input |-> i, key |-> k, age |-> hour - entry[t].born]
    BY <1>3 DEF Replay
  <2>2. hour - entry[t].born \in Nat /\ hour - entry[t].born < KeyTtl
    BY <1>1, <1>2, McpAssumption DEF TokenInv
  <2>3. ran[t].times = 1 /\ ran[t].key = k /\ claims[t].input = i
    BY <1>1, <1>3, McpAssumption DEF TokenInv, SameInput
  <2>4. QED BY <1>1, <2>1, <2>2, <2>3 DEF AnswerInv, ReplayWasApplied
<1>4. CASE ~(entry[t].stored /\ SameInput(t, i))
  BY <1>4, NoAnswer DEF Replay
<1>5. QED BY <1>3, <1>4

LEMMA QuitsInv ==
  ASSUME McpInv, NEW c \in Callers, Quits(c), AnswerInv', upsets' \in 0 .. MaxUpsets,
         UNCHANGED <<hour, minted, claims, logged, entry, ran>>
  PROVE  McpInv'
BY LeavesInv, MoveInv DEF Running

LEMMA ExecuteInv ==
  ASSUME McpInv, NEW c \in Callers, NEW t \in Tokens \cup {Nothing},
         NEW k \in Keys \cup {Nothing}, NEW i \in Inputs, Execute(c, t, k, i)
  PROVE  McpInv'
<1>1. /\ Types /\ KeyInv /\ CallInv(c)
      /\ hour \in Nat /\ CallTime \in Nat \ {0} /\ upsets' \in 0 .. MaxUpsets
      /\ UNCHANGED <<hour, minted, claims, logged, entry, ran>>
  BY McpAssumption DEF McpInv, Types, Execute, callLog
<1>2. CASE Holders(k) = {} /\ Confirm(c, t, k, i, hour)
  <2>1. AnswerInv'
    BY <1>2, NoAnswer DEF Confirm
  <2>2. CASE Only(c, "away", NoCall)
    <3>1. CallInv(c)'
      BY <1>1, <2>2, CallTyped, OnlyMoves DEF CallInv, Running, McpSteps
    <3>2. QED BY <1>1, <2>1, <2>2, <3>1, CallTyped, MoveInv DEF Running, McpSteps
  <2>3. CASE /\ Only(c, "claim", Call(t, k, Nothing, hour, Nothing))
             /\ t \in minted /\ hour < claims[t].exp
    <3>1. Call(t, k, Nothing, hour, Nothing) \in Calls /\ "claim" \in McpSteps
      BY <1>1, CallTyped DEF McpSteps
    <3>2. step'[c] = "claim" /\ call'[c] = Call(t, k, Nothing, hour, Nothing)
      BY <1>1, <2>3, <3>1, OnlyMoves
    <3>3. call'[c].jti = t /\ call'[c].key = k /\ call'[c].since = hour
      BY <3>2 DEF Call
    <3>4. Holders(k)' = {}
      BY <1>1, <1>2 DEF Holders
    <3>5. CallInv(c)'
      BY <1>1, <2>3, <3>2, <3>3, <3>4 DEF CallInv, Running
    <3>6. QED BY <1>1, <2>1, <2>3, <3>1, <3>5, MoveInv DEF Running
  <2>4. QED BY <1>2, <2>2, <2>3, McpConfirmed
<1>3. ASSUME NEW u \in Holders(k), Expired(u), Goes(c, "free"), UNCHANGED answer,
             call' = [call EXCEPT ![c] = Call(t, k, i, hour, u)],
             t \in minted \cup {Nothing}
      PROVE  McpInv'
  <2>1. u \in logged /\ u \in minted /\ u \in Tokens /\ entry[u].key = k /\ k # Nothing
        /\ TokenInv(u)
    BY <1>1, <1>3 DEF Holders, Types, McpInv
  <2>2. Call(t, k, i, hour, u) \in Calls /\ "free" \in McpSteps
    BY <1>1, <2>1, CallTyped DEF McpSteps
  <2>3. Only(c, "free", Call(t, k, i, hour, u))
    BY <1>3 DEF Only, Goes
  <2>4. step'[c] = "free" /\ call'[c] = Call(t, k, i, hour, u)
    BY <1>1, <2>2, <2>3, OnlyMoves
  <2>5. /\ call'[c].jti = t /\ call'[c].key = k /\ call'[c].since = hour /\ call'[c].old = u
        /\ call'[c].input = i
    BY <2>4 DEF Call
  <2>6. \A v \in Holders(k)' : v = u
    BY <1>1, <2>1 DEF Holders, KeyInv
  <2>7. hour >= ran[u].born + KeyTtl /\ Lived(u)
    BY <1>3, <2>1 DEF Expired, TokenInv
  <2>8. CallInv(c)'
    BY <1>1, <1>3, <2>1, <2>4, <2>5, <2>6, <2>7 DEF CallInv, Running, Lived
  <2>9. AnswerInv'
    BY <1>1, <1>3, AnswerKept DEF McpInv
  <2>10. QED BY <1>1, <2>2, <2>3, <2>8, <2>9, MoveInv DEF Running
<1>4. ASSUME NEW u \in Holders(k), ~Expired(u), Replay(u, k, i), UNCHANGED <<step, call>>
      PROVE  McpInv'
  <2>1. AnswerInv'
    BY <1>1, <1>4, ReplayIsTrueNow
  <2>2. QED
    BY <1>1, <1>4, <2>1 DEF McpInv, Types, TokenInv, KeyInv, CallInv, OneRuns, Used,
                            Holders, Lived, Gone
<1>5. QED BY <1>2, <1>3, <1>4 DEF Execute

LEMMA FreeKeyInv ==
  ASSUME McpInv, NEW c \in Callers, FreeKey(c)
  PROVE  McpInv'
<1>0. PICK u : u = call[c].old
  OBVIOUS
<1>1. PICK t, k, i, since : /\ t = call[c].jti /\ k = call[c].key /\ i = call[c].input
                            /\ since = call[c].since
  OBVIOUS
<1>2. /\ Types /\ CallInv(c) /\ step[c] = "free" /\ hour \in Nat
      /\ UNCHANGED <<hour, minted, claims, logged, ran>> /\ upsets' \in 0 .. MaxUpsets
      /\ call[c] \in Calls /\ minted \subseteq Tokens
      /\ Confirm(c, t, k, i, since)
  BY <1>1, McpAssumption DEF McpInv, Types, FreeKey
<1>3. /\ u \in Tokens /\ TokenInv(u) /\ hour >= ran[u].born + KeyTtl /\ k # Nothing
      /\ t \in minted \cup {Nothing} /\ since <= hour /\ hour < since + CallTime
      /\ since \in Nat /\ k \in Keys
      /\ \A v \in Holders(k) : v = u \/ entry[v].born >= since
  BY <1>0, <1>1, <1>2 DEF CallInv, McpInv, Calls
<1>4. entry' = [entry EXCEPT ![u].key = Nothing]
  BY <1>0 DEF FreeKey
<1>5. /\ entry' \in [Tokens -> McpRows] /\ ran' \in [Tokens -> Runs]
      /\ entry'[u].key = Nothing /\ entry'[u].born = entry[u].born
      /\ entry'[u].stored = entry[u].stored
      /\ \A v \in Tokens : v # u => entry'[v] = entry[v]
  BY <1>2, <1>3, <1>4 DEF Types, McpRows
<1>6. TokenInv(u)'
  BY <1>2, <1>3, <1>5 DEF TokenInv, Used, Lived, Gone
<1>8. AnswerInv'
  BY <1>2, NoAnswer DEF Confirm
<1>9. \A v \in Tokens : /\ entry'[v].born = entry[v].born /\ ran'[v].born = ran[v].born
                        /\ ran'[v].key = ran[v].key
                        /\ entry'[v].key \in {Nothing, entry[v].key}
                        /\ v # u => entry'[v] = entry[v] /\ ran'[v] = ran[v]
  BY <1>2, <1>5
<1>10. CASE Only(c, "away", NoCall)
  <2>1. CallInv(c)'
    BY <1>2, <1>10, CallTyped, OnlyMoves DEF CallInv, Running, McpSteps
  <2>2. QED
    BY <1>2, <1>5, <1>6, <1>8, <1>9, <1>10, <2>1, CallTyped, StepInv DEF Running, McpSteps
<1>11. CASE /\ Only(c, "claim", Call(t, k, Nothing, since, Nothing))
            /\ t \in minted /\ hour < claims[t].exp
  <2>1. Call(t, k, Nothing, since, Nothing) \in Calls /\ "claim" \in McpSteps
    BY <1>2, <1>3, CallTyped DEF McpSteps
  <2>2. step'[c] = "claim" /\ call'[c] = Call(t, k, Nothing, since, Nothing)
    BY <1>2, <1>11, <2>1, OnlyMoves
  <2>3. call'[c].jti = t /\ call'[c].key = k /\ call'[c].since = since
    BY <2>2 DEF Call
  <2>4. \A v \in Holders(k)' : entry'[v].born >= since
    BY <1>2, <1>3, <1>5 DEF Holders, Types
  <2>5. since < claims[t].exp
    <3>1. claims[t].exp \in Nat
      BY <1>2, <1>11 DEF Types
    <3>2. QED BY <1>2, <1>3, <1>11, <3>1
  <2>6. CallInv(c)'
    BY <1>2, <1>3, <1>11, <2>2, <2>3, <2>4, <2>5 DEF CallInv, Running
  <2>7. QED
    BY <1>2, <1>5, <1>6, <1>8, <1>9, <1>11, <2>1, <2>6, StepInv DEF Running
<1>12. QED BY <1>2, <1>10, <1>11, McpConfirmed

LEMMA ClaimWriteInv ==
  ASSUME McpInv, NEW c \in Callers, ClaimWrite(c)
  PROVE  McpInv'
<1>1. /\ Types /\ CallInv(c) /\ step[c] = "claim" /\ upsets' \in 0 .. MaxUpsets
      /\ UNCHANGED <<hour, minted, claims>> /\ call[c] \in Calls
  BY DEF McpInv, Types, ClaimWrite
<1>2. CASE TokenUsed(c) /\ Ends(c) /\ UNCHANGED <<callLog, ran>>
  BY <1>1, <1>2, QuitsInv, NoAnswer DEF Ends, callLog
<1>3. CASE Enters(c, "findAgain") /\ UNCHANGED <<callLog, ran>>
  <2>1. Only(c, "findAgain", call[c]) /\ UNCHANGED answer /\ "findAgain" \in McpSteps
    BY <1>1, <1>3 DEF Enters, Goes, Only, Types, McpSteps
  <2>2. step'[c] = "findAgain" /\ call'[c] = call[c]
    BY <1>1, <2>1, OnlyMoves
  <2>3. CallInv(c)'
    BY <1>1, <1>3, <2>2 DEF CallInv, Running, Holders, callLog
  <2>4. AnswerInv'
    BY <1>1, <1>3, <2>1, AnswerKept DEF McpInv, callLog
  <2>5. QED BY <1>1, <1>3, <2>1, <2>3, <2>4, MoveInv DEF Running, callLog
<1>4. CASE ~TokenUsed(c) /\ ~KeyTaken(c) /\ Insert(c) /\ Enters(c, "apply")
  <2>1. Only(c, "apply", call[c]) /\ UNCHANGED answer
    BY <1>1, <1>4 DEF Enters, Goes, Only, Types
  <2>2. QED BY <1>1, <1>4, <2>1, InsertInv
<1>5. QED BY <1>2, <1>3, <1>4 DEF ClaimWrite

LEMMA FindAgainInv ==
  ASSUME McpInv, NEW c \in Callers, FindAgain(c)
  PROVE  McpInv'
<1>1. /\ Types /\ CallInv(c) /\ step[c] = "findAgain" /\ upsets' \in 0 .. MaxUpsets
      /\ UNCHANGED <<hour, minted, claims, logged, entry, ran>> /\ Quits(c)
  BY DEF McpInv, Types, FindAgain, callLog
<1>2. CASE answer' = Nothing
  BY <1>1, <1>2, QuitsInv, NoAnswer
<1>3. ASSUME NEW t \in Holders(call[c].key), Replay(t, call[c].key, claims[call[c].jti].input)
      PROVE  McpInv'
  <2>1. /\ call[c].key \in Keys \cup {Nothing} /\ call[c].jti \in minted /\ call[c].jti \in Tokens
        /\ entry[t].born \in Nat /\ hour \in Nat /\ call[c].since \in Nat
        /\ entry[t].born >= call[c].since /\ hour < call[c].since + CallTime
    BY <1>1, <1>3, McpAssumption DEF CallInv, Types, Calls, McpRows, Holders
  <2>2. ~Expired(t)
    BY <2>1, McpAssumption DEF Expired
  <2>3. claims[call[c].jti].input \in Inputs
    BY <2>1 DEF McpInv, TokenInv
  <2>4. AnswerInv'
    <3>1. PICK k \in Keys \cup {Nothing} : k = call[c].key
      BY <2>1
    <3>2. PICK i \in Inputs : i = claims[call[c].jti].input
      BY <2>3
    <3>3. QED BY <1>1, <1>3, <2>2, <3>1, <3>2, ReplayIsTrueNow
  <2>5. QED BY <1>1, <2>4, QuitsInv
<1>4. QED BY <1>2, <1>3 DEF FindAgain

\* A call that runs or ends: its token, its row and what is known of them.
LEMMA RunningCall ==
  ASSUME McpInv, NEW c \in Callers, step[c] \in Running
  PROVE  /\ Types /\ CallInv(c) /\ call[c] \in Calls
         /\ call[c].jti \in Tokens /\ call[c].jti \in logged /\ TokenInv(call[c].jti)
         /\ ran[call[c].jti].times \in Nat
  BY DEF McpInv, CallInv, Types, Runs

\* What the steps of the service and of finishWrite have in common: they touch
\* the row and the history of their own token, and let the call go on or end.
LEMMA ServiceInv ==
  ASSUME McpInv, NEW c \in Callers, step[c] \in Running,
         NEW s \in {"store", "fail", "away"}, NEW x \in Calls, Only(c, s, x),
         s = "away" \/ x = call[c],
         NEW t, t = call[c].jti,
         UNCHANGED <<hour, minted, claims, logged>>, upsets' \in 0 .. MaxUpsets,
         entry' \in [Tokens -> McpRows], ran' \in [Tokens -> Runs],
         \A u \in Tokens : /\ entry'[u].born = entry[u].born /\ ran'[u].born = ran[u].born
                           /\ ran'[u].key = ran[u].key
                           /\ entry'[u].key \in {Nothing, entry[u].key}
                           /\ u # t => entry'[u] = entry[u] /\ ran'[u] = ran[u],
         ran'[t].times \in {0, 1}, s = "store" => ran'[t].times = 1,
         ran[t].threw # "nothing" \/ s = "fail" => ran'[t].threw # "nothing",
         entry'[t].stored => ran'[t].times = 1,
         entry'[t].key = entry[t].key \/ ran'[t].threw # "nothing",
         AnswerInv'
  PROVE  McpInv'
<1>1. /\ Types /\ CallInv(c) /\ t \in Tokens /\ t \in logged /\ t \in minted /\ TokenInv(t)
      /\ s \in McpSteps
  BY RunningCall DEF McpSteps, Types
<1>2. TokenInv(t)'
  BY <1>1 DEF TokenInv, Used, Lived, Gone
<1>4. step'[c] = s /\ call'[c] = x
  BY <1>1, OnlyMoves
<1>5. CallInv(c)'
  <2>1. CASE s = "away"
    BY <1>4, <2>1 DEF CallInv, Running
  <2>2. CASE s \in {"store", "fail"} /\ x = call[c]
    BY <1>1, <1>4, <2>2 DEF CallInv, Running
  <2>3. QED BY <2>1, <2>2
<1>6. s \in Running => step[c] \in Running /\ x.jti = call[c].jti
  BY DEF Running
<1>7. QED BY <1>1, <1>2, <1>5, <1>6, StepInv

\* The last update of a call that threw, done or not, and the end of the call.
LEMMA FailedInv ==
  ASSUME McpInv, NEW c \in Callers, step[c] = "fail", Only(c, "away", NoCall),
         UNCHANGED <<hour, minted, claims, logged, ran>>, upsets' \in 0 .. MaxUpsets,
         NEW t, t = call[c].jti,
         \/ entry' = entry
         \/ entry' = [entry EXCEPT ![t].key = Nothing, ![t].stored = FALSE],
         AnswerInv'
  PROVE  McpInv'
<1>1. step[c] \in Running
  BY DEF Running
<1>2. /\ CallInv(c) /\ NoCall \in Calls
      /\ t \in Tokens /\ t \in logged /\ TokenInv(t)
      /\ entry \in [Tokens -> McpRows] /\ ran \in [Tokens -> Runs]
  BY <1>1, RunningCall, CallTyped DEF Types
<1>3. /\ entry' \in [Tokens -> McpRows] /\ entry'[t].born = entry[t].born
      /\ entry'[t].key \in {Nothing, entry[t].key} /\ (entry'[t].stored => entry[t].stored)
      /\ \A u \in Tokens : u # t => entry'[u] = entry[u]
  BY <1>2 DEF McpRows
<1>4. /\ ran[t].times \in {0, 1} /\ (entry'[t].stored => ran[t].times = 1)
      /\ ran[t].threw # "nothing"
  BY <1>2, <1>3 DEF TokenInv, CallInv
<1>5. QED BY <1>1, <1>2, <1>3, <1>4, ServiceInv

LEMMA ServiceStepInv ==
  ASSUME McpInv, NEW c \in Callers,
         RunService(c) \/ ServiceThrows(c) \/ FinishWrite(c) \/ FinishThrows(c)
         \/ FinishFailed(c) \/ FinishFailedThrows(c)
  PROVE  McpInv'
<1>0. PICK t : t = call[c].jti
  OBVIOUS
<1>1. step[c] \in Running /\ UNCHANGED <<hour, minted, claims, logged>>
      /\ upsets' \in 0 .. MaxUpsets
  BY McpAssumption DEF RunService, ServiceThrows, FinishWrite, FinishThrows, FinishFailed,
         FinishFailedThrows, Running, Upset, callLog, McpInv, Types, FreesKey
<1>2. /\ Types /\ CallInv(c) /\ call[c] \in Calls /\ NoCall \in Calls
      /\ t \in Tokens /\ t \in logged /\ TokenInv(t) /\ ran[t].times \in Nat
      /\ entry \in [Tokens -> McpRows] /\ ran \in [Tokens -> Runs]
  BY <1>0, <1>1, RunningCall, CallTyped DEF Types
<1>3. CASE RunService(c)
  <2>1. Only(c, "store", call[c]) /\ UNCHANGED <<entry, answer>>
    BY <1>2, <1>3 DEF RunService, Enters, Goes, Only, Types, callLog
  <2>2. ran[t].times = 0 /\ ran' = [ran EXCEPT ![t].times = @ + 1]
    BY <1>0, <1>2, <1>3 DEF RunService, CallInv, Applied
  <2>3. /\ ran' \in [Tokens -> Runs] /\ ran'[t].times = 1 /\ ran'[t].threw = ran[t].threw
        /\ ran'[t].born = ran[t].born /\ ran'[t].key = ran[t].key
        /\ \A u \in Tokens : u # t => ran'[u] = ran[u]
    BY <1>2, <2>2 DEF Runs
  <2>4. AnswerInv'
    BY <1>1, <1>2, <2>1, <2>2, <2>3, AnswerKept DEF McpInv
  <2>5. ~entry[t].stored
    BY <1>2, <2>2 DEF TokenInv
  <2>6. QED BY <1>0, <1>1, <1>2, <2>1, <2>3, <2>4, <2>5, ServiceInv
<1>4. CASE ServiceThrows(c)
  <2>1. Only(c, "fail", call[c]) /\ UNCHANGED <<entry, answer>>
    BY <1>2, <1>4 DEF ServiceThrows, Enters, Goes, Only, Types, callLog
  <2>2. PICK n \in {0, 1} : ran' = [ran EXCEPT ![t].times = @ + n, ![t].threw = "service"]
    BY <1>0, <1>4 DEF ServiceThrows
  <2>3. ran[t].times = 0
    BY <1>0, <1>2, <1>4 DEF ServiceThrows, CallInv
  <2>4. /\ ran' \in [Tokens -> Runs] /\ ran'[t].times \in {0, 1}
        /\ ran'[t].threw = "service"
        /\ ran'[t].born = ran[t].born /\ ran'[t].key = ran[t].key
        /\ \A u \in Tokens : u # t => ran'[u] = ran[u]
    <3> DEFINE mid == [ran EXCEPT ![t].times = @ + n]
    <3>1. /\ mid \in [Tokens -> Runs] /\ mid[t].times \in {0, 1}
          /\ mid[t].born = ran[t].born /\ mid[t].key = ran[t].key
          /\ \A u \in Tokens : u # t => mid[u] = ran[u]
      BY <1>2, <2>2, <2>3 DEF Runs
    <3>2. ran' = [mid EXCEPT ![t].threw = "service"]
      BY <1>2, <2>2
    <3> HIDE DEF mid
    <3>3. /\ ran' \in [Tokens -> Runs] /\ ran'[t].times = mid[t].times
          /\ ran'[t].threw = "service"
          /\ ran'[t].born = mid[t].born /\ ran'[t].key = mid[t].key
          /\ \A u \in Tokens : u # t => ran'[u] = mid[u]
      BY <1>2, <3>1, <3>2 DEF Runs
    <3>4. QED BY <3>1, <3>3
  <2>5. AnswerInv'
    BY <1>1, <1>2, <2>1, <2>3, <2>4, AnswerKept DEF McpInv
  <2>6. ~entry[t].stored
    BY <1>2, <2>3 DEF TokenInv
  <2>7. QED BY <1>0, <1>1, <1>2, <2>1, <2>4, <2>5, <2>6, ServiceInv
<1>5. CASE FinishWrite(c)
  <2>1. Only(c, "away", NoCall) /\ UNCHANGED ran /\ AnswerInv'
    BY <1>2, <1>5, NoAnswer DEF FinishWrite, Ends, Quits, Goes, Only
  <2>2. entry' = [entry EXCEPT ![t].stored = TRUE]
    BY <1>0, <1>5 DEF FinishWrite, StoreResult
  <2>3. /\ entry' \in [Tokens -> McpRows] /\ entry'[t].born = entry[t].born
        /\ entry'[t].key = entry[t].key
        /\ \A u \in Tokens : u # t => entry'[u] = entry[u]
    BY <1>2, <2>2 DEF McpRows
  <2>4. ran[t].times = 1
    BY <1>0, <1>2, <1>5 DEF FinishWrite, CallInv
  <2>5. QED BY <1>0, <1>1, <1>2, <2>1, <2>3, <2>4, ServiceInv
<1>6. CASE FinishThrows(c)
  <2>1. Only(c, "fail", call[c]) /\ UNCHANGED answer
    BY <1>2, <1>6 DEF FinishThrows, Enters, Goes, Only, Types
  <2>2. ran[t].times = 1 /\ (entry' = entry \/ entry' = [entry EXCEPT ![t].stored = TRUE])
    BY <1>0, <1>2, <1>6 DEF FinishThrows, CallInv, StoreResult
  <2>3. /\ entry' \in [Tokens -> McpRows] /\ entry'[t].born = entry[t].born
        /\ entry'[t].key = entry[t].key
        /\ \A u \in Tokens : u # t => entry'[u] = entry[u]
    BY <1>2, <2>2 DEF McpRows
  <2>4. ran' = [ran EXCEPT ![t].threw = "store"]
    BY <1>0, <1>6 DEF FinishThrows
  <2>5. /\ ran' \in [Tokens -> Runs] /\ ran'[t].times = ran[t].times
        /\ ran'[t].threw = "store"
        /\ ran'[t].born = ran[t].born /\ ran'[t].key = ran[t].key
        /\ \A u \in Tokens : u # t => ran'[u] = ran[u]
    BY <1>2, <2>4 DEF Runs
  <2>6. AnswerInv'
    BY <1>1, <1>2, <2>1, <2>5, AnswerKept DEF McpInv
  <2>7. QED BY <1>0, <1>1, <1>2, <2>1, <2>2, <2>3, <2>5, <2>6, ServiceInv
<1>7. CASE FinishFailed(c) \/ FinishFailedThrows(c)
  <2>1. Only(c, "away", NoCall) /\ AnswerInv'
    BY <1>2, <1>7, NoAnswer DEF FinishFailed, FinishFailedThrows, Ends, Quits, Goes, Only
  <2>2. step[c] = "fail" /\ UNCHANGED ran
    BY <1>7 DEF FinishFailed, FinishFailedThrows
  <2>3. \/ entry' = entry
        \/ entry' = [entry EXCEPT ![t].key = Nothing, ![t].stored = FALSE]
    BY <1>0, <1>7 DEF FinishFailed, FinishFailedThrows, FreesKey, callLog
  <2>4. QED BY <1>0, <1>1, <2>1, <2>2, <2>3, FailedInv
<1>8. QED BY <1>3, <1>4, <1>5, <1>6, <1>7

LEMMA CallDiesInv ==
  ASSUME McpInv, NEW c \in Callers, CallDies(c)
  PROVE  McpInv'
<1>1. /\ UNCHANGED <<hour, minted, claims>> /\ upsets' \in 0 .. MaxUpsets
      /\ Quits(c) /\ answer' = Nothing
  BY McpAssumption DEF CallDies, Ends, Upset, McpInv, Types
<1>2. CASE UNCHANGED <<callLog, ran>>
  BY <1>1, <1>2, QuitsInv, NoAnswer DEF callLog
<1>3. CASE step[c] = "claim" /\ ~TokenUsed(c) /\ ~KeyTaken(c) /\ Insert(c)
  BY <1>1, <1>3, LeavesInv, InsertInv
<1>4. CASE step[c] = "store" /\ StoreResult(call[c].jti) /\ UNCHANGED <<logged, ran>>
  <2>1. PICK t : t = call[c].jti
    OBVIOUS
  <2>2. step[c] \in Running
    BY <1>4 DEF Running
  <2>3. /\ Only(c, "away", NoCall) /\ NoCall \in Calls /\ AnswerInv'
        /\ t \in Tokens /\ TokenInv(t) /\ CallInv(c)
        /\ entry \in [Tokens -> McpRows] /\ ran \in [Tokens -> Runs]
    BY <1>1, <2>1, <2>2, LeavesInv, NoAnswer, RunningCall DEF Types
  <2>4. entry' = [entry EXCEPT ![t].stored = TRUE]
    BY <1>4, <2>1 DEF StoreResult
  <2>5. /\ entry' \in [Tokens -> McpRows] /\ entry'[t].born = entry[t].born
        /\ entry'[t].key = entry[t].key
        /\ \A u \in Tokens : u # t => entry'[u] = entry[u]
    BY <2>3, <2>4 DEF McpRows
  <2>6. ran[t].times = 1
    BY <1>4, <2>1, <2>3 DEF CallInv
  <2>7. QED BY <1>1, <1>4, <2>1, <2>2, <2>3, <2>5, <2>6, ServiceInv
<1>5. CASE step[c] = "fail" /\ FreesKey(c) /\ UNCHANGED ran
  <2>1. PICK t : t = call[c].jti
    OBVIOUS
  <2>2. Only(c, "away", NoCall) /\ AnswerInv'
    BY <1>1, LeavesInv, NoAnswer
  <2>3. UNCHANGED logged /\ entry' = [entry EXCEPT ![t].key = Nothing, ![t].stored = FALSE]
    BY <1>5, <2>1 DEF FreesKey
  <2>4. QED BY <1>1, <1>5, <2>1, <2>2, <2>3, FailedInv
<1>6. QED BY <1>2, <1>3, <1>4, <1>5 DEF CallDies

LEMMA HourPassesInv == ASSUME McpInv, HourPasses PROVE McpInv'
<1>1. /\ Types /\ KeyInv /\ OneRuns /\ AnswerInv /\ (\A u \in Tokens : TokenInv(u))
      /\ \A d \in Callers : CallInv(d)
  BY DEF McpInv
<1>2. /\ hour \in Nat /\ hour' = hour + 1 /\ hour < LastHour
      /\ UNCHANGED <<minted, claims, logged, entry, step, call, upsets, ran, answer>>
      /\ \A c \in Callers : step[c] # "away" => hour' < call[c].since + CallTime
  BY <1>1, McpAssumption DEF HourPasses, callLog, Types
<1>3. /\ \A u \in Tokens : ran[u].born \in Nat /\ claims[u].exp \in Nat
      /\ \A c \in Callers : call[c].since \in Nat
      /\ minted \subseteq Tokens /\ logged \subseteq minted
  BY <1>1 DEF Types, Runs, Calls
<1>4. Types'
  BY <1>1, <1>2, McpAssumption DEF Types
<1>5. ASSUME NEW u \in Tokens PROVE TokenInv(u)'
  BY <1>1, <1>2, <1>3, McpAssumption DEF TokenInv, Used, Lived, Gone
<1>6. KeyInv'
  BY <1>1, <1>2 DEF KeyInv
<1>7. ASSUME NEW d \in Callers PROVE CallInv(d)'
  <2>1. CallInv(d)
    BY <1>1
  <2>2. \A k : Holders(k)' = Holders(k)
    BY <1>2 DEF Holders
  <2>3. CASE step[d] = "free"
    <3>1. call[d].old \in Tokens
      BY <1>3, <2>1, <2>3 DEF CallInv
    <3>2. QED BY <1>2, <1>3, <2>1, <2>2, <2>3, <3>1, McpAssumption
             DEF CallInv, Running, Lived, Gone
  <2>4. CASE step[d] # "free"
    BY <1>2, <1>3, <2>1, <2>2, <2>4 DEF CallInv, Running
  <2>5. QED BY <2>3, <2>4
<1>8. OneRuns' /\ AnswerInv'
  BY <1>1, <1>2, AnswerKept DEF OneRuns
<1>9. QED BY <1>4, <1>5, <1>6, <1>7, <1>8 DEF McpInv

\* The nightly cleanup leaves the rows of running calls, and what it deletes is
\* older than any token that could be claimed again.
LEMMA CleanLogInv == ASSUME McpInv, CleanLog PROVE McpInv'
<1>1. /\ Types /\ KeyInv /\ OneRuns /\ AnswerInv /\ (\A u \in Tokens : TokenInv(u))
      /\ \A d \in Callers : CallInv(d)
  BY DEF McpInv
<1>2. /\ UNCHANGED <<hour, minted, claims, step, call, upsets, ran, answer>>
      /\ logged' = {t \in logged : Kept(t)}
      /\ entry' = [t \in Tokens |-> IF t \in logged \ logged' THEN NoEntry ELSE entry[t]]
  BY DEF CleanLog
<1>3. /\ hour \in Nat /\ \A u \in Tokens : ran[u].born \in Nat /\ entry[u].born \in Nat
      /\ \A c \in Callers : call[c].since \in Nat
      /\ minted \subseteq Tokens /\ logged \subseteq minted
  BY <1>1, McpAssumption DEF Types, Runs, Calls, McpRows
<1>4. \A t \in Tokens : /\ t \in logged' => t \in logged /\ entry'[t] = entry[t]
                        /\ t \in logged /\ t \notin logged' => Gone(t)
  BY <1>1, <1>2, <1>3, McpAssumption DEF Kept, Gone, TokenInv
<1>5. Types'
  <2>1. NoEntry \in McpRows
    BY DEF NoEntry, McpRows
  <2>2. QED BY <1>1, <1>2, <2>1 DEF Types
<1>6. ASSUME NEW u \in Tokens PROVE TokenInv(u)'
  BY <1>1, <1>2, <1>4 DEF TokenInv, Used, Lived, Gone
<1>7. KeyInv'
  BY <1>1, <1>2, <1>3, <1>4 DEF KeyInv
<1>8. ASSUME NEW d \in Callers PROVE CallInv(d)'
  <2>1. CallInv(d)
    BY <1>1
  <2>2. \A k : \A v \in Holders(k)' : v \in Holders(k) /\ entry'[v].born = entry[v].born
    BY <1>2, <1>3, <1>4 DEF Holders
  <2>3. CASE step[d] = "free"
    <3>1. call[d].old \in Tokens
      BY <1>3, <2>1, <2>3 DEF CallInv
    <3>2. call[d].old \notin logged' => Gone(call[d].old)
      BY <1>4, <2>1, <2>3, <3>1 DEF CallInv
    <3>3. QED BY <1>2, <2>1, <2>2, <2>3, <3>2 DEF CallInv, Running, Lived, Gone
  <2>4. CASE step[d] \in Running
    <3>1. /\ call[d].jti \in logged /\ call[d].jti \in Tokens
          /\ call[d].since <= ran[call[d].jti].born /\ hour < call[d].since + CallTime
      BY <1>3, <2>1, <2>4 DEF CallInv, Running
    <3>2. ~Gone(call[d].jti)
      BY <1>3, <3>1, McpAssumption DEF Gone
    <3>3. call[d].jti \in logged'
      BY <1>4, <3>1, <3>2
    <3>4. QED BY <1>2, <2>1, <2>4, <3>3 DEF CallInv, Running
  <2>5. CASE step[d] \notin Running /\ step[d] # "free"
    BY <1>2, <2>1, <2>2, <2>5 DEF CallInv, Running
  <2>6. QED BY <2>3, <2>4, <2>5
<1>9. OneRuns' /\ AnswerInv'
  BY <1>1, <1>2, AnswerKept DEF OneRuns
<1>10. QED BY <1>5, <1>6, <1>7, <1>8, <1>9 DEF McpInv

LEMMA DryRunInv ==
  ASSUME McpInv, NEW t \in Tokens, NEW i \in Inputs, DryRun(t, i) PROVE McpInv'
<1>1. /\ Types /\ KeyInv /\ OneRuns /\ AnswerInv /\ (\A u \in Tokens : TokenInv(u))
      /\ \A d \in Callers : CallInv(d)
  BY DEF McpInv
<1>2. /\ UNCHANGED <<hour, logged, entry, step, call, upsets, ran, answer>>
      /\ t \notin minted /\ minted' = minted \cup {t}
      /\ claims' = [claims EXCEPT ![t] = [input |-> i, exp |-> hour + ConfirmTtl]]
  BY DEF DryRun, callLog
<1>3. hour \in Nat /\ minted \subseteq Tokens /\ logged \subseteq minted
  BY <1>1, McpAssumption DEF Types
<1>4. /\ claims' \in [Tokens -> [input : Inputs \cup {Nothing}, exp : Nat]]
      /\ claims'[t].input = i /\ claims'[t].exp = hour + ConfirmTtl
      /\ \A u \in Tokens : u # t => claims'[u] = claims[u]
  BY <1>1, <1>2, <1>3, McpAssumption DEF Types
<1>5. Types'
  BY <1>1, <1>2, <1>3, <1>4 DEF Types
<1>6. ASSUME NEW u \in Tokens PROVE TokenInv(u)'
  <2>1. CASE u = t
    BY <1>1, <1>2, <1>3, <1>4, <2>1, McpAssumption DEF TokenInv, Used
  <2>2. CASE u # t
    BY <1>1, <1>2, <1>4, <2>2 DEF TokenInv, Used, Lived, Gone
  <2>3. QED BY <2>1, <2>2
<1>7. KeyInv'
  BY <1>1, <1>2 DEF KeyInv
<1>8. ASSUME NEW d \in Callers PROVE CallInv(d)'
  <2>1. CallInv(d)
    BY <1>1
  <2>2. \A k : Holders(k)' = Holders(k)
    BY <1>2 DEF Holders
  <2>3. CASE step[d] = "free"
    <3>1. call[d].old \in minted /\ call[d].old # t /\ call[d].old \in Tokens
      BY <1>2, <1>3, <2>1, <2>3 DEF CallInv
    <3>2. QED BY <1>2, <1>4, <2>1, <2>2, <2>3, <3>1 DEF CallInv, Running, Lived, Gone
  <2>4. CASE step[d] \in {"claim", "findAgain"}
    <3>1. call[d].jti \in minted /\ call[d].jti # t /\ call[d].jti \in Tokens
      BY <1>2, <1>3, <2>1, <2>4 DEF CallInv
    <3>2. QED BY <1>2, <1>4, <2>1, <2>2, <2>4, <3>1 DEF CallInv, Running
  <2>5. CASE step[d] \notin {"free", "claim", "findAgain"}
    BY <1>2, <2>1, <2>5 DEF CallInv, Running
  <2>6. QED BY <2>3, <2>4, <2>5
<1>9. AnswerInv'
  <2>1. \A u \in minted : claims'[u] = claims[u]
    BY <1>2, <1>3, <1>4
  <2>2. QED BY <1>1, <1>2, <2>1, AnswerKept
<1>10. OneRuns'
  BY <1>1, <1>2 DEF OneRuns
<1>11. QED BY <1>5, <1>6, <1>7, <1>8, <1>9, <1>10 DEF McpInv

LEMMA InvNext == McpInv /\ [McpNext]_mcpVars => McpInv'
<1> SUFFICES ASSUME McpInv, [McpNext]_mcpVars PROVE McpInv'
  OBVIOUS
<1>1. CASE HourPasses
  BY <1>1, HourPassesInv
<1>2. CASE CleanLog
  BY <1>2, CleanLogInv
<1>3. ASSUME NEW t \in Tokens, NEW i \in Inputs, DryRun(t, i) PROVE McpInv'
  BY <1>3, DryRunInv
<1>4. ASSUME NEW c \in Callers, McpStep(c) PROVE McpInv'
  BY <1>4, FreeKeyInv, ClaimWriteInv, FindAgainInv, ServiceStepInv, CallDiesInv DEF McpStep
<1>5. ASSUME NEW c \in Callers, NEW t \in Tokens \cup {Nothing}, NEW k \in Keys \cup {Nothing},
             NEW i \in Inputs, Execute(c, t, k, i)
      PROVE  McpInv'
  BY <1>5, ExecuteInv
<1>6. CASE UNCHANGED mcpVars
  <2>1. UNCHANGED <<hour, minted, claims, logged, entry, step, call, upsets, ran, answer>>
    BY <1>6 DEF mcpVars, callLog
  <2>2. QED
    BY <2>1 DEF McpInv, Types, TokenInv, KeyInv, CallInv, OneRuns, AnswerInv, ReplayWasApplied,
                Used, Holders, Lived, Gone
<1>7. QED BY <1>1, <1>2, <1>3, <1>4, <1>5, <1>6 DEF McpNext

LEMMA Invariance == McpSpec => []McpInv
<1>1. QED BY InvInit, InvNext, PTL DEF McpSpec

----------------------------------------------------------------------------
(* Who claims a key.                                                       *)

\* Only an insert that both unique indexes let through claims one.
LEMMA OnlyInsertClaims ==
  ASSUME McpInv, [McpNext]_mcpVars, NEW u \in Tokens, ran'[u].key # ran[u].key
  PROVE  \E c \in Callers : ~KeyTaken(c) /\ call[c].jti \in Tokens /\ Insert(c)
<1>1. ran \in [Tokens -> Runs] /\ \A c \in Callers : CallInv(c)
  BY DEF McpInv, Types
<1>2. PICK c \in Callers : McpStep(c)
  BY DEF McpNext, mcpVars, HourPasses, CleanLog, DryRun, Execute
<1>3. \A t, n : /\ ran' # [ran EXCEPT ![t].times = @ + n]
                /\ ran' # [ran EXCEPT ![t].times = @ + n, ![t].threw = "service"]
                /\ ran' # [ran EXCEPT ![t].threw = "store"]
  BY <1>1 DEF Runs
<1>4. step[c] = "claim" /\ ~KeyTaken(c) /\ Insert(c)
  BY <1>2, <1>3 DEF McpStep, FreeKey, ClaimWrite, FindAgain, RunService, Applied, ServiceThrows,
                    FinishWrite, FinishThrows, FinishFailed, FinishFailedThrows, CallDies
<1>5. call[c].jti \in Tokens
  BY <1>1, <1>4 DEF CallInv, McpInv, Types
<1>6. QED BY <1>4, <1>5

\* The row of a claim whose call has not thrown keeps the key for its day, and
\* the cleanup deletes no row that young, so the index refuses the insert.
LEMMA KeyStep ==
  ASSUME McpInv, [McpNext]_mcpVars, NEW t \in Tokens, NEW u \in Tokens,
         ran[u].key = Nothing, ran'[u].key # Nothing, ran[t].key = ran'[u].key
  PROVE  ran[t].threw # "nothing" \/ hour >= ran[t].born + KeyTtl
<1>1. PICK c \in Callers : ~KeyTaken(c) /\ call[c].jti \in Tokens /\ Insert(c)
  BY OnlyInsertClaims
<1>2. /\ ran'[call[c].jti].key = call[c].key
      /\ \A v \in Tokens : v # call[c].jti => ran'[v] = ran[v]
  BY <1>1, Inserted DEF McpInv
<1>3. ran[t].key = call[c].key /\ ran[t].key # Nothing
  BY <1>2
<1>4. TokenInv(t) /\ Used(t)
  BY <1>3 DEF McpInv, Used
<1>5. CASE t \in logged
  <2>1. entry[t].key # ran[t].key
    BY <1>1, <1>3, <1>5 DEF KeyTaken, Holders
  <2>2. QED BY <1>4, <1>5, <2>1 DEF TokenInv
<1>6. CASE t \notin logged
  <2>1. Gone(t)
    BY <1>4, <1>6 DEF TokenInv
  <2>2. hour \in Nat /\ ran[t].born \in Nat
    BY McpAssumption DEF McpInv, Types, Runs
  <2>3. QED BY <2>1, <2>2, McpAssumption DEF Gone
<1>7. QED BY <1>5, <1>6

----------------------------------------------------------------------------
(* The theorems.                                                           *)

\* write-runner.server.ts keeps its rows and calls well formed: only minted
\* tokens have rows, and a call that runs or ends has its own, which the
\* cleanup of mcp_call_log does not delete under it.
THEOREM McpTypeCorrect == McpSpec => []McpTypeOK
<1>1. QED BY Invariance, InvImplies, PTL

\* A confirmation token is single-use for ever: not only while its row is
\* there, but after the cleanup too, because the token has expired by then.
THEOREM AppliesOnce == McpSpec => []TokenAppliesOnce
<1>1. QED BY Invariance, InvImplies, PTL

\* An idempotency key is claimed again only after the service or the storing of
\* its result threw for every earlier claim of its day.
THEOREM KeyNeedsFailure == McpSpec => KeyRepeatsNeedFailure
<1>1. McpInv /\ [McpNext]_mcpVars =>
        \A t, u \in Tokens :
          /\ ran[u].key = Nothing /\ ran'[u].key # Nothing
          /\ ran[t].key = ran'[u].key
          => ran[t].threw # "nothing" \/ hour >= ran[t].born + KeyTtl
  BY KeyStep
<1>2. QED BY <1>1, Invariance, PTL DEF McpSpec, KeyRepeatsNeedFailure

\* A replayed result is of a write that was applied under the same key, to the
\* same arguments, less than a day ago.
THEOREM ReplayIsTrue == McpSpec => []ReplayWasApplied
<1>1. QED BY Invariance, InvImplies, PTL

-----------------------------------------------------------------------------
(* The run with both parts.                                                *)

\* The run of MCMerchant is a behaviour of either part: focus moves one at a
\* time, and they share no variable.
LEMMA MerchantRuns == MCSpec => Spec /\ McpSpec
<1> DEFINE all == <<focus, vars, mcpVars>>
<1>1. MCInit => Init /\ McpInit
  BY DEF MCInit
<1>2. [MCNext]_all => [Next]_vars /\ [McpNext]_mcpVars
  BY DEF MCNext
<1>3. QED BY <1>1, <1>2, PTL DEF MCSpec, Spec, McpSpec

\* Every reachable state of the two parts side by side is well typed.
THEOREM MerchantTypeCorrect == MCSpec => []MerchantTypeOK
<1>1. TypeOK /\ McpTypeOK => MerchantTypeOK
  BY DEF MerchantTypeOK
<1>2. QED BY <1>1, MerchantRuns, OfferTypeCorrect, McpTypeCorrect, PTL
===============================================================================

--------------------------- MODULE OfferLifecycle ---------------------------
(***************************************************************************)
(* The statuses of one shop's offers: the merchant's operations            *)
(* (offer-lifecycle.server.ts, offer-publish-flow.server.ts) against the   *)
(* offers cron (api.cron.offers.ts: reconciliation, the scheduler, drift   *)
(* repair).                                                                *)
(*                                                                         *)
(* Everybody does the same: read the rows, decide, write the new status,   *)
(* publish the shop, and when the publish fails put the old status back.   *)
(* A publish is two steps here, the read of the active offers under the    *)
(* shop's lock and its end; module Publisher is its detail.                *)
(***************************************************************************)
EXTENDS Naturals, FiniteSets

CONSTANTS Offers,
          Requests,    \* merchant requests: each runs operations one by one
          Cron,        \* the offers cron, never twice at a time (CronLock)
          Ops,         \* the operations the requests may run
          MaxOps,      \* bound on the operations started
          MaxFaults,   \* bound on refusals: validations, publishes, drift checks
          MaxCrashes,  \* bound on processes that die
          LastTick,    \* the clock stops here
          None

AllOps == {"pause", "resume", "toggle", "activate", "activateDraft", "archive",
           "bulkPause", "bulkResume", "setSchedule", "republish"}

ASSUME LifecycleAssumption ==
         /\ Cron \notin Requests
         /\ None \notin Requests \cup Offers \cup {Cron}
         /\ Ops \subseteq AllOps
         /\ MaxOps \in Nat /\ MaxFaults \in Nat /\ MaxCrashes \in Nat
         /\ LastTick \in Nat

Workers == Requests \cup {Cron}
Status  == {"draft", "scheduled", "active", "paused", "expired", "archived"}

VARIABLES
  status,            \* offers.status
  starts, ends,      \* offers.startsAt (0: none) and endsAt (LastTick + 1: none)
  stamped,           \* offers whose updatedAt is that of the scheduler's run
  compiled,          \* offers with a compiledConfig
  served,            \* the offers Shopify applies
  manifest,          \* the offers of the last complete publish
  pending, newer,    \* publishPendingAt; publishes under way that began before
  lock, snap,        \* the publish that holds the lock, the offers it read
  pc,
  job,               \* what a worker is doing
  now,
  ops, faults, crashes,
  \* History, read by no action:
  author,            \* who wrote an offer's status last (None: a rollback)
  confirmed          \* offers whose status a successful answer confirmed

rows    == <<status, starts, ends, stamped, author>>
shopify == <<served, manifest, compiled>>
flag    == <<pending, newer>>
bounds  == <<now, ops, faults, crashes>>
vars == <<rows, shopify, flag, lock, snap, pc, job, bounds, confirmed>>

Active == {o \in Offers : status[o] = "active"}

\* A job: the operation, the statuses it found and sets, the dates it sets and
\* the offer a failed publish blames.
Job(op, from, to, s, e) ==
  [op |-> op, from |-> from, to |-> to, starts |-> s, ends |-> e, blame |-> None]

NoJob == Job("none", <<>>, <<>>, 0, 0)

Publishing == {"publish", "republish", "reconcile", "restore", "repair"}
PcValues == Publishing \cup {"idle", "write", "undo", "pause", "load", "apply",
                             "check"}

----------------------------------------------------------------------------
Init ==
  /\ now = 0
  /\ status \in [Offers -> {"draft", "scheduled", "active", "paused"}]
  /\ starts \in [Offers -> 0 .. LastTick]
  /\ ends \in [Offers -> 1 .. LastTick + 1]
  /\ \A o \in Offers : /\ starts[o] < ends[o]
                       /\ status[o] = "active" => starts[o] = 0
                       /\ status[o] = "scheduled" => starts[o] > 0
                       /\ status[o] \in {"draft", "paused"}
                            => starts[o] = 0 /\ ends[o] = LastTick + 1
  /\ stamped = {}
  /\ served = Active /\ manifest = Active /\ compiled = Active
  /\ pending = FALSE /\ newer = {}
  /\ lock = None /\ snap = {}
  /\ pc = [w \in Workers |-> "idle"]
  /\ job = [w \in Workers |-> NoJob]
  /\ ops = 0 /\ faults = 0 /\ crashes = 0
  /\ author = [o \in Offers |-> None]
  /\ confirmed = {}

----------------------------------------------------------------------------
Goto(w, step) == pc' = [pc EXCEPT ![w] = step]

\* The end of an operation or of a cron run.
Finish(w) == Goto(w, "idle") /\ job' = [job EXCEPT ![w] = NoJob]

Fault == faults < MaxFaults /\ faults' = faults + 1

\* w writes the statuses f and touches updatedAt; only the scheduler's
\* transitions (stamp) carry the updatedAt of its run.
Write(w, f, stamp) ==
  /\ status' = [o \in Offers |-> IF o \in DOMAIN f THEN f[o] ELSE status[o]]
  /\ stamped' = (stamped \ DOMAIN f) \cup stamp
  /\ author' = [o \in Offers |-> IF o \in DOMAIN f THEN w ELSE author[o]]
  /\ confirmed' = confirmed \ DOMAIN f

\* w's publish ends: with markPublishPending, after which only a publish that
\* begins later clears the flag, or without it.
Flag(w) == /\ pending' = TRUE
           /\ newer' = {v \in Workers \ {w} : pc[v] \in Publishing}
NoFlag(w) == pending' = pending /\ newer' = newer \ {w}

----------------------------------------------------------------------------
(* Publishing, in two steps.                                               *)

PublishRead(w) ==
  /\ pc[w] \in Publishing /\ lock = None
  /\ lock' = w /\ snap' = Active
  /\ UNCHANGED <<rows, shopify, flag, pc, job, bounds, confirmed>>

Release == lock' = None /\ snap' = {}

\* Where a worker goes when its publish succeeds ("pending" is a success) ...
Succeed(w) ==
  /\ confirmed' = confirmed \cup
       {o \in DOMAIN job[w].to : pc[w] = "publish" /\ author[o] = w}
  /\ \/ /\ w \in Requests \/ pc[w] = "repair"
        /\ Finish(w)
     \/ /\ w = Cron /\ pc[w] = "reconcile"
        /\ Goto(w, "load") /\ UNCHANGED job
     \/ /\ w = Cron /\ pc[w] \in {"publish", "restore"}
        /\ Goto(w, "check") /\ UNCHANGED job

\* ... and when it fails: a status operation and the scheduler undo what they
\* wrote; republishIfActive pauses the blamed offer, or keeps the status and
\* flags the shop; the others only report.
StatusOps == AllOps \ {"setSchedule", "republish"}

GiveUp(w, blame) ==
  /\ UNCHANGED confirmed
  /\ \/ /\ pc[w] = "publish" /\ (w = Cron \/ job[w].op \in StatusOps)
        /\ Goto(w, "undo") /\ UNCHANGED job /\ NoFlag(w)
     \/ /\ pc[w] = "publish" /\ job[w].op = "setSchedule" /\ blame # None
        /\ Goto(w, "pause") /\ NoFlag(w)
        /\ job' = [job EXCEPT ![w].blame = blame]
     \/ /\ pc[w] = "publish" /\ job[w].op = "setSchedule" /\ blame = None
        /\ Flag(w) /\ Finish(w)
     \/ /\ pc[w] = "republish" \/ job[w].op = "republish" \/ pc[w] = "repair"
        /\ Finish(w) /\ NoFlag(w)
     \/ /\ pc[w] = "reconcile"
        /\ Goto(w, "load") /\ UNCHANGED job /\ NoFlag(w)
     \/ /\ pc[w] = "restore"
        /\ Goto(w, "check") /\ UNCHANGED job /\ NoFlag(w)

\* How far a publish got that did not complete: nothing is live, the codes of
\* offers no longer active are stopped, the new offers are live, or they are
\* live and stored as compiled.
Partial == \/ UNCHANGED <<served, compiled>>
           \/ served' = served \cap snap /\ UNCHANGED compiled
           \/ served' = snap /\ UNCHANGED compiled
           \/ served' = snap /\ compiled' = compiled \cup snap

\* Creating the code node of an offer published for the first time touches its
\* updatedAt.
Touch == \E N \in {{}, snap \ compiled} : stamped' = stamped \ N

\* clearPublishPending: only a flag set before this publish began.
ClearsAnyFlag(w) == TRUE
ClearsFlag(w) == w \notin newer

PublishOk(w) ==
  /\ lock = w /\ Release
  /\ served' = snap /\ manifest' = snap
  /\ compiled' = compiled \cup snap
  /\ pending' = (pending /\ ~ClearsFlag(w))
  /\ newer' = newer \ {w}
  /\ Touch
  /\ Succeed(w)
  /\ UNCHANGED <<status, starts, ends, author, bounds>>

\* An unknown outcome, or a lock that is not free in time: parked.
PublishParked(w) ==
  /\ \/ lock = w /\ Fault /\ Release /\ Partial /\ Touch
     \/ /\ pc[w] \in Publishing /\ lock \notin {w, None}
        /\ UNCHANGED <<lock, snap, served, compiled, stamped, faults>>
  /\ Flag(w)
  /\ Succeed(w)
  /\ UNCHANGED <<status, starts, ends, author, manifest, now, ops, crashes>>

\* An offer that cannot be compiled is blamed, before any offer was pushed.
PublishFailed(w) ==
  /\ lock = w /\ Fault /\ Release
  /\ \/ Partial /\ Touch /\ GiveUp(w, None)
     \/ /\ \E o \in snap : GiveUp(w, o)
        /\ served' \in {served, served \cap snap}
        /\ Touch /\ UNCHANGED compiled
  /\ UNCHANGED <<status, starts, ends, author, manifest, now, ops, crashes>>

----------------------------------------------------------------------------
(* The merchant's operations.  A refused one (a guard, validateActivation) *)
(* changes nothing and is no step.                                         *)

\* activationStatus
ActivationStatus(s, e) == IF e <= now THEN "expired"
                          ELSE IF s > now THEN "scheduled" ELSE "active"

\* statusForScheduleSave
StatusForScheduleSave(current, s, e) ==
  IF current \in {"archived", "draft"} THEN current
  ELSE IF ActivationStatus(s, e) = "active" /\ current \notin {"scheduled", "expired"}
       THEN current
       ELSE ActivationStatus(s, e)

Allowed(op, o) ==
  /\ op = "pause" => status[o] \in {"active", "scheduled"}
  /\ op = "resume" => status[o] = "paused"
  /\ op = "archive" => status[o] # "archived"
  /\ op = "activateDraft" => status[o] = "draft"

StatusAfter(op, o) ==
  CASE op = "archive" -> "archived"
    [] op \in {"pause", "bulkPause"} \/ (op = "toggle" /\ status[o] = "active") -> "paused"
    [] OTHER -> ActivationStatus(starts[o], ends[o])

Begin(w) == w \in Requests /\ pc[w] = "idle" /\ ops < MaxOps /\ ops' = ops + 1

\* changeStatus, archiveOffer, activateDraftOffer and the bulk operations read
\* the rows and decide.
DecideStatus(w, op, T) ==
  /\ Begin(w)
  /\ op \in Ops \cap StatusOps
  /\ op \notin {"bulkPause", "bulkResume"} => Cardinality(T) = 1
  /\ \A o \in T : Allowed(op, o)
  /\ job' = [job EXCEPT ![w] = Job(op, [o \in T |-> status[o]],
                                    [o \in T |-> StatusAfter(op, o)], 0, 0)]
  /\ Goto(w, "write")
  /\ UNCHANGED <<rows, shopify, flag, lock, snap, now, faults, crashes, confirmed>>

\* setOfferSchedule
DecideSchedule(w, o) ==
  /\ Begin(w)
  /\ "setSchedule" \in Ops
  /\ \E s \in 0 .. LastTick, e \in 1 .. LastTick + 1 :
       /\ s < e
       /\ job' = [job EXCEPT ![w] =
                    Job("setSchedule", [x \in {o} |-> status[o]],
                        [x \in {o} |-> StatusForScheduleSave(status[o], s, e)], s, e)]
  /\ Goto(w, "write")
  /\ UNCHANGED <<rows, shopify, flag, lock, snap, now, faults, crashes, confirmed>>

\* republishShop (the background retry of a parked publish does the same)
Republish(w) ==
  /\ Begin(w)
  /\ "republish" \in Ops
  /\ job' = [job EXCEPT ![w] = Job("republish", <<>>, <<>>, 0, 0)]
  /\ Goto(w, "publish")
  /\ UNCHANGED <<rows, shopify, flag, lock, snap, now, faults, crashes, confirmed>>

\* The write asks for nothing: it replaces whatever is there by now.
WriteStatus(w) ==
  /\ pc[w] = "write" /\ job[w].op \in StatusOps
  /\ Write(w, job[w].to, {})
  /\ Goto(w, "publish")
  /\ UNCHANGED <<starts, ends, shopify, flag, lock, snap, job, bounds>>

\* republishIfActive publishes only when the offer was or will be active.
WriteSchedule(w) ==
  /\ pc[w] = "write" /\ job[w].op = "setSchedule"
  /\ Write(w, job[w].to, {})
  /\ starts' = [o \in Offers |-> IF o \in DOMAIN job[w].to THEN job[w].starts ELSE starts[o]]
  /\ ends' = [o \in Offers |-> IF o \in DOMAIN job[w].to THEN job[w].ends ELSE ends[o]]
  /\ LET live == \E o \in DOMAIN job[w].to :
                    "active" \in {job[w].from[o], job[w].to[o]}
     IN IF live THEN Goto(w, "publish") /\ UNCHANGED job ELSE Finish(w)
  /\ UNCHANGED <<shopify, flag, lock, snap, bounds>>

\* Its own validation and capacity check, before the publish: the edited offer
\* is at fault, another active one that does not compile, or, for the store's
\* discount budget, nobody.
RefuseRepublish(w) ==
  /\ pc[w] = "publish" /\ lock # w /\ job[w].op = "setSchedule" /\ Fault
  /\ \E blame \in DOMAIN job[w].to \cup Active \cup {None} : GiveUp(w, blame)
  /\ UNCHANGED <<rows, shopify, lock, snap, now, ops, crashes>>

\* pauseOffer: the offer at fault is paused whatever its status is by now, and
\* the shop is published again.
PauseOffer(w) ==
  /\ pc[w] = "pause"
  /\ Write(w, [x \in {job[w].blame} |-> "paused"], {})
  /\ Goto(w, "republish")
  /\ UNCHANGED <<starts, ends, shopify, flag, lock, snap, job, bounds>>

\* changeStatus and activateDraftOffer put the old status back only where the
\* new one still stands; archiveOffer and the bulk operations do it everywhere.
Conditional == {"pause", "resume", "toggle", "activate", "activateDraft"}

RestoresAll(w) == DOMAIN job[w].to
Restores(w) == {o \in DOMAIN job[w].to :
                  job[w].op \in Conditional => status[o] = job[w].to[o]}

UndoStatus(w) ==
  /\ w \in Requests /\ pc[w] = "undo"
  /\ Write(None, [o \in Restores(w) |-> job[w].from[o]], {})
  /\ Finish(w)
  /\ UNCHANGED <<starts, ends, shopify, flag, lock, snap, bounds>>

----------------------------------------------------------------------------
(* The offers cron.                                                        *)

\* reconcileActiveShopDiscountNodes, then the scheduler.
StartRun ==
  /\ pc[Cron] = "idle"
  /\ Goto(Cron, IF pending \/ ~(Active \subseteq compiled) THEN "reconcile" ELSE "load")
  /\ stamped' = {}
  /\ UNCHANGED <<status, starts, ends, author, shopify, flag, lock, snap, job,
                 bounds, confirmed>>

\* loadDueOffers and planOfferScheduleTransitions
EndsAnyStatus(o) == ends[o] <= now
DueLater(o) == \/ status[o] \in {"active", "scheduled"} /\ ends[o] < now
               \/ status[o] = "scheduled" /\ starts[o] < now
Due(o) == \/ status[o] \in {"active", "scheduled"} /\ ends[o] <= now
          \/ status[o] = "scheduled" /\ starts[o] <= now

\* The batch, less the offers validateActivation refuses to start.
Load ==
  /\ pc[Cron] = "load"
  /\ \E B \in SUBSET {o \in Offers : Due(o) /\ ends[o] > now} :
       LET T == {o \in Offers : Due(o)} \ B
       IN /\ IF B = {} THEN UNCHANGED faults ELSE Fault
          /\ IF T = {}
             THEN Goto(Cron, "check") /\ UNCHANGED job
             ELSE /\ Goto(Cron, "apply")
                  /\ job' = [job EXCEPT ![Cron] = Job("schedule", [o \in T |-> status[o]],
                       [o \in T |-> IF ends[o] <= now THEN "expired" ELSE "active"], 0, 0)]
  /\ UNCHANGED <<rows, shopify, flag, lock, snap, now, ops, crashes, confirmed>>

\* applyTransitions: one transaction, nothing when one offer's status changed.
Apply ==
  /\ pc[Cron] = "apply"
  /\ IF \A o \in DOMAIN job[Cron].from : status[o] = job[Cron].from[o]
     THEN /\ Write(Cron, job[Cron].to, DOMAIN job[Cron].to)
          /\ Goto(Cron, "publish")
     ELSE Goto(Cron, "check") /\ UNCHANGED <<status, stamped, author, confirmed>>
  /\ UNCHANGED <<starts, ends, shopify, flag, lock, snap, job, bounds>>

\* rollbackTransitions: one transaction, nothing unless every offer still has
\* the run's status and the run's updatedAt.
StatusStands(o) == status[o] = job[Cron].to[o]
MayUndo(o) == status[o] = job[Cron].to[o] /\ o \in stamped

UndoSchedule ==
  /\ pc[Cron] = "undo"
  /\ IF \A o \in DOMAIN job[Cron].to : MayUndo(o)
     THEN Write(None, job[Cron].from, {}) /\ Goto(Cron, "restore")
     ELSE Goto(Cron, "check") /\ UNCHANGED <<status, stamped, author, confirmed>>
  /\ UNCHANGED <<starts, ends, shopify, flag, lock, snap, job, bounds>>

\* runDiscountDriftRepair compares Shopify with the manifest, not with the
\* database; it leaves a shop alone that was published moments ago.
CheckDrift ==
  /\ pc[Cron] = "check"
  /\ \/ served # manifest /\ Goto(Cron, "repair") /\ UNCHANGED <<job, faults>>
     \/ Finish(Cron) /\ IF served = manifest THEN UNCHANGED faults ELSE Fault
  /\ UNCHANGED <<rows, shopify, flag, lock, snap, now, ops, crashes, confirmed>>

----------------------------------------------------------------------------
Tick ==
  /\ now < LastTick /\ now' = now + 1
  /\ UNCHANGED <<rows, shopify, flag, lock, snap, pc, job, ops, faults, crashes,
                 confirmed>>

\* A process dies, at its time limit or with its machine.
Crash(w) ==
  /\ pc[w] # "idle"
  /\ crashes < MaxCrashes /\ crashes' = crashes + 1
  /\ Finish(w) /\ NoFlag(w)
  /\ \/ lock = w /\ Release /\ Partial /\ Touch
     \/ lock # w /\ UNCHANGED <<lock, snap, served, compiled, stamped>>
  /\ UNCHANGED <<status, starts, ends, author, manifest, now, ops, faults, confirmed>>

PublishStep(w) == PublishRead(w) \/ PublishOk(w) \/ PublishParked(w) \/ PublishFailed(w)

RequestStep(w) == \/ WriteStatus(w) \/ WriteSchedule(w) \/ RefuseRepublish(w)
                  \/ PauseOffer(w) \/ UndoStatus(w)

CronStep == StartRun \/ Load \/ Apply \/ UndoSchedule \/ CheckDrift

Next ==
  \/ Tick \/ CronStep
  \/ \E w \in Workers : PublishStep(w) \/ Crash(w)
  \/ \E w \in Requests :
       \/ RequestStep(w) \/ Republish(w)
       \/ \E op \in Ops, T \in SUBSET Offers \ {{}} : DecideStatus(w, op, T)
       \/ \E o \in Offers : DecideSchedule(w, o)

Spec == Init /\ [][Next]_vars

\* Vercel starts the cron and runs what was started; nothing forces a merchant.
Fairness == /\ WF_vars(CronStep \/ PublishStep(Cron))
            /\ \A w \in Requests : WF_vars(RequestStep(w) \/ PublishStep(w))

FairSpec == Spec /\ Fairness

----------------------------------------------------------------------------
(* Properties.                                                             *)

StatusMaps == UNION {[T -> Status] : T \in SUBSET Offers}

JobRecords == [op : AllOps \cup {"none", "schedule"},
               from : StatusMaps, to : StatusMaps,
               starts : 0 .. LastTick, ends : 0 .. LastTick + 1,
               blame : Offers \cup {None}]

Jobs == {j \in JobRecords : DOMAIN j.from = DOMAIN j.to}

\* Every variable holds a value of its type, the lock is held by a publish, only
\* publishes are older than the flag, and the scheduler moves only live offers.
TypeOK ==
  /\ status \in [Offers -> Status]
  /\ starts \in [Offers -> 0 .. LastTick]
  /\ ends \in [Offers -> 0 .. LastTick + 1]
  /\ stamped \subseteq Offers /\ compiled \subseteq Offers
  /\ served \subseteq Offers /\ manifest \subseteq Offers
  /\ pending \in BOOLEAN /\ newer \subseteq {w \in Workers : pc[w] \in Publishing}
  /\ lock \in Workers \cup {None} /\ snap \subseteq Offers
  /\ pc \in [Workers -> PcValues] /\ job \in [Workers -> Jobs]
  /\ lock # None => pc[lock] \in Publishing
  /\ \A o \in DOMAIN job[Cron].from : job[Cron].from[o] \in {"active", "scheduled"}
  /\ now \in 0 .. LastTick /\ ops \in 0 .. MaxOps
  /\ faults \in 0 .. MaxFaults /\ crashes \in 0 .. MaxCrashes
  /\ author \in [Offers -> Workers \cup {None}] /\ confirmed \subseteq Offers

\* Once an operation or the scheduler reported success, Shopify applies its
\* offers exactly when their status says so, until somebody writes them again,
\* or the shop is flagged for another publish: no publish that ran before,
\* beside or after it, complete or not, takes that back.
ConfirmedStatusIsServed ==
  \A o \in confirmed : pending \/ (o \in served <=> status[o] = "active")

\* "a status the cron changed in between must not be overwritten": the
\* conditional rollback of changeStatus and activateDraftOffer leaves alone
\* what the scheduler wrote after the operation, as long as one session at a
\* time changes the shop's offers.  (With a second session in between, the
\* status may be the operation's own value again, which is all it compares.)
CronTransitionIsKept ==
  [][\A w \in Requests, o \in Offers :
       /\ pc[w] = "undo" /\ pc'[w] # "undo"
       /\ job[w].op \in Conditional /\ author[o] = Cron
       => status'[o] = status[o]]_vars

\* The scheduler's rollback never undoes what a merchant chose after it wrote,
\* even when that is the very status the scheduler had set.
SchedulerUndoesOnlyItsOwn ==
  [][\A o \in Offers :
       pc[Cron] = "undo" /\ pc'[Cron] = "restore" /\ status'[o] # status[o]
       => author[o] = Cron]_vars

\* An offer whose start or end has passed gets its new status (or new dates),
\* however many transactions, validations and publishes fail on the way and
\* whenever the cron dies.
Overdue(o) == \/ status[o] = "scheduled" /\ starts[o] <= now
              \/ status[o] \in {"active", "scheduled"} /\ ends[o] <= now

OverdueOffersChange == \A o \in Offers : Overdue(o) ~> ~Overdue(o)

\* "A failed publish of the whole shop never pauses an offer": when all is
\* quiet and nothing is left for the cron to repair, Shopify applies every
\* active offer.
AtRest == /\ \A w \in Workers : pc[w] = "idle"
          /\ ~pending /\ served = manifest /\ Active \subseteq compiled

FailedPublishNeverPauses == AtRest => Active \subseteq served

\* "a future start must wait for the cron": no offer is active before its
\* start.
FutureStartsWait == \A o \in Offers : status[o] = "active" => starts[o] <= now
=============================================================================

----------------------------- MODULE UsageSync -----------------------------
(***************************************************************************)
(* How often one customer has used each offer, counted from the orders and *)
(* pushed to the customer's metafield, where the discount Function reads   *)
(* it to enforce per-customer limits (lib/offer-usage.server.ts,           *)
(* webhooks/order-paid.server.ts).                                         *)
(*                                                                         *)
(* Every new order marks the customer pending and starts a push of its     *)
(* own; the offers cron pushes whoever is still pending.  Pushes of one    *)
(* customer run side by side, each with the counts it read.                *)
(***************************************************************************)
EXTENDS Naturals

CONSTANTS Orders,       \* the customer's orders; each runs a push of its own
          Cron,         \* the offers cron
          MaxAttempts,  \* USAGE_SYNC_MAX_ATTEMPTS
          MaxFaults     \* bound on failed pushes and processes that die

ASSUME UsageAssumption == /\ Cron \notin Orders
                          /\ MaxAttempts \in Nat \ {0}
                          /\ MaxFaults \in Nat

Workers == Orders \cup {Cron}

VARIABLES
  recorded,   \* offer_customer_usages: the orders counted
  since,      \* offer_usage_sync.pendingSince (0: null)
  attempts,   \* its attempts
  cooling,    \* its nextAttemptAt is in the future
  stamp,      \* the last value now() has given
  metafield,  \* the orders counted in the customer's metafield
  late,       \* pushes that were given up and that Shopify may still execute
  pc, token, value,  \* a push: where it is, the mark and the counts it read
  faults,
  exact       \* history: the metafield was right since recorded last changed

pendingRow == <<since, attempts, cooling, stamp>>
push       == <<token, value>>
usageVars == <<recorded, pendingRow, metafield, late, pc, push, faults, exact>>

PcValues == {"idle", "mark", "count", "push", "failed", "check", "clear", "end"}

UsageInit ==
  /\ recorded = {} /\ metafield = {} /\ late = {}
  /\ since = 0 /\ attempts = 0 /\ cooling = FALSE /\ stamp = 0
  /\ pc = [w \in Workers |-> "idle"]
  /\ token = [w \in Workers |-> 0]
  /\ value = [w \in Workers |-> {}]
  /\ faults = 0
  /\ exact = TRUE

Goto(w, step) == pc' = [pc EXCEPT ![w] = step]

\* A push returns or dies: what it remembered is gone.
Done(w) == /\ Goto(w, IF w = Cron THEN "idle" ELSE "end")
           /\ token' = [token EXCEPT ![w] = 0]
           /\ value' = [value EXCEPT ![w] = {}]

Fault == faults < MaxFaults /\ faults' = faults + 1

\* pendingSince := now(), the database's clock: no two marks are equal.
Now == stamp + 1
Mark == stamp' = stamp + 1 /\ since' = Now

\* Shopify executes a push.
Set(v) == metafield' = v /\ exact' = (exact \/ v = recorded)

----------------------------------------------------------------------------
(* Recording.  An order delivered twice inserts nothing the second time    *)
(* and is no step.                                                         *)

\* recordOfferUsages: the row, the mark and the fresh attempts in one
\* transaction; applyBackfillUsages does the same.
Record(o) ==
  /\ o \notin recorded
  /\ recorded' = recorded \cup {o}
  /\ Mark /\ attempts' = 0
  /\ exact' = FALSE
  /\ UNCHANGED <<cooling, metafield, late, push, faults>>

\* handleOrderPaid defers a push until it has answered.
DeliverOrder(o) == Record(o) /\ Goto(o, "mark")

Backfill(o) == Record(o) /\ Goto(o, "end")

----------------------------------------------------------------------------
(* syncCustomerUsageMetafield                                              *)

\* drainUsageSync
NeverFailed == since # 0 /\ attempts = 0
IsDue       == since # 0 /\ attempts < MaxAttempts /\ ~cooling

Drain ==
  /\ pc[Cron] = "idle" /\ IsDue
  /\ Goto(Cron, "mark")
  /\ UNCHANGED <<recorded, pendingRow, metafield, late, push, faults, exact>>

ReadMark(w) ==
  /\ pc[w] = "mark"
  /\ IF since = 0 THEN Done(w)
                  ELSE /\ Goto(w, "count")
                       /\ token' = [token EXCEPT ![w] = since] /\ UNCHANGED value
  /\ UNCHANGED <<recorded, pendingRow, metafield, late, faults, exact>>

\* currentUsageValue: recomputed from the table, never incremented.
Count(w) ==
  /\ pc[w] = "count"
  /\ value' = [value EXCEPT ![w] = recorded]
  /\ Goto(w, "push")
  /\ UNCHANGED <<recorded, pendingRow, metafield, late, token, faults, exact>>

\* A request that timed out is sent again and may be executed twice, the
\* second time later.
Push(w) ==
  /\ pc[w] = "push"
  /\ Set(value[w])
  /\ \/ UNCHANGED <<late, faults>>
     \/ Fault /\ late' = late \cup {value[w]}
  /\ Goto(w, "check")
  /\ UNCHANGED <<recorded, pendingRow, push>>

\* The push throws: it was refused, it was executed, or it still may be.
PushThrows(w) ==
  /\ pc[w] = "push" /\ Fault
  /\ \/ UNCHANGED <<metafield, exact, late>>
     \/ Set(value[w]) /\ UNCHANGED late
     \/ late' = late \cup {value[w]} /\ UNCHANGED <<metafield, exact>>
  /\ Goto(w, "failed")
  /\ UNCHANGED <<recorded, pendingRow, push>>

\* The app lacks write_customers: no attempt is burned, the shop's pending
\* customers are left alone for an hour.
MissingScope(w) ==
  /\ pc[w] = "push" /\ Fault
  /\ cooling' = (cooling \/ since # 0)
  /\ Done(w)
  /\ UNCHANGED <<recorded, since, attempts, stamp, metafield, late, exact>>

\* Attempts beyond the maximum are not told apart.
Failed(w) ==
  /\ pc[w] = "failed"
  /\ attempts' = IF attempts < MaxAttempts THEN attempts + 1 ELSE attempts
  /\ Done(w)
  /\ UNCHANGED <<recorded, since, cooling, stamp, metafield, late, faults, exact>>

\* "A concurrent sync may have pushed newer counts before this push landed; if
\* the counts moved, this push is stale."
NeverStale(w) == FALSE
IsStale(w) == recorded # value[w]

Recheck(w) ==
  /\ pc[w] = "check"
  /\ IF IsStale(w) THEN Mark /\ Done(w)
                   ELSE Goto(w, "clear") /\ UNCHANGED <<since, stamp, push>>
  /\ UNCHANGED <<recorded, attempts, cooling, metafield, late, faults, exact>>

\* The mark is cleared only if it is the one this push began with.
AnyMark(w) == TRUE
OwnMark(w) == since = token[w]

Clear(w) ==
  /\ pc[w] = "clear"
  /\ IF OwnMark(w) THEN since' = 0 /\ attempts' = 0 /\ cooling' = FALSE
                   ELSE UNCHANGED <<since, attempts, cooling>>
  /\ Done(w)
  /\ UNCHANGED <<recorded, stamp, metafield, late, faults, exact>>

----------------------------------------------------------------------------
Late(v) ==
  /\ v \in late /\ late' = late \ {v}
  /\ Set(v)
  /\ UNCHANGED <<recorded, pendingRow, pc, push, faults>>

CoolDown ==
  /\ cooling /\ cooling' = FALSE
  /\ UNCHANGED <<recorded, since, attempts, stamp, metafield, late, pc, push,
                 faults, exact>>

CrashPush(w) ==
  /\ pc[w] \notin {"idle", "end"} /\ Fault
  /\ Done(w)
  /\ UNCHANGED <<recorded, pendingRow, metafield, late, exact>>

Step(w) == \/ ReadMark(w) \/ Count(w) \/ Push(w) \/ Failed(w) \/ Recheck(w) \/ Clear(w)

Trouble(w) == PushThrows(w) \/ MissingScope(w) \/ CrashPush(w)

UsageNext ==
  \/ Drain \/ CoolDown
  \/ \E o \in Orders : DeliverOrder(o) \/ Backfill(o)
  \/ \E w \in Workers : Step(w) \/ Trouble(w)
  \/ \E v \in late : Late(v)

UsageSpec == UsageInit /\ [][UsageNext]_usageVars

\* Vercel runs what was started and starts the cron, again and again; an hour
\* passes.  Nothing forces an order, nor Shopify to execute what was given up.
UsageFairness == /\ WF_usageVars(Drain) /\ WF_usageVars(CoolDown)
                 /\ \A w \in Workers : WF_usageVars(Step(w))

UsageFairSpec == UsageSpec /\ UsageFairness

----------------------------------------------------------------------------
(* Properties.                                                             *)

\* Every variable holds a value of its type, a pushed value was once in the
\* table, and a mark is a time that has been.
UsageTypeOK ==
  /\ recorded \subseteq Orders /\ metafield \subseteq recorded
  /\ late \subseteq SUBSET recorded
  /\ stamp \in Nat /\ since \in 0 .. stamp
  /\ attempts \in 0 .. MaxAttempts /\ cooling \in BOOLEAN
  /\ pc \in [Workers -> PcValues]
  /\ token \in [Workers -> 0 .. stamp]
  /\ value \in [Workers -> SUBSET recorded]
  /\ faults \in 0 .. MaxFaults
  /\ exact \in BOOLEAN

\* "The pending mark is cleared only if no order landed since it was read": a
\* customer who is not pending has had every recorded order pushed, at once
\* and since the last of them, whatever failed or died on the way.
ClearedMeansPushed == since = 0 => exact

\* When no push is running or given up, a customer who is not pending has the
\* right counts.
AtRest == late = {} /\ \A w \in Workers : pc[w] \in {"idle", "end"}
LostPushIsRetried == AtRest /\ since = 0 => metafield = recorded

\* As long as no push fails and no process dies, side-by-side pushes of one
\* customer leave the right counts, in whatever order they land.
SyncedWithoutFaults == faults = 0 => LostPushIsRetried

\* A pending customer is pushed in the end, however many pushes fail, unless
\* the attempts are used up.
PendingIsPushed == since # 0 ~> (since = 0 \/ attempts = MaxAttempts)
=============================================================================

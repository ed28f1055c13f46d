----------------------------- MODULE Publisher -----------------------------
(***************************************************************************)
(* Publishing one shop's offers to Shopify (publishOffersForShop in        *)
(* lib/sync/offer-publisher.server.ts, with publish-pending.server.ts).    *)
(*                                                                         *)
(* Every save of an offer is followed by a publish of the whole shop.  A   *)
(* publish takes the shop's advisory lock, re-reads the active offers and  *)
(* rewrites Shopify one call at a time: code nodes of offers that are no   *)
(* longer active, cart validation, the shared discount configuration, each *)
(* code offer's own node, and last the manifest of what it wrote.  A call  *)
(* may be refused, may end with an unknown outcome (the shop is flagged    *)
(* publish-pending and retried), and the process may die between calls.    *)
(***************************************************************************)
EXTENDS Naturals, Sequences, FiniteSets

CONSTANTS Offers,      \* the shop's offers
          CodeOffers,  \* those with discount codes: each has a node of its own
          Calls,       \* merchant requests: one save, then one publish
          Cron,        \* the offers cron, which may publish again and again
          MaxTries,    \* background retries of a parked publish (3 in the code)
          MaxFaults,   \* bound on refused calls, unknown outcomes and crashes
          MaxDrops,    \* bound on losses of the connection that holds the lock
          None

ASSUME PublisherAssumption ==
         /\ CodeOffers \subseteq Offers
         /\ Cron \notin Calls
         /\ None \notin Offers \cup Calls \cup {Cron}
         /\ "shared" \notin Offers  \* SharedSlot below
         /\ MaxTries \in Nat /\ MaxFaults \in Nat /\ MaxDrops \in Nat

Workers == Calls \cup {Cron}

Status == {"draft", "scheduled", "active", "paused", "expired", "archived"}

VARIABLES
  status,    \* offers.status of every offer row
  broken,    \* offers whose stored data compileOfferConfig rejects
  codeNode,  \* code offers with a codeDiscountId
  compiled,  \* offers with a compiledConfig
  pending,   \* shops.publishPendingAt is set
  newer,     \* running calls that started before the flag was last set
  lock,      \* the call whose transaction holds the advisory lock
  pc, result, tries,
  snap,      \* the active offers a call read under the lock
  readAt,    \* the index in hist of that read
  todo,      \* code nodes a loop of the call has still to write
  blame,     \* the offer a failed call blames (OfferPublishError), or None
  shared,    \* offers served by the shared discount nodes
  codeLive,  \* code offers served by their own node
  guarded,   \* offers the cart validation knows
  faults, drops,
  \* History, read by no action:
  hist,        \* the sets of active offers the database has held, in order
  saveAt,      \* the index in hist of a call's own save
  sharedAt, codeAt,  \* the index in hist each part of Shopify was built from
  publishedAt  \* the index read by the last publish that went all the way

database == <<status, broken, hist, saveAt>>
flag     == <<pending, newer>>
calls    == <<pc, result, tries, snap, readAt, todo, blame>>
shopify  == <<shared, codeLive, guarded, sharedAt, codeAt>>
vars == <<database, codeNode, compiled, flag, lock, calls, shopify,
          publishedAt, faults, drops>>

Active == {o \in Offers : status[o] = "active"}

\* The offers a call publishes are those it read, not those active by now.
RegularNow(w) == Active \ CodeOffers
Regular(w)    == snap[w] \ CodeOffers
WithCodes(w)  == snap[w] \cap CodeOffers

\* The steps of the transaction's body, in order.
Body == {"read", "neutralize", "nodes", "validate", "shared",
         "relax", "store", "codes", "commit"}
PcValues == Body \cup {"idle", "saved", "lock", "clear", "park", "sleep", "end"}
Running(w) == pc[w] \notin {"idle", "end"}

----------------------------------------------------------------------------
Init ==
  /\ status \in [Offers -> {"active", "paused"}]
  /\ broken = {}
  /\ codeNode = Active \cap CodeOffers
  /\ compiled = Active
  /\ pending = FALSE /\ newer = {}
  /\ lock = None
  /\ pc = [w \in Workers |-> "idle"]
  /\ result = [w \in Workers |-> "none"]
  /\ tries = [w \in Workers |-> 0]
  /\ snap = [w \in Workers |-> {}]
  /\ readAt = [w \in Workers |-> 0]
  /\ todo = [w \in Workers |-> {}]
  /\ blame = [w \in Workers |-> None]
  /\ shared = Active \ CodeOffers
  /\ codeLive = Active \cap CodeOffers
  /\ guarded = Active
  /\ faults = 0 /\ drops = 0
  /\ hist = <<Active>>
  /\ saveAt = [w \in Workers |-> 0]
  /\ sharedAt = 1
  /\ codeAt = [o \in CodeOffers |-> 1]
  /\ publishedAt = 1

----------------------------------------------------------------------------
(* Moving on, giving up and parking.                                       *)

Goto(w, step) == pc' = [pc EXCEPT ![w] = step]

\* The body ends, by commit, rollback or crash: the lock is free and what the
\* body remembered is gone.
Leave(w) == /\ lock' = IF lock = w THEN None ELSE lock
            /\ snap' = [snap EXCEPT ![w] = {}]
            /\ readAt' = [readAt EXCEPT ![w] = 0]

Fault == faults < MaxFaults /\ faults' = faults + 1

\* What a write to Shopify is followed by: the next step, or, when the request
\* was applied but its outcome never came back, the rollback and the parking.
\* A body whose connection is gone has nobody left to park it.
Answered(w, next) ==
  \/ Goto(w, next) /\ UNCHANGED <<lock, snap, readAt, faults>>
  \/ /\ Fault
     /\ Goto(w, IF lock = w THEN "park" ELSE "end")
     /\ Leave(w)

\* publishOffersForShop throws: the caller sees a failure, except that a
\* background retry only stops.
Fail(w, offer) ==
  /\ Goto(w, "end")
  /\ Leave(w)
  /\ result' = [result EXCEPT ![w] = IF @ = "none" THEN "failed" ELSE @]
  /\ blame' = [blame EXCEPT ![w] = offer]

----------------------------------------------------------------------------
(* A call's life around the body.                                          *)

\* The database commits another status for some offers; a row whose data was
\* edited may stop or start to compile.
WriteStatus(w, f, b) ==
  /\ status' = f
  /\ broken' = b
  /\ hist' = Append(hist, {o \in Offers : f[o] = "active"})
  /\ saveAt' = [saveAt EXCEPT ![w] = Len(hist) + 1]

\* A merchant request saves an offer (status, data or both).
Save(w, o) ==
  /\ w \in Calls /\ pc[w] = "idle"
  /\ \E s \in {"active", "paused"}, b \in {broken \ {o}, broken \cup {o}} :
       WriteStatus(w, [status EXCEPT ![o] = s], b)
  /\ Goto(w, "saved")
  /\ UNCHANGED <<codeNode, compiled, flag, lock, result, tries, snap, readAt,
                 todo, blame, shopify, publishedAt, faults, drops>>

\* publishOffersForShop: startedAt is taken, the wait for the lock begins.
Start(w) ==
  /\ Goto(w, "lock")
  /\ newer' = newer \ {w}
  /\ UNCHANGED <<database, codeNode, compiled, pending, lock, snap, readAt, todo,
                 shopify, publishedAt, faults, drops>>

Publish(w) ==
  /\ pc[w] = "saved"
  /\ Start(w)
  /\ UNCHANGED <<result, tries, blame>>

\* reconcileActiveShopDiscountNodes: the cron publishes a shop that is flagged
\* or has an active offer that was never compiled.
NeverCompiled == ~(Active \subseteq compiled)
NeedsPublish  == pending \/ ~(Active \subseteq compiled)

Reconcile ==
  /\ pc[Cron] \in {"idle", "end"}
  /\ NeedsPublish
  /\ Start(Cron)
  /\ result' = [result EXCEPT ![Cron] = "none"]
  /\ tries' = [tries EXCEPT ![Cron] = 0]
  /\ blame' = [blame EXCEPT ![Cron] = None]

\* pg_advisory_xact_lock is granted to one transaction at a time.
NoLockNeeded == TRUE
LockFree == lock = None

Acquire(w) ==
  /\ pc[w] = "lock" /\ LockFree
  /\ lock' = w
  /\ Goto(w, "read")
  /\ UNCHANGED <<database, codeNode, compiled, flag, result, tries, snap, readAt,
                 todo, blame, shopify, publishedAt, faults, drops>>

\* 55P03: the lock was not free in time.
LockTimeout(w) ==
  /\ pc[w] = "lock" /\ ~LockFree
  /\ Goto(w, "park")
  /\ UNCHANGED <<database, codeNode, compiled, flag, lock, result, tries, snap,
                 readAt, todo, blame, shopify, publishedAt, faults, drops>>

\* markPublishPending, then a retry in the background unless it has had its tries.
Park(w) ==
  /\ pc[w] = "park"
  /\ pending' = TRUE
  /\ newer' = {v \in Workers : Running(v)}
  /\ result' = [result EXCEPT ![w] = "pending"]
  /\ Goto(w, IF tries[w] < MaxTries THEN "sleep" ELSE "end")
  /\ UNCHANGED <<database, codeNode, compiled, lock, tries, snap, readAt, todo,
                 blame, shopify, publishedAt, faults, drops>>

\* The background retry wakes up and publishes again.
Retry(w) ==
  /\ pc[w] = "sleep"
  /\ Start(w)
  /\ tries' = [tries EXCEPT ![w] = @ + 1]
  /\ UNCHANGED <<result, blame>>

\* clearPublishPending: only a flag set before this call started is cleared.
ClearsAnyFlag(w) == TRUE
ClearsFlag(w) == w \notin newer

ClearPending(w) ==
  /\ pc[w] = "clear"
  /\ pending' = (pending /\ ~ClearsFlag(w))
  /\ result' = [result EXCEPT ![w] = IF @ = "none" THEN "published" ELSE @]
  /\ Goto(w, "end")
  /\ UNCHANGED <<database, codeNode, compiled, newer, lock, tries, snap, readAt,
                 todo, blame, shopify, publishedAt, faults, drops>>

----------------------------------------------------------------------------
(* publishOffersForShopLocked: the body.                                   *)

\* The active offers are re-read under the lock; the code nodes of all others
\* are to be emptied.
NoStaleCodes(A)  == {}
AllStaleCodes(A) == Offers \ A
StaleCodes(A)    == codeNode \ A

ReadOffers(w) ==
  /\ pc[w] = "read"
  /\ snap' = [snap EXCEPT ![w] = Active]
  /\ readAt' = [readAt EXCEPT ![w] = Len(hist)]
  /\ todo' = [todo EXCEPT ![w] = StaleCodes(Active)]
  /\ Goto(w, "neutralize")
  /\ UNCHANGED <<database, codeNode, compiled, flag, lock, result, tries, blame,
                 shopify, publishedAt, faults, drops>>

\* neutralizeStaleCodeOffers: one node is emptied and expired.
Neutralize(w, o) ==
  /\ pc[w] = "neutralize" /\ o \in todo[w]
  /\ codeLive' = codeLive \ {o}
  /\ codeAt' = [codeAt EXCEPT ![o] = readAt[w]]
  /\ todo' = [todo EXCEPT ![w] = @ \ {o}]
  /\ Answered(w, "neutralize")
  /\ UNCHANGED <<database, codeNode, compiled, flag, result, tries, blame,
                 shared, guarded, sharedAt, publishedAt, drops>>

Neutralized(w) ==
  /\ pc[w] = "neutralize" /\ todo[w] = {}
  /\ todo' = [todo EXCEPT ![w] = WithCodes(w)]
  /\ Goto(w, "nodes")
  /\ UNCHANGED <<database, codeNode, compiled, flag, lock, result, tries, snap,
                 readAt, blame, shopify, publishedAt, faults, drops>>

\* compileCodeOffers: a missing node is created (createOrFindCodeDiscount looks
\* before it creates again) and its id stored, then the offer is compiled.  An
\* offer that does not compile fails the publish without being blamed for it.
CompileCode(w, o) ==
  /\ pc[w] = "nodes" /\ o \in todo[w]
  /\ codeNode' = codeNode \cup {o}
  /\ \/ /\ o \notin broken
        /\ todo' = [todo EXCEPT ![w] = @ \ {o}]
        /\ UNCHANGED <<lock, pc, result, snap, readAt, blame>>
     \/ /\ o \in broken
        /\ Fail(w, None)
        /\ UNCHANGED todo
  /\ UNCHANGED <<database, compiled, flag, tries, shopify, publishedAt, faults,
                 drops>>

\* With no regular offer the shared nodes are emptied before anything is
\* loosened; otherwise the guardrails come first.
ConfigFirst(w) == "shared"
FirstWrite(w)  == IF Regular(w) = {} THEN "shared" ELSE "validate"

\* The regular offers are compiled.
Compile(w) ==
  /\ pc[w] = "nodes" /\ todo[w] = {}
  /\ Regular(w) \cap broken = {}
  /\ Goto(w, FirstWrite(w))
  /\ UNCHANGED <<database, codeNode, compiled, flag, lock, result, tries, snap,
                 readAt, todo, blame, shopify, publishedAt, faults, drops>>

\* A regular offer that does not compile is blamed (offerCompileError).
CompileError(w, o) ==
  /\ pc[w] = "nodes" /\ todo[w] = {}
  /\ o \in Regular(w) \cap broken
  /\ Fail(w, o)
  /\ UNCHANGED <<database, codeNode, compiled, flag, tries, todo, shopify,
                 publishedAt, faults, drops>>

\* syncCartValidation: before the shared configuration, or after it when there
\* is no regular offer.
SyncValidation(w) ==
  /\ pc[w] \in {"validate", "relax"}
  /\ guarded' = snap[w]
  /\ Answered(w, IF pc[w] = "validate" THEN "shared" ELSE "store")
  /\ UNCHANGED <<database, codeNode, compiled, flag, result, tries, todo,
                 blame, shared, codeLive, sharedAt, codeAt, publishedAt, drops>>

\* One atomic metafieldsSet for the shared nodes.
PushShared(w) ==
  /\ pc[w] = "shared"
  /\ shared' = Regular(w)
  /\ sharedAt' = readAt[w]
  /\ Answered(w, IF Regular(w) = {} THEN "relax" ELSE "store")
  /\ UNCHANGED <<database, codeNode, compiled, flag, result, tries, todo,
                 blame, codeLive, guarded, codeAt, publishedAt, drops>>

\* The compiled configurations are stored on the offer rows.
StoreCompiled(w) ==
  /\ pc[w] = "store"
  /\ compiled' = compiled \cup Regular(w)
  /\ todo' = [todo EXCEPT ![w] = WithCodes(w)]
  /\ Goto(w, "codes")
  /\ UNCHANGED <<database, codeNode, flag, lock, result, tries, snap, readAt,
                 blame, shopify, publishedAt, faults, drops>>

\* pushCodeOfferConfigs: one code offer's node gets its configuration.
PushCode(w, o) ==
  /\ pc[w] = "codes" /\ o \in todo[w]
  /\ codeLive' = codeLive \cup {o}
  /\ codeAt' = [codeAt EXCEPT ![o] = readAt[w]]
  /\ todo' = [todo EXCEPT ![w] = @ \ {o}]
  /\ Answered(w, "codes")
  /\ compiled' = IF pc'[w] = "codes" THEN compiled \cup {o} ELSE compiled
  /\ UNCHANGED <<database, codeNode, flag, result, tries, blame, shared,
                 guarded, sharedAt, publishedAt, drops>>

\* writePublishManifest, once everything is on Shopify.
WriteManifest(w) ==
  /\ pc[w] = "codes" /\ todo[w] = {}
  /\ publishedAt' = readAt[w]
  /\ Goto(w, "commit")
  /\ UNCHANGED <<database, codeNode, compiled, flag, lock, result, tries, snap, readAt,
                 todo, blame, shopify, faults, drops>>

Commit(w) ==
  /\ pc[w] = "commit"
  /\ Goto(w, IF lock = w THEN "clear" ELSE "end")
  /\ Leave(w)
  /\ UNCHANGED <<database, codeNode, compiled, flag, result, tries, todo,
                 blame, shopify, publishedAt, faults, drops>>

Step(w) ==
  \/ Publish(w) \/ Acquire(w) \/ LockTimeout(w) \/ Park(w) \/ Retry(w)
  \/ ReadOffers(w) \/ Neutralized(w) \/ Compile(w)
  \/ SyncValidation(w) \/ PushShared(w) \/ StoreCompiled(w) \/ WriteManifest(w)
  \/ Commit(w) \/ ClearPending(w)
  \/ \E o \in Offers : \/ Neutralize(w, o) \/ CompileCode(w, o)
                       \/ CompileError(w, o) \/ PushCode(w, o)

----------------------------------------------------------------------------
(* What goes wrong around the body.                                        *)

\* A call of the body is refused, or the database is: the publish throws.
Refused(w) ==
  /\ pc[w] \in Body /\ Fault
  /\ Fail(w, None)
  /\ UNCHANGED <<database, codeNode, compiled, flag, tries, todo, shopify,
                 publishedAt, drops>>

\* A request times out and was not applied: parked like one that was.
NotApplied(w) ==
  /\ pc[w] \in Body \ {"read", "commit"} /\ lock = w /\ Fault
  /\ Goto(w, "park")
  /\ Leave(w)
  /\ UNCHANGED <<database, codeNode, compiled, flag, result, tries, todo,
                 blame, shopify, publishedAt, drops>>

\* The process dies: nothing it remembers survives, the lock is released.
Crash(w) ==
  /\ Running(w) /\ Fault
  /\ Goto(w, "end")
  /\ Leave(w)
  /\ UNCHANGED <<database, codeNode, compiled, flag, result, tries, todo,
                 blame, shopify, publishedAt, drops>>

\* The lock's connection is lost: Postgres frees the lock and the transaction
\* rejects, but the body goes on, on its other connections.
LoseConnection(w) ==
  /\ lock = w /\ pc[w] \in Body
  /\ drops < MaxDrops /\ drops' = drops + 1
  /\ lock' = None
  /\ result' = [result EXCEPT ![w] = IF @ = "none" THEN "failed" ELSE @]
  /\ UNCHANGED <<database, codeNode, compiled, flag, pc, tries, snap, readAt,
                 todo, blame, shopify, publishedAt, faults>>

Trouble(w) == Refused(w) \/ NotApplied(w) \/ Crash(w) \/ LoseConnection(w)

Next == \/ Reconcile
        \/ \E w \in Workers : \/ Step(w) \/ Trouble(w)
                              \/ \E o \in Offers : Save(w, o)

Spec == Init /\ [][Next]_vars

\* The runtime runs every started call on, and Vercel starts the cron.
Fairness == WF_vars(Reconcile) /\ \A w \in Workers : WF_vars(Step(w))

FairSpec == Spec /\ Fairness

----------------------------------------------------------------------------
(* Properties.                                                             *)

\* Every variable holds a value of its type; the history indexes point into
\* the history, and only a running call is in the middle of a node loop.
TypeOK ==
  /\ status \in [Offers -> Status]
  /\ broken \subseteq Offers
  /\ codeNode \subseteq CodeOffers
  /\ compiled \subseteq Offers
  /\ pending \in BOOLEAN /\ newer \subseteq Workers
  /\ lock \in Workers \cup {None}
  /\ pc \in [Workers -> PcValues]
  /\ result \in [Workers -> {"none", "published", "pending", "failed"}]
  /\ tries \in [Workers -> 0 .. MaxTries]
  /\ snap \in [Workers -> SUBSET Offers]
  /\ todo \in [Workers -> SUBSET CodeOffers]
  /\ blame \in [Workers -> Offers \cup {None}]
  /\ shared \subseteq Offers \ CodeOffers
  /\ codeLive \subseteq CodeOffers
  /\ guarded \subseteq Offers
  /\ faults \in 0 .. MaxFaults /\ drops \in 0 .. MaxDrops
  /\ hist \in Seq(SUBSET Offers) /\ hist # <<>>
  /\ readAt \in [Workers -> 0 .. Len(hist)]
  /\ saveAt \in [Workers -> 0 .. Len(hist)]
  /\ sharedAt \in 1 .. Len(hist)
  /\ codeAt \in [CodeOffers -> 1 .. Len(hist)]
  /\ publishedAt \in 1 .. Len(hist)

\* Two publishes of the shop never interleave: from the read of the offers to
\* the last write, whoever is in the body holds the lock.
NeverInterleaved ==
  \A w \in Workers : pc[w] \in Body => lock = w

\* A code offer that its own node serves is known to the cart validation, at
\* every moment and after every kind of failure: stale nodes are emptied before
\* the validation forgets their offers.
LiveCodesAreGuarded == codeLive \subseteq guarded

\* The shared configuration never starts serving an offer the cart validation
\* does not know ("Publish guardrails before the discount config").
NewOffersAreGuarded ==
  [][shared' \ shared \subseteq guarded']_vars

\* A publish that fails because some regular offer does not compile has
\* already stopped the codes of every offer it saw as not active.
CompileErrorStopsStaleCodes ==
  [][\A w \in Workers : blame'[w] \in Offers /\ blame[w] = None
       => codeLive \subseteq snap[w]]_vars

\* A save whose request was answered with success ("published" or "pending")
\* is in the last complete publish, or the shop is still flagged, so that the
\* cron will publish it: no race of publishes can lose it.
ConfirmedSaveIsKept ==
  \A w \in Calls : result[w] \in {"published", "pending"}
    => pending \/ saveAt[w] <= publishedAt

\* Shopify never serves something older than the last complete publish.
ServedSincePublished ==
  /\ publishedAt <= sharedAt
  /\ \A o \in codeLive : publishedAt <= codeAt[o]

\* What a request was told is saved and will be published ("pending") reaches
\* Shopify in the end: by the background retry or by the cron.  Only an active
\* offer whose data does not compile can keep the shop from it.
Blocked == Active \cap broken # {}
PendingReachesShopify ==
  \A w \in Calls : result[w] = "pending"
    ~> (saveAt[w] <= publishedAt \/ Blocked)

\* Shopify is a replica of the database: each node serves one past state of the
\* offers and only moves forward.
SharedSlot == "shared"
Slots      == CodeOffers \cup {SharedSlot}
SlotOffers == [n \in Slots |-> IF n = SharedSlot THEN Offers \ CodeOffers ELSE {n}]
SlotAt     == [n \in Slots |-> IF n = SharedSlot THEN sharedAt ELSE codeAt[n]]
SlotServes == [n \in Slots |-> IF n = SharedSlot THEN shared ELSE codeLive \cap {n}]

Replica == INSTANCE ShopReplica
             WITH Own <- SlotOffers, at <- SlotAt, served <- SlotServes
IsReplica == Replica!Spec
=============================================================================

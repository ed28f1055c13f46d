--------------------------- MODULE CatalogRefresh ---------------------------
(***************************************************************************)
(* How the cached stock of one variant follows Shopify: the products and   *)
(* inventory webhooks that only queue a row (routes/webhooks.$.tsx), the   *)
(* drains that claim the rows under a lease and ask Shopify                *)
(* (lib/sync/inventory-sync-queue.server.ts), and the cron that compares   *)
(* the cached gift variants with Shopify's answer                          *)
(* (lib/sync/gift-stock-reconcile.server.ts).                              *)
(*                                                                         *)
(* A value is the number of changes of the stock it is the answer after.   *)
(* requestedAt is compared with the claimedAt of the row's claim only: a   *)
(* row is "newer" when it was requested after its last claim, a webhook is *)
(* "late" when that claim fell between its stamp and its insert.  A tick   *)
(* is half a minute.                                                       *)
(***************************************************************************)
EXTENDS Naturals

CONSTANTS Drains,       \* the drain a webhook starts, the drain of the cron
          Absent,       \* no row
          DrainTime,    \* maxDuration of the routes that drain, in ticks
          RefreshAttempts,  \* REFRESH_MAX_ATTEMPTS
          MaxHooks,     \* bound on webhooks, and so on changes of the stock
          MaxTroubles   \* bound on failed calls, dead processes, lost webhooks

Kinds == {"item", "product"}

ASSUME RefreshAssumption ==
  /\ DrainTime \in Nat \ {0} /\ RefreshAttempts \in Nat \ {0}
  /\ MaxHooks \in Nat /\ MaxTroubles \in Nat
  /\ Absent \notin [newer : BOOLEAN, lease : Nat, attempts : Nat]

VARIABLES
  stock,     \* Shopify: how often the stock changed
  sent,      \* Shopify: webhooks sent
  hooks,     \* webhooks under way: what they are about and how far they are
  cache,     \* variant_cache: the answer in it; derived: guessed from a payload
  synced,    \* its syncedAt, as the number of changes before it
  queue,     \* catalog_refresh_queue, one row per kind
  drain,     \* a drain: its phase, the time it has left, its rows, the answer
  recon,     \* the gift-stock cron: the cached value it compares, the answer
  troubles,
  noticed,   \* history: the newest change a row was requested for
  applied,   \* history: the answer of the last refresh that was written
  excused    \* history: a row was dropped, or requested with an older stamp

webVars     == <<stock, sent, hooks>>
cacheVars   == <<cache, synced, applied>>
queueVars   == <<queue, noticed, excused>>
refreshVars == <<webVars, cacheVars, queueVars, drain, recon, troubles>>

NoDrain   == [phase |-> "idle", left |-> 0, rows |-> {}, got |-> 0]
NoRecon   == [phase |-> "idle", before |-> [of |-> 0, derived |-> FALSE], live |-> 0]
Answer(v) == [of |-> v, derived |-> FALSE]

RefreshInit ==
  /\ stock = 0 /\ sent = 0 /\ hooks = {}
  /\ cache = Answer(0) /\ synced = 0
  /\ queue = [k \in Kinds |-> Absent]
  /\ drain = [d \in Drains |-> NoDrain]
  /\ recon = NoRecon
  /\ troubles = 0
  /\ noticed = [k \in Kinds |-> 0] /\ applied = [k \in Kinds |-> 0]
  /\ excused = [k \in Kinds |-> FALSE]

Setback == troubles < MaxTroubles /\ troubles' = troubles + 1

----------------------------------------------------------------------------
(* Shopify.                                                                *)

\* The stock changes and one or both webhooks are sent.
Change(kinds) ==
  LET new == {[kind |-> k, of |-> stock + 1, step |-> "sent", late |-> FALSE] : k \in kinds}
  IN /\ stock' = stock + 1
     /\ sent' = sent + (IF kinds = Kinds THEN 2 ELSE 1) /\ sent' <= MaxHooks
     /\ hooks' = hooks \cup new
     /\ UNCHANGED <<cacheVars, queueVars, drain, recon, troubles>>

\* A webhook that never arrives, or a handler that dies.
LoseHook(h) ==
  /\ Setback
  /\ hooks' = hooks \ {h}
  /\ UNCHANGED <<stock, sent, cacheVars, queueVars, drain, recon>>

----------------------------------------------------------------------------
(* The webhook handlers.  A delivery may be handled twice, the steps of    *)
(* two handlers interleave.                                                *)

Move(h, step) ==
  hooks' = (hooks \ {h}) \cup {[h EXCEPT !.step = step, !.late = FALSE]}

\* isStaleProductPayload: the cache was written after the product changed.
IsStalePayload(h) == h.of <= synced

CheckPayload(h) ==
  /\ h.kind = "product" /\ h.step = "sent"
  /\ IF IsStalePayload(h) THEN hooks' = hooks \ {h} ELSE Move(h, "fresh")
  /\ UNCHANGED <<stock, sent, cacheVars, queueVars, drain, recon, troubles>>

\* The payload does not say whether the stock is tracked: availability is
\* derived.  Then the handler takes the stamp of its request.
CachePayload(h) ==
  /\ h.kind = "product" /\ h.step = "fresh"
  /\ cache' = [of |-> h.of, derived |-> TRUE] /\ synced' = stock
  /\ Move(h, "stamped")
  /\ UNCHANGED <<stock, sent, applied, queueVars, drain, recon, troubles>>

Stamp(h) ==
  /\ h.kind = "item" /\ h.step = "sent"
  /\ Move(h, "stamped")
  /\ UNCHANGED <<stock, sent, cacheVars, queueVars, drain, recon, troubles>>

\* enqueueCatalogRefresh: a row that is there keeps its lease and its attempts
\* and takes the request's stamp, even one that is older than its own.
NewRow == [newer |-> TRUE, lease |-> 0, attempts |-> 0]

Requested(row, h) == IF row = Absent THEN NewRow ELSE [row EXCEPT !.newer = ~h.late]

Enqueue(h) ==
  /\ h.step = "stamped"
  /\ LET k == h.kind IN
     /\ queue' = [queue EXCEPT ![k] = Requested(@, h)]
     /\ noticed' = [noticed EXCEPT ![k] = IF h.of > @ THEN h.of ELSE @]
     /\ excused' = [excused EXCEPT ![k] =
                      @ \/ (queue[k] # Absent /\ queue[k].newer /\ h.late)]
  /\ \/ hooks' = hooks \ {h} /\ UNCHANGED troubles
     \/ Setback /\ Move(h, "sent")
  /\ UNCHANGED <<stock, sent, cacheVars, drain, recon>>

----------------------------------------------------------------------------
(* drainCatalogRefreshQueue                                                *)

\* REFRESH_LEASE_MS is as long as the longest drain.
Lease == DrainTime

Unclaimed == {k \in Kinds : queue[k] # Absent /\ queue[k].attempts = 0}
Due       == {k \in Kinds : queue[k] # Absent /\ queue[k].lease = 0}

\* Attempts beyond the last are not told apart.
NextAttempt(n) == IF n < RefreshAttempts THEN n + 1 ELSE n

\* claimCatalogRefreshBatch.  The drain may have run for a while before.
Claim(d) ==
  /\ drain[d].phase = "idle" /\ Due # {}
  /\ queue' = [k \in Kinds |->
       IF k \in Due THEN [newer |-> FALSE, lease |-> Lease,
                          attempts |-> NextAttempt(queue[k].attempts)]
                    ELSE queue[k]]
  /\ hooks' = {[h EXCEPT !.late = @ \/ (h.step = "stamped" /\ h.kind \in Due)] : h \in hooks}
  /\ \E left \in 1 .. DrainTime :
       drain' = [drain EXCEPT ![d] = [phase |-> "read", left |-> left, rows |-> Due, got |-> 0]]
  /\ UNCHANGED <<stock, sent, cacheVars, noticed, excused, recon, troubles>>

\* The inventory rows come first, the products one by one after them.
Current(d) == IF "item" \in drain[d].rows THEN "item" ELSE "product"

\* On to the rows that are left, or the end of the batch.
Proceed(d, rows) ==
  drain' = [drain EXCEPT ![d] = IF rows = {} THEN NoDrain
              ELSE [@ EXCEPT !.rows = rows, !.phase = "read", !.got = 0]]

\* loadInventoryItemsBatch, the query of refreshProductVariantsFromAdmin
ReadStock(d) ==
  /\ drain[d].phase = "read"
  /\ drain' = [drain EXCEPT ![d].phase = "write", ![d].got = stock]
  /\ UNCHANGED <<webVars, cacheVars, queueVars, recon, troubles>>

WriteStock(d) ==
  /\ drain[d].phase = "write"
  /\ cache' = Answer(drain[d].got) /\ synced' = stock
  /\ applied' = [applied EXCEPT ![Current(d)] = drain[d].got]
  /\ drain' = [drain EXCEPT ![d].phase = "done"]
  /\ UNCHANGED <<webVars, queueVars, recon, troubles>>

\* completeRows: a row requested again since it was claimed runs again.
Anyway(row) == TRUE
Served(row) == ~row.newer

Complete(d) ==
  /\ drain[d].phase = "done"
  /\ queue' = [queue EXCEPT ![Current(d)] =
       IF @ = Absent \/ Served(@) THEN Absent ELSE [@ EXCEPT !.lease = 0, !.attempts = 0]]
  /\ Proceed(d, drain[d].rows \ {Current(d)})
  /\ UNCHANGED <<webVars, cacheVars, noticed, excused, recon, troubles>>

\* failRows, when Shopify or the database refuses: exponential backoff, and
\* after the last attempt the row is dropped, whoever requested it since.
GivesUp(row) == row.attempts >= RefreshAttempts

Fail(d) ==
  /\ drain[d].phase \in {"read", "write"} /\ Setback
  /\ LET k == Current(d) IN
     /\ \/ /\ queue[k] = Absent
           /\ UNCHANGED <<queue, excused>>
        \/ /\ queue[k] # Absent /\ GivesUp(queue[k])
           /\ queue' = [queue EXCEPT ![k] = Absent]
           /\ excused' = [excused EXCEPT ![k] = TRUE]
        \/ /\ queue[k] # Absent /\ ~GivesUp(queue[k])
           /\ queue' = [queue EXCEPT ![k].lease = 2 ^ (queue[k].attempts - 1)]
           /\ UNCHANGED excused
     /\ Proceed(d, drain[d].rows \ {k})
  /\ UNCHANGED <<webVars, cacheVars, noticed, recon>>

KillDrain(d) ==
  /\ drain[d].phase # "idle" /\ Setback
  /\ Proceed(d, {})
  /\ UNCHANGED <<webVars, cacheVars, queueVars, recon>>

\* Half a minute: leases run out, drains reach maxDuration and are ended.  The
\* bound on troubles bounds how many drains are so slow.
TimePasses ==
  /\ \/ \E k \in Kinds : queue[k] # Absent /\ queue[k].lease > 0
     \/ \E d \in Drains : drain[d].left > 1
  /\ IF \E d \in Drains : drain[d].left = 1 THEN Setback ELSE UNCHANGED troubles
  /\ queue' = [k \in Kinds |->
       IF queue[k] # Absent /\ queue[k].lease > 0
       THEN [queue[k] EXCEPT !.lease = @ - 1] ELSE queue[k]]
  /\ drain' = [d \in Drains |->
       IF drain[d].left <= 1 THEN NoDrain ELSE [drain[d] EXCEPT !.left = @ - 1]]
  /\ UNCHANGED <<webVars, cacheVars, noticed, excused, recon>>

----------------------------------------------------------------------------
(* reconcileRows, every ten minutes, for the variants of gift offers       *)

ReconStart ==
  /\ recon.phase = "idle"
  /\ recon' = [NoRecon EXCEPT !.phase = "ask", !.before = cache]
  /\ UNCHANGED <<webVars, cacheVars, queueVars, drain, troubles>>

\* Only a value that differs from the one read first is written.
OnlyNewer    == recon.before.of >= stock
SameAsBefore == recon.before = Answer(stock)

ReconAsk ==
  /\ recon.phase = "ask"
  /\ recon' = IF SameAsBefore THEN NoRecon
              ELSE [NoRecon EXCEPT !.phase = "write", !.live = stock]
  /\ UNCHANGED <<webVars, cacheVars, queueVars, drain, troubles>>

ReconWrite ==
  /\ recon.phase = "write"
  /\ cache' = Answer(recon.live) /\ synced' = stock
  /\ recon' = NoRecon
  /\ UNCHANGED <<webVars, applied, queueVars, drain, troubles>>

ReconFails ==
  /\ recon.phase # "idle" /\ Setback
  /\ recon' = NoRecon
  /\ UNCHANGED <<webVars, cacheVars, queueVars, drain>>

----------------------------------------------------------------------------
HookStep(h)  == CheckPayload(h) \/ CachePayload(h) \/ Stamp(h) \/ Enqueue(h)
DrainStep(d) == ReadStock(d) \/ WriteStock(d) \/ Complete(d)
ReconStep    == ReconStart \/ ReconAsk \/ ReconWrite

RefreshNext ==
  \/ \E kinds \in SUBSET Kinds \ {{}} : Change(kinds)
  \/ \E h \in hooks : HookStep(h) \/ LoseHook(h)
  \/ \E d \in Drains : Claim(d) \/ DrainStep(d) \/ Fail(d) \/ KillDrain(d)
  \/ TimePasses
  \/ ReconStep \/ ReconFails

RefreshSpec == RefreshInit /\ [][RefreshNext]_refreshVars

\* The crons start again and again, what runs goes on, time passes.  Nothing
\* makes the stock change or a webhook arrive.
RefreshFairness ==
  /\ WF_refreshVars(TimePasses) /\ WF_refreshVars(ReconStep)
  /\ \A d \in Drains : WF_refreshVars(Claim(d)) /\ WF_refreshVars(DrainStep(d))

RefreshFairSpec == RefreshSpec /\ RefreshFairness

----------------------------------------------------------------------------
(* Properties.                                                             *)

\* Every variable holds a value of its type, and nothing is known of a change
\* that has not happened.
RefreshTypeOK ==
  /\ stock \in 0 .. sent /\ sent \in 0 .. MaxHooks
  /\ hooks \subseteq [kind : Kinds, of : 1 .. stock,
                      step : {"sent", "fresh", "stamped"}, late : BOOLEAN]
  /\ cache \in [of : 0 .. stock, derived : BOOLEAN] /\ synced \in 0 .. stock
  /\ queue \in [Kinds -> [newer : BOOLEAN, lease : Nat, attempts : 0 .. RefreshAttempts]
                         \cup {Absent}]
  /\ drain \in [Drains -> [phase : {"idle", "read", "write", "done"},
                           left : 0 .. DrainTime, rows : SUBSET Kinds,
                           got : 0 .. stock]]
  /\ recon \in [phase : {"idle", "ask", "write"},
                before : [of : 0 .. stock, derived : BOOLEAN], live : 0 .. stock]
  /\ troubles \in 0 .. MaxTroubles
  /\ noticed \in [Kinds -> 0 .. stock] /\ applied \in [Kinds -> 0 .. stock]
  /\ excused \in [Kinds -> BOOLEAN]

\* "bump it so the in-flight claim doesn't swallow the newer event": once a row
\* is gone, the refresh that finished it has asked Shopify after every change
\* it was requested for, however deliveries, drains, crashes and failures
\* interleave, unless the row was dropped after its last attempt or was
\* requested with a stamp older than its own.
EventNotSwallowed ==
  \A k \in Kinds : queue[k] = Absent /\ ~excused[k] => noticed[k] <= applied[k]

\* Through dead drains, failures, backoff and newer requests: again and again
\* every request so far has been served, unless one was dropped or overtaken.
EventIsServed ==
  \A k \in Kinds : []<>(applied[k] >= noticed[k] \/ excused[k])

\* Whatever two writers of the cache do to each other, the cached stock of a
\* gift is right in the end: the gift-stock cron repairs what they left.
CacheCatchesUp == <>[](cache = Answer(stock))
=============================================================================

# Verification of the promotion engine

TLA+ specifications of the parts of this repository where the order of steps decides what a merchant's customers are
charged: publishing offers to Shopify, changing their statuses, the crons that do it unattended, the usage counts
behind per-customer limits, the copies of Shopify's catalogue and stock that gifts are chosen from, the webhooks that
feed them, the storefront's loop that keeps the gift in the shopper's cart, the write tools an assistant calls, the
checkout codes on their Shopify nodes, and the split of a shop's cart offers over several nodes. TLC checks every module on small instances; TLAPS proves the main safety
properties for every instance.

- [The system](#the-system)
- [Modules](#modules)
- [Publisher](#publisher), [OfferLifecycle](#offerlifecycle), [CronLock](#cronlock), [UsageSync](#usagesync),
  [WebhookDelivery](#webhookdelivery), [CatalogRefresh](#catalogrefresh), [CatalogSync](#catalogsync),
  [DefinitionsCache](#definitionscache), [StorefrontRuntime](#storefrontruntime), [McpWrite](#mcpwrite),
  [DiscountCodes](#discountcodes), [ShardPlanner](#shardplanner), [CartShards](#cartshards),
  [MCJobs, MCMerchant and MCShop](#mcjobs-mcmerchant-and-mcshop)
- [Runs and bounds](#runs-and-bounds)
- [Fairness](#fairness)
- [Proofs](#proofs)
- [Disagreements found](#disagreements-found)
- [Not modelled](#not-modelled)
- [Plan](#plan)

Run a check with `tlc -config X.cfg M` (the configuration names its module in the table below) and a proof with
`tlapm M.tla`. `PROJECT.json` maps every definition to the lines it translates.

## The system

The admin app (`src/apps/shopify-admin`) keeps a shop's offers in Postgres and compiles them into configurations that
Shopify Functions (`extensions/*`, Rust) evaluate at checkout. Paths below are under `src/apps/shopify-admin/app/lib`
unless they say otherwise. Three kinds of process touch the same rows and the same shop: merchant requests (UI and
MCP), webhooks, and crons started by Vercel; each may run beside the others, be cut off at its time limit, or die.

| component | state | operations | interacts with | hard behaviour | what makes it correct |
|---|---|---|---|---|---|
| publisher (`sync/offer-publisher`, `publish-pending`, `publish-manifest`, `offer-publish-errors`) | `offers.compiledConfig`, `codeDiscountId`, `shops.publishPendingAt`, the manifest; Shopify's discount nodes and cart validation | `publishOffersForShop`, background retry | called by every operation that changes an offer, by the scheduler, reconciliation and drift repair | several writes to Shopify under an advisory lock; calls refused, with unknown outcome, or cut off; concurrent publishes | never serves something older than a complete publish; guardrails before offers; a confirmed save is published or flagged |
| offer lifecycle (`offer-lifecycle`, `offer-publish-flow`) | `offers.status`, dates, `updatedAt` | pause, resume, toggle, archive, activate, bulk operations, schedule save, republish | publisher; races with the scheduler | read - decide - write - publish - roll back, unlocked | what was answered as done is live; a rollback undoes only its own write |
| offer scheduler (`offer-scheduling`) | the same rows | load due offers, apply, publish, roll back | publisher, lifecycle | a batch validated offer by offer, one transaction | overdue offers change; never undoes a merchant's choice |
| reconciliation and drift (`discount-reconciliation`) | the manifest, the drift settings | publish flagged shops, compare Shopify with the manifest, re-add missing codes | publisher | compares with the manifest, not with the rows | a flagged or drifted shop is published again |
| offers cron (`routes/api.cron.offers.ts`) | none | reconciliation, scheduler, drift repair, upkeep, usage drain, in this order | all of the above | any step may fail; the next ones run all the same | - |
| cron runner (`cron-run`), redis client (`redis`) | a Redis key, a row of `rate_limits` | lock, run, release | every cron | duplicate deliveries, silent Redis, crashes | runs do not overlap; a crash blocks nobody for long |
| offer usage (`offer-usage`, `webhooks/order-paid`, `offer-usage-backfill`) | `offer_customer_usages`, `offer_usage_sync`; the customer's metafield | record, push, re-check, drain | webhooks, offers cron, Shopify | pushes of one customer run side by side | the metafield ends with the table's counts |
| webhooks (`routes/webhooks.$.tsx`) | `webhook_deliveries` | claim a delivery, take over a stale claim, settle, answer | Shopify; the handlers of usage, catalogue and refresh queue | deliveries are repeated while a handler works, after it fails and after it is done | acknowledged means handled; one claim at a time |
| refresh queue (`sync/inventory-sync-queue`, `sync/gift-stock-reconcile`) | `catalog_refresh_queue` rows with a lease and attempts; `variant_cache` | enqueue, claim, refresh, complete, fail, reconcile | products and inventory webhooks, two crons, Shopify | coalescing; drains that die or outlive their lease; two writers of one cached row | no event is swallowed; the gift's stock catches up |
| catalogue import (`sync/product-sync`) | `catalog_sync_jobs`, `product_cache`, `variant_cache` | queue, claim, page, archive, complete, fail | products webhooks, cron, admin pages | pages under a lease while products come and go | a partial import archives nothing valid; what is gone is archived |
| definitions cache (`offer-definitions`, `memory-cache`) | Redis and the memory of each process | read through, invalidate, expire | publisher, storefront routes | a reader older than the invalidation; memories no invalidation reaches | staleness bounded by the times to live |
| discount codes (`discount-codes`, `discount-code-schedule`, `code-*`) | `discount_codes`: status, `shopifySyncedAt`, `shopifySyncPendingAt`, `shopifyReaddAttemptedAt`; the names on the offer's node | create, switch, delete, exhaust, retire, attach, rename, re-add once | publisher, drift repair, orders, Shopify's admin | unknown outcome of an add; crashes between flag, call and mark; codes deleted or taken in Shopify | a code on the node has a row that knows; a retired code leaves the node |
| discount nodes (`discount-node`, `sync/cart-shards`) | `shops.discountId`, `discount_shards`, the setting `automatic_discounts.others`; the nodes in Shopify | find, create, record, fill, empty and delete nodes | publisher, Shopify's admin, its limit of 25 automatic discounts | a list rewritten statement by statement between requests; nodes deleted from outside | an offer is on one node; every node that serves something is recorded |
| config compiler (`sync/compile-config`, `plan-units`, `shard-planner`, `capacity-preflight`) | none | compile, plan the slots | publisher | size limits, offers that must stay together, what was published before | a plan has each offer once, within the limits, and settles |
| MCP writes (`mcp/write-runner`, `confirm`, `call-log`, `call-log-retention`) | confirm tokens, `mcp_call_log` with its unique token and key | dry run, claim, apply, store, replay, clean up | lifecycle | retries of one confirmation, side by side, after failures and a day later | a confirmed write runs once; a replay is the answer of that write |
| MCP server (`mcp/*`) | OAuth grants | authorize, read tools | - | request by request | - |
| rule engine (`packages/rule-engine`), functions (`extensions/*`) | none | evaluate a cart | storefront, checkout | parity of two implementations | the same discounts in both |
| storefront runtime (`packages/storefront-runtime`) | what a page knows of the cart, `sessionStorage` | evaluate, apply the answer, notice refusals | app proxy, Shopify's cart, the theme | evaluations superseded, rate limited, answered from an old cart | comes to rest with the right gift; a refused gift stays out |
| others (rate limits, collections and markets, integrations, upkeep, UI, database) | rows of their own | one statement or one request each | - | mostly I/O | - |

## Modules

| module | models | built on |
|---|---|---|
| `ShopReplica` | what publishing promises: each Shopify slot serves one past state of the offers and never goes back | - |
| `Publisher` | `publishOffersForShop` call by call, its lock, its retries and the reconciliation | implements `ShopReplica` |
| `OfferLifecycle` | merchant operations against the offers cron | takes a publish as two steps, justified by `Publisher` |
| `CronLock` | the overlap lock of a cron | justifies one cron run at a time in `OfferLifecycle` |
| `UsageSync` | recording and pushing one customer's usage counts | - |
| `WebhookDelivery` | the claim of one webhook and the answers to its deliveries | runs the handlers the next modules model |
| `CatalogRefresh` | the refresh queue, its drains and the gift-stock cron, for one variant | its handlers run under `WebhookDelivery` |
| `CatalogSync` | the import of a catalogue beside the products webhooks | same |
| `DefinitionsCache` | the two caches in front of the active offers | invalidated by what `Publisher` calls a publish |
| `StorefrontRuntime` | the evaluation loop of a storefront page | - |
| `DiscountCodes` | an offer's checkout codes and its Shopify node | one publish at a time, justified by `Publisher` |
| `ShardPlanner` | which offer goes to which slot: the planner as operators, and its rules | - |
| `CartShards` | the nodes that carry the slots, one publish after another | plans with `ShardPlanner`; one publish at a time, justified by `Publisher` |
| `McpWrite` | the write tools' tokens, keys and call log | applies one of `OfferLifecycle`'s operations |
| `MCJobs` | eight parts, from `CronLock` to `DiscountCodes`, side by side | all of them |
| `MCMerchant` | `OfferLifecycle` and `McpWrite` side by side | both |
| `MCShop` | `Publisher` and `CartShards` side by side | both |
| other `MC*` | the instances TLC checks | the module they extend |
| `PublisherProofs`, `DiscountCodesProofs` | theorems about `Publisher` and `DiscountCodes` | the module they extend |
| `CartShardsProofs` | theorems about `ShardPlanner` and `CartShards` | `CartShards` |
| `MerchantProofs` | theorems about `OfferLifecycle`, `McpWrite` and their composition | `MCMerchant` |
| `CatalogProofs` | theorems about `WebhookDelivery`, `CatalogRefresh` and `CatalogSync` | these |
| `JobsProofs` | theorems about `CronLock`, `UsageSync`, `DefinitionsCache` and `StorefrontRuntime` | these |
| `PartsProofs`, `ShopProofs` | what is proved of the parts, carried over to the compositions `MCJobs` and `MCShop` | the proofs of the parts |

Three conventions hold everywhere. A step is what the code does between two awaits that another process can observe:
a database statement or transaction, or one request to Shopify. A process that dies forgets its variables and leaves
the stores as they are. Variables marked as history (`hist`, `author`, `exact`, ...) are read by no action.

## Publisher

One shop. `status` and `broken` (data that `compileOfferConfig` rejects) are the offer rows; `codeNode` and `compiled`
are `codeDiscountId` and `compiledConfig`; `pending` and `newer` are `publishPendingAt` and its comparison with a
call's `startedAt`; `lock` is the advisory lock; `shared`, `codeLive` and `guarded` are what Shopify serves: the
configuration on the shared nodes, the nodes of the code offers, and the offers the cart validation knows.

A call goes through `Save` (somebody changed an offer), `Publish`, `Acquire`, `ReadOffers` (the snapshot under the
lock), `Neutralize` (code nodes of offers no longer active), `CompileCode`, `Compile` or `CompileError`,
`SyncValidation` and `PushShared` (in either order, see `FirstWrite`), `StoreCompiled`, `PushCode`, `WriteManifest`,
`Commit` and `ClearPending`. Around it: `LockTimeout` and `Park`, `Retry` in the background, `Reconcile` by the cron,
`Refused`, `NotApplied` and the second disjunct of `Answered` (a request without an answer, applied or not), `Crash`,
and `LoseConnection` (the lock's connection is lost; the body is not cancelled and goes on).

Properties: `NeverInterleaved` (the lock's promise, a theorem), `ServedSincePublished`, `LiveCodesAreGuarded`, `NewOffersAreGuarded`,
`CompileErrorStopsStaleCodes`, `ConfirmedSaveIsKept`, `PendingReachesShopify`, and `IsReplica`, the refinement of
`ShopReplica`.

Abstractions: the set of offers with codes is fixed and each has a code to redeem; the rows of redeem codes, the
legacy offers that are held back, shadow mode and the beta backend, the pool of shipping codes, the split of the
shared configuration into shards (one atomic `metafieldsSet`, see `CartShards`), and the storefront's metafields are
left out. The
cron's publish and the retry are processes of their own; a retry uses its call's identity, as it does in the code.

## OfferLifecycle

One shop, its rows (`status`, `starts`, `ends`, `stamped` for the `updatedAt` of the scheduler's run, `compiled`), what
Shopify applies (`served`), the manifest, the flag and the lock. A worker is a merchant request or the cron; its `job`
is what it read, decided and will put back.

`DecideStatus` and `DecideSchedule` are the read and the decision, `WriteStatus` and `WriteSchedule` the update,
`PublishRead` with `PublishOk`, `PublishParked` or `PublishFailed` the publish, `UndoStatus` the rollback,
`PauseOffer` and the second publish what `republishIfActive` does to a blamed offer. The cron is `StartRun`, `Load`,
`Apply`, `UndoSchedule`, `CheckDrift`, each followed by its publish.

A publish is two steps, the read and the end: `Publisher`'s theorems say that publishes of a shop do not overlap and
that what is live is the last complete publish or something newer. A publish that does not complete leaves one of the
states `Partial` lists, in the order `Publisher` goes through them. Refused operations change nothing and are no step.
Dates are small integers; 0 is no start, `LastTick + 1` no end. A background retry is represented by `republish`. The
flag is raised by a publish that is parked and by a schedule save that keeps its status after a failure of the whole
shop, and lowered by a complete publish that started after it (`newer` holds the publishes under way when it was set).

Properties: `ConfirmedStatusIsServed`, `CronTransitionIsKept`, `SchedulerUndoesOnlyItsOwn`, `OverdueOffersChange`, and
two documented statements the code does not keep, `FailedPublishNeverPauses` and `FutureStartsWait`.
`CronTransitionIsKept` is checked for one session at a time: the conditional rollback compares the status alone, so a
second session and the cron together can bring back the value it looks for.

Left out: `finalizeCreatedOffer`, `setOfferPageUrls`, dry runs, `expectedUpdatedAt`, audit rows, version snapshots,
time zones, and the upkeep steps of the cron.

## CronLock

Deliveries of one cron (`run`, `via`, `age`), the Redis `key` with its token and remaining ticks, and the `row` of
`rate_limits`, which carries no token. `RedisSilent` is a call without an answer, after which the code falls back to
the row; the key may have been set. `FailOpen` runs without a lock. `Tick` is time: runs that reach `maxDuration` end,
keys expire, rows grow old. Each delivery arrives once; a duplicate is another member of `Runs`.

Properties: `OverlapNeedsOutage` (no overlap as long as every call is answered) and `StuckLockExpires`. The runbook's
unconditional statement (`docs/RUNBOOK.md:43`, here `NoOverlap`) is more than the code gives: one call of Redis without
an answer sends the next delivery to the database row while the first holds the key.

## UsageSync

One customer of one shop. `recorded` are the orders in `offer_customer_usages` (an order counts as one usage);
`since`, `attempts` and `cooling` are the row of `offer_usage_sync`, where `since` is `pendingSince` and `Now` the
database's `now()`, taken to be different for different marks; `metafield` is what the discount Function reads. A
worker is one run of `syncCustomerUsageMetafield`: an order's deferred push, or the cron's. Its steps are `ReadMark`,
`Count`, `Push`, `Recheck`, `Clear`, or after an exception `Failed`; `MissingScope` sets the shop's cool-down. `late`
holds pushes that were given up or sent again and that Shopify may still execute.

Properties: `ClearedMeansPushed` (the doc comment of `syncCustomerUsageMetafield`), `SyncedWithoutFaults`,
`PendingIsPushed`, and `LostPushIsRetried`, a comment of `order-paid.server.ts` that the code does not keep.

Left out: which offers an order used, the 9 KB limit, archived offers, inactive shops, several customers and the
round-robin over shops. An order delivered twice inserts nothing and is no step. Attempts beyond the maximum are one
value, since the code only compares them with it.

## WebhookDelivery

One webhook id. `status` and `claimAge` are its row of `webhook_deliveries` (the age of `lastAttemptAt`); a delivery
is one request of Shopify's, with its place `at` in the action, the time it has `spent` and its `deliveryClaimed`. Any
number of deliveries may arrive, also after an answer; a member of `Deliveries` may be reused. `InsertClaim`,
`Reclaim` and `Look` are the three statements of the claim, `DedupFails` the fail-open path (the statement that failed
may have been executed), `HandlerDone` and `HandlerThrows` the handler, `Settle` and `SettleThrows` the last update,
`Answer200` an answer that Shopify may no longer be waiting for. `MinutePasses` lets claims grow old and ends
functions at `maxDuration`; the assumption `HookTime <= StaleAfter` is 60 seconds against five minutes.

Properties: `AckMeansHandled`, `OneClaim`, `WebhookIsHandled`. A permanent refusal by an integration counts as handled, as it does in the code.

## CatalogRefresh

One variant, seen as an inventory item and as a product. A value is the number of stock changes it is the answer
after, so that "older" and "newer" are comparisons. Webhooks (`hooks`) are requests with their handler's place in
them; `cache` and `synced` are the variant's row; `queue` has one row per kind, with `newer` for
`requestedAt > claimedAt`; a `drain` is one run of `drainCatalogRefreshQueue`, `recon` the gift-stock cron.

`CheckPayload`, `CachePayload`, `Stamp` and `Enqueue` are the handlers statement by statement (`Stamp` is the
`new Date()` that `enqueueCatalogRefresh` takes before its insert, which a claim can slip between), `Claim`,
`ReadStock`, `WriteStock`, `Complete`, `Fail` the drain, `ReconStart`, `ReconAsk`, `ReconWrite` the cron, `TimePasses`
leases, backoff and `maxDuration`.

Properties: `EventNotSwallowed` (the comment in `enqueueCatalogRefresh`), `EventIsServed`, `CacheCatchesUp`. Two things the code does are exempted by the history variable `excused`: a row at its last attempt
is dropped although it was requested again since its claim, and a request whose stamp is older than the row's
overwrites it.

## CatalogSync

One shop, a page of one product. `exists` and `born` are Shopify's catalogue, `notes` the webhooks under way;
`cached`, `hasLegacyId` and `variants` are what `product_cache` and `variant_cache` hold; `fresh` and `freshVariants`
are the rows whose `syncedAt` is not before the job's `syncStartedAt`. `job` is the row of `catalog_sync_jobs`, an
`importer` one call of `processProductSyncStep`, step by step from `ClaimImport` to `Advance` or through `Archive` and
`DeleteVariants` to `CompleteImport`; `ImportFails` is its catch block.

Properties: `ValidRowsAreKept`, of products and of variants (the comment above the clean-up), `OneImporter` (the comment on
leases), `GoneIsArchived`, and `DeletedIsUnsellable`, which does not hold.

## DefinitionsCache

The active offers of one shop as a `version`. `memory` is each instance's copy, `shared` the one in Redis, a `reader`
one call of `getOfferDefinitions`; `change` is the last change, whose publish calls `invalidateOfferDefinitions` on
one instance. `Lapse` is a call of Redis that fails, in a read, a write or the invalidation. `outdated` counts the
ticks since a version was superseded.

Properties: `StalenessBounded` with the bound the code really gives, a reader's time plus both times to live (the
comment in the source names one of the three; the bound is tight), and `InvalidationHolds`.

## StorefrontRuntime

One page, one offer with one auto-added gift. `cart` is Shopify's; the other variables are the fields of
`PromoEngineRuntime` under their names, `timer` is the debounce, `waiting` and `eval` the chain of evaluations with
the one that runs. The shopper adds, removes, clears and changes pages; `StartRun`, `FetchCart`, `Compare`,
`AnswerArrives` or `NoAnswer` or `RateLimited`, `ApplyAction`, `EndOfRun` are `runEvaluation` between its awaits, with
`Detect` for `detectDeclinedGifts` and `CartAction` for what the rule engine answers. `Fetched` lets Shopify answer
from before the page's own add.

Properties: `RefusalsAreRespected` (a refused gift stays out, and only the shopper's own removal is a refusal) and
`CartSettles`. Their conditions mark what the code does not
promise: a page that has just loaded has no baseline, so that a gift removed before the first evaluation comes back;
an evaluation of an older cart that is already being applied still adds; a cart equal to the last one evaluated is
skipped by its hash.

## McpWrite

One operator, one tool. `minted` and `claims` are the tokens of dry runs, `logged` and `entry` the rows of
`mcp_call_log` (one per token, with its idempotency key, age and result), a caller one call of `runWrite` at its
`step`. `Execute` looks the key up and verifies the token, `FreeKey` clears an expired key, `ClaimWrite` is the insert
that two unique indexes decide, `FindAgain` the second look after it was refused, `RunService` and `ServiceThrows` the
service, `FinishWrite`, `FinishThrows`, `FinishFailed` and `FinishFailedThrows` the last updates, whose answer may be
lost after they were executed, and `CallDies` the death of the process, with the statement under way done or not. The
update that frees a key is one thing and the answer to the caller another: the model does not say who was told of what,
and no property depends on it. `HourPasses` ages tokens and keys and ends functions; `CleanLog` is the nightly deletion.
`McpAssumption` relates the times as the code does: a token and a key outlive a function, a row outlives both.

Properties: `TokenAppliesOnce`, `KeyRepeatsNeedFailure` (an action property: what must have thrown before a key is
claimed again) and `ReplayWasApplied`. A write that was applied and whose result could not be stored counts as one of the
failures that free a key: sent again it is applied again, against the tool's description (see the smaller disagreements).

Left out: rate limits, roles and write locks, which refuse before anything changes; what a token says of the offer's
`updated_at` and of the set of rows, which the services compare; rows of calls that claim nothing.

## DiscountCodes

One active offer that has its node. `codeRow` are the rows of `discount_codes` with their three flags: synced, in
flight, to be added again; `onNode` and `nodeOpen` are the node, `taken` names of other discounts, `lateAdds` the
requests without an answer that Shopify may still execute. `pub` is one publish with what it read, `repair` one drift
repair. A publish goes from `RemoveStale`, `VerifyGone`, `ClearRetired` and `ExpireNode` (`retireInactiveCodes`) over
`LookReadds`, `SettleReadds`, `DisableTaken`, `LookUp`, `RenameTaken` and `AdoptOurs` (`compileCodeOffers`) to
`PushConfig`, `FlagInFlight`, `AddCodes` or `AddUnknown` with `LookAgain`, `MarkAdded` and `SettleRejected`
(`pushCodeOfferConfigs`); it may fail or die before each. The repair compares the counts (`SeeCount`, `CompareCount`),
lists the node, reads the rows and queues the missing codes. Merchants, orders and Shopify's admin go on meanwhile.

A name is the code and how often it was renamed. A code of a batch may change its name like a typed one. Every publish
of the shop runs these steps, whatever asked for it, so that `StartPublish` may happen at any time.

Properties: `FlagsAreHonest` (a code on the node has a row that says so or says it may be), `OneReaddPerLoss`,
`RedeemableComesLive`, and `RetiredCodesAreGone`, a comment that the code does not keep. Three races that the code
leaves open are excepted by the history variable `exempt`: a code deleted by the merchant while a publish that has
read its row is about to add it; an unanswered request that Shopify executes after its row was settled otherwise; a
code attached between the repair's listing of the node and its reading of the rows.

Left out: the creation and replacement of the node, batches and CSV files, raised limits, `retryOriginalCode`, the
migration of legacy codes, and two limits of rounds: after four rounds of adding and renaming the publish throws
(`offer-publisher.server.ts:1171`), which ends it like a failure does; after eight rounds of its own
(`code-preflight.server.ts:23`) the look-up goes on without throwing, with names that may be another's, which the
push then finds rejected. The look-up renames row by row; `RenameTaken` merges the updates of a round.

## ShardPlanner

`planShards` as operators on sets of units. A unit is what the planner knows of an offer; its bytes are an input, an
attribute or a tag takes one byte, and names are numbers in the order of the keys. `Fits` is the planner's test of a
slot, `Pinned` and `Tied` say what must be in slot 0 and what must be together, `Groups` is the union-find as the
smallest sets closed under `Tied`. `Plan` goes through the planner in its order: too large, single slot, everything in
slot 0, a group too large, `Sticky`, `Evicted`, `Place`, `Compacted`, the limit. A `bin` is a slot index with its set of
groups; the loops over sorted lists are folds (`PlaceAll`, `MoveAll`, `Overflows`) over `Ordered` sets, where an element
stands behind as many as come before it; `With` names an intermediate value. `IsCatalog` says what the planner is given:
finitely many units that their ids tell apart. A blocked plan keeps its reason and drops its slots,
which the publisher never writes. `splittable` is left out: `buildPlanUnits` never sets it.

`KeepsRules` and `Settles` say what a plan promises without the planner's own groups and bins.

## CartShards

One shop. `own` is `shops.discountId`, `rows` are the slots of `discount_shards` with node and `unitKeys`, `others` the
last known number of discounts of others; `nodes` is what exists in Shopify, with title and offers (slot 0's title is
0, "Promo Engine 2" is 1), `foreign` the discounts of others. A publish is a `phase` with its variables; it goes through
`Begin`, `MakeOwn`, `StoreOwn` (`ensureDiscountNodes`), `ReadUnits`, `ReadBudget`, `PlanSlots`, `CountShards`,
`EnsureShards`, `MakeShard` with a `WriteList` after each (`ensureAutomaticNodePool`), `PushSlots`, `SaveSlot` per row,
`DeleteShard` per emptied node, a last `WriteList`, `Done`. A publish without offers takes the same way, since the code
of that branch empties, records and deletes in the same order. `Abort` ends it before any step, for a failure, a crash
or a request Shopify must refuse (`Hopeless`); a step followed by `Abort` is a request that was executed and whose
answer was lost. Around it: offers change, the flag is switched, a node is deleted, others add and remove discounts.

Properties: `OfferOnOneNode` and `PlansAreSound`, whose quantifiers range over every assignment that may be recorded
and every budget.

Abstractions: publishes do not overlap (a theorem about `Publisher`). Which nodes exist is read in one step where
the code pages through Shopify's answers. Requests executed after their publish has ended, nodes renamed by the
merchant, the delivery node beyond its place in the count, the pool of coded shipping nodes (the same
`ensureAutomaticNodePool`, with surplus), the migration of the legacy list and `clearShardState` at an uninstall are
left out. Offers, the flag and the budget change between publishes, nodes and the discounts of others at any moment.

## MCJobs, MCMerchant and MCShop

The parts in these modules share no variable, so that a step of one is a stutter of the others. They run side by side in one specification: `focus` names the part
that moves, the others keep their first state, so that the states are the sum and not the product of the parts'.
`PartsTypeOK`, `MerchantTypeOK` and `ShopTypeOK` are the conjunctions of the parts' type invariants.

## Runs and bounds

| run | module, configuration | shows | bounds, and why they are enough |
|---|---|---|---|
| `publisher` | `MCShop`, `MCShop.cfg` | all safety of a publish and the refinement; the safety of nodes and plans | two saves with a cron that publishes as often as it likes: three publishes overlap, two is what a race needs; one regular and one code offer, because the code's paths differ by kind and not by number; one fault, at any call. Beside it three slots of 10 bytes, a catalog of up to three offers that need a slot each, one failure or crash anywhere, and one node deleted, flag switched or budget changed: the smallest numbers at which a list of two shards loses one, and a drained shard stays behind. Without mishaps, eight more catalogs, every change between two of them and every plan between: pins, stops, ties, evictions, compactions and all reasons to block occur |
| `publisher_live` | `MCPublisher`, `MCPublisherLive.cfg` | `PendingReachesShopify` | one save, two faults, so that the retry fails as well, and a lost connection |
| `publisher_lost_lock` | `MCPublisher`, `MCPublisherLostLock.cfg` | a lost connection breaks `ServedSincePublished` | no fault besides the loss |
| `lifecycle` | `MCMerchant`, `MCMerchant.cfg` | the safety of statuses and of the write tools | two offers with every mix of statuses and dates, one operation of every kind (bulk ones included) against any number of cron runs, two faults: a publish and its rollback's publish may both fail; two calls, two tokens, two arguments and a key, the smallest numbers at which calls compete for either, with one failure or crash, over the life of a key |
| `lifecycle_live` | `MCOfferLifecycle`, `MCOfferLifecycleLive.cfg` | `OverdueOffersChange` | one offer, two operations in a row, a fault and a crash |
| `lifecycle_failed_pause` | `MCOfferLifecycle`, `MCFailedPause.cfg` | `FailedPublishNeverPauses` is broken | one pause, one fault |
| `lifecycle_reschedule` | `MCOfferLifecycle`, `MCReschedule.cfg` | `FutureStartsWait` is broken | one schedule save, no fault at all |
| `jobs` | `MCJobs`, `MCJobs.cfg` | the safety of the eight parts | three cron deliveries, `MaxDuration` of three ticks, a silent call; two orders and the cron with two faults; two webhooks about two changes, two drains, one setback; two deliveries of a webhook and two failures; two products, two pages and a worker that fails or dies once; two instances, two readers, two changes; four turns of a shopper and a failed request; two codes, one of a batch and published or not, two edits, one code deleted or taken in Shopify and one failure or crash. Each is the smallest number at which two of the actors overlap and a third event falls between their steps |
| `jobs_live` | `MCJobs`, `MCJobsLive.cfg` | what must happen in the end, and `OneImporter` with two workers | the same parts without the lock and the cache, which promise nothing eventual; fewer failures, one product; a code with dates and one edit |
| `import_deleted_product` | `MCJobs`, `MCDeletedProduct.cfg` | `DeletedIsUnsellable` is broken | one product, no failure at all |
| `codes_retired` | `MCJobs`, `MCRetiredCode.cfg` | `RetiredCodesAreGone` is broken | one published code and one that is created and switched off, one crash |
| `usage_lost_push` | `MCUsageSync`, `MCUsageLostPush.cfg` | `LostPushIsRetried` is broken | two orders, one fault |

The bounds are constants: `MaxFaults` (refusals, unknown outcomes, and in some modules crashes), `MaxCrashes`,
`MaxTroubles`, `MaxBreaks`, `MaxMishaps`, `MaxLapses`, `MaxGlitches`, `MaxUpsets` and `MaxSnags` (failures of each
part, crashes included),
`MaxDrops` (lost connections), `MaxOutages`, `MaxOps`, `MaxHooks`, `MaxProduct`, `MaxVersion`, `MaxTurns`,
`MaxEdits`, `MaxForeign` and `MaxMeddles` (what happens from outside), `MaxSlots`, `Limit`, `Reserve`, `SlotBytes`, `TargetBytes`, `Envelope`, `AttributeLimit` and `TagLimit` (Shopify's and the planner's limits, made small in their order), `MaxTries`, `MaxAttempts`, `RefreshAttempts`, `ImportAttempts` and `MaxRateRetries` (limits of
the code, made small), `MaxDuration`, `DrainTime`, `HookTime`, `StepTime`, `CallTime`, `StaleAfter`, `Retention` and the times to
live (made small in their order), `LastTick` and `LastHour` (where the clock stops). `CHECK_DEADLOCK FALSE` is set everywhere because every one of these systems may
come to rest: no merchant has to do anything. Symmetry is used for interchangeable calls and offers, in runs without
liveness only. In `publisher` the regular offer starts out active (`MCInit`); a save may
pause it and bring it back.

Every property of a passing run comes with a mutation of the code (a lock that does not wait, a dropped comparison of
`startedAt`, a rollback without its condition, a short time to live, a missing re-check, ...) that breaks it.

## Fairness

Weak fairness of the steps of what was started, since the runtime goes on with it unless it dies, and of the cron's
next step, since Vercel starts it again and again. A call that waits for the lock gets it or times out.
The steps of a publish of codes, the offers cron's publish of the shops that are due and the drift repair are such
steps. No fairness is given to saves, orders, changes of the stock or the catalogue, a shopper's turns, edits of codes,
failures, crashes, or to requests Shopify has not executed. Time passes (`CoolDown`, `TimePasses`, `MinutePasses`, `LeaseRunsDown`, the
browser's timers) where a property needs a lease, a backoff or a timer to end. A webhook is delivered again until
Shopify has seen a 2xx, which is Shopify's documented retry; that the first delivery ever arrives is not assumed.
Handlers of the refresh queue have no fairness: only what a row has recorded is promised. Failures and crashes are bounded: the liveness properties
say what happens once trouble stops, and a shop that fails for ever is not promised anything. `PendingReachesShopify`
names the one state of the data that blocks a shop (an active offer that does not compile), `PendingIsPushed` the one
limit that ends the retries, `CartSettles` the failed requests and old answers after which the page waits for the next
change of the cart, `RedeemableComesLive` the three races and the code that was switched off in flight, which keeps the
repair from looking.

## Proofs

| module | theorem | argument |
|---|---|---|
| `PublisherProofs` | `TypeCorrect` | `TypeInv`: `TypeOK`, and a call after its read has a read index |
| | `Serialized` | `LockInv`: a call is in the body exactly when it holds the lock |
| | `CodesGuarded`, `NothingOlderServed` | `SafeInv`: `LockInv`; `HistInv`, each part of Shopify equals the state of `hist` it was built from; `NodeInv`; and `BodyInv`, what the call in the body has already established at each step (its stale codes emptied, the validation written, the shared nodes rewritten from its snapshot). The properties alone are not inductive: a step is only safe because of what earlier steps of the same body did, and only while nobody else is in a body |
| | `GuardrailsFirst`, `StaleCodesStopped` | action properties from `SafeInv`: only one action can serve a new offer, only one can blame one |
| | `NoSaveLost` | `KeepInv`: for each save that is not yet answered, its publish will read it, has read it, or has flagged the shop; a flag newer than a call's start is not cleared by it |
| | `Implements` | the initial states map to initial states, every step to `Save`, `Serve` of one slot, or a stutter |
| `JobsProofs` | `LockTypeCorrect` | induction |
| | `NeverOverlaps` | without outages all runs use one store, and a live run's lock is as old as the run, so that it cannot expire before `maxDuration` |
| | `LocksExpire` | a lock's age and its owner's age move together |
| | `UsageTypeCorrect` | a push that has begun remembers a mark |
| | `MarkIsHonest` | `MarkInv`: while `pendingSince` is the mark a push began with, nothing was recorded since, so what it read is right, and after the push so was the metafield |
| | `PushesConverge` | `CalmInv`: when the mark is cleared or about to be, the metafield is right or the push that made it wrong has still to look again |
| | `DefinitionsTypeCorrect` | induction |
| | `NothingOlderServed` | an age budget: what a reader holds is at most as outdated as the time it has used, what Redis holds as that plus the life of its copy, what a memory holds as all three; the budgets are invariant under `SecondPasses` because every life shortens with it |
| | `RedisIsCurrent` | without an overlapping load every reader past its load holds the current version |
| | `StorefrontTypeCorrect` | induction, with the page's memory and the evaluation's steps |
| | `RefusalsStand` | an action property from `LookInv` (what the page remembers of the cart, and what it is about to do, fit the cart that its evaluation has seen), `RefusedInv` (a gift that the shopper took out is declined, or the page still has everything that tells it so and no add under way), `GoneInv` and `MissedInv` (without failures, a page that misses a gift it knows misses one that the shopper took out). The property alone is not inductive: between the shopper's turn and the evaluation that notices it lie superseded evaluations that must not add the gift either |
| `MerchantProofs` | `OfferTypeCorrect` | every job carries offers and dates of its own operation |
| | `ConfirmedServed` | `ServedInv`: whoever holds the lock and started after the flag read every confirmed status as it still stands; a status written since has its writer as author, and is confirmed only by a publish that read it |
| | `UndoesOnlyItsOwn` | `StampInv`: a row that still carries the scheduler's `updatedAt` was written last by the scheduler |
| | `CronWins` | an action property from `KeptInv`: since an operation wrote an offer, only the scheduler did, and it moved the offer on (scheduled, active, expired) from what the operation set; what it would put back is no earlier than that. A status the scheduler wrote last is therefore never the one the conditional rollback compares with |
| | `McpTypeCorrect`, `AppliesOnce`, `KeyNeedsFailure`, `ReplayIsTrue` | `McpInv`: a write was applied only under a row of its token, and the row outlives the token's life and the longest call, so that a token whose row was cleaned up is expired for whoever may still bring it; two rows never share a key (the index), and a key is freed only by an expiry of a day or by a call that has seen its service, or the storing of its result, throw. `KeyNeedsFailure` is an action property from it: only an insert claims a key (`OnlyInsertClaims`), and the index refuses it as long as an earlier claim's row has the key |
| | `MerchantTypeCorrect` | a run of `MCMerchant` is a run of each part |
| `CatalogProofs` | `WebhookTypeCorrect` | only a delivery at work holds a claim |
| | `ClaimIsUnique` | the claim's age is at least what its holder has spent, so a claim older than `maxDuration` has no holder; a delivery that fails open has none either |
| | `NothingIsLost` | a delivery that is past its handler was preceded by a completion; only such a delivery writes `processed` or answers 200 |
| | `RefreshTypeCorrect` | induction, with the shapes of rows, webhooks under way and drains |
| | `NoEventSwallowed` | `HeldInv`: a drain that works holds rows that are there, leased at least as long as it may still work, and held by nobody else; `AnsweredInv`: what it read of Shopify is as new as the last event noticed, unless the row was asked for again, which keeps the row; `AppliedInv`: what it is about to confirm is in the cache. A row is removed only when its request is not newer than the claim, and then the cache has what was noticed. The property says nothing of rows that still stand, so it needs all three |
| | `CatalogTypeCorrect` | induction |
| | `OneImporterAtATime` | `LeaseInv`: the worker that is at it holds a running job whose lease is at least what its step may still take, so nobody can take it over before it is ended |
| | `ValidRowsStay` | an action property from `RowInv` (rows of products that exist are never archived, a delete webhook is about a product that is gone), `CoveredInv` (every product up to the cursor has fresh rows) and `PageInv` (a page is the first product after the cursor; after the last page everything that exists is written, about to be, or was written by a webhook). Only then does archiving what is not fresh spare what is valid |
| `DiscountCodesProofs` | `CodesInvariant`, `CodesTypeCorrect` | `IInv`, inductive over all steps of publishes, repairs, merchants, Shopify's admin and late requests: `Typed`, `HonestInv` and `LostInv` |
| | `HonestFlags` | `HonestInv`: what a publish has read is still true of its rows or the code was deleted (`ReadInv`), a name on its way is the one its row has (`NameInv`), the sets a publish works on hold what its step may touch (`SetInv`), what it found on the node is there or taken by another (`FoundInv`), a code to be put back is looked for before it is sent (`ReaddInv`), what landed since the listing has crossed the repair (`CrossInv`) |
| | `OneReadd` | `LostInv`: what is recorded, or about to be, as attached is on the node or was lost; hence what the repair misses was lost or crossed it |
| `CartShardsProofs` | `PlansCorrect` | what each turn of the planner leaves of its bins: no group in two of them, each within the limits of a slot (`Good`); the pinned group in slot 0 and, once the pending ones are placed, every group somewhere (`Complete`); and that dropping empty bins and renumbering the slots keeps it. Settling: planned again from its own slots nothing is evicted and nothing is left to place, so that only a compaction may empty a slot |
| | `ShardsTypeCorrect`, `ShardsInvariant` | `ShardsInv`, one lemma per action: `Shape` (the rows are a list), `Titles` (a new node never takes the title of one in use), `Planned` (the plan spreads the offers read), `Listed` and `Covered` (how far the list of nodes is rewritten, and that a node that is still there is in the new list, no later than in the old), `Drained` (nodes beyond the plan are empty before they are deleted), `Served` (the property), `Calm` (an undisturbed publish writes what it read) |
| | `OfferOnOneNodeCorrect` | from `Served`, `Calm` and `ShardsInvariant`. The property alone is not inductive: the push is safe only because every node that serves something is in the list it writes, which depends on each statement with which earlier publishes, whole or cut short, rewrote that list |
| `PartsProofs`, `ShopProofs` | `PartsTypeCorrect`, `ShopTypeCorrect` | a run of `MCJobs` or of `MCShop` is a run of each part |

Assumptions are the named ones of each module (distinct constants, natural bounds, a finite set of codes, times in the order
the code has them) and, in the theorems of `PublisherProofs` from `Serialized` on,
`MaxDrops = 0`: no connection that holds an advisory lock is lost. `CronWins` is about one session at a time
(`OneSession`: there is one request), as the property is. `publisher_lost_lock` shows that the theorem
`NothingOlderServed` is false without it. Nothing is assumed about how many offers, calls, retries, failures,
deliveries, drains, workers, codes, products or orders there are.

`CartShardsProofs` rests on three more: `ShardsAssumption` (ids are numbers, bounds are natural, a shop has a slot),
`CatalogAssumption` (every catalog is one the planner may be given, `IsCatalog`: an offer's id is the key of its row) and
`IdsAssumption` (Shopify does not run out of ids: there are more than the nodes of the shop and the ones its rows still
name; `NodeIds` may be infinite).

Folds and the built-in sorts are defined by recursion over data, for which the provers have no rule they can
instantiate. `CartShardsProofs` does without: `LeastNat` (a nonempty set of numbers has a least, from
`NatLessThanWellFounded`) gives the smallest set, or the shortest list, for which a claim about a fold would fail. `Ordered` is there for
it: the community modules' `SetToSortSeq` is a `CHOOSE` among sequences, whose existence is such an induction too.

Only model-checked: all of liveness (`PendingReachesShopify`, `OverdueOffersChange` and the properties of `jobs_live` other than
`OneImporter`), since TLAPS here has no rules for fairness. Every safety property that a passing run checks is a theorem.

## Disagreements found

Each is a run TLC finds violated, with the comment or document it contradicts (`PROJECT.json`, "findings"):

1. `publisher_lost_lock`: the per-shop lock does not serialize publishes when its connection is lost, because the body
   of the publish is not cancelled.
2. `lifecycle_failed_pause`: a pause that fails and is rolled back can leave an active offer off Shopify for good, when
   another publish of the shop ran in between.
3. `lifecycle_reschedule`: a start that is moved later while the scheduler decides takes effect at the old time.
4. `usage_lost_push`: a push that lands late over a newer one and then fails leaves wrong counts with nothing pending.
5. `import_deleted_product`: the handler of products/delete looks for a row by its legacy id, which rows inserted by the
   import do not have; their variants stay sellable until the next import.
6. `codes_retired`: a code whose publish died while it was in flight, and that the merchant then switches off, is on its
   node and nothing takes it off: `retireInactiveCodes` and the schedule look at synced rows, the look-up at redeemable
   ones. It also keeps the drift check of its offer from counting, and can never be deleted.

Smaller ones, met while modelling and left to the exemptions named above: one silent Redis call lets two runs of a cron
overlap, which the runbook excludes; "a deleted row never leaves a live code behind" (`discount-codes.server.ts:425`)
does not hold for a delete between a publish's read and its flag, nor does it for a request that Shopify executes
after the second look; a re-add whose first request lands between the look and the second request is rejected as a
duplicate and disabled while it is live; the repair queues a code attached after it listed the node; a refresh row is dropped at its last attempt
although a newer event bumped it (`inventory-sync-queue.server.ts:92`); `isStaleProductPayload` compares the time of
the change with the time of a cache write, so that a payload newer than the cached answer may be skipped, until the
refresh or the cron repairs it; "staleness is bounded by the TTL" (`offer-definitions.server.ts:19`) leaves out the
memory level and the slow reader; rolled-back bulk operations put statuses back unconditionally; an answer may say
`rolledBack` although the conditional update matched no row; a theme that adds by XMLHttpRequest cancels a debounced
evaluation that another change of the cart asked for (`runtime.ts:298`); "returns
exactly `needed` live node ids" (`discount-node.server.ts:1377`) does not hold of a list with a repeated node, which
`writeCartShardNodeIds` leaves when a publish that closes a gap (node 1 of two was deleted) dies after its first
statement: both slots then name node 2, the next publish writes that node twice in one request, and of its two
configurations at most one stays; if one of the slots is drained, the node is deleted with the offers in it. `OfferOnOneNode` leaves publishes that begin from such a list out of its last part;
"Re-sending an executed call with the same key within 24 h returns the stored result" (`write-tools.server.ts:38`) does not
hold when storing the result throws: that update is inside `runWrite`'s `try` (line 105), so the catch frees the key of a write
the service has applied (`call-log.server.ts:240-241`), and the same call sent again within the day applies it a second time,
whether the first caller got the error or nothing. `KeyRepeatsNeedFailure` names that case as the second of the two it allows.

## Not modelled

`PROJECT.json` lists every component with its reason. In short: pure functions on one cart or one configuration (rule
engine, Rust functions, the compilation of one offer) are candidates for operators checked against a reference; collections, markets, integrations, UI
and upkeep are I/O with one statement each; rate limits are one atomic statement each. Most of the source is pages and
forms of the admin app and Liquid or React for the storefront: they keep no state that another process reads, and the
map does not count them as covered. The hazards without a property each say why.

## Plan

1. The node of a code offer, its creation and replacement, as part of `DiscountCodes`; the rows of `OfferLifecycle`
   with `expectedUpdatedAt`, to compose it with `McpWrite`.
2. `ensureAutomaticNodePool` with a surplus, for the coded shipping pool.

The proof modules use no `RECURSIVE` operator, and planned modules keep to that; `ShardPlanner` folds with the community
modules' operators.

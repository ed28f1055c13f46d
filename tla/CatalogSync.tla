----------------------------- MODULE CatalogSync -----------------------------
(***************************************************************************)
(* The copy of a shop's catalogue: the import that pages through the       *)
(* products under a lease and archives what it has not seen                *)
(* (lib/sync/product-sync.server.ts), beside the products webhooks         *)
(* (routes/webhooks.$.tsx) and a merchant who creates and deletes.         *)
(*                                                                         *)
(* A product is its number; Shopify lists products by number and gives no  *)
(* number twice.  A page is one product.  Whether a row's syncedAt is      *)
(* before the job's syncStartedAt is all that is kept of both times.       *)
(***************************************************************************)
EXTENDS Naturals

CONSTANTS MaxProduct,      \* bound on the products ever created
          Importers,       \* drains of the import queue: the cron, the pages
          StepTime,        \* the longest a request lives, in ticks
          ImportAttempts,  \* MAX_JOB_ATTEMPTS
          MaxMishaps       \* bound on failing steps, dead processes, lost webhooks

Products == 1 .. MaxProduct

ASSUME CatalogAssumption ==
  /\ MaxProduct \in Nat /\ StepTime \in Nat \ {0}
  /\ ImportAttempts \in Nat \ {0} /\ MaxMishaps \in Nat

VARIABLES
  exists, born,    \* Shopify: the products, the last number given
  notes,           \* webhooks under way
  cached,          \* product_cache.status
  hasLegacyId,     \* rows with a legacyProductId
  variants,        \* variant_cache: what it says of a product's variants
  fresh, freshVariants,  \* rows with syncedAt >= syncStartedAt
  job,             \* catalog_sync_jobs
  importer,        \* a worker's step of the job: phase, time left, its page
  mishaps

shopVars    == <<exists, born, notes>>
rowVars     == <<cached, hasLegacyId, variants, fresh, freshVariants>>
catalogVars == <<shopVars, rowVars, job, importer, mishaps>>

NoJob  == [status |-> "none", cursor |-> 0, attempts |-> 0, lease |-> 0]
NoStep == [phase |-> "idle", left |-> 0, cursor |-> 0, attempts |-> 0, page |-> {}, last |-> FALSE]

Phases == {"idle", "fetch", "products", "variants", "advance", "archive", "delete", "complete"}

\* An installed shop with any catalogue, nothing cached yet.
CatalogInit ==
  /\ exists \in SUBSET Products
  /\ born \in 0 .. MaxProduct /\ \A p \in exists : p <= born
  /\ notes = {}
  /\ cached = [p \in Products |-> "none"] /\ hasLegacyId = {}
  /\ variants = [p \in Products |-> "none"]
  /\ fresh = {} /\ freshVariants = {}
  /\ job = NoJob
  /\ importer = [i \in Importers |-> NoStep]
  /\ mishaps = 0

Mishap == mishaps < MaxMishaps /\ mishaps' = mishaps + 1

----------------------------------------------------------------------------
(* The merchant and Shopify's webhooks, which arrive in any order.         *)

Create ==
  /\ born < MaxProduct /\ born' = born + 1
  /\ exists' = exists \cup {born + 1}
  /\ notes' = notes \cup {[topic |-> "update", of |-> born + 1]}
  /\ UNCHANGED <<rowVars, job, importer, mishaps>>

Remove(p) ==
  /\ p \in exists /\ exists' = exists \ {p}
  /\ notes' = notes \cup {[topic |-> "delete", of |-> p]}
  /\ UNCHANGED <<born, rowVars, job, importer, mishaps>>

LoseNote(n) ==
  /\ Mishap /\ notes' = notes \ {n}
  /\ UNCHANGED <<exists, born, rowVars, job, importer>>

\* handleProductUpdate: only an insert sets legacyProductId.
Turns(n, topic) == notes' = (notes \ {n}) \cup {[topic |-> topic, of |-> n.of]}

HandleUpdate(n) ==
  /\ n.topic = "update" /\ Turns(n, "update variants")
  /\ cached' = [cached EXCEPT ![n.of] = "active"]
  /\ hasLegacyId' = IF cached[n.of] = "none" THEN hasLegacyId \cup {n.of} ELSE hasLegacyId
  /\ fresh' = fresh \cup {n.of}
  /\ UNCHANGED <<exists, born, variants, freshVariants, job, importer, mishaps>>

\* The variants are left alone when the payload is stale.
UpdateVariants(n) ==
  /\ n.topic = "update variants" /\ notes' = notes \ {n}
  /\ \/ variants' = [variants EXCEPT ![n.of] = "sellable"]
        /\ freshVariants' = freshVariants \cup {n.of}
     \/ variants[n.of] # "none" /\ UNCHANGED <<variants, freshVariants>>
  /\ UNCHANGED <<exists, born, cached, hasLegacyId, fresh, job, importer, mishaps>>

\* handleProductDelete finds the row by its legacyProductId, if it has one.
HandleDelete(n) ==
  /\ n.topic = "delete"
  /\ \/ /\ n.of \in hasLegacyId
        /\ cached' = [cached EXCEPT ![n.of] = "archived"]
        /\ fresh' = fresh \cup {n.of}
        /\ Turns(n, "delete variants")
     \/ /\ n.of \notin hasLegacyId
        /\ notes' = notes \ {n}
        /\ UNCHANGED <<cached, fresh>>
  /\ UNCHANGED <<exists, born, hasLegacyId, variants, freshVariants, job, importer, mishaps>>

BlockVariants(n) ==
  /\ n.topic = "delete variants" /\ notes' = notes \ {n}
  /\ IF variants[n.of] = "none" THEN UNCHANGED <<variants, freshVariants>>
     ELSE /\ variants' = [variants EXCEPT ![n.of] = "unsellable"]
          /\ freshVariants' = freshVariants \cup {n.of}
  /\ UNCHANGED <<exists, born, cached, hasLegacyId, fresh, job, importer, mishaps>>

----------------------------------------------------------------------------
(* The import.                                                             *)

\* queueProductSync: at every sign-in, from the products page, and at night;
\* an import that is under way is left alone.
AnyJob       == TRUE
Restartable  == job.status \in {"none", "completed", "failed"}

QueueImport ==
  /\ Restartable
  /\ job' = [NoJob EXCEPT !.status = "queued"]
  /\ fresh' = {} /\ freshVariants' = {}
  /\ UNCHANGED <<shopVars, cached, hasLegacyId, variants, importer, mishaps>>

\* JOB_LEASE_MS is as long as the longest request.
BriefJobLease == StepTime - 1
JobLease      == StepTime

OnlyQueued == job.status = "queued"
Available  == \/ job.status = "queued"
              \/ job.status = "running" /\ job.lease = 0

ClaimImport(i) ==
  /\ importer[i].phase = "idle" /\ Available
  /\ job' = [job EXCEPT !.status = "running", !.lease = JobLease]
  /\ \E left \in 1 .. StepTime :
       importer' = [importer EXCEPT ![i] =
         [NoStep EXCEPT !.phase = "fetch", !.left = left,
                        !.cursor = job.cursor, !.attempts = job.attempts]]
  /\ UNCHANGED <<shopVars, rowVars, mishaps>>

\* fetchPage, hydrateProductRelations
After(cursor) == {p \in exists : p > cursor}
First(ps)     == {p \in ps : \A q \in ps : p <= q}

FetchPage(i) ==
  /\ importer[i].phase = "fetch"
  /\ LET rest == After(importer[i].cursor) IN
     importer' = [importer EXCEPT ![i] =
       [@ EXCEPT !.phase = "products", !.page = First(rest), !.last = (rest = First(rest))]]
  /\ UNCHANGED <<shopVars, rowVars, job, mishaps>>

UpsertProducts(i) ==
  /\ importer[i].phase = "products"
  /\ LET page == importer[i].page IN
     /\ cached' = [p \in Products |-> IF p \in page THEN "active" ELSE cached[p]]
     /\ fresh' = fresh \cup page
  /\ importer' = [importer EXCEPT ![i].phase = "variants"]
  /\ UNCHANGED <<shopVars, hasLegacyId, variants, freshVariants, job, mishaps>>

UpsertVariants(i) ==
  /\ importer[i].phase = "variants"
  /\ LET page == importer[i].page IN
     /\ variants' = [p \in Products |-> IF p \in page THEN "sellable" ELSE variants[p]]
     /\ freshVariants' = freshVariants \cup page
  /\ importer' = [importer EXCEPT ![i].phase = IF importer[i].last THEN "archive" ELSE "advance"]
  /\ UNCHANGED <<shopVars, cached, hasLegacyId, fresh, job, mishaps>>

\* The next page is for whoever claims the job next.
Advance(i) ==
  /\ importer[i].phase = "advance"
  /\ \E p \in importer[i].page :
       job' = [status |-> "queued", cursor |-> p, attempts |-> 0, lease |-> 0]
  /\ importer' = [importer EXCEPT ![i] = NoStep]
  /\ UNCHANGED <<shopVars, rowVars, mishaps>>

\* "Cleanup only after every page completed."
Archive(i) ==
  /\ importer[i].phase = "archive"
  /\ cached' = [p \in Products |->
       IF cached[p] # "none" /\ p \notin fresh THEN "archived" ELSE cached[p]]
  /\ fresh' = {p \in Products : cached[p] # "none"}
  /\ importer' = [importer EXCEPT ![i].phase = "delete"]
  /\ UNCHANGED <<shopVars, hasLegacyId, variants, freshVariants, job, mishaps>>

DeleteVariants(i) ==
  /\ importer[i].phase = "delete"
  /\ variants' = [p \in Products |-> IF p \notin freshVariants THEN "none" ELSE variants[p]]
  /\ importer' = [importer EXCEPT ![i].phase = "complete"]
  /\ UNCHANGED <<shopVars, cached, hasLegacyId, fresh, freshVariants, job, mishaps>>

CompleteImport(i) ==
  /\ importer[i].phase = "complete"
  /\ job' = [NoJob EXCEPT !.status = "completed"]
  /\ importer' = [importer EXCEPT ![i] = NoStep]
  /\ UNCHANGED <<shopVars, rowVars, mishaps>>

\* A page that cannot be read or stored is tried again, from its own cursor.
GivesUpImport(attempts) == attempts >= ImportAttempts

ImportFails(i) ==
  /\ importer[i].phase # "idle" /\ Mishap
  /\ LET attempts == importer[i].attempts + 1 IN
     job' = [job EXCEPT !.status = IF GivesUpImport(attempts) THEN "failed" ELSE "queued",
                        !.attempts = attempts, !.lease = 0]
  /\ importer' = [importer EXCEPT ![i] = NoStep]
  /\ UNCHANGED <<shopVars, rowVars>>

ImporterDies(i) ==
  /\ importer[i].phase # "idle" /\ Mishap
  /\ importer' = [importer EXCEPT ![i] = NoStep]
  /\ UNCHANGED <<shopVars, rowVars, job>>

\* Time passes: the lease runs out, requests reach their limit.
LeaseRunsDown ==
  /\ job.lease > 0
  /\ job' = [job EXCEPT !.lease = @ - 1]
  /\ IF \E i \in Importers : importer[i].left = 1 THEN Mishap ELSE UNCHANGED mishaps
  /\ importer' = [i \in Importers |->
       IF importer[i].left <= 1 THEN NoStep ELSE [importer[i] EXCEPT !.left = @ - 1]]
  /\ UNCHANGED <<shopVars, rowVars>>

----------------------------------------------------------------------------
NoteStep(n)   == HandleUpdate(n) \/ UpdateVariants(n) \/ HandleDelete(n) \/ BlockVariants(n)
ImportStep(i) == \/ FetchPage(i) \/ UpsertProducts(i) \/ UpsertVariants(i) \/ Advance(i)
                 \/ Archive(i) \/ DeleteVariants(i) \/ CompleteImport(i)

CatalogNext ==
  \/ Create \/ QueueImport \/ LeaseRunsDown
  \/ \E p \in Products : Remove(p)
  \/ \E n \in notes : NoteStep(n) \/ LoseNote(n)
  \/ \E i \in Importers : ClaimImport(i) \/ ImportStep(i) \/ ImportFails(i) \/ ImporterDies(i)

CatalogSpec == CatalogInit /\ [][CatalogNext]_catalogVars

\* An import is queued every night, the cron claims it every minute, Shopify
\* delivers its webhooks, time passes.
CatalogFairSpec ==
  /\ CatalogSpec
  /\ WF_catalogVars(QueueImport) /\ WF_catalogVars(LeaseRunsDown)
  /\ WF_catalogVars(\E n \in notes : NoteStep(n))
  /\ \A i \in Importers : WF_catalogVars(ClaimImport(i)) /\ WF_catalogVars(ImportStep(i))

----------------------------------------------------------------------------
(* Properties.                                                             *)

\* Every variable holds a value of its type.
CatalogTypeOK ==
  /\ exists \subseteq 1 .. born /\ born \in 0 .. MaxProduct
  /\ notes \subseteq [topic : {"update", "update variants", "delete", "delete variants"},
                      of : 1 .. born]
  /\ cached \in [Products -> {"none", "active", "archived"}]
  /\ variants \in [Products -> {"none", "sellable", "unsellable"}]
  /\ hasLegacyId \subseteq Products
  /\ fresh \subseteq Products /\ freshVariants \subseteq Products
  /\ job \in [status : {"none", "queued", "running", "completed", "failed"},
              cursor : 0 .. MaxProduct, attempts : 0 .. ImportAttempts, lease : 0 .. StepTime]
  /\ importer \in [Importers -> [phase : Phases, left : 0 .. StepTime,
                                 cursor : 0 .. MaxProduct, attempts : 0 .. ImportAttempts,
                                 page : SUBSET Products, last : BOOLEAN]]
  /\ mishaps \in 0 .. MaxMishaps

\* "A partial or interrupted import therefore never archives valid cache
\* rows": no step archives a product that exists, or loses or blocks its cached
\* stock, wherever imports fail, die or start again, and whatever is created and
\* deleted while they page.
ValidRowsAreKept ==
  [][\A p \in exists' : /\ cached'[p] # "archived"
                        /\ variants[p] = "sellable" => variants'[p] = "sellable"]_catalogVars

\* "Leases make concurrent cron/UI invocations safe": one worker at a time.
OneImporter == \A i, j \in Importers :
                 importer[i].phase # "idle" /\ importer[j].phase # "idle" => i = j

\* "Keep the rows marked unsellable": when products/delete has been handled,
\* the cache does not offer the product's variants any more.
DeletedIsUnsellable ==
  [][\A n \in notes \ notes' :
       /\ n.topic \in {"delete", "delete variants"} /\ mishaps' = mishaps
       /\ [n EXCEPT !.topic = "delete variants"] \notin notes'
       => variants'[n.of] # "sellable"]_catalogVars

\* Whatever late webhooks and stale pages bring back, a product that is gone
\* is archived in the end: the nightly import sees to it.
GoneIsArchived ==
  \A p \in Products : [](p <= born /\ p \notin exists => <>[](cached[p] # "active"))
=============================================================================

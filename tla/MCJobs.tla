------------------------------- MODULE MCJobs -------------------------------
(***************************************************************************)
(* The parts of the system that share no state with the publisher or with  *)
(* each other, side by side: focus says which of them moves.               *)
(***************************************************************************)
EXTENDS CronLock, UsageSync, CatalogRefresh, WebhookDelivery, CatalogSync,
        DefinitionsCache, StorefrontRuntime, DiscountCodes

CONSTANTS Parts, p, q, r, s, t, x, y, cron, anchor, other, none

VARIABLE focus

MCTwo      == {p, q}
MCRuns     == {r, s, t}
MCOrders   == {x, y}
MCOther    == {other}
MCOne      == {p}

AllParts  == {"lock", "usage", "refresh", "webhook", "catalog", "definitions",
              "storefront", "codes"}
FairParts == AllParts \ {"lock", "definitions"}

\* A part that does not move has one initial state; q is no code yet.
MCInit ==
  /\ Init /\ UsageInit /\ RefreshInit /\ WebhookInit /\ CatalogInit
  /\ DefinitionsInit /\ StorefrontInit /\ CodesInit
  /\ focus \in Parts
  /\ (focus # "lock" => hasRedis) /\ (focus # "catalog" => exists = {} /\ born = 0)
  /\ (focus # "storefront" => cart.paid = {} /\ waiting) /\ (focus # "codes" => ~nodeOpen)
  /\ codeRow[q] = NoCode

On(which) == focus = which /\ UNCHANGED focus

LockJob == On("lock") /\ Next
  /\ UNCHANGED <<usageVars, refreshVars, webhookVars, catalogVars,
                 definitionVars, storefrontVars, codeVars>>
UsageJob == On("usage") /\ UsageNext
  /\ UNCHANGED <<vars, refreshVars, webhookVars, catalogVars,
                 definitionVars, storefrontVars, codeVars>>
RefreshJob == On("refresh") /\ RefreshNext
  /\ UNCHANGED <<vars, usageVars, webhookVars, catalogVars,
                 definitionVars, storefrontVars, codeVars>>
WebhookJob == On("webhook") /\ WebhookNext
  /\ UNCHANGED <<vars, usageVars, refreshVars, catalogVars,
                 definitionVars, storefrontVars, codeVars>>
CatalogJob == On("catalog") /\ CatalogNext
  /\ UNCHANGED <<vars, usageVars, refreshVars, webhookVars,
                 definitionVars, storefrontVars, codeVars>>
DefinitionsJob == On("definitions") /\ DefinitionsNext
  /\ UNCHANGED <<vars, usageVars, refreshVars, webhookVars,
                 catalogVars, storefrontVars, codeVars>>
StorefrontJob == On("storefront") /\ StorefrontNext
  /\ UNCHANGED <<vars, usageVars, refreshVars, webhookVars,
                 catalogVars, definitionVars, codeVars>>
CodesJob == On("codes") /\ CodesNext
  /\ UNCHANGED <<vars, usageVars, refreshVars, webhookVars,
                 catalogVars, definitionVars, storefrontVars>>

MCNext == \/ LockJob \/ UsageJob \/ RefreshJob \/ WebhookJob \/ CatalogJob
          \/ DefinitionsJob \/ StorefrontJob \/ CodesJob

\* The fairness of each part, for the part that moves.
MCFairness ==
  /\ WF_usageVars(On("usage") /\ Drain) /\ WF_usageVars(On("usage") /\ CoolDown)
  /\ \A w \in Workers : WF_usageVars(On("usage") /\ Step(w))
  /\ WF_refreshVars(On("refresh") /\ TimePasses) /\ WF_refreshVars(On("refresh") /\ ReconStep)
  /\ \A d \in Drains : /\ WF_refreshVars(On("refresh") /\ Claim(d))
                       /\ WF_refreshVars(On("refresh") /\ DrainStep(d))
  /\ WF_webhookVars(On("webhook") /\ MinutePasses)
  /\ \A d \in Deliveries : /\ WF_webhookVars(On("webhook") /\ ~acked /\ Arrive(d))
                           /\ WF_webhookVars(On("webhook") /\ DeliveryStep(d))
  /\ WF_catalogVars(On("catalog") /\ QueueImport) /\ WF_catalogVars(On("catalog") /\ LeaseRunsDown)
  /\ WF_catalogVars(On("catalog") /\ \E n \in notes : NoteStep(n))
  /\ \A i \in Importers : /\ WF_catalogVars(On("catalog") /\ ClaimImport(i))
                          /\ WF_catalogVars(On("catalog") /\ ImportStep(i))
  /\ WF_storefrontVars(On("storefront") /\ FireTimer)
  /\ WF_storefrontVars(On("storefront") /\ FireRetry)
  /\ WF_storefrontVars(On("storefront") /\ GraceEnds)
  /\ WF_storefrontVars(On("storefront") /\ RunStep)
  /\ WF_codeVars(On("codes") /\ CodesDue /\ StartPublish)
  /\ WF_codeVars(On("codes") /\ CodePublishStep)
  /\ WF_codeVars(On("codes") /\ SeeCount) /\ WF_codeVars(On("codes") /\ RepairStep)

MCSpec == MCInit /\ [][MCNext]_<<focus, vars, usageVars, refreshVars, webhookVars,
                                 catalogVars, definitionVars, storefrontVars, codeVars>>
MCFairSpec == MCSpec /\ MCFairness

\* Every variable of every part holds a value of its type.
PartsTypeOK == /\ TypeOK /\ UsageTypeOK /\ WebhookTypeOK
               /\ RefreshTypeOK /\ CatalogTypeOK /\ DefinitionsTypeOK /\ StorefrontTypeOK
               /\ CodesTypeOK
=============================================================================

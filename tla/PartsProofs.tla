----------------------------- MODULE PartsProofs -----------------------------
(***************************************************************************)
(* The composition of the eight parts of MCJobs: each part's theorems hold *)
(* of it, because a step of the composition is a step of one part and a    *)
(* stutter of the others.                                                  *)
(***************************************************************************)
EXTENDS MCJobs, JobsProofs, CatalogProofs, DiscountCodesProofs

\* A run of the eight parts is a run of each part: whoever moves, the variables of
\* the others stay as they are, since the parts share none.
LEMMA PartsRun ==
  MCSpec => /\ Spec /\ UsageSpec /\ RefreshSpec /\ WebhookSpec /\ CatalogSpec
            /\ DefinitionsSpec /\ StorefrontSpec /\ CodesSpec
<1>1. MCInit => /\ Init /\ UsageInit /\ RefreshInit /\ WebhookInit /\ CatalogInit
                /\ DefinitionsInit /\ StorefrontInit /\ CodesInit
  BY DEF MCInit
<1> DEFINE all == <<focus, vars, usageVars, refreshVars, webhookVars,
                    catalogVars, definitionVars, storefrontVars, codeVars>>
<1>2. ASSUME [MCNext]_all
      PROVE  /\ [Next]_vars /\ [UsageNext]_usageVars /\ [RefreshNext]_refreshVars
             /\ [WebhookNext]_webhookVars /\ [CatalogNext]_catalogVars
             /\ [DefinitionsNext]_definitionVars /\ [StorefrontNext]_storefrontVars
             /\ [CodesNext]_codeVars
  BY <1>2 DEF MCNext, LockJob, UsageJob, RefreshJob, WebhookJob, CatalogJob, DefinitionsJob,
              StorefrontJob, CodesJob
<1>3. QED
  BY <1>1, <1>2, PTL DEF MCSpec, Spec, UsageSpec, RefreshSpec, WebhookSpec, CatalogSpec,
                         DefinitionsSpec, StorefrontSpec, CodesSpec

\* In every run of the eight parts side by side, each is well typed: the cron's
\* lock, the usage counts, webhooks, refresh queue, import, cache, page and codes.
THEOREM PartsTypeCorrect == MCSpec => []PartsTypeOK
<1>1. /\ TypeOK /\ UsageTypeOK /\ WebhookTypeOK /\ RefreshTypeOK /\ CatalogTypeOK
      /\ DefinitionsTypeOK /\ StorefrontTypeOK /\ CodesTypeOK
      => PartsTypeOK
  BY DEF PartsTypeOK
<1>2. QED
  BY <1>1, PartsRun, LockTypeCorrect, UsageTypeCorrect, WebhookTypeCorrect, RefreshTypeCorrect,
     CatalogTypeCorrect, DefinitionsTypeCorrect, StorefrontTypeCorrect, CodesTypeCorrect, PTL
=============================================================================

--------------------------- MODULE WebhookDelivery ---------------------------
(***************************************************************************)
(* One webhook of Shopify, delivered at least once (routes/webhooks.$.tsx):*)
(* its row of webhook_deliveries is claimed by the first delivery, taken   *)
(* over after a failure or when the claim is stale, and a delivery that    *)
(* cannot claim it answers from the row's status.  Shopify hangs up after  *)
(* five seconds and delivers again, whatever the handler is doing.         *)
(***************************************************************************)
EXTENDS Naturals

CONSTANTS Deliveries,   \* deliveries that may be under way at a time
          HookTime,     \* maxDuration of the route, in ticks
          StaleAfter,   \* the age at which a claim is stale
          MaxBreaks     \* bound on failing statements, handlers, processes

ASSUME WebhookAssumption == /\ HookTime \in Nat \ {0}
                            /\ StaleAfter \in Nat /\ HookTime <= StaleAfter
                            /\ MaxBreaks \in Nat

VARIABLES
  status,       \* webhook_deliveries.status
  claimAge,     \* ticks since its lastAttemptAt
  at,           \* where a delivery is
  spent,        \* ticks since it arrived
  claimed,      \* deliveryClaimed
  completions,  \* history: how often the handler ran to its end
  acked,        \* Shopify has seen a 2xx
  breaks

deliveryRow == <<status, claimAge>>
webhookVars == <<deliveryRow, at, spent, claimed, completions, acked, breaks>>

AtValues == {"away", "insert", "reclaim", "look", "work", "worked", "threw"}

WebhookInit ==
  /\ status = "none" /\ claimAge = 0
  /\ at = [d \in Deliveries |-> "away"]
  /\ spent = [d \in Deliveries |-> 0]
  /\ claimed = [d \in Deliveries |-> FALSE]
  /\ completions = 0 /\ acked = FALSE /\ breaks = 0

GoesTo(d, step) == at' = [at EXCEPT ![d] = step]


\* The delivery is answered or dead.
Leaves(d) == /\ GoesTo(d, "away")
             /\ spent' = [spent EXCEPT ![d] = 0]
             /\ claimed' = [claimed EXCEPT ![d] = FALSE]

Break == breaks < MaxBreaks /\ breaks' = breaks + 1

\* Shopify may have hung up before the answer comes.
Answer200 == acked' \in {TRUE, acked}

Processing == status' = "processing" /\ claimAge' = 0

Claims(d) == Processing /\ claimed' = [claimed EXCEPT ![d] = TRUE] /\ GoesTo(d, "work")

\* A delivery may be repeated after an answer, too.
Arrive(d) ==
  /\ at[d] = "away"
  /\ GoesTo(d, "insert")
  /\ UNCHANGED <<deliveryRow, spent, claimed, completions, acked, breaks>>

\* insert ... onConflictDoNothing
InsertClaim(d) ==
  /\ at[d] = "insert"
  /\ \/ status = "none" /\ Claims(d)
     \/ status # "none" /\ GoesTo(d, "reclaim") /\ UNCHANGED <<deliveryRow, claimed>>
  /\ UNCHANGED <<spent, completions, acked, breaks>>

StaleSoon   == status = "processing" /\ claimAge + 1 >= HookTime
NeverStolen == FALSE
StaleClaim  == status = "processing" /\ claimAge > StaleAfter
Reclaimable == status = "failed" \/ StaleClaim

Reclaim(d) ==
  /\ at[d] = "reclaim"
  /\ \/ Reclaimable /\ Claims(d)
     \/ ~Reclaimable /\ GoesTo(d, "look") /\ UNCHANGED <<deliveryRow, claimed>>
  /\ UNCHANGED <<spent, completions, acked, breaks>>

\* "Another invocation still owns the claim": 503, unless it is done.
Look(d) ==
  /\ at[d] = "look"
  /\ \/ status = "processed" /\ Answer200
     \/ status # "processed" /\ UNCHANGED acked
  /\ Leaves(d)
  /\ UNCHANGED <<deliveryRow, completions, breaks>>

\* "If the dedup check itself fails, fail open": the handler runs without a
\* claim, although the failed statement may have taken it.
DedupFails(d) ==
  /\ at[d] \in {"insert", "reclaim", "look"} /\ Break
  /\ \/ UNCHANGED deliveryRow
     \/ at[d] = "insert" /\ status = "none" /\ Processing
     \/ at[d] = "reclaim" /\ Reclaimable /\ Processing
  /\ GoesTo(d, "work")
  /\ UNCHANGED <<spent, claimed, completions, acked>>

\* The handler ends, or an integration refuses for good, which counts as done.
HandlerDone(d) ==
  /\ at[d] = "work"
  /\ completions' = completions + 1
  /\ GoesTo(d, "worked")
  /\ UNCHANGED <<deliveryRow, spent, claimed, acked, breaks>>

HandlerThrows(d) ==
  /\ at[d] = "work" /\ Break
  /\ GoesTo(d, "threw")
  /\ UNCHANGED <<deliveryRow, spent, claimed, completions, acked>>

\* Whether an error is recorded does not change the answer: 503.
AnyStatus(d)     == "processed"
SettledStatus(d) == IF at[d] = "worked" THEN "processed" ELSE "failed"

Settle(d) ==
  /\ at[d] \in {"worked", "threw"}
  /\ \/ claimed[d] /\ status' = SettledStatus(d) /\ claimAge' = 0
     \/ ~claimed[d] /\ UNCHANGED deliveryRow
  /\ IF at[d] = "worked" THEN Answer200 ELSE UNCHANGED acked
  /\ Leaves(d)
  /\ UNCHANGED <<completions, breaks>>

\* The last update throws, whether or not it is done: 500 or 503.
SettleThrows(d) ==
  /\ at[d] \in {"worked", "threw"} /\ claimed[d] /\ Break
  /\ \/ UNCHANGED deliveryRow
     \/ status' = SettledStatus(d) /\ claimAge' = 0
  /\ Leaves(d)
  /\ UNCHANGED <<completions, acked>>

Dies(d) ==
  /\ at[d] # "away" /\ Break
  /\ Leaves(d)
  /\ UNCHANGED <<deliveryRow, completions, acked>>

\* Time passes; whoever reaches maxDuration is ended.  Ages beyond the stale
\* are not told apart.
EndsNow(d) == at[d] # "away" /\ spent[d] + 1 = HookTime

MinutePasses ==
  /\ claimAge' = IF status = "processing" /\ claimAge <= StaleAfter
                 THEN claimAge + 1 ELSE claimAge
  /\ IF \E d \in Deliveries : EndsNow(d) THEN Break ELSE UNCHANGED breaks
  /\ at' = [d \in Deliveries |-> IF EndsNow(d) THEN "away" ELSE at[d]]
  /\ claimed' = [d \in Deliveries |-> ~EndsNow(d) /\ claimed[d]]
  /\ spent' = [d \in Deliveries |->
                 IF at[d] = "away" \/ EndsNow(d) THEN 0 ELSE spent[d] + 1]
  /\ UNCHANGED <<status, completions, acked>>

DeliveryStep(d) == InsertClaim(d) \/ Reclaim(d) \/ Look(d) \/ HandlerDone(d) \/ Settle(d)

WebhookNext ==
  \/ MinutePasses
  \/ \E d \in Deliveries : \/ Arrive(d) \/ DeliveryStep(d) \/ DedupFails(d)
                           \/ HandlerThrows(d) \/ SettleThrows(d) \/ Dies(d)

WebhookSpec == WebhookInit /\ [][WebhookNext]_webhookVars

\* Shopify delivers again until it sees a 2xx.
WebhookFairSpec ==
  /\ WebhookSpec /\ WF_webhookVars(MinutePasses)
  /\ \A d \in Deliveries : WF_webhookVars(~acked /\ Arrive(d)) /\ WF_webhookVars(DeliveryStep(d))

----------------------------------------------------------------------------
(* Properties.                                                             *)

\* Every variable holds a value of its type; only who works holds a claim.
WebhookTypeOK ==
  /\ status \in {"none", "processing", "failed", "processed"}
  /\ claimAge \in 0 .. StaleAfter + 1
  /\ at \in [Deliveries -> AtValues]
  /\ spent \in [Deliveries -> 0 .. HookTime - 1]
  /\ claimed \in [Deliveries -> BOOLEAN]
  /\ \A d \in Deliveries : claimed[d] => at[d] \in {"work", "worked", "threw"}
  /\ completions \in Nat /\ acked \in BOOLEAN /\ breaks \in 0 .. MaxBreaks

\* "Acknowledging an unknown failure would permanently lose the webhook":
\* Shopify is told to stop, and the row says processed, only once a handler
\* has run to its end, whatever was answered to the deliveries beside it.
AckMeansHandled == acked \/ status = "processed" => completions > 0

\* Two deliveries never hold the claim together: a claim is stale only when
\* its handler is dead.
OneClaim == \A d, e \in Deliveries : claimed[d] /\ claimed[e] => d = e

\* Whatever fails, as long as it does not fail for ever, a webhook that was
\* delivered once is handled.
WebhookIsHandled == (\E d \in Deliveries : at[d] # "away") ~> completions > 0
=============================================================================

--------------------------- MODULE CatalogProofs ---------------------------
(***************************************************************************)
(* Proofs about what keeps the copy of a catalogue: WebhookDelivery (the   *)
(* claim of a delivery and its answer), CatalogRefresh (the queue of       *)
(* variants to be read again and its drains) and CatalogSync (the import   *)
(* under a lease), for any number of deliveries, drains, workers and       *)
(* products and for every bound. The three share no variable; each has its *)
(* own inductive invariant.                                                *)
(***************************************************************************)
EXTENDS WebhookDelivery, CatalogRefresh, CatalogSync, FiniteSetTheorems, TLAPS

----------------------------------------------------------------------------
(* WebhookDelivery: its types.                                             *)

LEMMA WebhookTypeInit == WebhookInit => WebhookTypeOK
<1> SUFFICES ASSUME WebhookInit PROVE WebhookTypeOK
  OBVIOUS
<1>1. 0 \in 0 .. StaleAfter + 1 /\ 0 \in 0 .. HookTime - 1 /\ 0 \in 0 .. MaxBreaks
  BY WebhookAssumption
<1>2. /\ at \in [Deliveries -> AtValues] /\ spent \in [Deliveries -> 0 .. HookTime - 1]
      /\ claimed \in [Deliveries -> BOOLEAN] /\ \A d \in Deliveries : ~claimed[d]
  BY <1>1 DEF WebhookInit, AtValues
<1>3. QED BY <1>1, <1>2 DEF WebhookInit, WebhookTypeOK

\* A delivery that takes the claim goes to work.
LEMMA ClaimsTyped ==
  ASSUME WebhookTypeOK, NEW d \in Deliveries, Claims(d)
  PROVE  /\ status' = "processing" /\ claimAge' \in 0 .. StaleAfter + 1
         /\ at' \in [Deliveries -> AtValues] /\ claimed' \in [Deliveries -> BOOLEAN]
         /\ \A e \in Deliveries : claimed'[e] => at'[e] \in {"work", "worked", "threw"}
<1>1. claimAge' = 0 /\ 0 \in 0 .. StaleAfter + 1 /\ status' = "processing"
  BY WebhookAssumption DEF Claims, Processing
<1>2. /\ at' = [at EXCEPT ![d] = "work"] /\ claimed' = [claimed EXCEPT ![d] = TRUE]
      /\ at \in [Deliveries -> AtValues] /\ claimed \in [Deliveries -> BOOLEAN]
      /\ \A e \in Deliveries : claimed[e] => at[e] \in {"work", "worked", "threw"}
  BY DEF WebhookTypeOK, Claims, GoesTo
<1>3. at' \in [Deliveries -> AtValues] /\ claimed' \in [Deliveries -> BOOLEAN]
  BY <1>2 DEF AtValues
<1>4. ASSUME NEW e \in Deliveries, claimed'[e] PROVE at'[e] \in {"work", "worked", "threw"}
  <2>1. CASE e = d
    BY <1>2, <2>1
  <2>2. CASE e # d
    BY <1>2, <1>4, <2>2
  <2>3. QED BY <2>1, <2>2
<1>5. QED BY <1>1, <1>3, <1>4

LEMMA AnswerTyped ==
  ASSUME acked \in BOOLEAN, Answer200 \/ UNCHANGED acked PROVE acked' \in BOOLEAN
  BY DEF Answer200

LEMMA WebhookTypeNext == WebhookTypeOK /\ [WebhookNext]_webhookVars => WebhookTypeOK'
<1> SUFFICES ASSUME WebhookTypeOK, [WebhookNext]_webhookVars PROVE WebhookTypeOK'
  OBVIOUS
<1> USE WebhookAssumption DEF WebhookTypeOK, AtValues, deliveryRow, GoesTo, Break,
        Processing, Leaves
<1>1. CASE MinutePasses
  <2>1. /\ claimAge' \in 0 .. StaleAfter + 1 /\ breaks' \in 0 .. MaxBreaks
        /\ UNCHANGED <<status, completions, acked>>
    BY <1>1 DEF MinutePasses
  <2>2. at' \in [Deliveries -> AtValues]
    BY <1>1 DEF MinutePasses, EndsNow
  <2>3. spent' \in [Deliveries -> 0 .. HookTime - 1]
    BY <1>1 DEF MinutePasses, EndsNow
  <2>4. /\ claimed' \in [Deliveries -> BOOLEAN]
        /\ \A d \in Deliveries : claimed'[d] => at'[d] \in {"work", "worked", "threw"}
    BY <1>1 DEF MinutePasses, EndsNow
  <2>5. QED BY <2>1, <2>2, <2>3, <2>4
<1>2. ASSUME NEW d \in Deliveries, Arrive(d) PROVE WebhookTypeOK'
  BY <1>2 DEF Arrive
<1>3. ASSUME NEW d \in Deliveries, InsertClaim(d) PROVE WebhookTypeOK'
  <2>1. CASE Claims(d)
    BY <1>3, <2>1, ClaimsTyped DEF InsertClaim
  <2>2. CASE GoesTo(d, "reclaim") /\ UNCHANGED <<deliveryRow, claimed>>
    BY <1>3, <2>2 DEF InsertClaim
  <2>3. QED BY <1>3, <2>1, <2>2 DEF InsertClaim
<1>4. ASSUME NEW d \in Deliveries, Reclaim(d) PROVE WebhookTypeOK'
  <2>1. CASE Claims(d)
    BY <1>4, <2>1, ClaimsTyped DEF Reclaim
  <2>2. CASE GoesTo(d, "look") /\ UNCHANGED <<deliveryRow, claimed>>
    BY <1>4, <2>2 DEF Reclaim
  <2>3. QED BY <1>4, <2>1, <2>2 DEF Reclaim
<1>5. ASSUME NEW d \in Deliveries, Look(d) PROVE WebhookTypeOK'
  <2>1. acked' \in BOOLEAN
    BY <1>5, AnswerTyped DEF Look
  <2>2. QED BY <1>5, <2>1 DEF Look
<1>6. ASSUME NEW d \in Deliveries, DedupFails(d) PROVE WebhookTypeOK'
  BY <1>6 DEF DedupFails
<1>7. ASSUME NEW d \in Deliveries, HandlerDone(d) PROVE WebhookTypeOK'
  BY <1>7 DEF HandlerDone
<1>8. ASSUME NEW d \in Deliveries, HandlerThrows(d) PROVE WebhookTypeOK'
  BY <1>8 DEF HandlerThrows
<1>9. ASSUME NEW d \in Deliveries, Settle(d) PROVE WebhookTypeOK'
  <2>1. acked' \in BOOLEAN
    BY <1>9, AnswerTyped DEF Settle
  <2>2. status' \in {"none", "processing", "failed", "processed"}
    BY <1>9 DEF Settle, SettledStatus
  <2>3. claimAge' \in 0 .. StaleAfter + 1
    BY <1>9 DEF Settle
  <2>4. QED BY <1>9, <2>1, <2>2, <2>3 DEF Settle
<1>10. ASSUME NEW d \in Deliveries, SettleThrows(d) PROVE WebhookTypeOK'
  BY <1>10 DEF SettleThrows, SettledStatus
<1>11. ASSUME NEW d \in Deliveries, Dies(d) PROVE WebhookTypeOK'
  BY <1>11 DEF Dies
<1>12. CASE UNCHANGED webhookVars
  BY <1>12 DEF webhookVars
<1>13. QED
  BY <1>1, <1>2, <1>3, <1>4, <1>5, <1>6, <1>7, <1>8, <1>9, <1>10, <1>11, <1>12
     DEF WebhookNext, DeliveryStep

\* WebhookTypeOK is an invariant: whatever arrives, fails, dies or is ended,
\* every variable keeps its type and only a delivery that works holds a claim.
THEOREM WebhookTypeCorrect == WebhookSpec => []WebhookTypeOK
<1>1. QED BY WebhookTypeInit, WebhookTypeNext, PTL DEF WebhookSpec

----------------------------------------------------------------------------
(* The claim.                                                              *)

\* A claim is as old as its delivery at most, so it is not stale before the
\* delivery has been ended.
ClaimInv ==
  /\ OneClaim
  /\ \A d \in Deliveries : claimed[d] => status = "processing" /\ claimAge <= spent[d]

LEMMA HeldIsFresh ==
  ASSUME WebhookTypeOK, ClaimInv, NEW d \in Deliveries, claimed[d]
  PROVE  status # "none" /\ ~Reclaimable
<1>1. spent[d] \in 0 .. HookTime - 1 /\ claimAge <= spent[d] /\ status = "processing"
  BY DEF WebhookTypeOK, ClaimInv
<1>2. claimAge \in Nat
  BY WebhookAssumption DEF WebhookTypeOK
<1>3. QED BY <1>1, <1>2, WebhookAssumption DEF Reclaimable, StaleClaim

LEMMA ClaimNext ==
  WebhookTypeOK /\ ClaimInv /\ [WebhookNext]_webhookVars => ClaimInv'
<1> SUFFICES ASSUME WebhookTypeOK, ClaimInv, [WebhookNext]_webhookVars PROVE ClaimInv'
  OBVIOUS
<1> USE WebhookAssumption DEF WebhookTypeOK, AtValues, deliveryRow, GoesTo, ClaimInv, OneClaim
<1>1. CASE MinutePasses
  <2>1. SUFFICES ASSUME NEW d \in Deliveries, claimed'[d]
                 PROVE  status' = "processing" /\ claimAge' <= spent'[d] /\ claimed[d]
    BY <1>1 DEF MinutePasses
  <2>2. claimed[d] /\ ~EndsNow(d) /\ at[d] # "away"
    BY <1>1, <2>1 DEF MinutePasses
  <2>3. spent'[d] = spent[d] + 1 /\ claimAge' <= claimAge + 1 /\ status' = status
    BY <1>1, <2>2 DEF MinutePasses
  <2>4. claimAge \in Nat /\ claimAge' \in Nat /\ spent[d] \in Nat /\ claimAge <= spent[d]
    BY <1>1, <2>2 DEF MinutePasses
  <2>5. QED BY <2>2, <2>3, <2>4
<1>2. ASSUME NEW d \in Deliveries, Processing, claimed' = [claimed EXCEPT ![d] = TRUE],
             status = "none" \/ Reclaimable, UNCHANGED spent
      PROVE  ClaimInv'
  <2>1. \A e \in Deliveries : ~claimed[e]
    BY <1>2, HeldIsFresh
  <2>2. \A e \in Deliveries : claimed'[e] => e = d
    BY <1>2, <2>1
  <2>3. QED BY <1>2, <2>2 DEF Processing
<1>3. ASSUME NEW d \in Deliveries, InsertClaim(d) PROVE ClaimInv'
  BY <1>2, <1>3 DEF InsertClaim, Claims
<1>4. ASSUME NEW d \in Deliveries, Reclaim(d) PROVE ClaimInv'
  BY <1>2, <1>4 DEF Reclaim, Claims
<1>5. ASSUME NEW d \in Deliveries, DedupFails(d) PROVE ClaimInv'
  <2>1. CASE UNCHANGED deliveryRow
    BY <1>5, <2>1 DEF DedupFails
  <2>2. CASE (status = "none" \/ Reclaimable) /\ Processing
    <3>1. \A e \in Deliveries : ~claimed[e]
      BY <2>2, HeldIsFresh
    <3>2. QED BY <1>5, <3>1 DEF DedupFails
  <2>3. QED BY <1>5, <2>1, <2>2 DEF DedupFails
<1>6. ASSUME NEW d \in Deliveries, Leaves(d), UNCHANGED deliveryRow PROVE ClaimInv'
  BY <1>6 DEF Leaves
<1>7. ASSUME NEW d \in Deliveries, Leaves(d), claimed[d] PROVE ClaimInv'
  <2>1. \A e \in Deliveries : ~claimed'[e]
    BY <1>7 DEF Leaves
  <2>2. QED BY <2>1
<1>8. ASSUME NEW d \in Deliveries, Settle(d) \/ SettleThrows(d) PROVE ClaimInv'
  BY <1>6, <1>7, <1>8 DEF Settle, SettleThrows
<1>9. ASSUME NEW d \in Deliveries, Look(d) \/ Dies(d) PROVE ClaimInv'
  BY <1>6, <1>9 DEF Look, Dies
<1>10. ASSUME NEW d \in Deliveries, Arrive(d) \/ HandlerDone(d) \/ HandlerThrows(d)
       PROVE  ClaimInv'
  BY <1>10 DEF Arrive, HandlerDone, HandlerThrows
<1>11. CASE UNCHANGED webhookVars
  BY <1>11 DEF webhookVars
<1>12. QED
  BY <1>1, <1>3, <1>4, <1>5, <1>8, <1>9, <1>10, <1>11 DEF WebhookNext, DeliveryStep

\* OneClaim: two deliveries never hold the claim together, because maxDuration
\* ends a handler before its claim is stale.
THEOREM ClaimIsUnique == WebhookSpec => []OneClaim
<1>1. WebhookInit => ClaimInv
  BY DEF WebhookInit, ClaimInv, OneClaim
<1>2. ClaimInv => OneClaim
  BY DEF ClaimInv
<1>3. QED BY <1>1, <1>2, ClaimNext, WebhookTypeCorrect, PTL DEF WebhookSpec

----------------------------------------------------------------------------
(* The acknowledgement.                                                    *)

\* A delivery that is about to answer 200 has a handler's end behind it.
AckInv == AckMeansHandled /\ \A d \in Deliveries : at[d] = "worked" => completions > 0

LEMMA AckNext == WebhookTypeOK /\ AckInv /\ [WebhookNext]_webhookVars => AckInv'
<1> SUFFICES ASSUME WebhookTypeOK, AckInv, [WebhookNext]_webhookVars PROVE AckInv'
  OBVIOUS
<1> USE DEF WebhookTypeOK, AtValues, deliveryRow, GoesTo, AckInv, AckMeansHandled
<1>1. CASE MinutePasses
  BY <1>1 DEF MinutePasses
<1>2. ASSUME NEW d \in Deliveries, InsertClaim(d) \/ Reclaim(d) PROVE AckInv'
  BY <1>2 DEF InsertClaim, Reclaim, Claims, Processing
<1>3. ASSUME NEW d \in Deliveries, DedupFails(d) PROVE AckInv'
  BY <1>3 DEF DedupFails, Processing
<1>4. ASSUME NEW d \in Deliveries, Look(d) \/ Dies(d) PROVE AckInv'
  <2>1. /\ UNCHANGED <<status, completions>>
        /\ \A e \in Deliveries : at'[e] = "worked" => at[e] = "worked"
    BY <1>4 DEF Look, Dies, Leaves
  <2>2. CASE status = "processed"
    BY <2>1, <2>2
  <2>3. CASE status # "processed" /\ UNCHANGED acked
    BY <2>1, <2>3
  <2>4. QED BY <1>4, <2>2, <2>3 DEF Look, Dies
<1>5. ASSUME NEW d \in Deliveries, HandlerDone(d) PROVE AckInv'
  <2>1. completions' > 0
    BY <1>5 DEF HandlerDone
  <2>2. QED BY <2>1
<1>6. ASSUME NEW d \in Deliveries, Arrive(d) \/ HandlerThrows(d) PROVE AckInv'
  BY <1>6 DEF Arrive, HandlerThrows
<1>7. ASSUME NEW d \in Deliveries, Settle(d) \/ SettleThrows(d) PROVE AckInv'
  <2>1. /\ completions' = completions
        /\ \A e \in Deliveries : at'[e] = "worked" => at[e] = "worked"
    BY <1>7 DEF Settle, SettleThrows, Leaves
  <2>2. CASE at[d] = "worked"
    BY <2>1, <2>2
  <2>3. CASE at[d] # "worked"
    <3>1. acked' = acked /\ (status' = "processed" => status = "processed")
      BY <1>7, <2>3 DEF Settle, SettleThrows, SettledStatus
    <3>2. QED BY <2>1, <3>1
  <2>4. QED BY <2>2, <2>3
<1>8. CASE UNCHANGED webhookVars
  BY <1>8 DEF webhookVars
<1>9. QED
  BY <1>1, <1>2, <1>3, <1>4, <1>5, <1>6, <1>7, <1>8 DEF WebhookNext, DeliveryStep

\* AckMeansHandled: Shopify is told to stop, and the row says processed, only
\* after a handler has run to its end.
THEOREM NothingIsLost == WebhookSpec => []AckMeansHandled
<1>1. WebhookInit => AckInv
  BY DEF WebhookInit, AckInv, AckMeansHandled
<1>2. AckInv => AckMeansHandled
  BY DEF AckInv
<1>3. QED BY <1>1, <1>2, AckNext, WebhookTypeCorrect, PTL DEF WebhookSpec

----------------------------------------------------------------------------
(* CatalogRefresh.                                                         *)

\* The rows that a drain at work still has to handle.
Holds(d, k) == drain[d].phase # "idle" /\ k \in drain[d].rows

\* A drain works only as long as its lease: the rows it holds are there, are
\* leased for as long as it may still work, and are held by nobody else.
HeldInv ==
  \A d \in Drains :
    /\ drain[d].phase # "idle" => drain[d].rows # {}
    /\ \A k \in Kinds : Holds(d, k) =>
         /\ queue[k] # Absent /\ queue[k].attempts >= 1
         /\ 1 <= drain[d].left /\ drain[d].left <= queue[k].lease
         /\ \A e \in Drains : Holds(e, k) => e = d

\* The rows of the queue, the webhooks under way and the drains.
RequestRows == [newer : BOOLEAN, lease : Nat, attempts : 0 .. RefreshAttempts]
HookRows    == [kind : Kinds, of : 1 .. stock, step : {"sent", "fresh", "stamped"},
                late : BOOLEAN]
DrainStates == [phase : {"idle", "read", "write", "done"}, left : 0 .. DrainTime,
                rows : SUBSET Kinds, got : 0 .. stock]

\* Exponentiation keeps to the naturals (the back-off of a row doubles).
LEMMA PowerIsNatural == ASSUME NEW n \in Nat PROVE 2 ^ n \in Nat
<1>1. IsFiniteSet(1 .. n) /\ Cardinality(1 .. n) = n
  BY FS_Interval
<1>2. IsFiniteSet(SUBSET (1 .. n)) /\ Cardinality(SUBSET (1 .. n)) = 2 ^ Cardinality(1 .. n)
  BY <1>1, FS_SUBSET
<1>3. Cardinality(SUBSET (1 .. n)) \in Nat
  BY <1>2, FS_CardinalityType
<1>4. QED BY <1>1, <1>2, <1>3, Zenon

LEMMA RefreshTypeInit == RefreshInit => RefreshTypeOK
  BY RefreshAssumption DEF RefreshInit, RefreshTypeOK, NoDrain, NoRecon, Answer, Kinds

\* The row a drain is at is one of those it holds.
LEMMA CurrentIsHeld ==
  ASSUME RefreshTypeOK, HeldInv, NEW d \in Drains, drain[d].phase # "idle"
  PROVE  /\ Current(d) \in Kinds /\ Holds(d, Current(d))
         /\ queue[Current(d)] # Absent /\ queue[Current(d)] \in RequestRows
         /\ queue[Current(d)].attempts >= 1
<1>1. drain[d].rows \subseteq Kinds /\ drain[d].rows # {}
  BY DEF RefreshTypeOK, HeldInv
<1>2. Current(d) \in Kinds /\ Current(d) \in drain[d].rows
  BY <1>1 DEF Current, Kinds
<1>3. queue[Current(d)] \in RequestRows \cup {Absent}
  BY <1>2 DEF RefreshTypeOK, RequestRows
<1>4. QED BY <1>2, <1>3 DEF HeldInv, Holds

\* Types: what Shopify and the webhooks do.
LEMMA ChangeTyped ==
  ASSUME RefreshTypeOK, NEW kinds \in SUBSET Kinds \ {{}}, Change(kinds) PROVE RefreshTypeOK'
<1> USE DEF webVars, cacheVars, queueVars
<1>1. /\ stock' = stock + 1 /\ sent' = sent + (IF kinds = Kinds THEN 2 ELSE 1)
      /\ sent' <= MaxHooks /\ stock \in 0 .. sent /\ sent \in 0 .. MaxHooks
      /\ UNCHANGED <<cacheVars, queueVars, drain, recon, troubles>>
  BY DEF Change, RefreshTypeOK
<1>2. stock' \in 0 .. sent' /\ sent' \in 0 .. MaxHooks /\ stock \in Nat /\ stock' \in Nat
  BY <1>1, RefreshAssumption
<1>3. /\ 0 .. stock \subseteq 0 .. stock' /\ 1 .. stock \subseteq 1 .. stock'
      /\ stock + 1 \in 1 .. stock'
  BY <1>1, <1>2
<1>4. hooks' \subseteq [kind : Kinds, of : 1 .. stock', step : {"sent", "fresh", "stamped"},
                        late : BOOLEAN]
  <2>1. hooks \subseteq [kind : Kinds, of : 1 .. stock', step : {"sent", "fresh", "stamped"},
                         late : BOOLEAN]
    BY <1>3 DEF RefreshTypeOK
  <2>2. {[kind |-> k, of |-> stock + 1, step |-> "sent", late |-> FALSE] : k \in kinds}
          \subseteq [kind : Kinds, of : 1 .. stock', step : {"sent", "fresh", "stamped"},
                     late : BOOLEAN]
    <3> SUFFICES ASSUME NEW k \in kinds
                 PROVE  [kind |-> k, of |-> stock + 1, step |-> "sent", late |-> FALSE]
                          \in [kind : Kinds, of : 1 .. stock', step : {"sent", "fresh", "stamped"},
                              late : BOOLEAN]
      OBVIOUS
    <3>1. k \in Kinds
      OBVIOUS
    <3>2. QED BY <1>3, <3>1
  <2>3. hooks' = hooks \cup
          {[kind |-> k, of |-> stock + 1, step |-> "sent", late |-> FALSE] : k \in kinds}
    BY DEF Change
  <2>4. QED BY <2>1, <2>2, <2>3
<1>5. /\ cache' \in [of : 0 .. stock', derived : BOOLEAN] /\ synced' \in 0 .. stock'
      /\ recon' \in [phase : {"idle", "ask", "write"},
                     before : [of : 0 .. stock', derived : BOOLEAN], live : 0 .. stock']
  BY <1>1, <1>3 DEF RefreshTypeOK
<1>6. noticed' \in [Kinds -> 0 .. stock'] /\ applied' \in [Kinds -> 0 .. stock']
  BY <1>1, <1>3 DEF RefreshTypeOK
<1>7. drain' \in [Drains -> [phase : {"idle", "read", "write", "done"}, left : 0 .. DrainTime,
                             rows : SUBSET Kinds, got : 0 .. stock']]
  BY <1>1, <1>3 DEF RefreshTypeOK
<1>8. QED BY <1>1, <1>2, <1>4, <1>5, <1>6, <1>7 DEF RefreshTypeOK

\* A webhook that goes on is one still.
LEMMA MoveTyped ==
  ASSUME RefreshTypeOK, NEW h \in hooks, NEW s \in {"sent", "fresh", "stamped"},
         Move(h, s) \/ hooks' = hooks \ {h}
  PROVE  hooks' \subseteq HookRows
<1>1. hooks \subseteq HookRows
  BY DEF RefreshTypeOK, HookRows
<1>2. [h EXCEPT !.step = s, !.late = FALSE] \in HookRows
  BY <1>1 DEF HookRows
<1>3. QED BY <1>1, <1>2 DEF Move

LEMMA HookTyped ==
  ASSUME RefreshTypeOK, NEW h \in hooks, HookStep(h) \/ LoseHook(h) PROVE RefreshTypeOK'
<1> USE RefreshAssumption DEF webVars, cacheVars, queueVars, Setback
<1>1. CASE CheckPayload(h)
  BY <1>1, MoveTyped DEF CheckPayload, RefreshTypeOK, HookRows
<1>2. CASE CachePayload(h)
  <2>1. hooks' \subseteq HookRows /\ h.of \in 0 .. stock
    BY <1>2, MoveTyped DEF CachePayload, RefreshTypeOK
  <2>2. cache' \in [of : 0 .. stock, derived : BOOLEAN] /\ synced' \in 0 .. stock
    BY <1>2, <2>1 DEF CachePayload, RefreshTypeOK
  <2>3. QED BY <1>2, <2>1, <2>2 DEF CachePayload, RefreshTypeOK, HookRows
<1>3. CASE Stamp(h)
  BY <1>3, MoveTyped DEF Stamp, RefreshTypeOK, HookRows
<1>4. CASE Enqueue(h)
  <2>1. h.kind \in Kinds /\ h.of \in 0 .. stock /\ h.late \in BOOLEAN
    BY DEF RefreshTypeOK
  <2>2. Requested(queue[h.kind], h) \in RequestRows
    <3>1. CASE queue[h.kind] = Absent
      BY <3>1 DEF Requested, NewRow, RequestRows
    <3>2. CASE queue[h.kind] \in RequestRows
      <4>1. (~h.late) \in BOOLEAN
        BY <2>1
      <4>2. [queue[h.kind] EXCEPT !.newer = ~h.late] \in RequestRows
        BY <3>2, <4>1 DEF RequestRows
      <4>3. QED BY <3>1, <4>2 DEF Requested
    <3>3. QED BY <2>1, <3>1, <3>2 DEF RefreshTypeOK, RequestRows
  <2>3. queue' \in [Kinds -> RequestRows \cup {Absent}]
    BY <1>4, <2>1, <2>2 DEF Enqueue, RefreshTypeOK, RequestRows
  <2>4. noticed' \in [Kinds -> 0 .. stock] /\ excused' \in [Kinds -> BOOLEAN]
    BY <1>4, <2>1 DEF Enqueue, RefreshTypeOK
  <2>5. /\ hooks' \subseteq HookRows /\ troubles' \in 0 .. MaxTroubles
    BY <1>4, MoveTyped DEF Enqueue, RefreshTypeOK
  <2>6. QED BY <1>4, <2>3, <2>4, <2>5 DEF Enqueue, RefreshTypeOK, RequestRows, HookRows
<1>5. CASE LoseHook(h)
  BY <1>5 DEF LoseHook, RefreshTypeOK
<1>6. QED BY <1>1, <1>2, <1>3, <1>4, <1>5 DEF HookStep

\* Types: the drains.
LEMMA ClaimTyped ==
  ASSUME RefreshTypeOK, NEW d \in Drains, Claim(d) PROVE RefreshTypeOK'
<1> USE RefreshAssumption DEF webVars, cacheVars, queueVars
<1>1. Due \subseteq Kinds
  BY DEF Due
<1>2. queue' \in [Kinds -> RequestRows \cup {Absent}]
  <2>1. \A k \in Due : queue[k].attempts \in 0 .. RefreshAttempts
    BY DEF Due, RefreshTypeOK
  <2>2. \A k \in Due : [newer |-> FALSE, lease |-> Lease,
                        attempts |-> NextAttempt(queue[k].attempts)]
                         \in RequestRows
    BY <2>1 DEF NextAttempt, Lease, RequestRows
  <2>3. QED BY <2>2 DEF Claim, RefreshTypeOK, RequestRows
<1>3. hooks' \subseteq HookRows
  <2>1. \A h \in hooks : [h EXCEPT !.late = @ \/ (h.step = "stamped" /\ h.kind \in Due)]
                            \in HookRows
    <3> SUFFICES ASSUME NEW h \in hooks
                 PROVE  [h EXCEPT !.late = @ \/ (h.step = "stamped" /\ h.kind \in Due)]
                          \in HookRows
      OBVIOUS
    <3>1. h \in HookRows
      BY DEF RefreshTypeOK, HookRows
    <3>2. (h.late \/ (h.step = "stamped" /\ h.kind \in Due)) \in BOOLEAN
      BY <3>1 DEF HookRows
    <3>3. QED BY <3>1, <3>2 DEF HookRows
  <2>2. QED BY <2>1 DEF Claim
<1>4. drain' \in [Drains -> DrainStates]
  BY <1>1 DEF Claim, RefreshTypeOK, DrainStates
<1>5. QED BY <1>2, <1>3, <1>4 DEF Claim, RefreshTypeOK, RequestRows, HookRows, DrainStates

LEMMA ProceedTyped ==
  ASSUME RefreshTypeOK, NEW d \in Drains, NEW rows \in SUBSET Kinds, Proceed(d, rows)
  PROVE  drain' \in [Drains -> DrainStates]
<1>1. NoDrain \in DrainStates /\ drain \in [Drains -> DrainStates]
  BY RefreshAssumption DEF NoDrain, DrainStates, RefreshTypeOK
<1>2. [drain[d] EXCEPT !.rows = rows, !.phase = "read", !.got = 0] \in DrainStates
  <2>1. drain[d] \in DrainStates /\ 0 \in 0 .. stock
    BY <1>1 DEF RefreshTypeOK
  <2>2. [drain[d] EXCEPT !.rows = rows] \in DrainStates
    BY <2>1 DEF DrainStates
  <2>3. [[drain[d] EXCEPT !.rows = rows] EXCEPT !.phase = "read"] \in DrainStates
    BY <2>2 DEF DrainStates
  <2>4. [[[drain[d] EXCEPT !.rows = rows] EXCEPT !.phase = "read"] EXCEPT !.got = 0] \in DrainStates
    BY <2>1, <2>3 DEF DrainStates
  <2>5. QED BY <2>4
<1>3. QED BY <1>1, <1>2 DEF Proceed

LEMMA DrainTyped ==
  ASSUME RefreshTypeOK, HeldInv, NEW d \in Drains, DrainStep(d) \/ Fail(d) \/ KillDrain(d)
  PROVE  RefreshTypeOK'
<1> USE RefreshAssumption DEF webVars, cacheVars, queueVars, Setback
<1>1. CASE ReadStock(d)
  <2>1. drain' \in [Drains -> DrainStates]
    <3>1. drain \in [Drains -> DrainStates] /\ stock \in 0 .. stock
      BY DEF RefreshTypeOK, DrainStates
    <3>2. [drain EXCEPT ![d].phase = "write"] \in [Drains -> DrainStates]
      BY <3>1 DEF DrainStates
    <3>3. [[drain EXCEPT ![d].phase = "write"] EXCEPT ![d].got = stock]
            \in [Drains -> DrainStates]
      BY <3>1, <3>2 DEF DrainStates
    <3>4. QED BY <1>1, <3>3 DEF ReadStock
  <2>2. QED BY <1>1, <2>1 DEF ReadStock, RefreshTypeOK, DrainStates
<1>2. CASE WriteStock(d)
  <2>1. Current(d) \in Kinds /\ drain[d].got \in 0 .. stock
    BY DEF Current, Kinds, RefreshTypeOK
  <2>2. QED BY <1>2, <2>1 DEF WriteStock, RefreshTypeOK, Answer
<1>3. CASE Complete(d)
  <2>1. drain' \in [Drains -> DrainStates]
    BY <1>3, ProceedTyped DEF Complete, RefreshTypeOK
  <2>2. Current(d) \in Kinds
    BY DEF Current, Kinds
  <2>3. queue' \in [Kinds -> RequestRows \cup {Absent}]
    <3>1. queue[Current(d)] # Absent
            => [queue[Current(d)] EXCEPT !.lease = 0, !.attempts = 0] \in RequestRows
      <4> SUFFICES ASSUME queue[Current(d)] # Absent
                   PROVE  [[queue[Current(d)] EXCEPT !.lease = 0] EXCEPT !.attempts = 0]
                            \in RequestRows
        OBVIOUS
      <4>1. queue[Current(d)] \in RequestRows
        BY <2>2 DEF RefreshTypeOK, RequestRows
      <4>2. [queue[Current(d)] EXCEPT !.lease = 0] \in RequestRows
        BY <4>1 DEF RequestRows
      <4>3. 0 \in 0 .. RefreshAttempts
        OBVIOUS
      <4>4. QED BY <4>2, <4>3 DEF RequestRows
    <3>2. queue \in [Kinds -> RequestRows \cup {Absent}]
      BY DEF RefreshTypeOK, RequestRows
    <3>3. QED BY <1>3, <2>2, <3>1, <3>2 DEF Complete
  <2>4. QED BY <1>3, <2>1, <2>3 DEF Complete, RefreshTypeOK, RequestRows, DrainStates
<1>4. CASE Fail(d)
  <2>1. drain' \in [Drains -> DrainStates]
    BY <1>4, ProceedTyped DEF Fail, RefreshTypeOK
  <2>2. /\ Current(d) \in Kinds /\ queue[Current(d)] \in RequestRows
        /\ queue[Current(d)].attempts - 1 \in Nat
    BY <1>4, CurrentIsHeld DEF Fail, RequestRows
  <2>3. 2 ^ (queue[Current(d)].attempts - 1) \in Nat
    BY <2>2, PowerIsNatural
  <2>4. queue' \in [Kinds -> RequestRows \cup {Absent}] /\ excused' \in [Kinds -> BOOLEAN]
    <3> DEFINE power == 2 ^ (queue[Current(d)].attempts - 1)
    <3>1. power \in Nat
      BY <2>3
    <3>2. \/ UNCHANGED <<queue, excused>>
          \/ /\ queue' = [queue EXCEPT ![Current(d)] = Absent]
             /\ excused' = [excused EXCEPT ![Current(d)] = TRUE]
          \/ queue' = [queue EXCEPT ![Current(d)].lease = power] /\ UNCHANGED excused
      BY <1>4 DEF Fail
    <3> HIDE DEF power
    <3>3. queue \in [Kinds -> RequestRows \cup {Absent}] /\ excused \in [Kinds -> BOOLEAN]
      BY DEF RefreshTypeOK, RequestRows
    <3>4. [queue[Current(d)] EXCEPT !.lease = power] \in RequestRows
      BY <2>2, <3>1 DEF RequestRows
    <3>5. QED BY <2>2, <3>2, <3>3, <3>4
  <2>5. QED BY <1>4, <2>1, <2>4 DEF Fail, RefreshTypeOK, RequestRows, DrainStates
<1>5. CASE KillDrain(d)
  <2>1. drain' \in [Drains -> DrainStates]
    BY <1>5, ProceedTyped DEF KillDrain
  <2>2. QED BY <1>5, <2>1 DEF KillDrain, RefreshTypeOK, DrainStates
<1>6. QED BY <1>1, <1>2, <1>3, <1>4, <1>5 DEF DrainStep

LEMMA TimeTyped == RefreshTypeOK /\ TimePasses => RefreshTypeOK'
<1> SUFFICES ASSUME RefreshTypeOK, TimePasses PROVE RefreshTypeOK'
  OBVIOUS
<1> USE RefreshAssumption DEF webVars, cacheVars, queueVars, Setback
<1>1. queue' \in [Kinds -> RequestRows \cup {Absent}]
  BY DEF TimePasses, RefreshTypeOK, RequestRows
<1>2. drain' \in [Drains -> DrainStates]
  BY DEF TimePasses, RefreshTypeOK, DrainStates, NoDrain
<1>3. troubles' \in 0 .. MaxTroubles
  BY DEF TimePasses, RefreshTypeOK
<1>4. UNCHANGED <<webVars, cacheVars, noticed, excused, recon>>
  BY DEF TimePasses
<1>5. QED BY <1>1, <1>2, <1>3, <1>4 DEF RefreshTypeOK, RequestRows, DrainStates

\* Types: the reconciliation of the gift variants.
LEMMA ReconTyped == RefreshTypeOK /\ (ReconStep \/ ReconFails) => RefreshTypeOK'
<1> SUFFICES ASSUME RefreshTypeOK, ReconStep \/ ReconFails PROVE RefreshTypeOK'
  OBVIOUS
<1> USE DEF webVars, cacheVars, queueVars, Setback
<1> DEFINE Recons == [phase : {"idle", "ask", "write"},
                      before : [of : 0 .. stock, derived : BOOLEAN], live : 0 .. stock]
<1>1. /\ NoRecon \in Recons /\ 0 \in 0 .. stock /\ stock \in 0 .. stock
      /\ cache \in [of : 0 .. stock, derived : BOOLEAN]
  BY DEF NoRecon, RefreshTypeOK
<1>2. CASE ReconStart
  <2>1. [NoRecon EXCEPT !.phase = "ask"] \in Recons
    BY <1>1
  <2>2. [[NoRecon EXCEPT !.phase = "ask"] EXCEPT !.before = cache] \in Recons
    BY <1>1, <2>1
  <2>3. QED BY <1>2, <2>2 DEF ReconStart, RefreshTypeOK
<1>3. CASE ReconAsk
  <2>1. [NoRecon EXCEPT !.phase = "write"] \in Recons
    BY <1>1
  <2>2. [[NoRecon EXCEPT !.phase = "write"] EXCEPT !.live = stock] \in Recons
    BY <1>1, <2>1
  <2>3. QED BY <1>1, <1>3, <2>2 DEF ReconAsk, RefreshTypeOK
<1>4. CASE ReconWrite
  BY <1>1, <1>4 DEF ReconWrite, RefreshTypeOK, Answer
<1>5. CASE ReconFails
  <2>1. troubles' \in 0 .. MaxTroubles
    BY <1>5, RefreshAssumption DEF ReconFails, RefreshTypeOK
  <2>2. QED BY <1>1, <1>5, <2>1 DEF ReconFails, RefreshTypeOK
<1>6. QED BY <1>2, <1>3, <1>4, <1>5 DEF ReconStep

LEMMA RefreshTypeNext ==
  RefreshTypeOK /\ HeldInv /\ [RefreshNext]_refreshVars => RefreshTypeOK'
<1> SUFFICES ASSUME RefreshTypeOK, HeldInv, [RefreshNext]_refreshVars PROVE RefreshTypeOK'
  OBVIOUS
<1>1. CASE UNCHANGED refreshVars
  BY <1>1 DEF refreshVars, webVars, cacheVars, queueVars, RefreshTypeOK
<1>2. QED
  BY <1>1, ChangeTyped, HookTyped, ClaimTyped, DrainTyped, TimeTyped, ReconTyped
     DEF RefreshNext

\* What a drain has read of Shopify is as new as the last event noticed, unless
\* the row was requested again since, or the late insert of a webhook is to
\* blame.
AnsweredInv ==
  \A d \in Drains : drain[d].phase \in {"write", "done"} =>
    /\ \/ queue[Current(d)].newer \/ excused[Current(d)]
       \/ noticed[Current(d)] <= drain[d].got
    /\ \A h \in hooks : h.late /\ h.kind = Current(d) => h.of <= drain[d].got

\* What a drain is about to confirm has been written to the cache.
AppliedInv ==
  \A d \in Drains : drain[d].phase = "done" => applied[Current(d)] = drain[d].got

ServedInv == AnsweredInv /\ AppliedInv /\ EventNotSwallowed

\* What a drain that goes on to other rows leaves alone.
LEMMA ProceedEffect ==
  ASSUME RefreshTypeOK, NEW d \in Drains, NEW rows \in SUBSET Kinds, Proceed(d, rows)
  PROVE  /\ \A e \in Drains \ {d} : drain'[e] = drain[e]
         /\ rows = {} => drain'[d].phase = "idle" /\ drain'[d].rows = {}
         /\ rows # {} => /\ drain'[d].phase = "read" /\ drain'[d].rows = rows
                         /\ drain'[d].left = drain[d].left
<1> DEFINE next == [[[drain[d] EXCEPT !.rows = rows] EXCEPT !.phase = "read"] EXCEPT !.got = 0]
<1>1. drain \in [Drains -> DrainStates]
  BY DEF RefreshTypeOK, DrainStates
<1>2. drain' = [drain EXCEPT ![d] = IF rows = {} THEN NoDrain ELSE next]
  BY DEF Proceed
<1>3. next.phase = "read" /\ next.rows = rows /\ next.left = drain[d].left
  BY <1>1 DEF DrainStates
<1> HIDE DEF next
<1>4. drain'[d] = (IF rows = {} THEN NoDrain ELSE next)
  BY <1>1, <1>2
<1>5. QED BY <1>1, <1>2, <1>3, <1>4 DEF NoDrain

\* Nobody but the drain itself holds the row it is at.
LEMMA AloneAtIt ==
  ASSUME RefreshTypeOK, HeldInv, NEW d \in Drains, drain[d].phase # "idle",
         NEW e \in Drains \ {d}
  PROVE  /\ ~Holds(e, Current(d))
         /\ drain[e].phase # "idle" => Current(e) # Current(d)
  BY CurrentIsHeld DEF HeldInv

\* A held row is not due.
LEMMA HeldIsNotDue ==
  ASSUME RefreshTypeOK, HeldInv, NEW d \in Drains, NEW k \in Kinds, Holds(d, k)
  PROVE  k \notin Due
<1>1. drain[d].left \in Nat /\ drain[d].left >= 1 /\ drain[d].left <= queue[k].lease
  BY DEF HeldInv, RefreshTypeOK
<1>2. QED BY <1>1 DEF Due

\* A webhook that queues a row leaves the leases alone.
LEMMA EnqueueHeld ==
  ASSUME RefreshTypeOK, HeldInv, NEW h \in hooks, Enqueue(h)
  PROVE  /\ HeldInv'
         /\ \A k \in Kinds \ {h.kind} : /\ queue'[k] = queue[k] /\ noticed'[k] = noticed[k]
                                        /\ excused'[k] = excused[k]
         /\ queue'[h.kind] # Absent
         /\ queue[h.kind] # Absent => queue'[h.kind].newer = ~h.late
         /\ excused'[h.kind] = (excused[h.kind] \/ (queue[h.kind] # Absent /\ queue[h.kind].newer /\ h.late))
         /\ noticed'[h.kind] = IF h.of > noticed[h.kind] THEN h.of ELSE noticed[h.kind]
<1>1. h.kind \in Kinds /\ h.late \in BOOLEAN
  BY DEF RefreshTypeOK
<1>2. /\ queue \in [Kinds -> RequestRows \cup {Absent}] /\ noticed \in [Kinds -> 0 .. stock]
      /\ excused \in [Kinds -> BOOLEAN] /\ Absent \notin RequestRows
  <2>1. Absent \notin RequestRows
    BY RefreshAssumption DEF RequestRows
  <2>2. QED BY <2>1 DEF RefreshTypeOK, RequestRows
<1>3. /\ queue' = [queue EXCEPT ![h.kind] = Requested(@, h)] /\ drain' = drain
      /\ noticed' = [noticed EXCEPT ![h.kind] = IF h.of > @ THEN h.of ELSE @]
      /\ excused' = [excused EXCEPT ![h.kind] =
                       @ \/ (queue[h.kind] # Absent /\ queue[h.kind].newer /\ h.late)]
  BY DEF Enqueue
<1>4. /\ Requested(queue[h.kind], h) # Absent
      /\ queue[h.kind] # Absent =>
           /\ Requested(queue[h.kind], h).newer = ~h.late
           /\ Requested(queue[h.kind], h).lease = queue[h.kind].lease
           /\ Requested(queue[h.kind], h).attempts = queue[h.kind].attempts
  <2>1. CASE queue[h.kind] = Absent
    <3>1. NewRow \in RequestRows
      BY RefreshAssumption DEF NewRow, RequestRows
    <3>2. QED BY <1>2, <2>1, <3>1 DEF Requested
  <2>2. CASE queue[h.kind] # Absent
    <3>1. queue[h.kind] \in RequestRows /\ (~h.late) \in BOOLEAN
      BY <1>1, <1>2, <2>2
    <3>2. [queue[h.kind] EXCEPT !.newer = ~h.late] \in RequestRows
      BY <3>1 DEF RequestRows
    <3>3. /\ [queue[h.kind] EXCEPT !.newer = ~h.late].newer = ~h.late
          /\ [queue[h.kind] EXCEPT !.newer = ~h.late].lease = queue[h.kind].lease
          /\ [queue[h.kind] EXCEPT !.newer = ~h.late].attempts = queue[h.kind].attempts
      BY <3>1 DEF RequestRows
    <3>4. QED BY <1>2, <2>2, <3>2, <3>3 DEF Requested
  <2>3. QED BY <2>1, <2>2
<1>5. /\ \A k \in Kinds \ {h.kind} : /\ queue'[k] = queue[k] /\ noticed'[k] = noticed[k]
                                     /\ excused'[k] = excused[k]
      /\ queue'[h.kind] = Requested(queue[h.kind], h)
      /\ noticed'[h.kind] = IF h.of > noticed[h.kind] THEN h.of ELSE noticed[h.kind]
  BY <1>1, <1>2, <1>3
<1>6. excused'[h.kind] = (excused[h.kind] \/ (queue[h.kind] # Absent /\ queue[h.kind].newer /\ h.late))
  BY <1>1, <1>2, <1>3, Zenon
<1>7. HeldInv'
  BY <1>3, <1>4, <1>5 DEF HeldInv, Holds
<1>8. QED BY <1>4, <1>5, <1>6, <1>7

\* It makes the row newer, or adds one that nobody has read.
LEMMA EnqueueServed ==
  ASSUME RefreshTypeOK, HeldInv, ServedInv, NEW h \in hooks, Enqueue(h)
  PROVE  ServedInv'
<1>1. /\ h.kind \in Kinds /\ h.of \in Nat /\ \A k \in Kinds : noticed[k] \in Nat
      /\ \A d \in Drains : drain[d].got \in Nat
  BY DEF RefreshTypeOK
<1>2. drain' = drain /\ applied' = applied
  BY DEF Enqueue, cacheVars
<1>3. ASSUME NEW d \in Drains, drain[d].phase \in {"write", "done"}
      PROVE  \/ queue'[Current(d)].newer \/ excused'[Current(d)]
             \/ noticed'[Current(d)] <= drain[d].got
  <2>1. Current(d) \in Kinds /\ queue[Current(d)] # Absent
    BY <1>3, CurrentIsHeld
  <2>2. CASE Current(d) # h.kind
    BY <1>3, <2>1, <2>2, EnqueueHeld DEF ServedInv, AnsweredInv
  <2>3. CASE Current(d) = h.kind
    <3>1. /\ queue'[h.kind].newer = ~h.late
          /\ h.late /\ queue[h.kind].newer => excused'[h.kind]
          /\ excused[h.kind] => excused'[h.kind]
      BY <2>1, <2>3, EnqueueHeld
    <3>2. noticed'[h.kind] = IF h.of > noticed[h.kind] THEN h.of ELSE noticed[h.kind]
      BY EnqueueHeld
    <3>3. /\ \/ queue[h.kind].newer \/ excused[h.kind] \/ noticed[h.kind] <= drain[d].got
          /\ h.late => h.of <= drain[d].got
      BY <1>3, <2>3 DEF ServedInv, AnsweredInv
    <3>4. noticed[h.kind] <= drain[d].got /\ h.late => noticed'[h.kind] <= drain[d].got
      BY <1>1, <3>2, <3>3
    <3>5. QED BY <2>3, <3>1, <3>3, <3>4
  <2>4. QED BY <2>2, <2>3
<1>4. \A g \in hooks' : g.late => g \in hooks
  <2>1. h \in HookRows
    BY DEF RefreshTypeOK, HookRows
  <2>2. [[h EXCEPT !.step = "sent"] EXCEPT !.late = FALSE].late = FALSE
    BY <2>1 DEF HookRows
  <2>3. QED BY <2>2 DEF Enqueue, Move
<1>5. AnsweredInv'
  BY <1>2, <1>3, <1>4 DEF ServedInv, AnsweredInv, Current
<1>6. AppliedInv'
  BY <1>2 DEF ServedInv, AppliedInv, Current
<1>7. EventNotSwallowed'
  BY <1>2, EnqueueHeld DEF ServedInv, EventNotSwallowed
<1>8. QED BY <1>5, <1>6, <1>7 DEF ServedInv

\* Steps that touch neither a row nor a drain.
LEMMA QuietKeeps ==
  ASSUME HeldInv, ServedInv, UNCHANGED <<queueVars, drain, applied>>,
         \A g \in hooks' : g.late => g \in hooks
  PROVE  HeldInv' /\ ServedInv'
<1>1. HeldInv'
  BY DEF HeldInv, Holds, queueVars
<1>2. AnsweredInv'
  BY DEF ServedInv, AnsweredInv, Current, queueVars
<1>3. AppliedInv' /\ EventNotSwallowed'
  BY DEF ServedInv, AppliedInv, EventNotSwallowed, Current, queueVars
<1>4. QED BY <1>1, <1>2, <1>3 DEF ServedInv

\* Changes, the steps of a webhook before its insert, and the reconciliation.
LEMMA WebKeeps ==
  ASSUME RefreshTypeOK, HeldInv, ServedInv,
         \/ \E kinds \in SUBSET Kinds \ {{}} : Change(kinds)
         \/ \E h \in hooks : CheckPayload(h) \/ CachePayload(h) \/ Stamp(h) \/ LoseHook(h)
         \/ ReconStep \/ ReconFails
  PROVE  HeldInv' /\ ServedInv'
<1>1. ASSUME NEW h \in hooks, NEW s \in {"fresh", "stamped"}, Move(h, s) \/ hooks' = hooks \ {h}
      PROVE  \A g \in hooks' : g.late => g \in hooks
  <2>1. h \in HookRows
    BY DEF RefreshTypeOK, HookRows
  <2>2. [[h EXCEPT !.step = s] EXCEPT !.late = FALSE].late = FALSE
    BY <2>1 DEF HookRows
  <2>3. QED BY <1>1, <2>2 DEF Move
<1>2. CASE \E kinds \in SUBSET Kinds \ {{}} : Change(kinds)
  BY <1>2, QuietKeeps DEF Change, queueVars, cacheVars
<1>3. CASE \E h \in hooks : CheckPayload(h) \/ CachePayload(h) \/ Stamp(h) \/ LoseHook(h)
  <2>1. UNCHANGED <<queueVars, drain, applied>>
    BY <1>3 DEF CheckPayload, CachePayload, Stamp, LoseHook, queueVars, cacheVars
  <2>2. \A g \in hooks' : g.late => g \in hooks
    BY <1>1, <1>3 DEF CheckPayload, CachePayload, Stamp, LoseHook
  <2>3. QED BY <2>1, <2>2, QuietKeeps
<1>4. CASE ReconStep \/ ReconFails
  BY <1>4, QuietKeeps
     DEF ReconStep, ReconStart, ReconAsk, ReconWrite, ReconFails, queueVars, cacheVars, webVars
<1>5. QED BY <1>2, <1>3, <1>4

----------------------------------------------------------------------------
(* The drains: claim, ask, write, confirm.                                 *)

\* A drain that claims the rows that are due takes none that is held.
LEMMA ClaimKeeps ==
  ASSUME RefreshTypeOK, HeldInv, ServedInv, NEW d \in Drains, Claim(d)
  PROVE  HeldInv' /\ ServedInv'
<1>1. /\ drain \in [Drains -> DrainStates] /\ queue \in [Kinds -> RequestRows \cup {Absent}]
      /\ hooks \subseteq HookRows /\ Absent \notin RequestRows
  <2>1. Absent \notin RequestRows
    BY RefreshAssumption DEF RequestRows
  <2>2. QED BY <2>1 DEF RefreshTypeOK, DrainStates, RequestRows, HookRows
<1>2. PICK left \in 1 .. DrainTime :
        drain' = [drain EXCEPT ![d] = [phase |-> "read", left |-> left, rows |-> Due, got |-> 0]]
  BY DEF Claim
<1>3. /\ drain[d].phase = "idle" /\ Due # {} /\ Due \subseteq Kinds
      /\ \A e \in Drains \ {d} : drain'[e] = drain[e]
      /\ drain'[d].phase = "read" /\ drain'[d].left = left /\ drain'[d].rows = Due
      /\ UNCHANGED <<noticed, excused, applied>>
  BY <1>1, <1>2 DEF Claim, Due, cacheVars
<1>4. \A k \in Kinds :
        /\ k \notin Due => queue'[k] = queue[k]
        /\ k \in Due => /\ queue'[k] = [newer |-> FALSE, lease |-> Lease,
                                        attempts |-> NextAttempt(queue[k].attempts)]
                        /\ queue[k] \in RequestRows
  BY <1>1 DEF Claim, Due
<1>5. \A k \in Due : /\ queue'[k] # Absent /\ queue'[k].attempts >= 1
                     /\ queue'[k].lease = DrainTime
  <2> SUFFICES ASSUME NEW k \in Due
               PROVE  /\ queue'[k] # Absent /\ queue'[k].attempts >= 1
                      /\ queue'[k].lease = DrainTime
    OBVIOUS
  <2>1. queue[k].attempts \in 0 .. RefreshAttempts
    BY <1>3, <1>4 DEF RequestRows
  <2>2. NextAttempt(queue[k].attempts) \in 1 .. RefreshAttempts
    BY <2>1, RefreshAssumption DEF NextAttempt
  <2>3. queue'[k] \in RequestRows
    <3>1. [newer |-> FALSE, lease |-> DrainTime, attempts |-> NextAttempt(queue[k].attempts)]
            \in RequestRows
      BY <2>2, RefreshAssumption DEF RequestRows
    <3>2. QED BY <1>3, <1>4, <3>1 DEF Lease
  <2>4. queue'[k].attempts \in 1 .. RefreshAttempts /\ queue'[k].lease = DrainTime
    <3>1. queue'[k] = [newer |-> FALSE, lease |-> Lease,
                       attempts |-> NextAttempt(queue[k].attempts)]
      BY <1>3, <1>4
    <3>2. queue'[k].attempts = NextAttempt(queue[k].attempts) /\ queue'[k].lease = Lease
      BY <3>1
    <3>3. QED BY <2>2, <3>2 DEF Lease
  <2>5. QED BY <1>1, <2>3, <2>4, RefreshAssumption
<1>6. \A e \in Drains \ {d}, k \in Kinds : Holds(e, k) => k \notin Due
  BY HeldIsNotDue
<1>7. HeldInv'
  <2> SUFFICES ASSUME NEW e \in Drains
               PROVE  /\ drain'[e].phase # "idle" => drain'[e].rows # {}
                      /\ \A k \in Kinds : Holds(e, k)' =>
                           /\ queue'[k] # Absent /\ queue'[k].attempts >= 1
                           /\ 1 <= drain'[e].left /\ drain'[e].left <= queue'[k].lease
                           /\ \A f \in Drains : Holds(f, k)' => f = e
    BY DEF HeldInv
  <2>1. \A f \in Drains \ {d}, k \in Kinds : Holds(f, k)' <=> Holds(f, k)
    BY <1>3 DEF Holds
  <2>2. \A k \in Kinds : Holds(d, k)' <=> k \in Due
    BY <1>3 DEF Holds
  <2>3. CASE e = d
    BY <1>3, <1>5, <1>6, <2>1, <2>2, <2>3
  <2>4. CASE e # d
    <3>1. drain'[e] = drain[e] /\ (drain'[e].phase # "idle" => drain'[e].rows # {})
      BY <1>3, <2>4 DEF HeldInv
    <3>2. ASSUME NEW k \in Kinds, Holds(e, k)
          PROVE  /\ queue'[k] # Absent /\ queue'[k].attempts >= 1
                 /\ 1 <= drain[e].left /\ drain[e].left <= queue'[k].lease
                 /\ \A f \in Drains : Holds(f, k)' => f = e
      <4>1. k \notin Due /\ queue'[k] = queue[k]
        BY <1>4, <1>6, <2>4, <3>2
      <4>2. /\ queue[k] # Absent /\ queue[k].attempts >= 1
            /\ 1 <= drain[e].left /\ drain[e].left <= queue[k].lease
            /\ \A f \in Drains : Holds(f, k) => f = e
        BY <3>2 DEF HeldInv
      <4>3. QED BY <2>1, <2>2, <4>1, <4>2
    <3>3. QED BY <2>1, <2>4, <3>1, <3>2
  <2>5. QED BY <2>3, <2>4
<1>8. \A g \in hooks' : \E h \in hooks :
        /\ g.kind = h.kind /\ g.of = h.of
        /\ g.late => h.late \/ h.kind \in Due
  <2> SUFFICES ASSUME NEW h \in hooks,
                      NEW g, g = [h EXCEPT !.late = @ \/ (h.step = "stamped" /\ h.kind \in Due)]
               PROVE  /\ g.kind = h.kind /\ g.of = h.of
                      /\ g.late => h.late \/ h.kind \in Due
    BY DEF Claim
  <2>1. h \in HookRows /\ (h.late \/ (h.step = "stamped" /\ h.kind \in Due)) \in BOOLEAN
    BY <1>1 DEF HookRows
  <2>2. QED BY <2>1 DEF HookRows
<1>9. ASSUME NEW e \in Drains \ {d}, drain[e].phase \in {"write", "done"}
      PROVE  Current(e)' = Current(e) /\ Current(e) \in Kinds /\ Current(e) \notin Due
  BY <1>3, <1>6, <1>9, CurrentIsHeld DEF Current
<1>10. AnsweredInv'
  <2> SUFFICES ASSUME NEW e \in Drains, drain'[e].phase \in {"write", "done"}
               PROVE  /\ \/ queue'[Current(e)'].newer \/ excused'[Current(e)']
                         \/ noticed'[Current(e)'] <= drain'[e].got
                      /\ \A g \in hooks' : g.late /\ g.kind = Current(e)' => g.of <= drain'[e].got
    BY DEF AnsweredInv
  <2>1. e # d /\ drain'[e] = drain[e]
    BY <1>3
  <2>2. /\ Current(e)' = Current(e) /\ Current(e) \in Kinds /\ Current(e) \notin Due
        /\ queue'[Current(e)] = queue[Current(e)]
    BY <1>4, <1>9, <2>1
  <2>3. /\ \/ queue[Current(e)].newer \/ excused[Current(e)]
           \/ noticed[Current(e)] <= drain[e].got
        /\ \A h \in hooks : h.late /\ h.kind = Current(e) => h.of <= drain[e].got
    BY <2>1 DEF ServedInv, AnsweredInv
  <2>4. \A g \in hooks' : g.late /\ g.kind = Current(e) => g.of <= drain[e].got
    BY <1>8, <2>2, <2>3
  <2>5. QED BY <1>3, <2>1, <2>2, <2>3, <2>4
<1>11. AppliedInv'
  BY <1>3, <1>9 DEF ServedInv, AppliedInv
<1>12. EventNotSwallowed'
  BY <1>3, <1>4, <1>5 DEF ServedInv, EventNotSwallowed
<1>13. QED BY <1>7, <1>10, <1>11, <1>12 DEF ServedInv

\* Shopify answers with what it has now, which no event noticed so far is newer
\* than.
LEMMA ReadKeeps ==
  ASSUME RefreshTypeOK, HeldInv, ServedInv, NEW d \in Drains, ReadStock(d)
  PROVE  HeldInv' /\ ServedInv'
<1>1. drain \in [Drains -> DrainStates]
  BY DEF RefreshTypeOK, DrainStates
<1>2. /\ drain[d].phase = "read"
      /\ drain' = [[drain EXCEPT ![d].phase = "write"] EXCEPT ![d].got = stock]
      /\ UNCHANGED <<hooks, queue, noticed, excused, applied>>
  BY DEF ReadStock, webVars, cacheVars, queueVars
<1>3. /\ \A e \in Drains \ {d} : drain'[e] = drain[e]
      /\ drain'[d].phase = "write" /\ drain'[d].got = stock
      /\ drain'[d].rows = drain[d].rows /\ drain'[d].left = drain[d].left
  <2>1. [drain EXCEPT ![d].phase = "write"] \in [Drains -> DrainStates]
    BY <1>1 DEF DrainStates
  <2>2. /\ \A e \in Drains \ {d} : [drain EXCEPT ![d].phase = "write"][e] = drain[e]
        /\ [drain EXCEPT ![d].phase = "write"][d].phase = "write"
        /\ [drain EXCEPT ![d].phase = "write"][d].rows = drain[d].rows
        /\ [drain EXCEPT ![d].phase = "write"][d].left = drain[d].left
    BY <1>1 DEF DrainStates
  <2>3. QED BY <1>2, <2>1, <2>2 DEF DrainStates
<1>4. HeldInv'
  <2>1. /\ \A e \in Drains, k \in Kinds : Holds(e, k)' <=> Holds(e, k)
        /\ \A e \in Drains : /\ drain'[e].left = drain[e].left /\ drain'[e].rows = drain[e].rows
                             /\ drain'[e].phase # "idle" => drain[e].phase # "idle"
    BY <1>2, <1>3 DEF Holds
  <2>2. QED BY <1>2, <2>1 DEF HeldInv
<1>5. \A e \in Drains : Current(e)' = Current(e)
  BY <1>3 DEF Current
<1>6. /\ \A k \in Kinds : noticed[k] \in 0 .. stock
      /\ \A h \in hooks : h.of \in 1 .. stock
  BY DEF RefreshTypeOK
<1>7. AnsweredInv'
  <2> SUFFICES ASSUME NEW e \in Drains, drain'[e].phase \in {"write", "done"}
               PROVE  /\ \/ queue[Current(e)].newer \/ excused[Current(e)]
                         \/ noticed[Current(e)] <= drain'[e].got
                      /\ \A h \in hooks : h.late /\ h.kind = Current(e) => h.of <= drain'[e].got
    BY <1>2, <1>5 DEF AnsweredInv
  <2>1. CASE e = d
    <3>1. Current(d) \in Kinds
      BY <1>2, CurrentIsHeld
    <3>2. drain'[e].got = stock /\ stock \in Nat
      BY <1>3, <2>1 DEF RefreshTypeOK
    <3>3. QED BY <1>6, <2>1, <3>1, <3>2
  <2>2. CASE e # d
    BY <1>3, <2>2 DEF ServedInv, AnsweredInv
  <2>3. QED BY <2>1, <2>2
<1>8. AppliedInv'
  BY <1>2, <1>3, <1>5 DEF ServedInv, AppliedInv
<1>9. EventNotSwallowed'
  BY <1>2 DEF ServedInv, EventNotSwallowed
<1>10. QED BY <1>4, <1>7, <1>8, <1>9 DEF ServedInv

\* The answer is written, and no later event has been noticed without a new
\* request.
LEMMA WriteKeeps ==
  ASSUME RefreshTypeOK, HeldInv, ServedInv, NEW d \in Drains, WriteStock(d)
  PROVE  HeldInv' /\ ServedInv'
<1>1. drain \in [Drains -> DrainStates] /\ applied \in [Kinds -> 0 .. stock]
  BY DEF RefreshTypeOK, DrainStates
<1>2. /\ drain[d].phase = "write" /\ drain' = [drain EXCEPT ![d].phase = "done"]
      /\ applied' = [applied EXCEPT ![Current(d)] = drain[d].got]
      /\ UNCHANGED <<hooks, queue, noticed, excused>>
  BY DEF WriteStock, webVars, queueVars
<1>3. /\ \A e \in Drains \ {d} : drain'[e] = drain[e]
      /\ drain'[d].phase = "done" /\ drain'[d].got = drain[d].got
      /\ drain'[d].rows = drain[d].rows /\ drain'[d].left = drain[d].left
  BY <1>1, <1>2 DEF DrainStates
<1>4. HeldInv'
  <2>1. /\ \A e \in Drains, k \in Kinds : Holds(e, k)' <=> Holds(e, k)
        /\ \A e \in Drains : /\ drain'[e].left = drain[e].left /\ drain'[e].rows = drain[e].rows
                             /\ drain'[e].phase # "idle" => drain[e].phase # "idle"
    BY <1>2, <1>3 DEF Holds
  <2>2. QED BY <1>2, <2>1 DEF HeldInv
<1>5. \A e \in Drains : Current(e)' = Current(e)
  BY <1>3 DEF Current
<1>6. AnsweredInv'
  BY <1>2, <1>3, <1>5 DEF ServedInv, AnsweredInv
<1>7. Current(d) \in Kinds /\ queue[Current(d)] # Absent
  BY <1>2, CurrentIsHeld
<1>8. AppliedInv'
  <2> SUFFICES ASSUME NEW e \in Drains, drain'[e].phase = "done"
               PROVE  applied'[Current(e)] = drain'[e].got
    BY <1>5 DEF AppliedInv
  <2>1. CASE e = d
    BY <1>1, <1>2, <1>3, <1>7, <2>1
  <2>2. CASE e # d
    <3>1. drain[e].phase = "done" /\ drain'[e].got = drain[e].got
      BY <1>3, <2>2
    <3>2. Current(e) # Current(d) /\ Current(e) \in Kinds
      BY <1>2, <2>2, <3>1, AloneAtIt, CurrentIsHeld
    <3>3. QED BY <1>1, <1>2, <3>1, <3>2 DEF ServedInv, AppliedInv
  <2>3. QED BY <2>1, <2>2
<1>9. EventNotSwallowed'
  BY <1>1, <1>2, <1>7 DEF ServedInv, EventNotSwallowed
<1>10. QED BY <1>4, <1>6, <1>8, <1>9 DEF ServedInv

\* A drain that is through with a row, which nobody else holds, goes on.
LEMMA LeavesRow ==
  ASSUME RefreshTypeOK, HeldInv, AnsweredInv, AppliedInv, NEW d \in Drains,
         drain[d].phase # "idle", Proceed(d, drain[d].rows \ {Current(d)}),
         UNCHANGED <<hooks, noticed, applied>>,
         \A k \in Kinds \ {Current(d)} : queue'[k] = queue[k] /\ excused'[k] = excused[k]
  PROVE  HeldInv' /\ AnsweredInv' /\ AppliedInv'
<1>1. drain[d].rows \subseteq Kinds
  BY DEF RefreshTypeOK
<1>2. /\ \A e \in Drains \ {d} : drain'[e] = drain[e]
      /\ drain'[d].phase \in {"idle", "read"}
      /\ drain'[d].phase # "idle" =>
           /\ drain'[d].rows # {} /\ drain'[d].rows = drain[d].rows \ {Current(d)}
           /\ drain'[d].left = drain[d].left
  BY <1>1, ProceedEffect
<1>3. \A e \in Drains, k \in Kinds : Holds(e, k)' => Holds(e, k) /\ k # Current(d)
  BY <1>2, AloneAtIt DEF Holds
<1>4. HeldInv'
  <2>1. \A e \in Drains : drain'[e].phase # "idle" =>
          drain'[e].rows # {} /\ drain'[e].left = drain[e].left
    BY <1>2 DEF HeldInv
  <2>2. ASSUME NEW e \in Drains, NEW k \in Kinds, Holds(e, k)'
        PROVE  /\ queue'[k] # Absent /\ queue'[k].attempts >= 1
               /\ 1 <= drain'[e].left /\ drain'[e].left <= queue'[k].lease
               /\ \A f \in Drains : Holds(f, k)' => f = e
    <3>1. Holds(e, k) /\ queue'[k] = queue[k] /\ drain'[e].left = drain[e].left
      BY <1>3, <2>1, <2>2 DEF Holds
    <3>2. QED BY <1>3, <3>1 DEF HeldInv
  <2>3. QED BY <2>1, <2>2 DEF HeldInv
<1>5. \A e \in Drains : drain'[e].phase \in {"write", "done"} =>
        /\ drain'[e] = drain[e] /\ Current(e)' = Current(e)
        /\ Current(e) # Current(d) /\ Current(e) \in Kinds
  BY <1>2, AloneAtIt, CurrentIsHeld DEF Current
<1>6. AnsweredInv'
  BY <1>5 DEF AnsweredInv
<1>7. AppliedInv'
  BY <1>5 DEF AppliedInv
<1>8. QED BY <1>4, <1>6, <1>7

\* A row that is deleted was not requested again, and its answer is in the
\* cache.
LEMMA CompleteKeeps ==
  ASSUME RefreshTypeOK, HeldInv, ServedInv, NEW d \in Drains, Complete(d)
  PROVE  HeldInv' /\ ServedInv'
<1>1. /\ drain[d].phase = "done" /\ Proceed(d, drain[d].rows \ {Current(d)})
      /\ UNCHANGED <<hooks, noticed, applied, excused>>
      /\ queue' = [queue EXCEPT ![Current(d)] =
           IF @ = Absent \/ Served(@) THEN Absent ELSE [@ EXCEPT !.lease = 0, !.attempts = 0]]
  BY DEF Complete, webVars, cacheVars
<1>2. queue \in [Kinds -> RequestRows \cup {Absent}]
  BY DEF RefreshTypeOK, RequestRows
<1>3. \A k \in Kinds \ {Current(d)} : queue'[k] = queue[k] /\ excused'[k] = excused[k]
  BY <1>1, <1>2
<1>4. HeldInv' /\ AnsweredInv' /\ AppliedInv'
  BY <1>1, <1>3, LeavesRow DEF ServedInv
<1>5. /\ Current(d) \in Kinds /\ queue[Current(d)] \in RequestRows
      /\ queue[Current(d)] # Absent /\ Absent \notin RequestRows
  <2>1. Absent \notin RequestRows
    BY RefreshAssumption DEF RequestRows
  <2>2. QED BY <1>1, <2>1, CurrentIsHeld
<1>6. queue'[Current(d)] = Absent => ~queue[Current(d)].newer
  <2> SUFFICES ASSUME queue[Current(d)].newer PROVE queue'[Current(d)] # Absent
    OBVIOUS
  <2>1. queue'[Current(d)] = [[queue[Current(d)] EXCEPT !.lease = 0] EXCEPT !.attempts = 0]
    BY <1>1, <1>2, <1>5 DEF Served
  <2>2. [queue[Current(d)] EXCEPT !.lease = 0] \in RequestRows
    BY <1>5 DEF RequestRows
  <2>3. 0 \in 0 .. RefreshAttempts
    BY RefreshAssumption
  <2>4. [[queue[Current(d)] EXCEPT !.lease = 0] EXCEPT !.attempts = 0] \in RequestRows
    BY <2>2, <2>3 DEF RequestRows
  <2>5. QED BY <1>5, <2>1, <2>4
<1>7. \/ queue[Current(d)].newer \/ excused[Current(d)]
      \/ noticed[Current(d)] <= applied[Current(d)]
  BY <1>1 DEF ServedInv, AnsweredInv, AppliedInv
<1>8. EventNotSwallowed'
  BY <1>1, <1>3, <1>6, <1>7 DEF ServedInv, EventNotSwallowed
<1>9. QED BY <1>4, <1>8 DEF ServedInv

\* A row whose refresh failed is queued again.
LEMMA FailKeeps ==
  ASSUME RefreshTypeOK, HeldInv, ServedInv, NEW d \in Drains, Fail(d)
  PROVE  HeldInv' /\ ServedInv'
<1> DEFINE power == 2 ^ (queue[Current(d)].attempts - 1)
<1>1. /\ drain[d].phase # "idle" /\ Proceed(d, drain[d].rows \ {Current(d)})
      /\ UNCHANGED <<hooks, noticed, applied>>
      /\ \/ UNCHANGED <<queue, excused>>
         \/ /\ queue' = [queue EXCEPT ![Current(d)] = Absent]
            /\ excused' = [excused EXCEPT ![Current(d)] = TRUE]
         \/ queue' = [queue EXCEPT ![Current(d)].lease = power] /\ UNCHANGED excused
  BY DEF Fail, webVars, cacheVars
<1> HIDE DEF power
<1>2. queue \in [Kinds -> RequestRows \cup {Absent}] /\ excused \in [Kinds -> BOOLEAN]
  BY DEF RefreshTypeOK, RequestRows
<1>3. \A k \in Kinds \ {Current(d)} : queue'[k] = queue[k] /\ excused'[k] = excused[k]
  BY <1>1, <1>2
<1>4. HeldInv' /\ AnsweredInv' /\ AppliedInv'
  BY <1>1, <1>3, LeavesRow DEF ServedInv
<1>5. /\ Current(d) \in Kinds /\ queue[Current(d)] \in RequestRows
      /\ queue[Current(d)].attempts - 1 \in Nat /\ Absent \notin RequestRows
  <2>1. Absent \notin RequestRows
    BY RefreshAssumption DEF RequestRows
  <2>2. QED BY <1>1, <2>1, CurrentIsHeld DEF RequestRows
<1>6. queue'[Current(d)] = Absent => excused'[Current(d)]
  <2>1. power \in Nat
    BY <1>5, PowerIsNatural DEF power
  <2>2. [queue[Current(d)] EXCEPT !.lease = power] \in RequestRows
    BY <1>5, <2>1 DEF RequestRows
  <2>3. QED BY <1>1, <1>2, <1>5, <2>2
<1>7. EventNotSwallowed'
  BY <1>1, <1>3, <1>6 DEF ServedInv, EventNotSwallowed
<1>8. QED BY <1>4, <1>7 DEF ServedInv

LEMMA KillKeeps ==
  ASSUME RefreshTypeOK, HeldInv, ServedInv, NEW d \in Drains, KillDrain(d)
  PROVE  HeldInv' /\ ServedInv'
<1>1. /\ \A e \in Drains \ {d} : drain'[e] = drain[e]
      /\ drain'[d].phase = "idle"
      /\ UNCHANGED <<hooks, queue, noticed, excused, applied>>
  BY ProceedEffect DEF KillDrain, webVars, cacheVars, queueVars
<1>2. HeldInv'
  BY <1>1 DEF HeldInv, Holds
<1>3. AnsweredInv' /\ AppliedInv' /\ EventNotSwallowed'
  BY <1>1 DEF ServedInv, AnsweredInv, AppliedInv, EventNotSwallowed, Current
<1>4. QED BY <1>2, <1>3 DEF ServedInv

\* Leases and drains run down together, and a drain ends before its lease.
LEMMA TimeKeeps ==
  ASSUME RefreshTypeOK, HeldInv, ServedInv, TimePasses
  PROVE  HeldInv' /\ ServedInv'
<1>1. /\ drain \in [Drains -> DrainStates] /\ queue \in [Kinds -> RequestRows \cup {Absent}]
      /\ Absent \notin RequestRows
  <2>1. Absent \notin RequestRows
    BY RefreshAssumption DEF RequestRows
  <2>2. QED BY <2>1 DEF RefreshTypeOK, DrainStates, RequestRows
<1>2. \A d \in Drains :
        \/ drain'[d].phase = "idle" /\ drain'[d].rows = {}
        \/ /\ drain[d].left > 1 /\ drain'[d].left = drain[d].left - 1
           /\ drain'[d].phase = drain[d].phase /\ drain'[d].rows = drain[d].rows
           /\ drain'[d].got = drain[d].got
  BY <1>1 DEF TimePasses, NoDrain, DrainStates
<1>3. \A k \in Kinds :
        /\ queue[k] = Absent => queue'[k] = Absent
        /\ queue[k] # Absent =>
             /\ queue'[k] # Absent /\ queue'[k].newer = queue[k].newer
             /\ queue'[k].attempts = queue[k].attempts
             /\ queue'[k].lease = IF queue[k].lease > 0 THEN queue[k].lease - 1 ELSE queue[k].lease
  <2> SUFFICES ASSUME NEW k \in Kinds, queue[k] \in RequestRows
               PROVE  /\ queue'[k] # Absent /\ queue'[k].newer = queue[k].newer
                      /\ queue'[k].attempts = queue[k].attempts
                      /\ queue'[k].lease = IF queue[k].lease > 0 THEN queue[k].lease - 1 ELSE queue[k].lease
    BY <1>1 DEF TimePasses
  <2>1. queue'[k] = IF queue[k].lease > 0
                    THEN [queue[k] EXCEPT !.lease = @ - 1] ELSE queue[k]
    BY <1>1 DEF TimePasses
  <2>2. queue[k].lease > 0 => [queue[k] EXCEPT !.lease = @ - 1] \in RequestRows
    BY DEF RequestRows
  <2>3. QED BY <1>1, <2>1, <2>2 DEF RequestRows
<1>4. UNCHANGED <<hooks, noticed, excused, applied>>
  BY DEF TimePasses, webVars, cacheVars
<1>5. \A d \in Drains, k \in Kinds : Holds(d, k)' => Holds(d, k) /\ drain[d].left > 1
  BY <1>2 DEF Holds
<1>6. HeldInv'
  <2>1. \A d \in Drains : drain[d].left \in Nat
    BY <1>1 DEF DrainStates
  <2>2. \A k \in Kinds : queue[k] # Absent => queue[k].lease \in Nat
    BY <1>1 DEF RequestRows
  <2>3. \A d \in Drains : drain'[d].phase # "idle" => drain'[d].rows # {}
    BY <1>2 DEF HeldInv
  <2>4. ASSUME NEW d \in Drains, NEW k \in Kinds, Holds(d, k)'
        PROVE  /\ queue'[k] # Absent /\ queue'[k].attempts >= 1
               /\ 1 <= drain'[d].left /\ drain'[d].left <= queue'[k].lease
               /\ \A e \in Drains : Holds(e, k)' => e = d
    <3>1. /\ Holds(d, k) /\ drain[d].left > 1 /\ drain'[d].left = drain[d].left - 1
          /\ queue[k] # Absent /\ drain[d].left <= queue[k].lease /\ queue[k].attempts >= 1
      BY <1>2, <1>5, <2>4 DEF HeldInv, Holds
    <3>2. QED BY <1>3, <1>5, <2>1, <2>2, <3>1 DEF HeldInv
  <2>5. QED BY <2>3, <2>4 DEF HeldInv
<1>7. \A d \in Drains : drain'[d].phase \in {"write", "done"} =>
        /\ drain[d].phase = drain'[d].phase /\ drain'[d].got = drain[d].got
        /\ Current(d)' = Current(d) /\ Current(d) \in Kinds /\ queue[Current(d)] # Absent
  BY <1>2, CurrentIsHeld DEF Current
<1>8. AnsweredInv'
  BY <1>3, <1>4, <1>7 DEF ServedInv, AnsweredInv
<1>9. AppliedInv'
  BY <1>4, <1>7 DEF ServedInv, AppliedInv
<1>10. EventNotSwallowed'
  BY <1>3, <1>4 DEF ServedInv, EventNotSwallowed
<1>11. QED BY <1>6, <1>8, <1>9, <1>10 DEF ServedInv

RefreshInv == RefreshTypeOK /\ HeldInv /\ ServedInv

LEMMA RefreshInvInit == RefreshInit => RefreshInv
<1> SUFFICES ASSUME RefreshInit PROVE HeldInv /\ ServedInv
  BY RefreshTypeInit DEF RefreshInv
<1>1. \A d \in Drains : drain[d].phase = "idle"
  BY DEF RefreshInit, NoDrain
<1>2. EventNotSwallowed
  BY DEF RefreshInit, EventNotSwallowed
<1>3. QED BY <1>1, <1>2 DEF HeldInv, Holds, ServedInv, AnsweredInv, AppliedInv

LEMMA RefreshInvNext == RefreshInv /\ [RefreshNext]_refreshVars => RefreshInv'
<1> SUFFICES ASSUME RefreshTypeOK, HeldInv, ServedInv, [RefreshNext]_refreshVars
             PROVE  HeldInv' /\ ServedInv'
  BY RefreshTypeNext DEF RefreshInv
<1>1. CASE \E h \in hooks : Enqueue(h)
  BY <1>1, EnqueueHeld, EnqueueServed
<1>2. CASE \E d \in Drains : Claim(d) \/ DrainStep(d) \/ Fail(d) \/ KillDrain(d)
  BY <1>2, ClaimKeeps, ReadKeeps, WriteKeeps, CompleteKeeps, FailKeeps, KillKeeps DEF DrainStep
<1>3. CASE UNCHANGED refreshVars
  BY <1>3, QuietKeeps DEF refreshVars, webVars, cacheVars
<1>4. QED
  BY <1>1, <1>2, <1>3, WebKeeps, TimeKeeps DEF RefreshNext, HookStep

\* RefreshTypeOK is an invariant: every variable of the queue, its webhooks and
\* drains keeps its type, for any number of drains, changes and attempts.
THEOREM RefreshTypeCorrect == RefreshSpec => []RefreshTypeOK
<1>1. QED BY RefreshInvInit, RefreshInvNext, PTL DEF RefreshSpec, RefreshInv

\* EventNotSwallowed: as long as no webhook's insert was overtaken by the claim
\* of its row, a change that a webhook noticed is in the cache or a row of the
\* queue stands for it, whatever drains fail, die or overlap.
THEOREM NoEventSwallowed == RefreshSpec => []EventNotSwallowed
<1>1. RefreshInv => EventNotSwallowed
  BY DEF RefreshInv, ServedInv
<1>2. QED BY <1>1, RefreshInvInit, RefreshInvNext, PTL DEF RefreshSpec

----------------------------------------------------------------------------
(* CatalogSync.                                                            *)

\* The job row, the workers and the webhooks under way.
JobStates  == [status : {"none", "queued", "running", "completed", "failed"},
               cursor : 0 .. MaxProduct, attempts : 0 .. ImportAttempts, lease : 0 .. StepTime]
StepStates == [phase : Phases, left : 0 .. StepTime, cursor : 0 .. MaxProduct,
               attempts : 0 .. ImportAttempts, page : SUBSET Products, last : BOOLEAN]
Notes      == [topic : {"update", "update variants", "delete", "delete variants"},
               of : 1 .. born]

Working(i) == importer[i].phase # "idle"

\* The worker that is at it holds the lease.
LeaseInv ==
  /\ OneImporter
  /\ \A i \in Importers : Working(i) =>
       /\ job.status = "running"
       /\ 1 <= importer[i].left /\ importer[i].left <= job.lease
       /\ importer[i].cursor = job.cursor
       /\ importer[i].attempts < ImportAttempts
  /\ job.status \in {"queued", "running"} => job.attempts < ImportAttempts

LEMMA CatalogTypeInit == CatalogInit => CatalogTypeOK
<1> SUFFICES ASSUME CatalogInit PROVE CatalogTypeOK
  OBVIOUS
<1> USE CatalogAssumption
<1>1. born \in 0 .. MaxProduct /\ exists \subseteq 1 .. born
  BY DEF CatalogInit, Products
<1>2. job \in JobStates
  BY DEF CatalogInit, NoJob, JobStates
<1>3. NoStep \in StepStates
  BY DEF NoStep, StepStates, Phases
<1>4. importer \in [Importers -> StepStates]
  BY <1>3 DEF CatalogInit
<1>5. QED BY <1>1, <1>2, <1>4 DEF CatalogInit, CatalogTypeOK, JobStates, StepStates

\* Products are numbers up to the last one created.
LEMMA Positions == ASSUME CatalogTypeOK
  PROVE  /\ born \in Nat /\ MaxProduct \in Nat /\ born <= MaxProduct /\ 1 .. born \subseteq Products
         /\ exists \subseteq Products /\ \A n \in notes : n.of \in Products /\ n.of <= born
         /\ \A p \in Products : p \in Nat /\ p >= 1
<1>1. born \in Nat /\ MaxProduct \in Nat /\ born <= MaxProduct
  <2>1. born \in 0 .. MaxProduct
    BY DEF CatalogTypeOK
  <2>2. QED BY <2>1, CatalogAssumption
<1>2. 1 .. born \subseteq Products /\ \A p \in Products : p \in Nat /\ p >= 1
  BY <1>1 DEF Products
<1>3. exists \subseteq 1 .. born /\ \A n \in notes : n.of \in 1 .. born
  BY DEF CatalogTypeOK
<1>4. QED BY <1>1, <1>2, <1>3

LEMMA MishapTyped == ASSUME CatalogTypeOK, Mishap PROVE mishaps' \in 0 .. MaxMishaps
<1>1. mishaps \in 0 .. MaxMishaps
  BY DEF CatalogTypeOK
<1>2. QED BY <1>1, CatalogAssumption DEF Mishap

\* Types: the merchant and the webhooks.
LEMMA MerchantTyped ==
  ASSUME CatalogTypeOK, Create \/ (\E p \in Products : Remove(p)) PROVE CatalogTypeOK'
<1> USE DEF rowVars
<1>1. CASE Create
  <2>1. born' = born + 1 /\ born' \in 0 .. MaxProduct /\ 1 .. born \subseteq 1 .. born'
        /\ born + 1 \in 1 .. born'
    BY <1>1, Positions DEF Create
  <2>2. exists' \subseteq 1 .. born'
    BY <1>1, <2>1 DEF Create, CatalogTypeOK
  <2>3. notes' \subseteq [topic : {"update", "update variants", "delete", "delete variants"},
                          of : 1 .. born']
    <3>1. notes \subseteq [topic : {"update", "update variants", "delete", "delete variants"},
                           of : 1 .. born']
      BY <2>1 DEF CatalogTypeOK
    <3>2. [topic |-> "update", of |-> born + 1]
            \in [topic : {"update", "update variants", "delete", "delete variants"}, of : 1 .. born']
      BY <2>1
    <3>3. QED BY <1>1, <3>1, <3>2 DEF Create
  <2>4. QED BY <1>1, <2>1, <2>2, <2>3 DEF Create, CatalogTypeOK
<1>2. ASSUME NEW p \in Products, Remove(p) PROVE CatalogTypeOK'
  <2>1. p \in 1 .. born /\ exists' \subseteq 1 .. born
    BY <1>2 DEF Remove, CatalogTypeOK
  <2>2. [topic |-> "delete", of |-> p] \in Notes
    BY <2>1 DEF Notes
  <2>3. notes' \subseteq Notes
    BY <1>2, <2>2 DEF Remove, CatalogTypeOK, Notes
  <2>4. QED BY <1>2, <2>1, <2>3 DEF Remove, CatalogTypeOK, Notes
<1>3. QED BY <1>1, <1>2

LEMMA NoteTyped ==
  ASSUME CatalogTypeOK, NEW n \in notes, NoteStep(n) \/ LoseNote(n) PROVE CatalogTypeOK'
<1> USE DEF rowVars
<1>1. n.of \in 1 .. born /\ n.of \in Products
  BY Positions DEF CatalogTypeOK
<1>2. ASSUME NEW topic \in {"update variants", "delete variants"}, Turns(n, topic)
      PROVE  notes' \subseteq Notes
  <2>1. [topic |-> topic, of |-> n.of] \in Notes /\ notes \subseteq Notes
    BY <1>1 DEF Notes, CatalogTypeOK
  <2>2. QED BY <1>2, <2>1 DEF Turns
<1>3. CASE HandleUpdate(n)
  <2>1. notes' \subseteq Notes
    BY <1>2, <1>3 DEF HandleUpdate
  <2>2. QED BY <1>1, <1>3, <2>1 DEF HandleUpdate, CatalogTypeOK, Notes
<1>4. CASE UpdateVariants(n)
  BY <1>1, <1>4 DEF UpdateVariants, CatalogTypeOK
<1>5. CASE HandleDelete(n)
  <2>1. notes' \subseteq Notes
    BY <1>2, <1>5 DEF HandleDelete, CatalogTypeOK, Notes
  <2>2. QED BY <1>1, <1>5, <2>1 DEF HandleDelete, CatalogTypeOK, Notes
<1>6. CASE BlockVariants(n)
  BY <1>1, <1>6, ZenonT(30) DEF BlockVariants, CatalogTypeOK
<1>7. CASE LoseNote(n)
  BY <1>7, MishapTyped DEF LoseNote, CatalogTypeOK
<1>8. QED BY <1>3, <1>4, <1>5, <1>6, <1>7 DEF NoteStep

LEMMA NoStepTyped == NoStep \in StepStates
  BY CatalogAssumption DEF NoStep, StepStates, Phases

LEMMA QueueTyped ==
  ASSUME CatalogTypeOK, QueueImport
  PROVE  CatalogTypeOK' /\ job'.status = "queued" /\ job'.cursor = 0 /\ job'.attempts = 0
<1>1. [NoJob EXCEPT !.status = "queued"] \in JobStates
  BY CatalogAssumption DEF NoJob, JobStates
<1>2. QED BY <1>1 DEF QueueImport, CatalogTypeOK, JobStates, shopVars, NoJob

\* What claiming the job does.
LEMMA ClaimEffect ==
  ASSUME CatalogTypeOK, NEW i \in Importers, ClaimImport(i)
  PROVE  /\ job' \in JobStates /\ importer' \in [Importers -> StepStates]
         /\ job'.status = "running" /\ job'.lease = StepTime
         /\ job'.cursor = job.cursor /\ job'.attempts = job.attempts
         /\ \A j \in Importers \ {i} : importer'[j] = importer[j]
         /\ importer'[i].phase = "fetch" /\ importer'[i].left \in 1 .. StepTime
         /\ importer'[i].cursor = job.cursor /\ importer'[i].attempts = job.attempts
<1>1. job \in JobStates /\ importer \in [Importers -> StepStates]
  BY DEF CatalogTypeOK, JobStates, StepStates
<1>2. [job EXCEPT !.status = "running"] \in JobStates
  BY <1>1 DEF JobStates
<1>3. StepTime \in 0 .. StepTime
  BY CatalogAssumption
<1>4. job' = [[job EXCEPT !.status = "running"] EXCEPT !.lease = StepTime]
  BY DEF ClaimImport, JobLease
<1>5. /\ job' \in JobStates /\ job'.status = "running" /\ job'.lease = StepTime
      /\ job'.cursor = job.cursor /\ job'.attempts = job.attempts
  BY <1>1, <1>2, <1>3, <1>4 DEF JobStates
<1>6. PICK left \in 1 .. StepTime :
        importer' = [importer EXCEPT ![i] =
          [NoStep EXCEPT !.phase = "fetch", !.left = left,
                         !.cursor = job.cursor, !.attempts = job.attempts]]
  BY DEF ClaimImport
<1> DEFINE a == [NoStep EXCEPT !.phase = "fetch"]
           b == [a EXCEPT !.left = left]
           c == [b EXCEPT !.cursor = job.cursor]
           d == [c EXCEPT !.attempts = job.attempts]
<1>7. a \in StepStates /\ a.phase = "fetch"
  BY NoStepTyped DEF StepStates, Phases
<1> HIDE DEF a
<1>8. b \in StepStates /\ b.phase = "fetch" /\ b.left = left
  BY <1>7, CatalogAssumption DEF StepStates
<1> HIDE DEF b
<1>9. c \in StepStates /\ c.phase = "fetch" /\ c.left = left /\ c.cursor = job.cursor
  BY <1>1, <1>8 DEF StepStates, JobStates
<1> HIDE DEF c
<1>10. /\ d \in StepStates /\ d.phase = "fetch" /\ d.left = left /\ d.cursor = job.cursor
       /\ d.attempts = job.attempts
  BY <1>1, <1>9 DEF StepStates, JobStates
<1>11. importer' = [importer EXCEPT ![i] = d]
  BY <1>6 DEF a, b, c
<1> HIDE DEF d
<1>12. QED BY <1>1, <1>5, <1>10, <1>11

\* What asking Shopify for a page does.
LEMMA FetchEffect ==
  ASSUME CatalogTypeOK, NEW i \in Importers, FetchPage(i)
  PROVE  /\ importer' \in [Importers -> StepStates]
         /\ \A j \in Importers \ {i} : importer'[j] = importer[j]
         /\ importer'[i].phase = "products" /\ importer'[i].left = importer[i].left
         /\ importer'[i].cursor = importer[i].cursor
         /\ importer'[i].attempts = importer[i].attempts
         /\ importer'[i].page = First(After(importer[i].cursor))
         /\ importer'[i].last = (After(importer[i].cursor) = First(After(importer[i].cursor)))
<1> DEFINE rest == After(importer[i].cursor)
           a == [importer[i] EXCEPT !.phase = "products"]
           b == [a EXCEPT !.page = First(rest)]
           c == [b EXCEPT !.last = (rest = First(rest))]
<1>1. importer \in [Importers -> StepStates]
  BY DEF CatalogTypeOK, StepStates
<1>2. rest \subseteq Products /\ First(rest) \subseteq Products
  BY Positions DEF After, First
<1>3. importer' = [importer EXCEPT ![i] = c]
  BY DEF FetchPage
<1> HIDE DEF rest
<1>4. /\ a \in StepStates /\ a.phase = "products" /\ a.left = importer[i].left
      /\ a.cursor = importer[i].cursor /\ a.attempts = importer[i].attempts
  BY <1>1 DEF StepStates, Phases
<1> HIDE DEF a
<1>5. /\ b \in StepStates /\ b.phase = "products" /\ b.left = importer[i].left
      /\ b.cursor = importer[i].cursor /\ b.attempts = importer[i].attempts
      /\ b.page = First(rest)
  BY <1>2, <1>4 DEF StepStates
<1> HIDE DEF b
<1>6. (rest = First(rest)) \in BOOLEAN
  OBVIOUS
<1>7. /\ c \in StepStates /\ c.phase = "products" /\ c.left = importer[i].left
      /\ c.cursor = importer[i].cursor /\ c.attempts = importer[i].attempts
      /\ c.page = First(rest) /\ c.last = (rest = First(rest))
  BY <1>5, <1>6 DEF StepStates
<1> HIDE DEF c
<1>8. importer'[i] = c /\ importer' \in [Importers -> StepStates]
      /\ \A j \in Importers \ {i} : importer'[j] = importer[j]
  BY <1>1, <1>3, <1>7
<1>9. QED BY <1>7, <1>8 DEF rest

\* A step of the import that goes on to its next phase.
LEMMA PhaseEffect ==
  ASSUME CatalogTypeOK, NEW i \in Importers, NEW next \in Phases,
         importer' = [importer EXCEPT ![i].phase = next]
  PROVE  /\ importer' \in [Importers -> StepStates]
         /\ \A j \in Importers \ {i} : importer'[j] = importer[j]
         /\ importer'[i].phase = next /\ importer'[i].left = importer[i].left
         /\ importer'[i].cursor = importer[i].cursor
         /\ importer'[i].attempts = importer[i].attempts
         /\ importer'[i].page = importer[i].page /\ importer'[i].last = importer[i].last
<1>1. importer \in [Importers -> StepStates]
  BY DEF CatalogTypeOK, StepStates
<1>2. QED BY <1>1 DEF StepStates

\* ... and one that ends.
LEMMA IdleEffect ==
  ASSUME CatalogTypeOK, NEW i \in Importers, importer' = [importer EXCEPT ![i] = NoStep]
  PROVE  /\ importer' \in [Importers -> StepStates] /\ importer'[i].phase = "idle"
         /\ \A j \in Importers \ {i} : importer'[j] = importer[j]
<1>1. importer \in [Importers -> StepStates]
  BY DEF CatalogTypeOK, StepStates
<1>2. NoStep.phase = "idle"
  BY DEF NoStep
<1>3. QED BY <1>1, <1>2, NoStepTyped

\* What a failure leaves of the job, and of the worker.
LEMMA FailEffect ==
  ASSUME CatalogTypeOK, LeaseInv, NEW i \in Importers, ImportFails(i)
  PROVE  /\ job' \in JobStates /\ job'.cursor = job.cursor
         /\ job'.status \in {"queued", "failed"}
         /\ job'.status = "queued" => job'.attempts < ImportAttempts
<1> DEFINE more == importer[i].attempts + 1
           a == [job EXCEPT !.status = IF GivesUpImport(more) THEN "failed" ELSE "queued"]
           b == [a EXCEPT !.attempts = more]
           c == [b EXCEPT !.lease = 0]
<1>1. job \in JobStates /\ importer[i] \in StepStates /\ ImportAttempts \in Nat
  BY CatalogAssumption DEF CatalogTypeOK, JobStates, StepStates
<1>2. importer[i].attempts < ImportAttempts
  BY DEF LeaseInv, Working, ImportFails
<1>3. more \in 0 .. ImportAttempts /\ (~GivesUpImport(more) => more < ImportAttempts)
  BY <1>1, <1>2 DEF StepStates, GivesUpImport
<1>4. job' = c
  BY DEF ImportFails
<1> HIDE DEF more
<1>5. /\ a \in JobStates /\ a.status = (IF GivesUpImport(more) THEN "failed" ELSE "queued")
      /\ a.cursor = job.cursor
  BY <1>1 DEF JobStates
<1> HIDE DEF a
<1>6. b \in JobStates /\ b.status = a.status /\ b.cursor = a.cursor /\ b.attempts = more
  BY <1>3, <1>5 DEF JobStates
<1> HIDE DEF b
<1>7. /\ c \in JobStates /\ c.status = b.status /\ c.cursor = b.cursor
      /\ c.attempts = b.attempts
  BY <1>6, CatalogAssumption DEF JobStates
<1> HIDE DEF c
<1>8. QED BY <1>3, <1>4, <1>5, <1>6, <1>7

\* What a tick does to the lease and the workers.
LEMMA LeaseEffect ==
  ASSUME CatalogTypeOK, LeaseRunsDown
  PROVE  /\ job' \in JobStates /\ importer' \in [Importers -> StepStates]
         /\ job.lease > 0 /\ job'.lease = job.lease - 1 /\ job'.status = job.status
         /\ job'.cursor = job.cursor /\ job'.attempts = job.attempts
         /\ \A i \in Importers :
              \/ importer'[i].phase = "idle"
              \/ /\ importer[i].left > 1 /\ importer'[i].left = importer[i].left - 1
                 /\ importer'[i].phase = importer[i].phase
                 /\ importer'[i].cursor = importer[i].cursor
                 /\ importer'[i].attempts = importer[i].attempts
                 /\ importer'[i].page = importer[i].page
                 /\ importer'[i].last = importer[i].last
<1>1. job \in JobStates /\ importer \in [Importers -> StepStates]
  BY DEF CatalogTypeOK, JobStates, StepStates
<1>2. /\ job' \in JobStates /\ job.lease > 0 /\ job'.lease = job.lease - 1
      /\ job'.status = job.status /\ job'.cursor = job.cursor /\ job'.attempts = job.attempts
  BY <1>1, CatalogAssumption DEF LeaseRunsDown, JobStates
<1>3. ASSUME NEW i \in Importers
      PROVE  /\ importer'[i] \in StepStates
             /\ \/ importer'[i].phase = "idle"
                \/ /\ importer[i].left > 1 /\ importer'[i].left = importer[i].left - 1
                   /\ importer'[i].phase = importer[i].phase
                   /\ importer'[i].cursor = importer[i].cursor
                   /\ importer'[i].attempts = importer[i].attempts
                   /\ importer'[i].page = importer[i].page
                   /\ importer'[i].last = importer[i].last
  <2>1. importer'[i] = IF importer[i].left <= 1 THEN NoStep
                       ELSE [importer[i] EXCEPT !.left = @ - 1]
    BY DEF LeaseRunsDown
  <2>2. importer[i] \in StepStates
    BY <1>1
  <2>3. CASE importer[i].left <= 1
    BY <2>1, <2>3, NoStepTyped DEF NoStep
  <2>4. CASE ~(importer[i].left <= 1)
    BY <2>1, <2>2, <2>4, CatalogAssumption DEF StepStates
  <2>5. QED BY <2>3, <2>4
<1>4. importer' \in [Importers -> StepStates]
  BY <1>3 DEF LeaseRunsDown
<1>5. QED BY <1>2, <1>3, <1>4

LEMMA ImportTyped ==
  ASSUME CatalogTypeOK, LeaseInv, NEW i \in Importers,
         ClaimImport(i) \/ ImportStep(i) \/ ImportFails(i) \/ ImporterDies(i)
  PROVE  CatalogTypeOK'
<1> USE DEF shopVars, rowVars
<1>1. importer[i].page \subseteq Products
  BY DEF CatalogTypeOK
<1>2. CASE ClaimImport(i)
  BY <1>2, ClaimEffect DEF ClaimImport, CatalogTypeOK, JobStates, StepStates
<1>3. CASE FetchPage(i)
  BY <1>3, FetchEffect DEF FetchPage, CatalogTypeOK, StepStates
<1>4. CASE UpsertProducts(i)
  <2>1. importer' \in [Importers -> StepStates]
    BY <1>4, PhaseEffect DEF UpsertProducts, Phases
  <2>2. QED BY <1>1, <1>4, <2>1 DEF UpsertProducts, CatalogTypeOK, StepStates
<1>5. CASE UpsertVariants(i)
  <2>1. importer' \in [Importers -> StepStates]
    BY <1>5, PhaseEffect DEF UpsertVariants, Phases
  <2>2. QED BY <1>1, <1>5, <2>1 DEF UpsertVariants, CatalogTypeOK, StepStates
<1>6. CASE Advance(i)
  <2>1. importer' \in [Importers -> StepStates]
    BY <1>6, IdleEffect DEF Advance
  <2>2. job' \in JobStates
    BY <1>1, <1>6, CatalogAssumption DEF Advance, JobStates, Products
  <2>3. QED BY <1>6, <2>1, <2>2 DEF Advance, CatalogTypeOK, JobStates, StepStates
<1>7. CASE Archive(i)
  <2>1. importer' \in [Importers -> StepStates]
    BY <1>7, PhaseEffect DEF Archive, Phases
  <2>2. QED BY <1>7, <2>1 DEF Archive, CatalogTypeOK, StepStates
<1>8. CASE DeleteVariants(i)
  <2>1. importer' \in [Importers -> StepStates]
    BY <1>8, PhaseEffect DEF DeleteVariants, Phases
  <2>2. QED BY <1>8, <2>1 DEF DeleteVariants, CatalogTypeOK, StepStates
<1>9. CASE CompleteImport(i)
  <2>1. importer' \in [Importers -> StepStates]
    BY <1>9, IdleEffect DEF CompleteImport
  <2>2. job' \in JobStates
    BY <1>9, CatalogAssumption DEF CompleteImport, JobStates, NoJob
  <2>3. QED BY <1>9, <2>1, <2>2 DEF CompleteImport, CatalogTypeOK, JobStates, StepStates
<1>10. CASE ImportFails(i)
  <2>1. importer' \in [Importers -> StepStates] /\ job' \in JobStates
    BY <1>10, IdleEffect, FailEffect DEF ImportFails
  <2>2. QED BY <1>10, <2>1, MishapTyped DEF ImportFails, CatalogTypeOK, JobStates, StepStates
<1>11. CASE ImporterDies(i)
  <2>1. importer' \in [Importers -> StepStates]
    BY <1>11, IdleEffect DEF ImporterDies
  <2>2. QED BY <1>11, <2>1, MishapTyped DEF ImporterDies, CatalogTypeOK, StepStates
<1>12. QED
  BY <1>2, <1>3, <1>4, <1>5, <1>6, <1>7, <1>8, <1>9, <1>10, <1>11 DEF ImportStep

LEMMA CatalogTypeNext ==
  CatalogTypeOK /\ LeaseInv /\ [CatalogNext]_catalogVars => CatalogTypeOK'
<1> SUFFICES ASSUME CatalogTypeOK, LeaseInv, [CatalogNext]_catalogVars PROVE CatalogTypeOK'
  OBVIOUS
<1>1. CASE LeaseRunsDown
  <2>1. mishaps' \in 0 .. MaxMishaps
    BY <1>1, MishapTyped DEF LeaseRunsDown, CatalogTypeOK
  <2>2. QED BY <1>1, <2>1, LeaseEffect
            DEF LeaseRunsDown, shopVars, rowVars, CatalogTypeOK, JobStates, StepStates
<1>2. CASE UNCHANGED catalogVars
  BY <1>2 DEF catalogVars, shopVars, rowVars, CatalogTypeOK
<1>3. QED BY <1>1, <1>2, MerchantTyped, NoteTyped, QueueTyped, ImportTyped DEF CatalogNext

----------------------------------------------------------------------------
(* The lease of the job.                                                   *)

\* While one works nobody else does.
LEMMA OthersIdle ==
  ASSUME LeaseInv, NEW i \in Importers, Working(i), NEW j \in Importers \ {i}
  PROVE  ~Working(j)
  BY DEF LeaseInv, OneImporter, Working

\* A worker that ends leaves nobody at work.
LEMMA WorkerGone ==
  ASSUME CatalogTypeOK, LeaseInv, NEW i \in Importers, Working(i),
         importer' = [importer EXCEPT ![i] = NoStep],
         job'.status \in {"queued", "running"} => job'.attempts < ImportAttempts
  PROVE  LeaseInv' /\ \A j \in Importers : ~Working(j)'
<1>1. \A j \in Importers : ~Working(j)'
  BY IdleEffect, OthersIdle DEF Working
<1>2. QED BY <1>1 DEF LeaseInv, OneImporter, Working

\* A worker that goes on with the cursor and the lease it had.
LEMMA WorkerStays ==
  ASSUME LeaseInv, NEW i \in Importers, Working(i), UNCHANGED job,
         \A j \in Importers \ {i} : importer'[j] = importer[j],
         importer'[i].left = importer[i].left, importer'[i].cursor = importer[i].cursor,
         importer'[i].attempts = importer[i].attempts
  PROVE  LeaseInv'
  BY OthersIdle DEF LeaseInv, OneImporter, Working

\* The counters are naturals.
LEMMA Counters ==
  ASSUME CatalogTypeOK
  PROVE  job.lease \in Nat /\ job.cursor \in Nat /\ \A i \in Importers : importer[i].left \in Nat
<1>1. job \in JobStates /\ importer \in [Importers -> StepStates]
  BY DEF CatalogTypeOK, JobStates, StepStates
<1>2. QED BY <1>1, CatalogAssumption DEF JobStates, StepStates

\* A job can be claimed only when nobody works at it.
LEMMA NobodyWorks ==
  ASSUME CatalogTypeOK, LeaseInv, Available PROVE \A i \in Importers : ~Working(i)
  BY Counters DEF Available, LeaseInv

LEMMA LeaseNext ==
  CatalogTypeOK /\ LeaseInv /\ [CatalogNext]_catalogVars => LeaseInv'
<1> SUFFICES ASSUME CatalogTypeOK, LeaseInv, [CatalogNext]_catalogVars PROVE LeaseInv'
  OBVIOUS
<1>1. CASE UNCHANGED <<job, importer>>
  BY <1>1 DEF LeaseInv, OneImporter, Working
<1>2. CASE QueueImport
  <2>1. \A i \in Importers : ~Working(i)
    BY <1>2 DEF QueueImport, Restartable, LeaseInv
  <2>2. UNCHANGED importer /\ job'.attempts = 0 /\ 0 < ImportAttempts
    BY <1>2, QueueTyped, CatalogAssumption DEF QueueImport
  <2>3. QED BY <2>1, <2>2 DEF LeaseInv, OneImporter, Working
<1>3. CASE LeaseRunsDown
  <2>1. \A i \in Importers : Working(i)' => Working(i) /\ importer[i].left > 1
    BY <1>3, LeaseEffect DEF Working
  <2>2. job.lease \in Nat /\ \A i \in Importers : importer[i].left \in Nat
    BY Counters
  <2>3. OneImporter'
    BY <2>1 DEF LeaseInv, OneImporter, Working
  <2>4. ASSUME NEW i \in Importers, Working(i)'
        PROVE  /\ job'.status = "running"
               /\ 1 <= importer'[i].left /\ importer'[i].left <= job'.lease
               /\ importer'[i].cursor = job'.cursor
               /\ importer'[i].attempts < ImportAttempts
    BY <1>3, <2>1, <2>2, <2>4, LeaseEffect DEF LeaseInv, Working
  <2>5. QED BY <1>3, <2>3, <2>4, LeaseEffect DEF LeaseInv
<1>4. ASSUME NEW i \in Importers, ClaimImport(i) PROVE LeaseInv'
  <2>1. \A j \in Importers : ~Working(j)
    BY <1>4, NobodyWorks DEF ClaimImport
  <2>2. job.attempts < ImportAttempts
    BY <1>4 DEF ClaimImport, Available, LeaseInv
  <2>3. \A j \in Importers : Working(j)' <=> j = i
    BY <1>4, <2>1, ClaimEffect DEF Working
  <2>4. 1 <= importer'[i].left /\ importer'[i].left <= StepTime
    BY <1>4, ClaimEffect, CatalogAssumption
  <2>5. QED BY <1>4, <2>2, <2>3, <2>4, ClaimEffect DEF LeaseInv, OneImporter, Working
<1>5. ASSUME NEW i \in Importers, FetchPage(i) PROVE LeaseInv'
  BY <1>5, FetchEffect, WorkerStays DEF FetchPage, Working
<1>6. ASSUME NEW i \in Importers,
             UpsertProducts(i) \/ UpsertVariants(i) \/ Archive(i) \/ DeleteVariants(i)
      PROVE  LeaseInv'
  <2>1. Working(i) /\ UNCHANGED job
    BY <1>6 DEF UpsertProducts, UpsertVariants, Archive, DeleteVariants, Working
  <2>2. PICK next \in Phases : importer' = [importer EXCEPT ![i].phase = next]
    BY <1>6 DEF UpsertProducts, UpsertVariants, Archive, DeleteVariants, Phases
  <2>3. QED BY <2>1, <2>2, PhaseEffect, WorkerStays
<1>7. ASSUME NEW i \in Importers,
             Advance(i) \/ CompleteImport(i) \/ ImportFails(i) \/ ImporterDies(i)
      PROVE  LeaseInv'
  <2>1. Working(i) /\ importer' = [importer EXCEPT ![i] = NoStep]
    BY <1>7 DEF Advance, CompleteImport, ImportFails, ImporterDies, Working
  <2>2. job'.status \in {"queued", "running"} => job'.attempts < ImportAttempts
    BY <1>7, FailEffect, CatalogAssumption
       DEF Advance, CompleteImport, NoJob, ImporterDies, LeaseInv
  <2>3. QED BY <2>1, <2>2, WorkerGone
<1>8. CASE \/ Create \/ (\E p \in Products : Remove(p))
           \/ \E n \in notes : NoteStep(n) \/ LoseNote(n)
  BY <1>1, <1>8 DEF Create, Remove, NoteStep, LoseNote, HandleUpdate, UpdateVariants,
                    HandleDelete, BlockVariants
<1>9. CASE UNCHANGED catalogVars
  BY <1>1, <1>9 DEF catalogVars
<1>10. QED BY <1>2, <1>3, <1>4, <1>5, <1>6, <1>7, <1>8, <1>9 DEF CatalogNext, ImportStep

----------------------------------------------------------------------------
(* The rows.                                                               *)

\* The worker has a page.
Past(i) == importer[i].phase \notin {"idle", "fetch"}

\* What the cleanup leaves alone.
Safe(p) == /\ cached[p] = "none" \/ p \in fresh
           /\ variants[p] = "none" \/ p \in freshVariants

\* Rows of products that are still to be created are empty, no row of a product
\* that exists is archived, what is fresh is cached, and only a product that is
\* gone has a delete webhook.
RowInv ==
  /\ \A p \in Products : p > born => cached[p] = "none" /\ variants[p] = "none"
  /\ \A p \in exists : cached[p] # "archived"
  /\ \A p \in fresh : cached[p] # "none"
  /\ \A n \in notes : n.topic \in {"delete", "delete variants"} => n.of \notin exists

\* What the import has paged through exists as fresh rows.
CoveredInv ==
  /\ job.cursor <= born
  /\ job.status \in {"queued", "running"} =>
       \A p \in exists : p <= job.cursor => p \in fresh /\ p \in freshVariants

\* The page is the first product there was after the cursor.
PageIsNext(i) ==
  \A p \in importer[i].page :
    /\ p <= born
    /\ \A q \in importer[i].page : p = q
    /\ \A q \in exists : q > job.cursor => p <= q

\* After the last page nothing is left that the cleanup would hit.
RestIsSafe(i) ==
  \A p \in exists : p > job.cursor => p \in importer[i].page \/ Safe(p)

\* What a worker has written of its page, phase by phase.
PageInv ==
  \A i \in Importers :
    /\ Past(i) => PageIsNext(i) /\ (importer[i].last => RestIsSafe(i))
    /\ importer[i].phase \in {"variants", "advance", "archive", "delete", "complete"}
         => importer[i].page \subseteq fresh
    /\ importer[i].phase \in {"advance", "archive", "delete", "complete"}
         => importer[i].page \subseteq freshVariants
    /\ importer[i].phase \in {"archive", "delete", "complete"} => importer[i].last

ImportInv == RowInv /\ CoveredInv /\ PageInv

\* Rows that are written outside the import do not hurt it.
LEMMA RowsKeep ==
  ASSUME CatalogTypeOK, CoveredInv, PageInv, UNCHANGED <<job, importer>>,
         born' \in Nat, born <= born', exists' \subseteq Nat,
          fresh \subseteq fresh', freshVariants \subseteq freshVariants',
         \A p \in exists' : \/ p \in exists /\ (Safe(p) => Safe(p)')
                            \/ p > born /\ Safe(p)'
  PROVE  CoveredInv' /\ PageInv'
<1>1. /\ born \in Nat /\ job.cursor \in Nat /\ \A p \in exists : p \in Nat
      /\ \A i \in Importers : \A p \in importer[i].page : p \in Nat
  <2>1. \A i \in Importers : importer[i].page \subseteq Products
    BY DEF CatalogTypeOK
  <2>2. QED BY <2>1, Positions, Counters
<1>2. \A p \in exists' : p \notin exists => p > job.cursor
  <2>1. job.cursor <= born
    BY DEF CoveredInv
  <2>2. \A p \in exists' : p \in Nat /\ (p \in exists \/ p > born)
    OBVIOUS
  <2>3. QED BY <1>1, <2>1, <2>2
<1>3. CoveredInv'
  <2>1. job'.cursor <= born' /\ job.cursor <= born
    BY <1>1 DEF CoveredInv
  <2>2. ASSUME job.status \in {"queued", "running"}, NEW p \in exists', p <= job.cursor
        PROVE  p \in fresh' /\ p \in freshVariants'
    BY <1>1, <1>2, <2>2 DEF CoveredInv
  <2>3. QED BY <2>1, <2>2 DEF CoveredInv
<1>4. ASSUME NEW i \in Importers, Past(i) PROVE PageIsNext(i)'
  <2> SUFFICES ASSUME NEW p \in importer[i].page
               PROVE  /\ p <= born'
                      /\ \A q \in importer[i].page : p = q
                      /\ \A q \in exists' : q > job.cursor => p <= q
    BY DEF PageIsNext
  <2>1. /\ p \in Nat /\ p <= born
        /\ \A q \in importer[i].page : p = q
        /\ \A q \in exists : q > job.cursor => p <= q
    BY <1>1, <1>4 DEF PageInv, PageIsNext
  <2>2. \A q \in exists' : q \in Nat /\ (q \in exists \/ q > born)
    OBVIOUS
  <2>3. QED BY <1>1, <2>1, <2>2
<1>5. ASSUME NEW i \in Importers, Past(i), importer[i].last PROVE RestIsSafe(i)'
  BY <1>5 DEF PageInv, RestIsSafe
<1>6. PageInv'
  BY <1>4, <1>5 DEF PageInv, Past
<1>7. QED BY <1>3, <1>6

\* What a step may do to a product that exists.
RowsKept == \A p \in exists' : /\ cached'[p] # "archived"
                               /\ variants[p] = "sellable" => variants'[p] = "sellable"

\* A product that is created comes after every page, and its rows are not
\* there.
LEMMA CreateKeeps ==
  ASSUME CatalogTypeOK, ImportInv, Create PROVE ImportInv' /\ RowsKept
<1>1. PICK p \in Products : p = born + 1
  BY Positions DEF Create, Products
<1>2. /\ born' = p /\ p > born /\ p \in Nat /\ born \in Nat /\ exists \subseteq Nat
      /\ exists' = exists \cup {p} /\ \A q \in exists : q <= born
      /\ notes' = notes \cup {[topic |-> "update", of |-> p]}
      /\ UNCHANGED <<cached, variants, fresh, freshVariants, job, importer>>
  <2>1. exists \subseteq 1 .. born
    BY DEF CatalogTypeOK
  <2>2. QED BY <1>1, <2>1, Positions DEF Create, rowVars
<1>3. cached[p] = "none" /\ variants[p] = "none"
  BY <1>1, <1>2 DEF ImportInv, RowInv
<1>4. CoveredInv' /\ PageInv'
  <2>1. \A q \in exists : Safe(q) => Safe(q)'
    BY <1>2 DEF Safe
  <2>2. Safe(p)'
    BY <1>2, <1>3 DEF Safe
  <2>3. \A q \in exists' : (q \in exists /\ (Safe(q) => Safe(q)')) \/ (q > born /\ Safe(q)')
    <3>1. exists' = exists \cup {p} /\ p > born
      BY <1>2
    <3>2. SUFFICES ASSUME NEW q \in exists'
                   PROVE  (q \in exists /\ (Safe(q) => Safe(q)')) \/ (q > born /\ Safe(q)')
      OBVIOUS
    <3>3. CASE q \in exists
      BY <2>1, <3>3
    <3>4. CASE q = p
      BY <2>2, <3>1, <3>4 DEF Safe
    <3>5. QED BY <3>1, <3>3, <3>4
  <2>4. born' \in Nat /\ born <= born' /\ exists' \subseteq Nat
    BY <1>2
  <2>5. QED BY <1>2, <2>3, <2>4, RowsKeep DEF ImportInv
<1>5. RowInv'
  <2>1. \A q \in Products : q > born' => cached'[q] = "none" /\ variants'[q] = "none"
    <3>1. \A q \in Products : q > p => q > born
      <4>1. \A q \in Products : q \in Nat
        BY Positions
      <4>2. QED BY <1>2, <4>1
    <3>2. QED BY <1>2, <3>1 DEF ImportInv, RowInv
  <2>2. \A q \in exists' : cached'[q] # "archived"
    BY <1>2, <1>3 DEF ImportInv, RowInv
  <2>3. \A n \in notes' : n.topic \in {"delete", "delete variants"} => n.of \notin exists'
    <3>1. [topic |-> "update", of |-> p].topic \notin {"delete", "delete variants"}
      OBVIOUS
    <3>2. \A n \in notes : n.of \in Nat /\ n.of <= born /\ n.of # p
      <4>1. p > born /\ p \in Nat /\ born \in Nat
        BY <1>2
      <4>2. SUFFICES ASSUME NEW n \in notes
                     PROVE  n.of \in Nat /\ n.of <= born /\ n.of # p
        OBVIOUS
      <4>3. n.of \in Nat /\ n.of <= born
        BY Positions
      <4>4. QED BY <4>1, <4>3
    <3>3. \A n \in notes : n.topic \in {"delete", "delete variants"} => n.of \notin exists
      BY DEF ImportInv, RowInv
    <3>4. QED BY <1>2, <3>1, <3>2, <3>3
  <2>4. \A q \in fresh' : cached'[q] # "none"
    BY <1>2 DEF ImportInv, RowInv
  <2>5. QED BY <2>1, <2>2, <2>3, <2>4 DEF RowInv
<1>6. RowsKept
  BY <1>2, <1>5 DEF RowsKept, RowInv
<1>7. QED BY <1>4, <1>5, <1>6 DEF ImportInv

\* A product that is deleted asks nothing of the rows any more.
LEMMA RemoveKeeps ==
  ASSUME CatalogTypeOK, ImportInv, NEW p \in Products, Remove(p) PROVE ImportInv' /\ RowsKept
<1>1. /\ exists' = exists \ {p} /\ notes' = notes \cup {[topic |-> "delete", of |-> p]}
      /\ UNCHANGED <<born, cached, variants, fresh, freshVariants, job, importer>>
  BY DEF Remove, rowVars
<1>2. CoveredInv' /\ PageInv'
  <2>1. \A q \in exists : Safe(q) => Safe(q)'
    BY <1>1 DEF Safe
  <2>2. exists \subseteq Nat /\ born \in Nat
    BY Positions
  <2>3. \A q \in exists' : q \in exists /\ (Safe(q) => Safe(q)')
    BY <1>1, <2>1
  <2>4. born' \in Nat /\ born <= born' /\ exists' \subseteq Nat
    <3>1. born' = born /\ exists' \subseteq exists
      BY <1>1
    <3>2. QED BY <2>2, <3>1
  <2>5. QED BY <1>1, <2>3, <2>4, RowsKeep DEF ImportInv
<1>3. RowInv'
  <2>1. [topic |-> "delete", of |-> p].of = p
    OBVIOUS
  <2>2. \A n \in notes' : n.topic \in {"delete", "delete variants"} => n.of \notin exists'
    BY <1>1, <2>1 DEF ImportInv, RowInv
  <2>3. QED BY <1>1, <2>2 DEF ImportInv, RowInv
<1>4. QED BY <1>1, <1>2, <1>3 DEF ImportInv, RowsKept, RowInv

\* A webhook archives only what is gone, and makes fresh what it writes.
LEMMA NoteKeeps ==
  ASSUME CatalogTypeOK, ImportInv, NEW n \in notes, NoteStep(n) \/ LoseNote(n)
  PROVE  ImportInv' /\ RowsKept
<1>1. /\ n.of \in Products /\ n.of \in Nat /\ n.of <= born /\ born \in Nat
      /\ \A p \in Products : p \in Nat
      /\ cached \in [Products -> {"none", "active", "archived"}]
      /\ variants \in [Products -> {"none", "sellable", "unsellable"}]
      /\ exists \subseteq Products
  BY Positions DEF CatalogTypeOK
<1>2. UNCHANGED <<exists, born, job, importer>>
  BY DEF NoteStep, LoseNote, HandleUpdate, UpdateVariants, HandleDelete, BlockVariants
<1>3. /\ \A p \in Products \ {n.of} : cached'[p] = cached[p] /\ variants'[p] = variants[p]
      /\ fresh \subseteq fresh' /\ freshVariants \subseteq freshVariants'
      /\ fresh' \subseteq fresh \cup {n.of}
  BY <1>1 DEF NoteStep, LoseNote, HandleUpdate, UpdateVariants, HandleDelete, BlockVariants,
       rowVars
<1>4. /\ cached'[n.of] = cached[n.of] \/ (cached'[n.of] # "none" /\ n.of \in fresh')
      /\ n.of \in fresh' => n.of \in fresh \/ cached'[n.of] # "none"
      /\ n.of \in fresh => cached'[n.of] = cached[n.of] \/ cached'[n.of] # "none"
      /\ variants'[n.of] = variants[n.of] \/ n.of \in freshVariants'
      /\ n.of \in exists => /\ cached'[n.of] = cached[n.of] \/ cached'[n.of] = "active"
                            /\ variants'[n.of] = variants[n.of] \/ variants'[n.of] = "sellable"
  <2>1. CASE HandleUpdate(n)
    BY <1>1, <2>1 DEF HandleUpdate
  <2>2. CASE UpdateVariants(n)
    BY <1>1, <2>2 DEF UpdateVariants
  <2>3. CASE HandleDelete(n)
    BY <1>1, <2>3 DEF HandleDelete, ImportInv, RowInv
  <2>4. CASE BlockVariants(n)
    BY <1>1, <2>4 DEF BlockVariants, ImportInv, RowInv
  <2>5. CASE LoseNote(n)
    BY <2>5 DEF LoseNote, rowVars
  <2>6. QED BY <2>1, <2>2, <2>3, <2>4, <2>5 DEF NoteStep
<1>5. CoveredInv' /\ PageInv'
  <2>1. \A p \in exists : Safe(p) => Safe(p)'
    BY <1>1, <1>3, <1>4 DEF Safe
  <2>2. QED BY <1>1, <1>2, <1>3, <2>1, RowsKeep DEF ImportInv
<1>6. \A m \in notes' : m.topic \in {"delete", "delete variants"} => m.of \notin exists'
  <2>1. \A m \in notes' : m \in notes \/ m.topic = "update variants" \/ (n.topic = "delete" /\ m.of = n.of)
    <3>1. \A topic : /\ [topic |-> topic, of |-> n.of].topic = topic
                     /\ [topic |-> topic, of |-> n.of].of = n.of
      OBVIOUS
    <3>2. \/ notes' \subseteq notes
          \/ notes' = (notes \ {n}) \cup {[topic |-> "update variants", of |-> n.of]}
          \/ /\ n.topic = "delete"
             /\ notes' = (notes \ {n}) \cup {[topic |-> "delete variants", of |-> n.of]}
      BY DEF NoteStep, LoseNote, HandleUpdate, UpdateVariants, HandleDelete, BlockVariants,
           Turns
    <3>3. QED BY <3>1, <3>2
  <2>2. QED BY <1>2, <2>1 DEF ImportInv, RowInv
<1>7. RowInv'
  <2>1. \A p \in Products : p > born => p # n.of
    BY <1>1
  <2>2. \A p \in Products : p > born' => cached'[p] = "none" /\ variants'[p] = "none"
    BY <1>2, <1>3, <2>1 DEF ImportInv, RowInv
  <2>3. \A p \in exists' : cached'[p] # "archived"
    BY <1>1, <1>2, <1>3, <1>4, ZenonT(30) DEF ImportInv, RowInv
  <2>4. \A p \in fresh' : cached'[p] # "none"
    <3>1. fresh \subseteq Products
      BY DEF CatalogTypeOK
    <3>2. QED BY <1>3, <1>4, <3>1, ZenonT(30) DEF ImportInv, RowInv
  <2>5. QED BY <1>6, <2>2, <2>3, <2>4 DEF RowInv
<1>8. RowsKept
  BY <1>1, <1>2, <1>3, <1>4, ZenonT(30) DEF ImportInv, RowInv, RowsKept
<1>9. QED BY <1>5, <1>7, <1>8 DEF ImportInv

\* Steps that move the job or a worker and leave the rows alone.
LEMMA JobKeeps ==
  ASSUME CatalogTypeOK, LeaseInv, ImportInv, UNCHANGED <<shopVars, cached, variants>>,
         \/ QueueImport \/ LeaseRunsDown
         \/ \E i \in Importers : \/ ClaimImport(i) \/ FetchPage(i) \/ Advance(i)
                                 \/ CompleteImport(i) \/ ImportFails(i) \/ ImporterDies(i)
  PROVE  ImportInv' /\ RowsKept
<1>1. RowsKept /\ UNCHANGED <<exists, born, notes, cached, variants>>
  BY DEF shopVars, RowsKept, ImportInv, RowInv
<1>2. /\ born \in Nat /\ job.cursor \in Nat /\ \A p \in exists : p \in Nat /\ p >= 1 /\ p <= born
      /\ \A i \in Importers : \A p \in importer[i].page : p \in Nat /\ p \in Products
  <2>1. \A i \in Importers : importer[i].page \subseteq Products
    BY DEF CatalogTypeOK
  <2>2. exists \subseteq 1 .. born
    BY DEF CatalogTypeOK
  <2>3. QED BY <2>1, <2>2, Positions, Counters
<1>3. CASE QueueImport
  <2>1. \A i \in Importers : importer'[i].phase = "idle"
    BY <1>3 DEF QueueImport, Restartable, LeaseInv, Working
  <2>2. PageInv'
    BY <2>1 DEF PageInv, Past
  <2>3. CoveredInv'
    BY <1>1, <1>2, <1>3, QueueTyped DEF CoveredInv
  <2>4. RowInv'
    BY <1>1, <1>3 DEF QueueImport, ImportInv, RowInv
  <2>5. QED BY <1>1, <2>2, <2>3, <2>4 DEF ImportInv
<1>4. CASE LeaseRunsDown
  <2>1. UNCHANGED <<fresh, freshVariants>> /\ RowInv'
    BY <1>1, <1>4 DEF LeaseRunsDown, rowVars, ImportInv, RowInv
  <2>2. CoveredInv'
    BY <1>1, <1>4, <2>1, LeaseEffect DEF ImportInv, CoveredInv
  <2>3. ASSUME NEW i \in Importers, importer'[i].phase # "idle"
        PROVE  /\ importer'[i].phase = importer[i].phase /\ importer'[i].page = importer[i].page
               /\ importer'[i].last = importer[i].last
    BY <1>4, <2>3, LeaseEffect
  <2>4. job'.cursor = job.cursor
    BY <1>4, LeaseEffect
  <2>5. PageInv'
    BY <1>1, <2>1, <2>3, <2>4 DEF ImportInv, PageInv, Past, PageIsNext, RestIsSafe, Safe
  <2>6. QED BY <1>1, <2>1, <2>2, <2>5 DEF ImportInv
<1>5. ASSUME NEW i \in Importers,
             \/ ClaimImport(i) \/ FetchPage(i) \/ Advance(i)
             \/ CompleteImport(i) \/ ImportFails(i) \/ ImporterDies(i)
      PROVE  ImportInv'
  <2>1. UNCHANGED <<fresh, freshVariants>> /\ RowInv'
    BY <1>1, <1>5 DEF ClaimImport, FetchPage, Advance, CompleteImport, ImportFails,
         ImporterDies, rowVars, ImportInv, RowInv
  <2>2. CASE ClaimImport(i)
    <3>1. CoveredInv'
      BY <1>1, <2>1, <2>2, ClaimEffect DEF ClaimImport, Available, ImportInv, CoveredInv
    <3>2. \A j \in Importers : importer'[j].phase \in {"idle", "fetch"}
      <4>1. \A j \in Importers : ~Working(j)
        BY <2>2, NobodyWorks DEF ClaimImport
      <4>2. QED BY <2>2, <4>1, ClaimEffect DEF Working
    <3>3. PageInv'
      BY <3>2 DEF PageInv, Past
    <3>4. QED BY <2>1, <3>1, <3>3 DEF ImportInv
  <2>3. CASE FetchPage(i)
    <3>1. Working(i) /\ importer[i].cursor = job.cursor /\ UNCHANGED job
      BY <2>3 DEF FetchPage, Working, LeaseInv
    <3>2. \A j \in Importers \ {i} : importer'[j].phase = "idle"
      BY <2>3, <3>1, FetchEffect, OthersIdle DEF Working
    <3>3. PageIsNext(i)'
      <4>1. importer'[i].page = First(After(job.cursor))
        BY <2>3, <3>1, FetchEffect
      <4>2. First(After(job.cursor)) \subseteq After(job.cursor)
        BY DEF First
      <4>3. \A p \in First(After(job.cursor)), q \in After(job.cursor) : p <= q
        BY DEF First
      <4>4. After(job.cursor) = {p \in exists : p > job.cursor}
        BY DEF After
      <4>5. QED BY <1>1, <1>2, <3>1, <4>1, <4>2, <4>3, <4>4 DEF PageIsNext
    <3>4. importer'[i].last => RestIsSafe(i)'
      <4>1. importer'[i].last => importer'[i].page = After(job.cursor)
        BY <2>3, <3>1, FetchEffect
      <4>2. QED BY <1>1, <3>1, <4>1 DEF After, RestIsSafe
    <3>5. importer'[i].phase = "products"
      BY <2>3, FetchEffect
    <3>6. PageInv'
      BY <3>2, <3>3, <3>4, <3>5 DEF PageInv, Past
    <3>7. CoveredInv'
      BY <1>1, <2>1, <3>1 DEF ImportInv, CoveredInv
    <3>8. QED BY <2>1, <3>6, <3>7 DEF ImportInv
  <2>4. CASE Advance(i) \/ CompleteImport(i) \/ ImportFails(i) \/ ImporterDies(i)
    <3>1. Working(i) /\ importer' = [importer EXCEPT ![i] = NoStep]
      BY <2>4 DEF Advance, CompleteImport, ImportFails, ImporterDies, Working
    <3>2. \A j \in Importers : importer'[j].phase = "idle"
      BY <3>1, IdleEffect, OthersIdle DEF Working
    <3>3. PageInv'
      BY <3>2 DEF PageInv, Past
    <3>4. CoveredInv'
      <4>1. CASE Advance(i)
        <5>1. PICK p \in importer[i].page :
                job' = [status |-> "queued", cursor |-> p, attempts |-> 0, lease |-> 0]
          BY <4>1 DEF Advance
        <5>2. /\ PageIsNext(i) /\ importer[i].page \subseteq fresh
              /\ importer[i].page \subseteq freshVariants
          BY <4>1 DEF Advance, ImportInv, PageInv, Past
        <5>3. job.status = "running"
          BY <3>1 DEF LeaseInv
        <5>4. p <= born /\ p \in fresh /\ p \in freshVariants
              /\ \A q \in exists : q > job.cursor => p <= q
          BY <5>1, <5>2 DEF PageIsNext
        <5>5. \A q \in exists : q <= p => q \in fresh /\ q \in freshVariants
          <6> SUFFICES ASSUME NEW q \in exists, q <= p PROVE q \in fresh /\ q \in freshVariants
            OBVIOUS
          <6>1. CASE q <= job.cursor
            BY <5>3, <6>1 DEF ImportInv, CoveredInv
          <6>2. CASE q > job.cursor
            BY <1>2, <5>1, <5>4, <6>2
          <6>3. QED BY <1>2, <6>1, <6>2
        <5>6. QED BY <1>1, <2>1, <5>1, <5>4, <5>5 DEF CoveredInv
      <4>2. CASE CompleteImport(i)
        BY <1>1, <1>2, <4>2 DEF CompleteImport, NoJob, CoveredInv
      <4>3. CASE ImportFails(i)
        <5>1. job.status = "running"
          BY <3>1 DEF LeaseInv
        <5>2. QED BY <1>1, <2>1, <4>3, <5>1, FailEffect DEF ImportInv, CoveredInv
      <4>4. CASE ImporterDies(i)
        BY <1>1, <2>1, <4>4 DEF ImporterDies, ImportInv, CoveredInv
      <4>5. QED BY <2>4, <4>1, <4>2, <4>3, <4>4
    <3>5. QED BY <2>1, <3>3, <3>4 DEF ImportInv
  <2>5. QED BY <1>5, <2>2, <2>3, <2>4
<1>6. QED BY <1>1, <1>3, <1>4, <1>5

----------------------------------------------------------------------------
(* The cleanup, and the phases that write.                                 *)

\* The products that exist while the import cleans up are safe from it.
LEMMA CleanupIsSafe ==
  ASSUME CatalogTypeOK, LeaseInv, ImportInv, NEW i \in Importers,
         importer[i].phase \in {"archive", "delete"}, NEW p \in exists
  PROVE  Safe(p)
<1>1. p \in Nat /\ job.cursor \in Nat
  BY Positions, Counters
<1>2. CASE p <= job.cursor
  BY <1>2 DEF LeaseInv, Working, ImportInv, CoveredInv, Safe
<1>3. CASE p > job.cursor
  BY <1>3 DEF ImportInv, PageInv, Past, RestIsSafe, Safe
<1>4. QED BY <1>1, <1>2, <1>3

\* A worker that goes on to its next phase, writing rows.
LEMMA PhaseKeeps ==
  ASSUME CatalogTypeOK, LeaseInv, ImportInv, NEW i \in Importers, Past(i),
         NEW next \in Phases \ {"idle", "fetch"},
         importer' = [importer EXCEPT ![i].phase = next],
         UNCHANGED <<shopVars, job>>,
         fresh \subseteq fresh', freshVariants \subseteq freshVariants',
         \A p \in exists : Safe(p) => Safe(p)',
         next \in {"variants", "advance", "archive", "delete", "complete"}
           => importer[i].page \subseteq fresh',
         next \in {"advance", "archive", "delete", "complete"}
           => importer[i].page \subseteq freshVariants',
         next \in {"archive", "delete", "complete"} => importer[i].last
  PROVE  CoveredInv' /\ PageInv'
<1>1. UNCHANGED <<exists, born, job>>
  BY DEF shopVars
<1>2. CoveredInv'
  BY <1>1 DEF ImportInv, CoveredInv
<1>3. \A j \in Importers \ {i} : importer'[j].phase = "idle"
  BY PhaseEffect, OthersIdle DEF Past, Working
<1>4. /\ importer'[i].phase = next /\ importer'[i].page = importer[i].page
      /\ importer'[i].last = importer[i].last
  BY PhaseEffect
<1>5. PageIsNext(i)' /\ (importer'[i].last => RestIsSafe(i)')
  BY <1>1, <1>4 DEF ImportInv, PageInv, PageIsNext, RestIsSafe
<1>6. PageInv'
  BY <1>3, <1>4, <1>5 DEF PageInv, Past
<1>7. QED BY <1>2, <1>6

\* The page is written.
LEMMA UpsertKeeps ==
  ASSUME CatalogTypeOK, LeaseInv, ImportInv, NEW i \in Importers,
         UpsertProducts(i) \/ UpsertVariants(i) \/ Archive(i) \/ DeleteVariants(i)
  PROVE  ImportInv' /\ RowsKept
<1>1. /\ Past(i) /\ importer[i].page \subseteq Products /\ exists \subseteq Products
      /\ born \in Nat /\ (\A p \in Products : p \in Nat)
      /\ UNCHANGED <<shopVars, job>> /\ UNCHANGED <<exists, born, notes>>
      /\ fresh \subseteq Products
  BY Positions DEF UpsertProducts, UpsertVariants, Archive, DeleteVariants, Past, CatalogTypeOK,
                   shopVars
<1>2. /\ \A p \in importer[i].page : p <= born
      /\ importer[i].phase \in {"variants", "archive", "delete"} => importer[i].page \subseteq fresh
      /\ importer[i].phase \in {"archive", "delete"} =>
           importer[i].page \subseteq freshVariants /\ importer[i].last
  BY <1>1 DEF ImportInv, PageInv, PageIsNext
<1>3. CASE UpsertProducts(i)
  <2>1. /\ \A p \in Products : cached'[p] = IF p \in importer[i].page THEN "active" ELSE cached[p]
        /\ fresh' = fresh \cup importer[i].page /\ UNCHANGED <<variants, freshVariants>>
        /\ importer' = [importer EXCEPT ![i].phase = "variants"]
    BY <1>3 DEF UpsertProducts
  <2>2. \A p \in exists : Safe(p) => Safe(p)'
    BY <1>1, <2>1 DEF Safe
  <2>3. CoveredInv' /\ PageInv'
    BY <1>1, <2>1, <2>2, PhaseKeeps DEF Phases
  <2>4. RowInv'
    <3>1. \A p \in Products : p > born => p \notin importer[i].page
      BY <1>1, <1>2
    <3>2. \A p \in Products : p > born' => cached'[p] = "none" /\ variants'[p] = "none"
      BY <1>1, <2>1, <3>1 DEF ImportInv, RowInv
    <3>3. \A p \in exists' : cached'[p] # "archived"
      BY <1>1, <2>1 DEF ImportInv, RowInv
    <3>4. \A p \in fresh' : cached'[p] # "none"
      BY <1>1, <2>1 DEF ImportInv, RowInv
    <3>5. QED BY <1>1, <3>2, <3>3, <3>4 DEF ImportInv, RowInv
  <2>5. QED BY <1>1, <2>1, <2>3, <2>4 DEF ImportInv, RowInv, RowsKept
<1>4. CASE UpsertVariants(i)
  <2>1. /\ \A p \in Products :
             variants'[p] = IF p \in importer[i].page THEN "sellable" ELSE variants[p]
        /\ freshVariants' = freshVariants \cup importer[i].page /\ UNCHANGED <<cached, fresh>>
        /\ importer' = [importer EXCEPT ![i].phase =
                          IF importer[i].last THEN "archive" ELSE "advance"]
        /\ importer[i].phase = "variants"
    BY <1>4 DEF UpsertVariants
  <2>2. \A p \in exists : Safe(p) => Safe(p)'
    BY <1>1, <2>1 DEF Safe
  <2>3. CoveredInv' /\ PageInv'
    <3>1. CASE importer[i].last
      BY <1>1, <1>2, <2>1, <2>2, <3>1, PhaseKeeps DEF Phases
    <3>2. CASE ~importer[i].last
      BY <1>1, <1>2, <2>1, <2>2, <3>2, PhaseKeeps DEF Phases
    <3>3. QED BY <3>1, <3>2
  <2>4. RowInv'
    BY <1>1, <1>2, <2>1 DEF ImportInv, RowInv
  <2>5. QED BY <1>1, <2>1, <2>3, <2>4 DEF ImportInv, RowInv, RowsKept
<1>5. CASE Archive(i)
  <2>1. /\ \A p \in Products :
             cached'[p] = IF cached[p] # "none" /\ p \notin fresh THEN "archived" ELSE cached[p]
        /\ fresh' = {p \in Products : cached[p] # "none"} /\ UNCHANGED <<variants, freshVariants>>
        /\ importer' = [importer EXCEPT ![i].phase = "delete"] /\ importer[i].phase = "archive"
    BY <1>5 DEF Archive
  <2>2. fresh \subseteq fresh'
    BY <1>1, <2>1 DEF ImportInv, RowInv
  <2>3. \A p \in exists : Safe(p) /\ cached'[p] = cached[p]
    BY <1>1, <2>1, CleanupIsSafe DEF Safe
  <2>4. \A p \in exists : Safe(p) => Safe(p)'
    BY <1>1, <2>1, <2>2, <2>3 DEF Safe
  <2>5. CoveredInv' /\ PageInv'
    BY <1>1, <1>2, <2>1, <2>2, <2>4, PhaseKeeps DEF Phases
  <2>6. RowInv'
    BY <1>1, <2>1, <2>3 DEF ImportInv, RowInv
  <2>7. QED BY <1>1, <2>1, <2>3, <2>5, <2>6 DEF ImportInv, RowInv, RowsKept
<1>6. CASE DeleteVariants(i)
  <2>1. /\ \A p \in Products :
             variants'[p] = IF p \notin freshVariants THEN "none" ELSE variants[p]
        /\ UNCHANGED <<cached, fresh, freshVariants>>
        /\ importer' = [importer EXCEPT ![i].phase = "complete"] /\ importer[i].phase = "delete"
    BY <1>6 DEF DeleteVariants
  <2>2. \A p \in exists : Safe(p) /\ variants'[p] = variants[p]
    BY <1>1, <2>1, CleanupIsSafe DEF Safe
  <2>3. \A p \in exists : Safe(p) => Safe(p)'
    BY <1>1, <2>1, <2>2 DEF Safe
  <2>4. CoveredInv' /\ PageInv'
    BY <1>1, <1>2, <2>1, <2>3, PhaseKeeps DEF Phases
  <2>5. RowInv'
    BY <1>1, <2>1 DEF ImportInv, RowInv
  <2>6. QED BY <1>1, <2>1, <2>2, <2>4, <2>5 DEF ImportInv, RowInv, RowsKept
<1>7. QED BY <1>3, <1>4, <1>5, <1>6

\* The inductive invariant.
CatalogInv == CatalogTypeOK /\ LeaseInv /\ ImportInv

LEMMA CatalogInvInit == CatalogInit => CatalogInv
<1> SUFFICES ASSUME CatalogInit PROVE LeaseInv /\ ImportInv
  BY CatalogTypeInit DEF CatalogInv
<1>1. /\ \A i \in Importers : importer[i].phase = "idle"
      /\ job.status = "none" /\ job.cursor = 0
  BY DEF CatalogInit, NoStep, NoJob
<1>2. LeaseInv
  BY <1>1 DEF LeaseInv, OneImporter, Working
<1>3. PageInv
  BY <1>1 DEF PageInv, Past
<1>4. CoveredInv
  BY <1>1, CatalogTypeInit, Positions DEF CoveredInv
<1>5. RowInv
  BY CatalogTypeInit, Positions DEF CatalogInit, RowInv
<1>6. QED BY <1>2, <1>3, <1>4, <1>5 DEF ImportInv

LEMMA ImportNext ==
  ASSUME CatalogTypeOK, LeaseInv, ImportInv, [CatalogNext]_catalogVars
  PROVE  ImportInv' /\ RowsKept
<1>1. CASE QueueImport \/ LeaseRunsDown
  BY <1>1, JobKeeps DEF QueueImport, LeaseRunsDown, rowVars
<1>2. ASSUME NEW i \in Importers,
             ClaimImport(i) \/ ImportStep(i) \/ ImportFails(i) \/ ImporterDies(i)
      PROVE  ImportInv' /\ RowsKept
  <2>1. CASE UpsertProducts(i) \/ UpsertVariants(i) \/ Archive(i) \/ DeleteVariants(i)
    BY <2>1, UpsertKeeps
  <2>2. CASE \/ ClaimImport(i) \/ FetchPage(i) \/ Advance(i)
             \/ CompleteImport(i) \/ ImportFails(i) \/ ImporterDies(i)
    <3>1. UNCHANGED <<shopVars, cached, variants>>
      BY <2>2 DEF ClaimImport, FetchPage, Advance, CompleteImport, ImportFails, ImporterDies,
           rowVars
    <3>2. QED BY <2>2, <3>1, JobKeeps
  <2>3. QED BY <1>2, <2>1, <2>2 DEF ImportStep
<1>3. CASE UNCHANGED catalogVars
  <2>1. UNCHANGED <<exists, born, notes, cached, variants, fresh, freshVariants, job, importer>>
    BY <1>3 DEF catalogVars, shopVars, rowVars
  <2>2. RowInv' /\ CoveredInv'
    BY <2>1 DEF ImportInv, RowInv, CoveredInv
  <2>3. PageInv'
    BY <2>1 DEF ImportInv, PageInv, Past, PageIsNext, RestIsSafe, Safe
  <2>4. QED BY <2>1, <2>2, <2>3 DEF ImportInv, RowInv, RowsKept
<1>4. QED BY <1>1, <1>2, <1>3, CreateKeeps, RemoveKeeps, NoteKeeps DEF CatalogNext

LEMMA CatalogInvNext == CatalogInv /\ [CatalogNext]_catalogVars => CatalogInv'
  BY CatalogTypeNext, LeaseNext, ImportNext DEF CatalogInv

LEMMA CatalogInvariant == CatalogSpec => []CatalogInv
<1>1. QED BY CatalogInvInit, CatalogInvNext, PTL DEF CatalogSpec

\* CatalogTypeOK is an invariant: every variable of the import, of its rows and
\* of the webhooks keeps its type.
THEOREM CatalogTypeCorrect == CatalogSpec => []CatalogTypeOK
<1>1. CatalogInv => CatalogTypeOK
  BY DEF CatalogInv
<1>2. QED BY <1>1, CatalogInvariant, PTL

\* OneImporter: two workers never import a shop together, however many compete,
\* because the lease of the job outlives the step that renewed it.
THEOREM OneImporterAtATime == CatalogSpec => []OneImporter
<1>1. CatalogInv => OneImporter
  BY DEF CatalogInv, LeaseInv
<1>2. QED BY <1>1, CatalogInvariant, PTL

\* ValidRowsAreKept: no step of an import, a webhook or a cleanup archives or
\* blocks the rows of a product that exists, whatever products are created and
\* deleted while the import pages and however often it fails and is taken over.
THEOREM ValidRowsStay == CatalogSpec => ValidRowsAreKept
<1>1. CatalogInv /\ [CatalogNext]_catalogVars =>
        [\A p \in exists' : /\ cached'[p] # "archived"
                            /\ variants[p] = "sellable" => variants'[p] = "sellable"]_catalogVars
  BY ImportNext DEF CatalogInv, RowsKept
<1>2. QED BY <1>1, CatalogInvariant, PTL DEF CatalogSpec, ValidRowsAreKept
=============================================================================

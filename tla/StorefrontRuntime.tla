-------------------------- MODULE StorefrontRuntime --------------------------
(***************************************************************************)
(* A storefront page keeps the gift of one offer in the shopper's cart     *)
(* (packages/storefront-runtime/src/runtime.ts): every change of the cart  *)
(* triggers an evaluation, a newer one supersedes the older, and a gift    *)
(* that the shopper took out stays out (declined-gifts.ts).                *)
(*                                                                         *)
(* The offer asks for one line, Anchor, and gives one unit of an auto-add  *)
(* gift (packages/rule-engine/src/evaluator.ts).  The cart is Shopify's;   *)
(* what the page knows of it is a snapshot.                                *)
(***************************************************************************)
EXTENDS Naturals

CONSTANTS Anchor,        \* the paid line the offer asks for
          Others,        \* other paid lines
          MaxTurns,      \* bound on what the shopper does
          MaxRateRetries,  \* MAX_RATE_LIMIT_RETRIES
          MaxGlitches    \* bound on requests that fail for good

ASSUME StorefrontAssumption == /\ Anchor \notin Others
                               /\ MaxTurns \in Nat /\ MaxRateRetries \in Nat
                               /\ MaxGlitches \in Nat

Lines == Others \cup {Anchor}
Carts == [paid : SUBSET Lines, gift : 0 .. 2]

VARIABLES
  cart,         \* Shopify's: the paid lines, the units of the gift
  timer,        \* debouncedEvaluate is pending
  retry,        \* retryTimer is set
  retries,      \* rateLimitRetries
  waiting,      \* an evaluation that is not aborted is next on evaluationChain
  eval,         \* the evaluation at the head of the chain
  lastHash,     \* lastCartHash: the snapshot, none at first
  known,        \* knownGiftKeys: none at first, else whether it has the gift
  knownPaid,    \* knownPaidLineKeys
  seen,         \* seenGiftKeys
  addedAt,      \* giftAddedAt: unset, within GIFT_ADD_GRACE_MS, or before
  declined,     \* declinedGiftRewards and its copy in sessionStorage
  turns, glitches,
  left,         \* history: the shopper took the gift out since it was last seen
  stale,        \* history: some answer was from before
  refused       \* history: the page knew the gift, the shopper took it out, and
                \* the offer has gone on qualifying

chainVars   == <<timer, retry, retries, waiting, eval>>
memoryVars  == <<lastHash, known, knownPaid, seen, addedAt, declined>>
historyVars == <<left, stale, refused>>
storefrontVars == <<cart, chainVars, memoryVars, turns, glitches, historyVars>>

NoRun == [phase |-> "none", aborted |-> FALSE, snap |-> {}, action |-> "none", done |-> FALSE]

Qualifies(c) == Anchor \in c.paid

\* init: a page with an empty cart and no widget of the app waits for a change.
FirstLook(c) == {TRUE, c.paid # {} \/ c.gift > 0}

StorefrontInit ==
  /\ cart \in [paid : SUBSET Lines, gift : {0}]
  /\ timer = FALSE /\ retry = FALSE /\ retries = 0
  /\ waiting \in FirstLook(cart) /\ eval = NoRun
  /\ lastHash = {} /\ known = "none" /\ knownPaid = {} /\ seen = FALSE
  /\ addedAt = "unset" /\ declined = FALSE
  /\ turns = 0 /\ glitches = 0 /\ left = FALSE /\ stale = FALSE /\ refused = FALSE

Glitch == glitches < MaxGlitches /\ glitches' = glitches + 1

TriggerIfIdle == /\ waiting' = (waiting \/ eval.phase = "none") /\ retry' = FALSE
                 /\ UNCHANGED eval

\* triggerEvaluation: whatever runs or waits is superseded.
Trigger == /\ waiting' = TRUE /\ retry' = FALSE
           /\ eval' = [eval EXCEPT !.aborted = (eval.phase # "none")]

EndRun == eval' = NoRun

----------------------------------------------------------------------------
(* The shopper, with the theme's own controls.                             *)

Turn(c) == /\ turns < MaxTurns /\ turns' = turns + 1
           /\ cart' = c
           /\ refused' = (refused /\ Qualifies(c))

\* Other changes than an add are evaluated when the cart has been quiet.
Debounced == timer' = TRUE /\ UNCHANGED <<retry, waiting, eval>>

\* A theme's add waits for the gifts: settleGifts triggers at once.
AddPaid(l) ==
  /\ l \notin cart.paid
  /\ Turn([cart EXCEPT !.paid = @ \cup {l}])
  /\ Trigger /\ timer' = FALSE
  /\ UNCHANGED <<retries, memoryVars, glitches, left, stale>>

RemovePaid(l) ==
  /\ l \in cart.paid
  /\ Turn([cart EXCEPT !.paid = @ \ {l}]) /\ Debounced
  /\ UNCHANGED <<retries, memoryVars, glitches, left, stale>>

RaiseGift ==
  /\ cart.gift = 1
  /\ Turn([cart EXCEPT !.gift = 2]) /\ Debounced
  /\ UNCHANGED <<retries, memoryVars, glitches, left, stale>>

\* The page knows the gift, and no evaluation of a cart without it is under way.
Known == /\ known = "gift" /\ seen /\ addedAt # "recent"
         /\ \A c \in eval.snap : c.gift > 0

RemoveGift ==
  /\ cart.gift > 0
  /\ turns < MaxTurns /\ turns' = turns + 1
  /\ cart' = [cart EXCEPT !.gift = 0] /\ Debounced
  /\ left' = TRUE
  /\ refused' = (refused \/ (Known /\ Qualifies(cart) /\ Anchor \in knownPaid))
  /\ UNCHANGED <<retries, memoryVars, glitches, stale>>

ClearCart ==
  /\ cart.paid # {}
  /\ Turn([paid |-> {}, gift |-> 0]) /\ Debounced
  /\ left' = (left \/ cart.gift > 0)
  /\ UNCHANGED <<retries, memoryVars, glitches, stale>>

\* Another page: a new runtime, which knows only what sessionStorage holds.  A
\* request under way may or may not have reached Shopify.
Act(action, c) ==
  CASE action = "add" /\ c.gift < 2     -> [c EXCEPT !.gift = @ + 1]
    [] action = "shrink" /\ c.gift > 0  -> [c EXCEPT !.gift = 1]
    [] action = "remove"                -> [c EXCEPT !.gift = 0]
    [] OTHER                            -> c

OpenPage ==
  /\ turns < MaxTurns /\ turns' = turns + 1
  /\ cart' \in {cart, IF eval.phase = "act" THEN Act(eval.action, cart) ELSE cart}
  /\ timer' = FALSE /\ retry' = FALSE /\ retries' = 0
  /\ waiting' \in FirstLook(cart') /\ eval' = NoRun
  /\ lastHash' = {} /\ known' = "none" /\ knownPaid' = {} /\ seen' = FALSE
  /\ addedAt' = "unset" /\ refused' = FALSE
  /\ UNCHANGED <<declined, glitches, left, stale>>

----------------------------------------------------------------------------
(* Timers.                                                                 *)

FireTimer ==
  /\ timer /\ timer' = FALSE /\ Trigger
  /\ UNCHANGED <<cart, retries, memoryVars, turns, glitches, historyVars>>

FireRetry ==
  /\ retry /\ Trigger
  /\ UNCHANGED <<cart, timer, retries, memoryVars, turns, glitches, historyVars>>

\* A cart under way was read from Shopify less than GIFT_ADD_GRACE_MS ago.
GraceEnds ==
  /\ addedAt = "recent" /\ eval.phase # "compare" /\ addedAt' = "before"
  /\ UNCHANGED <<cart, chainVars, lastHash, known, knownPaid, seen, declined,
                 turns, glitches, historyVars>>

----------------------------------------------------------------------------
(* runEvaluation                                                           *)

StartRun ==
  /\ eval.phase = "none" /\ waiting
  /\ waiting' = FALSE /\ eval' = [NoRun EXCEPT !.phase = "cart"]
  /\ UNCHANGED <<cart, timer, retry, retries, memoryVars, turns, glitches, historyVars>>

\* getCart.  Right after an add of the page's own the answer may be from before.
Fetched == {cart} \cup {c \in {[cart EXCEPT !.gift = 0]} : addedAt = "recent"}

FetchCart ==
  /\ eval.phase = "cart"
  /\ \/ \E c \in Fetched : /\ eval' = [eval EXCEPT !.phase = "compare", !.snap = {c}]
                           /\ left' = (left /\ c.gift = 0)
                           /\ stale' = (stale \/ c # cart)
        /\ UNCHANGED glitches
     \/ Glitch /\ EndRun /\ UNCHANGED <<left, stale>>
  /\ UNCHANGED <<cart, timer, retry, retries, waiting, memoryVars, turns, refused>>

\* detectDeclinedGifts
Snap        == CHOOSE c \in eval.snap : TRUE
HasGift     == Snap.gift > 0
Replaced    == knownPaid # {} /\ Snap.paid \cap knownPaid = {}
TakenAnyway == known = "gift" /\ ~Replaced /\ ~HasGift /\ ~declined /\ seen
TakenOut    == known = "gift" /\ ~Replaced /\ ~HasGift /\ ~declined
               /\ seen /\ addedAt # "recent"

Detect ==
  /\ knownPaid' = Snap.paid
  /\ declined' = (declined \/ TakenOut)
  /\ seen' = (HasGift \/ (seen /\ ~TakenOut))
  /\ addedAt' = IF HasGift THEN "unset" ELSE addedAt

Compare ==
  /\ eval.phase = "compare"
  /\ \/ eval.aborted /\ EndRun /\ UNCHANGED <<knownPaid, declined, seen, addedAt>>
     \/ /\ ~eval.aborted /\ Detect
        /\ IF eval.snap = lastHash THEN EndRun ELSE eval' = [eval EXCEPT !.phase = "ask"]
  /\ UNCHANGED <<cart, timer, retry, retries, waiting, lastHash, known, turns, glitches,
                 historyVars>>

\* evaluateOffers for an auto-add gift of quantity one
CartAction == IF ~Qualifies(Snap) THEN IF HasGift THEN "remove" ELSE "none"
              ELSE IF declined THEN "none"
              ELSE CASE Snap.gift = 0 -> "add"
                     [] Snap.gift = 1 -> "none"
                     [] OTHER         -> "shrink"

\* clearDeclinedGiftsForUnqualifiedOffers
Forgotten(c) == FALSE
StaysDeclined(c) == Qualifies(c)

AnswerArrives ==
  /\ eval.phase = "ask" /\ ~eval.aborted
  /\ lastHash' = eval.snap /\ retries' = 0
  /\ declined' = (declined /\ StaysDeclined(Snap))
  /\ eval' = [eval EXCEPT !.phase = "act", !.action = CartAction]
  /\ UNCHANGED <<cart, timer, retry, waiting, known, knownPaid, seen, addedAt, turns,
                 glitches, historyVars>>

\* postEvaluate is aborted, refused or times out.
NoAnswer ==
  /\ eval.phase = "ask"
  /\ IF eval.aborted THEN UNCHANGED glitches ELSE Glitch
  /\ EndRun
  /\ UNCHANGED <<cart, timer, retry, retries, waiting, memoryVars, turns, historyVars>>

AlwaysRetry == retries' = retries + 1 /\ retry' = TRUE /\ UNCHANGED glitches
RetryLater  == \/ /\ retries < MaxRateRetries
                  /\ retries' = retries + 1 /\ retry' = TRUE /\ UNCHANGED glitches
               \/ /\ retries = MaxRateRetries
                  /\ retries' = 0 /\ Glitch /\ UNCHANGED retry

\* 429 or 503 with Retry-After: scheduleRateLimitRetry
RateLimited ==
  /\ eval.phase = "ask" /\ ~eval.aborted
  /\ RetryLater /\ EndRun
  /\ UNCHANGED <<cart, timer, waiting, memoryVars, turns, historyVars>>

\* applyCartActions: a newer evaluation no longer stops it.  A request that
\* fails may have been executed all the same; a line that is gone already is not
\* marked as removed.
ApplyAction ==
  /\ eval.phase = "act"
  /\ \/ cart' = Act(eval.action, cart) /\ UNCHANGED glitches
        /\ eval' = [eval EXCEPT !.phase = "applied",
                                !.done = (eval.action = "remove" => cart.gift > 0)]
     \/ eval.action # "none" /\ Glitch
        /\ cart' \in {cart, Act(eval.action, cart)}
        /\ eval' = [eval EXCEPT !.phase = "applied"]
  /\ UNCHANGED <<timer, retry, retries, waiting, memoryVars, turns, historyVars>>

\* expectedGiftKeys, and a second look after a repeated add.
Added   == eval.done /\ eval.action = "add"
Removed == eval.done /\ eval.action = "remove"

EndOfRun ==
  /\ eval.phase = "applied"
  /\ known' = IF (HasGift \/ Added) /\ ~Removed THEN "gift" ELSE "no gift"
  /\ timer' = (timer \/ (Added /\ addedAt # "unset"))
  /\ addedAt' = IF Added THEN "recent" ELSE addedAt
  /\ seen' = (seen /\ ~Removed)
  /\ EndRun
  /\ UNCHANGED <<cart, retry, retries, waiting, lastHash, knownPaid, declined, turns,
                 glitches, historyVars>>

----------------------------------------------------------------------------
RunStep == StartRun \/ FetchCart \/ Compare \/ AnswerArrives \/ NoAnswer \/ ApplyAction \/ EndOfRun

StorefrontNext ==
  \/ \E l \in Lines : AddPaid(l) \/ RemovePaid(l)
  \/ RaiseGift \/ RemoveGift \/ ClearCart \/ OpenPage
  \/ FireTimer \/ FireRetry \/ GraceEnds \/ RunStep \/ RateLimited

StorefrontSpec == StorefrontInit /\ [][StorefrontNext]_storefrontVars

\* The browser runs its timers and what was started; the shopper need not act.
StorefrontFairSpec ==
  /\ StorefrontSpec
  /\ WF_storefrontVars(FireTimer) /\ WF_storefrontVars(FireRetry)
  /\ WF_storefrontVars(GraceEnds) /\ WF_storefrontVars(RunStep)

----------------------------------------------------------------------------
(* Properties.                                                             *)

\* Every variable holds a value of its type.
StorefrontTypeOK ==
  /\ cart \in Carts /\ timer \in BOOLEAN /\ retry \in BOOLEAN
  /\ retries \in 0 .. MaxRateRetries /\ waiting \in BOOLEAN
  /\ eval.phase \in {"none", "cart", "compare", "ask", "act", "applied"}
  /\ eval.phase \in {"compare", "ask", "act", "applied"} <=> eval.snap # {}
  /\ eval.snap \subseteq Carts /\ eval.aborted \in BOOLEAN /\ eval.done \in BOOLEAN
  /\ lastHash \subseteq Carts
  /\ known \in {"none", "gift", "no gift"} /\ knownPaid \subseteq Lines
  /\ seen \in BOOLEAN /\ addedAt \in {"unset", "recent", "before"} /\ declined \in BOOLEAN
  /\ turns \in 0 .. MaxTurns /\ glitches \in 0 .. MaxGlitches
  /\ left \in BOOLEAN /\ stale \in BOOLEAN /\ refused \in BOOLEAN

\* "so we don't force it back in": a gift that the page knew and the shopper
\* took out is not added again while the page is open and the offer qualifies.
\* "the snapshot is stale, not a removal": without failures, a gift counts as
\* declined only if the shopper took it out.
RefusalsAreRespected ==
  [][/\ eval.action = "add" /\ cart'.gift > cart.gift => ~refused
     /\ declined' /\ ~declined => left \/ glitches > 0]_storefrontVars

\* However often it is told to come back later, the runtime comes to rest, and
\* the cart it leaves needs no action, unless it is the very cart that was
\* evaluated last (which lastHash skips) or an answer of Shopify's was old.
Needs(c)   == \/ c.gift > 0 /\ ~Qualifies(c)
              \/ c.gift # 1 /\ Qualifies(c) /\ ~declined
CartSettles == <>[](glitches > 0 \/ stale \/ ~Needs(cart) \/ {cart} = lastHash)
=============================================================================

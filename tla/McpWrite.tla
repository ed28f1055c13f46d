------------------------------ MODULE McpWrite ------------------------------
(***************************************************************************)
(* The write tools of the MCP server, one operator and one tool            *)
(* (lib/mcp/write-runner.server.ts): a dry run mints a token that lives    *)
(* for minutes, an execution claims a row of mcp_call_log with the token's *)
(* jti and perhaps an idempotency key, both unique, runs the service and   *)
(* stores its result; the same key is answered from the row for a day.     *)
(***************************************************************************)
EXTENDS Naturals

CONSTANTS Callers,     \* calls that may be under way at a time
          Tokens,      \* the jti of the tokens that are minted
          Keys,        \* idempotency keys the client chooses
          Inputs,      \* arguments of the tool, without the control fields
          Nothing,     \* no token, no key, no arguments
          ConfirmTtl,  \* CONFIRM_TTL_MS
          KeyTtl,      \* IDEMPOTENCY_TTL_MS
          Retention,   \* CALL_LOG_RETENTION_DAYS
          CallTime,    \* how long a function may run
          LastHour,    \* the clock stops here
          MaxUpsets    \* bound on failing statements, services and processes

ASSUME McpAssumption ==
  /\ Nothing \notin Tokens \cup Keys \cup Inputs
  /\ ConfirmTtl \in Nat \ {0} /\ KeyTtl \in Nat /\ Retention \in Nat
  /\ CallTime \in Nat \ {0} /\ LastHour \in Nat /\ MaxUpsets \in Nat
  /\ CallTime <= KeyTtl /\ ConfirmTtl + CallTime <= Retention + 1 /\ KeyTtl <= Retention

VARIABLES
  hour,
  minted,     \* tokens that were handed out
  claims,     \* what a token says: its arguments and its expiry
  logged,     \* tokens with a row in mcp_call_log
  entry,      \* the row: idempotencyKey, createdAt, whether it has a result
  step,       \* where a call is
  call,       \* its token, key and arrival; while it frees an expired key, its
              \* arguments and the row that has the key
  upsets,
  \* History, read by no action:
  ran,        \* per token: how often its write was applied, under which key,
              \* claimed when, and what threw: the service, storing its
              \* result, or nothing (so far, or for ever if the call died)
  answer      \* the last answer, if it was a stored result: whose, to which
              \* arguments and key, how old

callLog == <<logged, entry>>
mcpVars == <<hour, minted, claims, callLog, step, call, upsets, ran, answer>>

McpSteps == {"away", "free", "claim", "findAgain", "apply", "store", "fail"}

Call(t, k, i, since, u) == [jti |-> t, key |-> k, input |-> i, since |-> since, old |-> u]

NoCall == Call(Nothing, Nothing, Nothing, 0, Nothing)
NoEntry  == [key |-> Nothing, born |-> 0, stored |-> FALSE]

McpInit ==
  /\ hour = 0 /\ minted = {} /\ logged = {}
  /\ claims = [t \in Tokens |-> [input |-> Nothing, exp |-> 0]]
  /\ entry = [t \in Tokens |-> NoEntry]
  /\ step = [c \in Callers |-> "away"]
  /\ call = [c \in Callers |-> NoCall]
  /\ upsets = 0
  /\ ran = [t \in Tokens |-> [times |-> 0, key |-> Nothing, born |-> 0, threw |-> "nothing"]]
  /\ answer = Nothing

----------------------------------------------------------------------------
Goes(c, s) == step' = [step EXCEPT ![c] = s]
Enters(c, s) == Goes(c, s) /\ UNCHANGED <<call, answer>>

\* The call is over; whether its caller hears of it is left open.
Quits(c) == Goes(c, "away") /\ call' = [call EXCEPT ![c] = NoCall]
Ends(c) == Quits(c) /\ answer' = Nothing

Upset == upsets < MaxUpsets /\ upsets' = upsets + 1

\* A dry run changes nothing and mints a token, bound to its arguments.
DryRun(t, i) ==
  /\ t \in Tokens \ minted
  /\ minted' = minted \cup {t}
  /\ claims' = [claims EXCEPT ![t] = [input |-> i, exp |-> hour + ConfirmTtl]]
  /\ UNCHANGED <<hour, callLog, step, call, upsets, ran, answer>>

\* The row that holds a key.
Holders(k) == {t \in logged : entry[t].key = k /\ k # Nothing}
Unfinished(t) == ~entry[t].stored
Expired(t) == hour >= entry[t].born + KeyTtl

\* verifyConfirmToken for the arguments of the call: what the token confirmed
\* will be claimed; without a valid one the call is refused.
Verified(t, i) == t \in minted /\ claims[t].input = i /\ hour < claims[t].exp

Confirm(c, t, k, i, since) ==
  /\ IF Verified(t, i)
     THEN /\ Goes(c, "claim")
          /\ call' = [call EXCEPT ![c] = Call(t, k, Nothing, since, Nothing)]
     ELSE Quits(c)
  /\ answer' = Nothing

\* replayOf: the stored result, if it was stored for the same arguments.
AnyInput(t, i)  == TRUE
SameInput(t, i) == claims[t].input = i

Replay(t, k, i) ==
  answer' = IF entry[t].stored /\ SameInput(t, i)
            THEN [of |-> t, input |-> i, key |-> k, age |-> hour - entry[t].born]
            ELSE Nothing

\* An execution, with a token or none, with a key or none, and its first look
\* at the key (findIdempotent).  What the rate limits and the write guard refuse
\* is no step.
Execute(c, t, k, i) ==
  /\ step[c] = "away" /\ t \in minted \cup {Nothing}
  /\ \/ Holders(k) = {} /\ Confirm(c, t, k, i, hour)
     \/ \E u \in Holders(k) :
          \/ Expired(u) /\ Goes(c, "free") /\ UNCHANGED answer
             /\ call' = [call EXCEPT ![c] = Call(t, k, i, hour, u)]
          \/ ~Expired(u) /\ Replay(u, k, i) /\ UNCHANGED <<step, call>>
  /\ UNCHANGED <<hour, minted, claims, callLog, upsets, ran>>

\* "Expired: free the key so the unique index lets it be used again."
FreeKey(c) ==
  /\ step[c] = "free"
  /\ entry' = [entry EXCEPT ![call[c].old].key = Nothing]
  /\ Confirm(c, call[c].jti, call[c].key, call[c].input, call[c].since)
  /\ UNCHANGED <<hour, minted, claims, logged, upsets, ran>>

\* The insert of claimWrite, which the two unique indexes may refuse.
TokenUsed(c) == call[c].jti \in logged
KeyTaken(c)  == Holders(call[c].key) # {}

Insert(c) == LET t == call[c].jti IN
  /\ logged' = logged \cup {t}
  /\ entry' = [entry EXCEPT ![t] = [key |-> call[c].key, born |-> hour, stored |-> FALSE]]
  /\ ran' = [ran EXCEPT ![t].key = call[c].key, ![t].born = hour]

ClaimWrite(c) ==
  /\ step[c] = "claim"
  /\ \/ TokenUsed(c) /\ Ends(c) /\ UNCHANGED <<callLog, ran>>
     \/ /\ ~TokenUsed(c) /\ KeyTaken(c)
        /\ Enters(c, "findAgain") /\ UNCHANGED <<callLog, ran>>
     \/ ~TokenUsed(c) /\ ~KeyTaken(c) /\ Insert(c) /\ Enters(c, "apply")
  /\ UNCHANGED <<hour, minted, claims, upsets>>

\* findIdempotent after a refused claim: a result that is there by now, or
\* "a call with this idempotencyKey is still running or did not finish".  The
\* key was claimed during this call, so it has not expired.
FindAgain(c) ==
  /\ step[c] = "findAgain" /\ Quits(c)
  /\ \/ Holders(call[c].key) = {} /\ answer' = Nothing
     \/ \E t \in Holders(call[c].key) : Replay(t, call[c].key, claims[call[c].jti].input)
  /\ UNCHANGED <<hour, minted, claims, callLog, upsets, ran>>

Applied(c) == ran' = [ran EXCEPT ![call[c].jti].times = @ + 1]

RunService(c) ==
  /\ step[c] = "apply" /\ Applied(c)
  /\ Enters(c, "store")
  /\ UNCHANGED <<hour, minted, claims, callLog, upsets>>

\* The service refuses, or fails before or after it has changed something.
ServiceThrows(c) ==
  /\ step[c] = "apply"
  /\ \E n \in {0, 1} : ran' = [ran EXCEPT ![call[c].jti].times = @ + n,
                                        ![call[c].jti].threw = "service"]
  /\ Enters(c, "fail")
  /\ UNCHANGED <<hour, minted, claims, callLog, upsets>>

\* finishWrite with a result.
StoreResult(t) == entry' = [entry EXCEPT ![t].stored = TRUE]

FinishWrite(c) ==
  /\ step[c] = "store"
  /\ StoreResult(call[c].jti)
  /\ Ends(c)
  /\ UNCHANGED <<hour, minted, claims, logged, upsets, ran>>

\* It throws, whether or not it is done; the write has been applied, and the
\* catch treats it as one that failed.
FinishThrows(c) ==
  /\ step[c] = "store" /\ Upset
  /\ StoreResult(call[c].jti) \/ UNCHANGED entry
  /\ ran' = [ran EXCEPT ![call[c].jti].threw = "store"]
  /\ Enters(c, "fail")
  /\ UNCHANGED <<hour, minted, claims, logged>>

\* finishWrite without one: "a failed execution frees its idempotency key (the
\* jti stays burned)".
ForgetsRow(c) == /\ logged' = logged \ {call[c].jti}
                 /\ entry' = [entry EXCEPT ![call[c].jti] = NoEntry]
FreesKey(c)   == /\ entry' = [entry EXCEPT ![call[c].jti].key = Nothing,
                                           ![call[c].jti].stored = FALSE]
                 /\ UNCHANGED logged

FinishFailed(c) ==
  /\ step[c] = "fail"
  /\ FreesKey(c)
  /\ Ends(c)
  /\ UNCHANGED <<hour, minted, claims, upsets, ran>>

\* "catch(() => undefined)": it throws, whether or not it is done.
FinishFailedThrows(c) ==
  /\ step[c] = "fail" /\ Upset
  /\ FreesKey(c) \/ UNCHANGED callLog
  /\ Ends(c)
  /\ UNCHANGED <<hour, minted, claims, ran>>

\* The process dies.  The statement under way may be done although its answer
\* is lost: the insert, or the update that stores a result or frees the key.
CallDies(c) ==
  /\ step[c] # "away" /\ Upset
  /\ Ends(c)
  /\ \/ UNCHANGED <<callLog, ran>>
     \/ step[c] = "claim" /\ ~TokenUsed(c) /\ ~KeyTaken(c) /\ Insert(c)
     \/ step[c] = "store" /\ StoreResult(call[c].jti) /\ UNCHANGED <<logged, ran>>
     \/ step[c] = "fail" /\ FreesKey(c) /\ UNCHANGED ran
  /\ UNCHANGED <<hour, minted, claims>>

\* Time passes; nobody runs longer than a function may.
HourPasses ==
  /\ hour < LastHour /\ hour' = hour + 1
  /\ \A c \in Callers : step[c] # "away" => hour' < call[c].since + CallTime
  /\ UNCHANGED <<minted, claims, callLog, step, call, upsets, ran, answer>>

\* deleteExpiredMcpCallState
AtOnce(t) == hour <= entry[t].born
Kept(t) == hour <= entry[t].born + Retention

CleanLog ==
  /\ logged' = {t \in logged : Kept(t)} /\ logged' # logged
  /\ entry' = [t \in Tokens |-> IF t \in logged \ logged'
                              THEN NoEntry ELSE entry[t]]
  /\ UNCHANGED <<hour, minted, claims, step, call, upsets, ran, answer>>

McpStep(c) == \/ FreeKey(c) \/ ClaimWrite(c) \/ FindAgain(c)
              \/ RunService(c) \/ ServiceThrows(c) \/ FinishWrite(c) \/ FinishThrows(c)
              \/ FinishFailed(c) \/ FinishFailedThrows(c) \/ CallDies(c)

McpNext ==
  \/ HourPasses \/ CleanLog
  \/ \E t \in Tokens, i \in Inputs : DryRun(t, i)
  \/ \E c \in Callers :
       \/ McpStep(c)
       \/ \E t \in Tokens \cup {Nothing}, k \in Keys \cup {Nothing}, i \in Inputs :
            Execute(c, t, k, i)

McpSpec == McpInit /\ [][McpNext]_mcpVars

----------------------------------------------------------------------------
(* Properties.                                                             *)

\* Every variable holds a value of its type, only minted tokens have rows, and
\* a call that runs the service or ends has its row, whatever is cleaned up.
McpTypeOK ==
  /\ hour \in 0 .. LastHour
  /\ minted \subseteq Tokens /\ logged \subseteq minted
  /\ claims \in [Tokens -> [input : Inputs \cup {Nothing}, exp : Nat]]
  /\ entry \in [Tokens -> [key : Keys \cup {Nothing}, born : Nat, stored : BOOLEAN]]
  /\ step \in [Callers -> McpSteps]
  /\ call \in [Callers -> [jti : Tokens \cup {Nothing}, key : Keys \cup {Nothing},
                           input : Inputs \cup {Nothing}, since : Nat,
                           old : Tokens \cup {Nothing}]]
  /\ \A c \in Callers : step[c] \in {"apply", "store", "fail"} => call[c].jti \in logged
  /\ upsets \in 0 .. MaxUpsets
  /\ ran \in [Tokens -> [times : Nat, key : Keys \cup {Nothing}, born : Nat,
                         threw : {"nothing", "service", "store"}]]
  /\ answer \in {Nothing} \cup [of : Tokens, input : Inputs, key : Keys, age : Nat]

\* "single-use": the write one token confirms is applied at most once, however
\* many calls bring it at a time, whatever fails or dies, and even after the
\* nightly cleanup has deleted its row.
TokenAppliesOnce == \A t \in Tokens : ran[t].times <= 1

\* A key guards a write for a day: it is claimed again only when, of every call
\* that claimed it before, the service or the storing of its result threw, or
\* its day is over.  A write that was applied and whose result could not be
\* stored may thus be applied again.  A call in which neither threw, because it
\* is running, was answered or died at any step, is not repeated under its key.
KeyRepeatsNeedFailure ==
  [][\A t, u \in Tokens :
       /\ ran[u].key = Nothing /\ ran'[u].key # Nothing
       /\ ran[t].key = ran'[u].key
       => ran[t].threw # "nothing" \/ hour >= ran[t].born + KeyTtl]_mcpVars

\* "Same idempotencyKey as an earlier executed call: this is its stored result":
\* what is handed out again is of a write that was applied once, under this
\* key, for these arguments, and less than a day ago.
ReplayWasApplied ==
  answer # Nothing =>
    /\ ran[answer.of].times = 1 /\ ran[answer.of].key = answer.key
    /\ claims[answer.of].input = answer.input
    /\ answer.age < KeyTtl
=============================================================================

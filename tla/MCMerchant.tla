----------------------------- MODULE MCMerchant -----------------------------
(* Two ways to an offer's status, side by side: the statuses themselves,   *)
(* with two offers, one merchant and the offers cron, and the write tools  *)
(* of the MCP server, with two calls and two tokens.  They share no state: *)
(* what a tool changes is one of the merchant's operations.                *)
EXTENDS OfferLifecycle, McpWrite, TLC

CONSTANTS o1, o2, m, cron, none,
          caller1, caller2, token1, token2, input1, input2, key

VARIABLE focus

MCOffers   == {o1, o2}
MCRequests == {m}
MCCallers  == {caller1, caller2}
MCTokens   == {token1, token2}
MCInputs   == {input1, input2}
MCKeys     == {key}

MCSymmetry == Permutations(MCOffers) \cup Permutations(MCCallers)

\* The tokens are alike and so are the arguments: the first token to be minted
\* is token1, for input1.
FirstMint == minted = {} => minted' \subseteq {token1} /\ claims'[token1].input # input2

\* The offers have one initial state when the tools move.
MCInit ==
  /\ Init /\ McpInit
  /\ focus \in {"offers", "tools"}
  /\ focus = "tools" => \A o \in Offers : status[o] = "draft"

MCNext == \/ focus = "offers" /\ Next /\ UNCHANGED <<focus, mcpVars>>
          \/ focus = "tools" /\ McpNext /\ FirstMint /\ UNCHANGED <<focus, vars>>

MCSpec == MCInit /\ [][MCNext]_<<focus, vars, mcpVars>>

\* Every variable of both parts holds a value of its type.
MerchantTypeOK == TypeOK /\ McpTypeOK
=============================================================================

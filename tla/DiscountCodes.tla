---------------------------- MODULE DiscountCodes ----------------------------
(***************************************************************************)
(* The checkout codes of one active offer and the Shopify discount node    *)
(* that holds them.  Merchants create, switch and delete codes; a publish  *)
(* takes the retired ones off the node and attaches the new ones; the      *)
(* drift repair queues codes that somebody deleted in Shopify for one      *)
(* re-add.  Every row says whether its code is on the node (synced), may   *)
(* be (in flight), or is to be put back (re-add).                          *)
(*                                                                         *)
(* Publishes of a shop do not overlap (Publisher); merchants, orders and   *)
(* the repair take no lock.                                                *)
(***************************************************************************)
EXTENDS Naturals, FiniteSets

CONSTANTS
  Codes,       \* rows of discount_codes; an id is never used again
  Generated,   \* the codes of a batch, which no preflight looks at
  Dated,       \* the codes with a start and an end
  MaxEdits,    \* what merchants and orders do
  MaxMeddles,  \* what somebody does in Shopify's admin
  MaxSnags     \* failures, crashes and requests without an answer

ASSUME CodesAssumption ==
  /\ IsFiniteSet(Codes) /\ Generated \subseteq Codes /\ Dated \subseteq Codes
  /\ MaxEdits \in Nat /\ MaxMeddles \in Nat /\ MaxSnags \in Nat

VARIABLES
  codeRow,     \* the rows of discount_codes
  window,      \* a code's dates against the clock
  onNode,      \* Shopify: the names on the offer's node
  nodeOpen,    \* Shopify: the node is not expired
  taken,       \* Shopify: the names that other discounts hold
  lateAdds,    \* names that Shopify may still add to the node
  pub,         \* the publish
  repair,      \* the drift repair
  edits, meddles, snags,
  lost,        \* history: codes that left the node and were not queued since
  exempt       \* history: codes with one of the three races below

nodeVars   == <<onNode, nodeOpen, taken, lateAdds>>
countVars  == <<edits, meddles, snags>>
codeVars   == <<codeRow, window, nodeVars, pub, repair, countVars, lost, exempt>>

\* A code's name: the one that was chosen, or a variant of it.
Names == Codes \X (0 .. MaxMeddles)

Rows == [status : {"none", "active", "disabled", "exhausted", "deleted"},
         name : 0 .. MaxMeddles,
         synced : BOOLEAN, inFlight : BOOLEAN, readd : BOOLEAN]

NoCode    == [status |-> "none", name |-> 0,
             synced |-> FALSE, inFlight |-> FALSE, readd |-> FALSE]
NewCode   == [NoCode EXCEPT !.status = "active"]

\* rows: what the publish read and wrote; todo, batch: the rows it works on;
\* ours, theirs: those it found on the node, or taken or rejected.
NoPublish == [at |-> "idle", next |-> "config", rows |-> [c \in Codes |-> NoCode],
              todo |-> {}, batch |-> {}, ours |-> {}, theirs |-> {}]
NoRepair  == [at |-> "idle", count |-> 0, listed |-> {}, missing |-> {}, crossed |-> {}]

\* Some codes are published already, the others do not exist yet.
CodesInit ==
  /\ \E old \in SUBSET Codes :
       /\ codeRow = [c \in Codes |-> IF c \in old THEN [NewCode EXCEPT !.synced = TRUE] ELSE NoCode]
       /\ window = [c \in Codes |-> IF c \in Dated \ old THEN "early" ELSE "open"]
       /\ onNode = old \X {0} /\ nodeOpen = (old # {})
  /\ taken = {} /\ lateAdds = {} /\ pub = NoPublish /\ repair = NoRepair
  /\ edits = 0 /\ meddles = 0 /\ snags = 0 /\ lost = {} /\ exempt = {}

-----------------------------------------------------------------------------
(* Rows.                                                                   *)

Exists(r) == r.status \notin {"none", "deleted"}
Name(r, c) == <<c, r.name>>
Redeemable(r, c) == r.status = "active" /\ window[c] = "open"

Unflagged(r)    == [r EXCEPT !.synced = FALSE, !.inFlight = FALSE]
InFlight(r)     == [r EXCEPT !.inFlight = TRUE]
Synced(r)       == [r EXCEPT !.synced = TRUE, !.inFlight = FALSE, !.readd = FALSE]
Unrestorable(r) == [Unflagged(r) EXCEPT !.status = "disabled", !.readd = FALSE]
Renamed(r)      == [Unflagged(r) EXCEPT !.name = @ + 1]
OnlyMarked(r)   == [r EXCEPT !.readd = TRUE]
Requeued(r)     == [r EXCEPT !.synced = FALSE, !.readd = TRUE]

\* An update of the rows of S, where they still are.
Update(S, F(_)) ==
  codeRow' = [c \in Codes |-> IF c \in S /\ Exists(codeRow[c]) THEN F(codeRow[c]) ELSE codeRow[c]]

\* The same on what the publish read.
Patched(S, F(_)) == [c \in Codes |-> IF c \in S THEN F(pub.rows[c]) ELSE pub.rows[c]]

Own(c)   == Name(pub.rows[c], c)
NamesOf(S) == {Own(c) : c \in S}

Edit   == edits < MaxEdits /\ edits' = edits + 1 /\ UNCHANGED <<meddles, snags>>
Meddle == meddles < MaxMeddles /\ meddles' = meddles + 1 /\ UNCHANGED <<edits, snags>>
Snag   == snags < MaxSnags /\ snags' = snags + 1 /\ UNCHANGED <<edits, meddles>>

-----------------------------------------------------------------------------
(* Merchants, orders, the clock, Shopify's admin.                          *)

RowsOnly == UNCHANGED <<window, nodeVars, pub, repair, lost>>

CreateCode(c) ==
  /\ codeRow[c].status = "none" /\ Edit
  /\ codeRow' = [codeRow EXCEPT ![c] = NewCode]
  /\ UNCHANGED exempt /\ RowsOnly

SetStatus(c, status) ==
  /\ codeRow[c].status \in {"active", "disabled"} \ {status} /\ Edit
  /\ codeRow' = [codeRow EXCEPT ![c].status = status]
  /\ UNCHANGED exempt /\ RowsOnly

NotSynced(r) == Exists(r) /\ ~r.synced
Deletable(r) == Exists(r) /\ ~r.synced /\ ~r.inFlight

\* First race: a publish that read the row may be about to add its code.
DeleteCode(c) ==
  /\ Deletable(codeRow[c]) /\ Edit
  /\ codeRow' = [codeRow EXCEPT ![c] = [NoCode EXCEPT !.status = "deleted"]]
  /\ exempt' = IF pub.at = "idle" THEN exempt ELSE exempt \cup {c}
  /\ RowsOnly

\* An order reaches the code's usage limit.
Exhaust(c) ==
  /\ codeRow[c].status = "active" /\ Name(codeRow[c], c) \in onNode /\ Edit
  /\ codeRow' = [codeRow EXCEPT ![c].status = "exhausted"]
  /\ UNCHANGED exempt /\ RowsOnly

WindowMoves(c) ==
  /\ c \in Dated /\ window[c] # "over"
  /\ window' = [window EXCEPT ![c] = IF @ = "early" THEN "open" ELSE "over"]
  /\ UNCHANGED <<codeRow, nodeVars, pub, repair, countVars, lost, exempt>>

DeleteInShopify(c) ==
  /\ Name(codeRow[c], c) \in onNode /\ Meddle
  /\ onNode' = onNode \ {Name(codeRow[c], c)}
  /\ lost' = lost \cup {c}
  /\ UNCHANGED <<codeRow, window, nodeOpen, taken, lateAdds, pub, repair, exempt>>

TakeInShopify(c) ==
  /\ Name(codeRow[c], c) \notin onNode \cup taken /\ Meddle
  /\ taken' = taken \cup {Name(codeRow[c], c)}
  /\ UNCHANGED <<codeRow, window, onNode, nodeOpen, lateAdds, pub, repair, lost, exempt>>

-----------------------------------------------------------------------------
(* The publish: retiring codes.                                            *)

To(step) == pub' = [pub EXCEPT !.at = step]
PubOnly  == UNCHANGED <<window, repair, countVars, exempt>>
NoWrite  == UNCHANGED <<codeRow, lost>> /\ PubOnly

StartPublish ==
  /\ pub.at = "idle" /\ \E c \in Codes : Exists(codeRow[c])
  /\ pub' = [NoPublish EXCEPT !.at = "retire", !.rows = codeRow]
  /\ NoWrite /\ UNCHANGED nodeVars

\* "row.shopifySyncedAt && !isCodeRedeemable(row, now)"
Stale == {c \in Codes : pub.rows[c].synced /\ ~Redeemable(pub.rows[c], c)}

\* The search may miss a code, and the delete may not take.
RemoveStale ==
  /\ pub.at = "retire"
  /\ pub' = [pub EXCEPT !.at = IF Stale = {} THEN "expire" ELSE "verify", !.todo = Stale]
  /\ \E gone \in SUBSET {c \in Stale : Own(c) \in onNode} :
       onNode' = onNode \ NamesOf(gone) /\ lost' = lost \cup gone
  /\ PubOnly /\ UNCHANGED <<codeRow, nodeOpen, taken, lateAdds>>

VerifyGone ==
  /\ pub.at = "verify"
  /\ pub' = [pub EXCEPT !.at = "clear", !.ours = {c \in pub.todo : Own(c) \in onNode}]
  /\ NoWrite /\ UNCHANGED nodeVars

\* Only a removal Shopify confirmed clears the flag.
ClearRetired ==
  /\ pub.at = "clear"
  /\ Update(pub.todo \ pub.ours, Unflagged) /\ To("expire")
  /\ UNCHANGED lost /\ PubOnly /\ UNCHANGED nodeVars

ExpireNode ==
  /\ pub.at = "expire" /\ To("look")
  /\ nodeOpen' = (nodeOpen /\ \E c \in Codes : Redeemable(pub.rows[c], c))
  /\ NoWrite /\ UNCHANGED <<onNode, taken, lateAdds>>

-----------------------------------------------------------------------------
(* The publish: what each code to attach is worth.                         *)

Pending == {c \in Codes : Redeemable(pub.rows[c], c) /\ ~pub.rows[c].synced}
Readds(S) == {c \in S : pub.rows[c].readd}

\* Typed codes, and those an earlier publish left in flight.
Preflight(S) == {c \in S : c \notin Generated \/ pub.rows[c].inFlight}

LookReadds ==
  /\ pub.at = "look"
  /\ LET again == Readds(Pending)  rest == Pending \ again IN
       pub' = [pub EXCEPT !.at = IF again = {} THEN "lookup" ELSE "settle",
                          !.todo = Preflight(rest),
                          !.ours = {c \in again : Own(c) \in onNode},
                          !.theirs = {c \in again : Own(c) \in taken}]
  /\ NoWrite /\ UNCHANGED nodeVars

SettleReadds ==
  /\ pub.at = "settle"
  /\ Update(pub.ours, Synced)
  /\ pub' = [pub EXCEPT !.at = "disable", !.rows = Patched(pub.ours, Synced), !.ours = {}]
  /\ UNCHANGED lost /\ PubOnly /\ UNCHANGED nodeVars

DisableTaken ==
  /\ pub.at = "disable"
  /\ Update(pub.theirs, Unrestorable)
  /\ pub' = [pub EXCEPT !.at = "lookup", !.rows = Patched(pub.theirs, Unrestorable)]
  /\ UNCHANGED lost /\ PubOnly /\ UNCHANGED nodeVars

\* resolveCodeCollisions: round after round until no name is another's.
LookUp ==
  /\ pub.at = "lookup"
  /\ LET collide == {c \in pub.todo : Own(c) \in taken} IN
       pub' = [pub EXCEPT !.at = IF collide = {} THEN "adopt" ELSE "rename",
                          !.ours = @ \cup {c \in pub.todo : Own(c) \in onNode},
                          !.theirs = collide]
  /\ NoWrite /\ UNCHANGED nodeVars

RenameTaken ==
  /\ pub.at = "rename"
  /\ Update(pub.theirs, Renamed)
  /\ pub' = [pub EXCEPT !.at = "lookup", !.rows = Patched(pub.theirs, Renamed),
                        !.todo = pub.theirs]
  /\ UNCHANGED lost /\ PubOnly /\ UNCHANGED nodeVars

\* What goes to the node next: the codes that may be redeemed and are not
\* there, or what was rejected and is not ours.
AdoptOurs ==
  /\ pub.at = "adopt"
  /\ Update(pub.ours, Synced)
  /\ LET rows == Patched(pub.ours, Synced)
         good == {c \in Codes : Redeemable(rows[c], c)}
         todo == IF pub.next = "config" THEN {c \in good : ~rows[c].synced}
                                        ELSE pub.batch \ pub.ours
         ends == IF pub.next = "config" THEN good = {} ELSE todo = {}
     IN pub' = IF ends THEN NoPublish
               ELSE [pub EXCEPT !.at = pub.next, !.rows = rows, !.todo = todo,
                                !.batch = {}, !.ours = {}, !.theirs = {}]
  /\ UNCHANGED lost /\ PubOnly /\ UNCHANGED nodeVars

-----------------------------------------------------------------------------
(* The publish: attaching codes.                                           *)

PushConfig ==
  /\ pub.at = "config"
  /\ nodeOpen' = TRUE
  /\ pub' = IF pub.todo = {} THEN NoPublish ELSE [pub EXCEPT !.at = "flag", !.next = "flag"]
  /\ NoWrite /\ UNCHANGED <<onNode, taken, lateAdds>>

\* markCodesSyncPending, before the call.
FlagInFlight ==
  /\ pub.at = "flag"
  /\ Update(pub.todo, InFlight)
  /\ pub' = [pub EXCEPT !.at = "add", !.rows = Patched(pub.todo, InFlight), !.batch = pub.todo]
  /\ UNCHANGED lost /\ PubOnly /\ UNCHANGED nodeVars

Free(n) == n \notin onNode \cup taken

\* Shopify adds names to the node.
Land(names) ==
  LET added == {n[1] : n \in names} IN
  /\ onNode' = onNode \cup names
  /\ lost' = lost \ added
  /\ repair' = IF repair.at \in {"rows", "queue"}
               THEN [repair EXCEPT !.crossed = @ \cup added] ELSE repair

AddCodes ==
  /\ pub.at \in {"add", "resend"}
  /\ LET good == {c \in pub.batch : Free(Own(c))} IN
       /\ Land(NamesOf(good))
       /\ pub' = [pub EXCEPT !.at = "mark", !.theirs = @ \cup (pub.batch \ good)]
  /\ UNCHANGED <<codeRow, window, nodeOpen, taken, lateAdds, countVars, exempt>>

\* The request has no answer: Shopify has added some codes, and may add others
\* later or never.
Unanswered ==
  /\ \E now \in SUBSET {c \in pub.batch : Free(Own(c))} :
       /\ Land(NamesOf(now))
       /\ lateAdds' = lateAdds \cup NamesOf({c \in pub.batch \ now : Free(Own(c))})
  /\ UNCHANGED <<codeRow, window, nodeOpen, taken, exempt>>

AddUnknown == pub.at = "add" /\ Snag /\ To("recheck") /\ Unanswered

\* "look first: only codes that aren't there yet go out again"
LookAgain ==
  /\ pub.at = "recheck"
  /\ LET absent == {c \in pub.batch : Free(Own(c))} IN
       pub' = [pub EXCEPT !.at = IF absent = {} THEN "mark" ELSE "resend", !.batch = absent,
                          !.theirs = {c \in pub.batch : Own(c) \in taken}]
  /\ NoWrite /\ UNCHANGED nodeVars

MarkAdded ==
  /\ pub.at = "mark"
  /\ LET added == pub.todo \ pub.theirs IN
       /\ Update(added, Synced)
       /\ pub' = IF pub.theirs = {} THEN NoPublish
                 ELSE [pub EXCEPT !.at = "reject", !.rows = Patched(added, Synced)]
  /\ UNCHANGED lost /\ PubOnly /\ UNCHANGED nodeVars

\* A re-add that Shopify rejects ends here; other codes get another name.
SettleRejected ==
  /\ pub.at = "reject"
  /\ LET failed == Readds(pub.theirs)  rest == pub.theirs \ failed IN
       /\ Update(failed, Unrestorable)
       /\ pub' = IF rest = {} THEN NoPublish
                 ELSE [pub EXCEPT !.at = "lookup", !.rows = Patched(failed, Unrestorable),
                                  !.todo = rest, !.batch = rest, !.ours = {}, !.theirs = {}]
  /\ UNCHANGED lost /\ PubOnly /\ UNCHANGED nodeVars

\* An exception ends the publish, or its process dies.
PublishFails ==
  /\ pub.at # "idle" /\ Snag /\ pub' = NoPublish
  /\ \/ pub.at \in {"add", "resend"} /\ Unanswered
     \/ UNCHANGED <<codeRow, window, nodeVars, repair, lost, exempt>>

CodePublishStep ==
  \/ RemoveStale \/ VerifyGone \/ ClearRetired \/ ExpireNode
  \/ LookReadds \/ SettleReadds \/ DisableTaken \/ LookUp \/ RenameTaken \/ AdoptOurs
  \/ PushConfig \/ FlagInFlight \/ AddCodes \/ LookAgain \/ MarkAdded \/ SettleRejected

\* Second race: the code lands when its row no longer says it is in flight, or
\* after a publish looked for the code that is to be put back.
StillToLook == {"idle", "retire", "verify", "clear", "expire", "look", "recheck"}
Expected(c) == codeRow[c].inFlight /\ (codeRow[c].readd => pub.at \in StillToLook)

LateLands(n) ==
  /\ n \in lateAdds
  /\ lateAdds' = lateAdds \ {n}
  /\ \/ /\ Free(n) /\ Land({n})
        /\ exempt' = IF Expected(n[1]) THEN exempt ELSE exempt \cup {n[1]}
     \/ ~Free(n) /\ UNCHANGED <<onNode, lost, repair, exempt>>
  /\ UNCHANGED <<codeRow, window, nodeOpen, taken, pub, countVars>>

-----------------------------------------------------------------------------
(* The drift repair.                                                       *)

RepairOnly == UNCHANGED <<window, nodeVars, pub, countVars>>

SeeCount ==
  /\ repair.at = "idle"
  /\ repair' = [NoRepair EXCEPT !.at = "compare", !.count = Cardinality(onNode)]
  /\ UNCHANGED <<codeRow, lost, exempt>> /\ RepairOnly

\* Rows in flight make the count legitimately unsettled.
Busy == \E c \in Codes : codeRow[c].inFlight
SyncedRows == {c \in Codes : codeRow[c].synced}

CompareCount ==
  /\ repair.at = "compare"
  /\ repair' = IF Busy \/ SyncedRows = {} \/ Cardinality(SyncedRows) = repair.count
               THEN NoRepair ELSE [NoRepair EXCEPT !.at = "list"]
  /\ UNCHANGED <<codeRow, lost, exempt>> /\ RepairOnly

ListNode ==
  /\ repair.at = "list"
  /\ repair' = [repair EXCEPT !.at = "rows", !.listed = onNode]
  /\ UNCHANGED <<codeRow, lost, exempt>> /\ RepairOnly

\* "isNotNull(shopifySyncedAt), isNull(shopifySyncPendingAt)"
NotInFlight(r) == ~r.inFlight
Settled(r) == r.synced /\ ~r.inFlight

ReadRows ==
  /\ repair.at = "rows"
  /\ LET missing == {c \in Codes : /\ Settled(codeRow[c])
                                   /\ Name(codeRow[c], c) \notin repair.listed} IN
       repair' = IF missing = {} THEN NoRepair
                 ELSE [repair EXCEPT !.at = "queue", !.listed = {}, !.missing = missing]
  /\ UNCHANGED <<codeRow, lost, exempt>> /\ RepairOnly

\* Third race: the code was added after the node was listed.
QueueMissing ==
  /\ repair.at = "queue"
  /\ Update(repair.missing, Requeued)
  /\ lost' = lost \ (repair.missing \ repair.crossed)
  /\ exempt' = exempt \cup (repair.missing \cap repair.crossed)
  /\ repair' = NoRepair /\ RepairOnly

RepairStep == CompareCount \/ ListNode \/ ReadRows \/ QueueMissing

RepairStops ==
  /\ repair.at # "idle" /\ Snag /\ repair' = NoRepair
  /\ UNCHANGED <<codeRow, window, nodeVars, pub, lost, exempt>>

-----------------------------------------------------------------------------
CodesNext ==
  \/ \E c \in Codes :
       \/ CreateCode(c) \/ SetStatus(c, "active") \/ SetStatus(c, "disabled")
       \/ DeleteCode(c) \/ Exhaust(c) \/ WindowMoves(c)
       \/ DeleteInShopify(c) \/ TakeInShopify(c)
  \/ StartPublish \/ CodePublishStep \/ AddUnknown \/ PublishFails
  \/ \E n \in Names : LateLands(n)
  \/ SeeCount \/ RepairStep \/ RepairStops

\* findShopsWithDueCodeChanges: what the offers cron publishes for.
CodesDue == \E c \in Codes :
         \/ Redeemable(codeRow[c], c) /\ ~codeRow[c].synced
         \/ codeRow[c].synced /\ (window[c] = "over" \/ codeRow[c].status # "active")

CodesSpec == CodesInit /\ [][CodesNext]_codeVars

CodesFairness ==
  /\ WF_codeVars(CodesDue /\ StartPublish) /\ WF_codeVars(CodePublishStep)
  /\ WF_codeVars(SeeCount) /\ WF_codeVars(RepairStep)

CodesFairSpec == CodesSpec /\ CodesFairness

-----------------------------------------------------------------------------
CodesTypeOK ==
  /\ codeRow \in [Codes -> Rows]
  /\ window \in [Codes -> {"early", "open", "over"}]
  /\ onNode \subseteq Names /\ taken \subseteq Names \ onNode /\ lateAdds \subseteq Names
  /\ nodeOpen \in BOOLEAN
  /\ \A c \in Codes : ~(codeRow[c].synced /\ codeRow[c].inFlight)
  /\ lost \subseteq Codes /\ exempt \subseteq Codes

\* "a deleted row never leaves a live code behind"; a row "stays flagged: it is
\* never deleted (it may be live)": whatever fails or dies, a code on the node
\* has a row of this name that says so, so that a later publish finds it.  The
\* three races are the exceptions.
FlagsAreHonest ==
  \A n \in onNode :
    LET its == codeRow[n[1]] IN
    n[1] \in exempt \/ (Exists(its) /\ its.name = n[2] /\ (its.synced \/ its.inFlight))

\* "exactly one re-add": a code is queued only after it left the node, once for
\* each time, unless it was added after the node was listed.
OneReaddPerLoss ==
  [][\A c \in Codes :
       codeRow'[c].readd /\ ~codeRow[c].readd => c \in lost \cup repair.crossed]_codeVars

\* "Takes every code that must no longer work off its live node": past that
\* step, a code that was switched off or used up is off the node, or its row is
\* flagged so that the next publish takes it off.
RetiredCodesAreGone ==
  pub.at = "look" /\ nodeOpen =>
    \A c \in Codes : pub.rows[c].status \in {"disabled", "exhausted"} /\ Own(c) \in onNode
                     => codeRow[c].synced

\* A code that may be redeemed comes to the node in the end, deleted in Shopify
\* or not, unless a race or a code that was switched off while in flight keeps
\* the repair from seeing that it is missing.
RedeemableComesLive ==
  \A c \in Codes :
    <>[](/\ Redeemable(codeRow[c], c) /\ exempt = {}
         /\ \A d \in Codes : codeRow[d].inFlight => Redeemable(codeRow[d], d))
    => <>[](Name(codeRow[c], c) \in onNode)
=============================================================================

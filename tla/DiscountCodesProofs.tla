-------------------------- MODULE DiscountCodesProofs --------------------------
(***************************************************************************)
(* Proofs about DiscountCodes, for any codes and every bound: its types,   *)
(* that no code is left on the Shopify node without a row that says so     *)
(* (FlagsAreHonest), and that the drift repair queues a code at most once  *)
(* for each time it left the node (OneReaddPerLoss).                       *)
(*                                                                         *)
(* One inductive invariant, IInv, serves all three. Typed bounds the data: *)
(* a name is given up only after somebody took it. HonestInv says, for     *)
(* each step of the publish, what is still true of the rows it read, what  *)
(* the sets it works on hold, and what it has found out about them;        *)
(* merchants, orders and Shopify's admin change the rows and the node      *)
(* under it. LostInv says that what a row records as attached, or the      *)
(* publish is about to, is on the node or was lost since; FlagsAreHonest   *)
(* does not need it, OneReaddPerLoss does.                                 *)
(***************************************************************************)
EXTENDS DiscountCodes, FiniteSetTheorems, TLAPS

----------------------------------------------------------------------------
(* The inductive invariant.                                                *)

Steps == {"idle", "retire", "verify", "clear", "expire", "look", "settle", "disable", "lookup",
          "rename", "adopt", "config", "flag", "add", "recheck", "resend", "mark", "reject"}

Publishes == [at : Steps, next : {"config", "flag"}, rows : [Codes -> Rows],
              todo : SUBSET Codes, batch : SUBSET Codes, ours : SUBSET Codes,
              theirs : SUBSET Codes]
Repairs   == [at : {"idle", "compare", "list", "rows", "queue"}, count : Nat,
              listed : SUBSET Names, missing : SUBSET Codes, crossed : SUBSET Codes]

\* Types of what CodesTypeOK leaves open, and how names are bounded: a name is
\* given up only after somebody took it.
Typed ==
  /\ CodesTypeOK
  /\ pub \in Publishes /\ repair \in Repairs
  /\ edits \in 0 .. MaxEdits /\ meddles \in 0 .. MaxMeddles /\ snags \in 0 .. MaxSnags
  /\ \A c \in Codes : codeRow[c].name <= meddles /\ pub.rows[c].name <= meddles
  /\ \A n \in taken : n[2] < meddles

\* A row without a code says nothing; a flagged one has been open.
CodeRowInv ==
  \A c \in Codes :
    /\ codeRow[c].synced \/ codeRow[c].inFlight \/ codeRow[c].readd
         => Exists(codeRow[c]) /\ window[c] # "early"
    /\ codeRow[c].status = "none" => codeRow[c] = NoCode /\ pub.rows[c] = NoCode

\* What the publish read is still true of the row, or its code was deleted.
ReadInv ==
  pub.at # "idle" =>
    \A c \in Codes :
      LET read == pub.rows[c]  row == codeRow[c] IN
      /\ Exists(row) => row.name = read.name /\ (read.readd => row.readd)
      /\ row.synced => read.synced
      /\ row.inFlight => read.inFlight
      /\ Exists(read) => Exists(row) \/ c \in exempt
      /\ ~(read.synced /\ read.inFlight)
      /\ read.synced \/ read.inFlight \/ read.readd => Exists(read) /\ window[c] # "early"

\* A name on the node, or on its way there, is the one its row still has.
NameInv ==
  \A n \in onNode \cup (lateAdds \ taken) :
    /\ codeRow[n[1]].status # "none"
    /\ Exists(codeRow[n[1]]) => n[2] = codeRow[n[1]].name
    /\ pub.at # "idle" /\ Exists(pub.rows[n[1]]) => n[2] = pub.rows[n[1]].name

Worked == pub.todo \cup pub.batch \cup pub.ours \cup pub.theirs

\* The sets a publish works on: what it attaches next ...
StageInv ==
  /\ pub.at \in {"retire", "verify", "clear", "expire", "look", "settle", "disable", "config"}
       => pub.next = "config"
  /\ pub.at \in {"flag", "add", "recheck", "resend", "mark", "reject"} => pub.next = "flag"
  /\ pub.next = "config" => pub.batch = {}
  /\ pub.at \in {"add", "recheck"} => pub.batch = pub.todo
  /\ pub.at = "resend" => pub.batch \subseteq pub.todo

\* ... they hold codes that exist and have been open ...
WorkInv == pub.at # "idle" => \A c \in Worked : Exists(pub.rows[c]) /\ window[c] # "early"

\* ... that are on the node before the new ones are looked at, and not after ...
UnsyncedInv ==
  /\ pub.at \in {"verify", "clear"} => \A c \in pub.todo : pub.rows[c].synced
  /\ pub.at \in {"settle", "disable", "lookup", "rename", "adopt", "config", "flag", "add",
                 "recheck", "resend", "mark"}
       => \A c \in Worked : ~pub.rows[c].synced
  /\ pub.at = "reject" => \A c \in pub.theirs : ~pub.rows[c].synced

\* ... those to be put back first, then the others ...
PutBackInv ==
  /\ pub.at \in {"settle", "disable"} =>
       \A c \in pub.ours \cup pub.theirs : pub.rows[c].readd
  /\ pub.at \in {"settle", "disable", "lookup", "rename"} => \A c \in pub.todo : ~pub.rows[c].readd
  /\ pub.at \in {"lookup", "rename", "adopt"} /\ pub.next = "flag"
       => \A c \in pub.batch : ~pub.rows[c].readd

\* ... and what was found on the node apart from what is another's.
ApartInv ==
  /\ pub.at = "disable" => pub.ours = {}
  /\ pub.at = "lookup" => pub.ours \cap pub.todo = {}
  /\ pub.at = "rename" => pub.ours \cap pub.theirs = {} /\ pub.theirs \subseteq pub.todo
  /\ pub.at = "settle" => pub.ours \cap pub.theirs = {}
  /\ pub.at \in {"config", "flag", "add", "recheck"} => pub.theirs = {}

\* What has been found out about them.
FoundInv ==
  /\ pub.at = "clear" => \A c \in pub.todo \ pub.ours : Own(c) \in onNode => c \in exempt
  /\ pub.at \in {"settle", "disable", "rename", "resend"} => \A c \in pub.theirs : Own(c) \in taken
  /\ pub.at \in {"add", "recheck", "resend"}
       => \A c \in pub.batch : c \in exempt \/ codeRow[c].inFlight

\* A code that is to be put back is looked for before it is sent.
ReaddInv ==
  /\ pub.at \in {"settle", "disable", "lookup", "rename", "adopt"} /\ pub.next = "config"
       => \A c \in Codes :
            /\ pub.rows[c].readd /\ Redeemable(pub.rows[c], c) /\ ~pub.rows[c].synced
            /\ Own(c) \in onNode
            => c \in exempt \/ (pub.at = "settle" /\ c \in pub.ours)
  /\ pub.at \in {"config", "flag"}
       => \A c \in pub.todo : pub.rows[c].readd /\ Own(c) \in onNode => c \in exempt
  /\ pub.at \in {"add", "resend"}
       => \A c \in pub.batch : pub.rows[c].readd /\ Own(c) \in onNode => c \in exempt
  /\ pub.at \in {"mark", "reject"}
       => \A c \in pub.theirs : pub.rows[c].readd => c \in exempt \/ Own(c) \in taken

\* What landed since the repair listed the node has crossed it.
CrossInv ==
  /\ repair.at = "rows" => \A n \in onNode : n \in repair.listed \/ n[1] \in repair.crossed
  /\ repair.at = "queue" =>
       /\ \A n \in onNode : n[1] \in repair.missing => n[1] \in repair.crossed
       /\ \A c \in repair.missing : window[c] # "early"

SetInv == StageInv /\ WorkInv /\ UnsyncedInv /\ PutBackInv /\ ApartInv

HonestInv == /\ CodeRowInv /\ ReadInv /\ NameInv /\ SetInv /\ FoundInv /\ ReaddInv /\ CrossInv
             /\ FlagsAreHonest

\* What the publish is about to record as being on the node.
Confirmed(c) ==
  \/ pub.at \in {"settle", "lookup", "rename", "adopt"} /\ c \in pub.ours
  \/ pub.at = "resend" /\ c \in pub.todo \ (pub.batch \cup pub.theirs)
  \/ pub.at = "mark" /\ c \in pub.todo \ pub.theirs

\* What is recorded, or will be, is on the node or was lost.
LostRows == \A c \in Codes : codeRow[c].synced => Name(codeRow[c], c) \in onNode \/ c \in lost
LostFound == \A c \in Codes : Confirmed(c) => Own(c) \in onNode \/ c \in lost

\* And so is what the repair queues, unless it crossed the repair.
LostQueued ==
  repair.at = "queue" => \A c \in repair.missing :
                           /\ c \in lost \/ c \in repair.crossed
                           /\ Confirmed(c) => c \in repair.crossed

LostInv == LostRows /\ LostFound /\ LostQueued

IInv == Typed /\ HonestInv /\ LostInv

----------------------------------------------------------------------------
(* What the updates of a row, the publish and the repair return.           *)

LEMMA NoCodeFields ==
  /\ NoCode \in Rows /\ NewCode \in Rows /\ ~Exists(NoCode) /\ Exists(NewCode)
  /\ NoCode.status = "none" /\ NoCode.name = 0
  /\ ~NoCode.synced /\ ~NoCode.inFlight /\ ~NoCode.readd
  /\ NewCode.status = "active" /\ NewCode.name = 0
  /\ ~NewCode.synced /\ ~NewCode.inFlight /\ ~NewCode.readd
<1>1. 0 \in 0 .. MaxMeddles
  BY CodesAssumption
<1>2. QED BY <1>1 DEF NoCode, NewCode, Rows, Exists

LEMMA UnflaggedFields ==
  ASSUME NEW r \in Rows
  PROVE  /\ Unflagged(r) \in Rows
         /\ Unflagged(r).status = r.status /\ Unflagged(r).name = r.name
         /\ ~Unflagged(r).synced /\ ~Unflagged(r).inFlight /\ Unflagged(r).readd = r.readd
  BY DEF Rows, Unflagged

LEMMA InFlightFields ==
  ASSUME NEW r \in Rows
  PROVE  /\ InFlight(r) \in Rows
         /\ InFlight(r).status = r.status /\ InFlight(r).name = r.name
         /\ InFlight(r).synced = r.synced /\ InFlight(r).inFlight
         /\ InFlight(r).readd = r.readd
  BY DEF Rows, InFlight

LEMMA SyncedFields ==
  ASSUME NEW r \in Rows
  PROVE  /\ Synced(r) \in Rows
         /\ Synced(r).status = r.status /\ Synced(r).name = r.name /\ Synced(r).synced
         /\ ~Synced(r).inFlight /\ ~Synced(r).readd
  BY DEF Rows, Synced

LEMMA UnrestorableFields ==
  ASSUME NEW r \in Rows
  PROVE  /\ Unrestorable(r) \in Rows
         /\ Unrestorable(r).status = "disabled" /\ Unrestorable(r).name = r.name
         /\ ~Unrestorable(r).synced /\ ~Unrestorable(r).inFlight /\ ~Unrestorable(r).readd
  BY DEF Rows, Unrestorable, Unflagged

LEMMA RenamedFields ==
  ASSUME NEW r \in Rows
  PROVE  /\ r.name < MaxMeddles => Renamed(r) \in Rows
         /\ Renamed(r).status = r.status /\ Renamed(r).name = r.name + 1
         /\ ~Renamed(r).synced /\ ~Renamed(r).inFlight /\ Renamed(r).readd = r.readd
<1>1. /\ Renamed(r).status = r.status /\ Renamed(r).name = r.name + 1 /\ ~Renamed(r).synced
      /\ ~Renamed(r).inFlight /\ Renamed(r).readd = r.readd
  BY DEF Rows, Unflagged, Renamed
<1>2. ASSUME r.name < MaxMeddles PROVE Renamed(r) \in Rows
  <2>1. r.name + 1 \in 0 .. MaxMeddles
    BY <1>2, CodesAssumption DEF Rows
  <2>2. QED BY <2>1 DEF Rows, Unflagged, Renamed
<1>3. QED BY <1>1, <1>2

LEMMA RequeuedFields ==
  ASSUME NEW r \in Rows
  PROVE  /\ Requeued(r) \in Rows
         /\ Requeued(r).status = r.status /\ Requeued(r).name = r.name
         /\ ~Requeued(r).synced /\ Requeued(r).inFlight = r.inFlight /\ Requeued(r).readd
  BY DEF Rows, Requeued

\* The sets of the publish and the repair, and the names on the node.
LEMMA Shapes ==
  ASSUME Typed
  PROVE  /\ pub.todo \subseteq Codes /\ pub.batch \subseteq Codes /\ pub.ours \subseteq Codes
         /\ pub.theirs \subseteq Codes /\ repair.missing \subseteq Codes
         /\ pub.next \in {"config", "flag"}
         /\ codeRow \in [Codes -> Rows] /\ pub.rows \in [Codes -> Rows]
         /\ taken \cap onNode = {}
         /\ \A n \in onNode \cup lateAdds : n[1] \in Codes /\ n = <<n[1], n[2]>>
  BY DEF Typed, Publishes, Repairs, CodesTypeOK, Names

LEMMA ShapesNext ==
  ASSUME Typed'
  PROVE  /\ pub'.todo \subseteq Codes /\ pub'.batch \subseteq Codes /\ pub'.ours \subseteq Codes
         /\ pub'.theirs \subseteq Codes /\ repair'.missing \subseteq Codes
         /\ \A n \in onNode' \cup lateAdds' : n[1] \in Codes /\ n = <<n[1], n[2]>>
  BY DEF Typed, Publishes, Repairs, CodesTypeOK, Names

LEMMA NamesAreNumbers ==
  ASSUME Typed
  PROVE  /\ \A c \in Codes : codeRow[c].name \in Nat /\ pub.rows[c].name \in Nat
         /\ \A n \in Names : n[2] \in Nat
         /\ meddles \in Nat
  BY CodesAssumption DEF Typed, Publishes, CodesTypeOK, Rows, Names

\* A code whose name is another's has a next name.
LEMMA RenameRoom ==
  ASSUME Typed, HonestInv, pub.at = "rename"
  PROVE  \A c \in pub.theirs :
           /\ pub.rows[c].name < meddles /\ meddles <= MaxMeddles
           /\ Exists(codeRow[c]) => codeRow[c].name = pub.rows[c].name
<1>1. \A c \in pub.theirs : c \in Codes /\ <<c, pub.rows[c].name>> \in taken
  BY Shapes DEF HonestInv, FoundInv, Own, Name
<1>2. \A n \in taken : n[2] < meddles
  BY DEF Typed
<1>3. \A c \in pub.theirs : Exists(codeRow[c]) => codeRow[c].name = pub.rows[c].name
  BY Shapes DEF HonestInv, ReadInv
<1>4. meddles <= MaxMeddles
  BY CodesAssumption DEF Typed
<1>5. QED BY <1>1, <1>2, <1>3, <1>4

\* A step that changes only the status of a row.
LEMMA StatusOnly ==
  ASSUME Typed, NEW c \in Codes, NEW s \in {"active", "disabled", "exhausted"},
         codeRow' = [codeRow EXCEPT ![c].status = s]
  PROVE  /\ codeRow' \in [Codes -> Rows]
         /\ \A d \in Codes \ {c} : codeRow'[d] = codeRow[d]
         /\ codeRow'[c].status = s /\ codeRow'[c].name = codeRow[c].name
         /\ codeRow'[c].synced = codeRow[c].synced /\ codeRow'[c].inFlight = codeRow[c].inFlight
         /\ codeRow'[c].readd = codeRow[c].readd
<1>1. codeRow \in [Codes -> Rows] /\ codeRow' = [codeRow EXCEPT ![c] = [@ EXCEPT !.status = s]]
  BY DEF Typed, CodesTypeOK
<1>2. codeRow[c] \in Rows /\ [codeRow[c] EXCEPT !.status = s] \in Rows
  BY <1>1 DEF Rows
<1>3. QED BY <1>1, <1>2 DEF Rows

LEMMA NoPublishTyped ==
  /\ NoPublish \in Publishes /\ NoPublish.at = "idle" /\ \A c \in Codes : NoPublish.rows[c] = NoCode
  BY NoCodeFields DEF NoPublish, Publishes, Steps

\* The repair counts the node: a finite set of names.
LEMMA NodeIsFinite == Typed => Cardinality(onNode) \in Nat
<1> SUFFICES ASSUME Typed PROVE Cardinality(onNode) \in Nat
  OBVIOUS
<1>1. IsFiniteSet(0 .. MaxMeddles)
  BY CodesAssumption, FS_Interval
<1>2. IsFiniteSet(Names)
  BY <1>1, CodesAssumption, FS_Product DEF Names
<1>3. IsFiniteSet(onNode)
  BY <1>2, FS_Subset DEF Typed, CodesTypeOK
<1>4. QED BY <1>3, FS_CardinalityType

\* The names of a set of codes, as the publish read them.
LEMMA OwnNames ==
  ASSUME Typed, NEW S \in SUBSET Codes
  PROVE  /\ NamesOf(S) \subseteq Names
         /\ \A n \in NamesOf(S) : n[1] \in S /\ n = Own(n[1]) /\ n[2] = pub.rows[n[1]].name
         /\ \A c \in S : Own(c) \in NamesOf(S)
<1>1. \A c \in S : pub.rows[c].name \in 0 .. MaxMeddles
  BY DEF Typed, Publishes, Rows
<1>2. QED BY <1>1 DEF NamesOf, Own, Name, Names

\* What names that land on the node change.
LEMMA Landing ==
  ASSUME Typed, NEW names \in SUBSET Names, Land(names)
  PROVE  /\ onNode' = onNode \cup names /\ onNode' \subseteq Names
         /\ lost' \subseteq lost /\ \A n \in names : n[1] \notin lost'
         /\ \A c \in lost \ lost' : \E n \in names : n[1] = c
         /\ repair' \in Repairs
         /\ repair'.at = repair.at /\ repair'.missing = repair.missing
         /\ repair'.listed = repair.listed /\ repair.crossed \subseteq repair'.crossed
         /\ repair.at \in {"rows", "queue"} => \A n \in names : n[1] \in repair'.crossed
<1>1. onNode \subseteq Names /\ {n[1] : n \in names} \subseteq Codes /\ repair \in Repairs
  BY DEF Typed, CodesTypeOK, Names
<1>2. repair' = IF repair.at \in {"rows", "queue"}
                THEN [repair EXCEPT !.crossed = repair.crossed \cup {n[1] : n \in names}]
                ELSE repair
  BY <1>1 DEF Land, Repairs
<1>3. /\ repair' \in Repairs
      /\ repair'.at = repair.at /\ repair'.missing = repair.missing
      /\ repair'.listed = repair.listed /\ repair.crossed \subseteq repair'.crossed
      /\ repair.at \in {"rows", "queue"} => \A n \in names : n[1] \in repair'.crossed
  BY <1>1, <1>2 DEF Repairs
<1>4. QED BY <1>1, <1>3 DEF Land

\* What a request without an answer may have done.
LEMMA UnansweredAdds ==
  ASSUME Typed, Unanswered
  PROVE  /\ onNode \subseteq onNode' /\ onNode' \subseteq Names
         /\ lateAdds \subseteq lateAdds' /\ lateAdds' \subseteq Names
         /\ \A n \in onNode' \ onNode : n[1] \in pub.batch /\ n = Own(n[1]) /\ Free(n)
         /\ \A n \in lateAdds' \ lateAdds : n[1] \in pub.batch /\ n = Own(n[1]) /\ Free(n)
         /\ lost' \subseteq lost
         /\ \A c \in lost \ lost' : Own(c) \in onNode' \ onNode
         /\ repair' \in Repairs
         /\ repair'.at = repair.at /\ repair'.missing = repair.missing
         /\ repair'.listed = repair.listed /\ repair.crossed \subseteq repair'.crossed
         /\ repair.at \in {"rows", "queue"} => \A n \in onNode' \ onNode : n[1] \in repair'.crossed
<1> DEFINE free == {c \in pub.batch : Free(Own(c))}
<1>1. PICK now \in SUBSET free :
        /\ Land(NamesOf(now))
        /\ lateAdds' = lateAdds \cup NamesOf({c \in pub.batch \ now : Free(Own(c))})
  BY DEF Unanswered
<1> DEFINE later == {c \in pub.batch \ now : Free(Own(c))}
<1>2. pub.batch \subseteq Codes /\ lateAdds \subseteq Names
  BY DEF Typed, Publishes, CodesTypeOK
<1>3. /\ NamesOf(now) \subseteq Names
      /\ \A n \in NamesOf(now) : n[1] \in now /\ n = Own(n[1])
  BY <1>2, OwnNames
<1>4. /\ NamesOf(later) \subseteq Names
      /\ \A n \in NamesOf(later) : n[1] \in later /\ n = Own(n[1])
  BY <1>2, OwnNames
<1>5. /\ onNode' = onNode \cup NamesOf(now) /\ onNode' \subseteq Names
      /\ lost' \subseteq lost
      /\ \A c \in lost \ lost' : \E n \in NamesOf(now) : n[1] = c
      /\ repair' \in Repairs
      /\ repair'.at = repair.at /\ repair'.missing = repair.missing
      /\ repair'.listed = repair.listed /\ repair.crossed \subseteq repair'.crossed
      /\ repair.at \in {"rows", "queue"} => \A n \in NamesOf(now) : n[1] \in repair'.crossed
  BY <1>1, <1>3, Landing
<1>6. lateAdds' = lateAdds \cup NamesOf(later)
  BY <1>1
<1>7. \A n \in NamesOf(now) : Free(n) /\ n \notin onNode
  BY <1>3 DEF Free
<1>8. \A n \in NamesOf(later) : Free(n)
  BY <1>4
<1> HIDE DEF later, free
<1>9. \A c \in lost \ lost' : Own(c) \in onNode' \ onNode
  BY <1>3, <1>5, <1>7
<1>10. QED BY <1>1, <1>2, <1>3, <1>4, <1>5, <1>6, <1>7, <1>8, <1>9 DEF later, free

----------------------------------------------------------------------------
(* Merchants, orders, the clock, Shopify's admin.                          *)

\* A code is switched on or off, or used up.
LEMMA StatusKeeps ==
  ASSUME IInv, NEW c \in Codes, NEW s \in {"active", "disabled", "exhausted"},
         codeRow[c].status \in {"active", "disabled"},
         codeRow' = [codeRow EXCEPT ![c].status = s], Edit, RowsOnly, UNCHANGED exempt
  PROVE  IInv'
<1> Typed /\ HonestInv /\ LostInv
  BY DEF IInv
<1>1. /\ codeRow' \in [Codes -> Rows]
      /\ \A d \in Codes \ {c} : codeRow'[d] = codeRow[d]
      /\ codeRow'[c].status = s /\ codeRow'[c].name = codeRow[c].name
      /\ codeRow'[c].synced = codeRow[c].synced /\ codeRow'[c].inFlight = codeRow[c].inFlight
      /\ codeRow'[c].readd = codeRow[c].readd
  BY StatusOnly
<1>2. /\ edits' \in 0 .. MaxEdits
      /\ UNCHANGED <<window, onNode, nodeOpen, taken, lateAdds, pub, repair, meddles, snags, lost,
                     exempt>>
  BY CodesAssumption DEF Edit, RowsOnly, nodeVars, Typed
<1>3. Typed'
  <2>1. \A d \in Codes : /\ codeRow'[d].name = codeRow[d].name
                         /\ codeRow'[d].synced = codeRow[d].synced
                         /\ codeRow'[d].inFlight = codeRow[d].inFlight
    BY <1>1
  <2>2. QED BY <1>1, <1>2, <2>1 DEF Typed, CodesTypeOK
<1>4. CodeRowInv' /\ ReadInv' /\ StageInv'
  BY <1>1, <1>2, Shapes DEF HonestInv, SetInv, StageInv, Exists, CodeRowInv, ReadInv
<1>5. NameInv' /\ FlagsAreHonest'
  BY <1>1, <1>2, Shapes DEF HonestInv, FlagsAreHonest, Exists, NameInv
<1>6. WorkInv' /\ UnsyncedInv' /\ PutBackInv' /\ ApartInv'
  BY <1>1, <1>2, Shapes DEF HonestInv, SetInv, WorkInv, UnsyncedInv, PutBackInv, ApartInv,
       Exists, Worked
<1>7. FoundInv' /\ ReaddInv'
  BY <1>1, <1>2, Shapes DEF HonestInv, Redeemable, FoundInv, ReaddInv, Name, Own
<1>8. CrossInv' /\ LostInv'
  BY <1>1, <1>2, Shapes DEF HonestInv, LostInv, Confirmed, CrossInv, LostRows, LostFound,
       LostQueued, Name, Own
<1>9. QED
  BY <1>3, <1>4, <1>5, <1>6, <1>7, <1>8 DEF IInv, HonestInv, SetInv

LEMMA SetStatusKeeps ==
  ASSUME IInv, NEW c \in Codes, NEW s \in {"active", "disabled"}, SetStatus(c, s)
  PROVE  IInv'
  BY StatusKeeps DEF SetStatus

LEMMA ExhaustKeeps == ASSUME IInv, NEW c \in Codes, Exhaust(c) PROVE IInv'
  BY StatusKeeps DEF Exhaust

LEMMA DeleteCodeKeeps == ASSUME IInv, NEW c \in Codes, DeleteCode(c) PROVE IInv'
<1> Typed /\ HonestInv /\ LostInv
  BY DEF IInv
<1> DEFINE gone == [NoCode EXCEPT !.status = "deleted"]
<1>1. /\ gone \in Rows /\ gone.status = "deleted" /\ gone.name = 0
      /\ ~gone.synced /\ ~gone.inFlight /\ ~gone.readd
  BY NoCodeFields DEF Rows
<1> HIDE DEF gone
<1>2. codeRow' = [codeRow EXCEPT ![c] = gone] /\ codeRow \in [Codes -> Rows]
  BY Shapes DEF DeleteCode, gone
<1>3. /\ codeRow' \in [Codes -> Rows]
      /\ \A d \in Codes \ {c} : codeRow'[d] = codeRow[d]
      /\ codeRow'[c].status = "deleted" /\ codeRow'[c].name = 0
      /\ ~codeRow'[c].synced /\ ~codeRow'[c].inFlight /\ ~codeRow'[c].readd
  BY <1>1, <1>2
<1>4. /\ Exists(codeRow[c]) /\ ~codeRow[c].synced /\ ~codeRow[c].inFlight
      /\ exempt' = IF pub.at = "idle" THEN exempt ELSE exempt \cup {c}
      /\ UNCHANGED <<window, onNode, nodeOpen, taken, lateAdds, pub, repair, meddles, snags, lost>>
      /\ edits' \in 0 .. MaxEdits
  BY CodesAssumption DEF DeleteCode, Deletable, Edit, RowsOnly, nodeVars, Typed
<1>5. Typed'
  BY <1>3, <1>4, NamesAreNumbers DEF Typed, CodesTypeOK
<1>6. CodeRowInv' /\ ReadInv' /\ StageInv'
  BY <1>3, <1>4, Shapes DEF HonestInv, SetInv, StageInv, Exists, CodeRowInv, ReadInv
<1>7. NameInv' /\ FlagsAreHonest'
  BY <1>3, <1>4, Shapes DEF HonestInv, FlagsAreHonest, Exists, NameInv
<1>8. WorkInv' /\ UnsyncedInv' /\ PutBackInv' /\ ApartInv'
  BY <1>3, <1>4, Shapes DEF HonestInv, SetInv, WorkInv, UnsyncedInv, PutBackInv, ApartInv,
       Exists, Worked
<1>9. FoundInv' /\ ReaddInv'
  BY <1>3, <1>4, Shapes DEF HonestInv, Exists, Redeemable, FoundInv, ReaddInv, Name, Own
<1>10. CrossInv' /\ LostInv'
  BY <1>3, <1>4, Shapes DEF HonestInv, LostInv, Exists, Confirmed, CrossInv, LostRows,
       LostFound, LostQueued, Name, Own
<1>11. QED
  BY <1>5, <1>6, <1>7, <1>8, <1>9, <1>10 DEF IInv, HonestInv, SetInv

\* The publish stops, whatever its last request did.
LEMMA StopsKeeps ==
  ASSUME IInv, snags' \in 0 .. MaxSnags, pub.at \in {"add", "resend"} /\ Unanswered,
         pub' = NoPublish \/ (pub.at = "add" /\ pub' = [pub EXCEPT !.at = "recheck"]),
         UNCHANGED <<edits, meddles>>
  PROVE  IInv'
<1> Typed /\ HonestInv /\ LostInv
  BY DEF IInv
<1>1. /\ onNode \subseteq onNode' /\ onNode' \subseteq Names
      /\ lateAdds \subseteq lateAdds' /\ lateAdds' \subseteq Names
      /\ \A n \in onNode' \ onNode : n[1] \in pub.batch /\ n = Own(n[1]) /\ Free(n)
      /\ \A n \in lateAdds' \ lateAdds : n[1] \in pub.batch /\ n = Own(n[1]) /\ Free(n)
      /\ lost' \subseteq lost
      /\ \A c \in lost \ lost' : Own(c) \in onNode' \ onNode
      /\ repair' \in Repairs
      /\ repair'.at = repair.at /\ repair'.missing = repair.missing
      /\ repair'.listed = repair.listed /\ repair.crossed \subseteq repair'.crossed
      /\ repair.at \in {"rows", "queue"} => \A n \in onNode' \ onNode : n[1] \in repair'.crossed
  BY UnansweredAdds
<1>2. UNCHANGED <<codeRow, window, nodeOpen, taken, exempt>>
  BY DEF Unanswered
<1>3. \/ pub' = NoPublish
      \/ /\ pub.at = "add" /\ pub'.at = "recheck" /\ pub'.next = pub.next /\ pub'.rows = pub.rows
         /\ pub'.todo = pub.todo /\ pub'.batch = pub.batch /\ pub'.ours = pub.ours
         /\ pub'.theirs = pub.theirs
  BY DEF Typed, Publishes
<1>4. pub' \in Publishes
  BY NoPublishTyped DEF Typed, Publishes, Steps
<1>5. Typed'
  BY <1>1, <1>2, <1>3, <1>4, NamesAreNumbers, NoPublishTyped, NoCodeFields DEF Typed,
       CodesTypeOK, Free
<1>6. CodeRowInv' /\ ReadInv' /\ StageInv'
  BY <1>2, <1>3 DEF HonestInv, SetInv, StageInv, Exists, CodeRowInv, ReadInv, Free, NoPublish
<1>7. NameInv' /\ FlagsAreHonest'
  BY <1>1, <1>2, <1>3, <1>5, Shapes, ShapesNext, NoPublishTyped DEF HonestInv, SetInv,
       WorkInv, UnsyncedInv, FlagsAreHonest, Exists, Worked, CodeRowInv, ReadInv, NameInv, FoundInv,
       ReaddInv, Name, Own
<1>8. WorkInv' /\ UnsyncedInv' /\ PutBackInv' /\ ApartInv'
  BY <1>2, <1>3, ShapesNext, NoPublishTyped DEF HonestInv, SetInv, WorkInv, UnsyncedInv,
       PutBackInv, ApartInv, Exists, Worked
<1>9. FoundInv' /\ ReaddInv'
  BY <1>1, <1>2, <1>3, <1>5, Shapes, ShapesNext, NoPublishTyped DEF HonestInv, Redeemable,
       FoundInv, ReaddInv
<1>10. CrossInv' /\ LostInv'
  <2>1. CrossInv'
    BY <1>1, <1>2, <1>3, <1>5, Shapes, ShapesNext, NoPublishTyped DEF HonestInv, CrossInv
  <2>2. LostRows'
    BY <1>1, <1>2, <1>3 DEF HonestInv, SetInv, LostInv, StageInv, Exists, CodeRowInv, ReadInv,
         LostRows, Name, Own
  <2>3. LostFound'
    BY <1>1, <1>2, <1>3, <1>5, Shapes, ShapesNext, NoPublishTyped DEF LostInv, Confirmed,
         LostFound
  <2>4. LostQueued'
    <3>1. pub'.at \in {"idle", "recheck"}
      BY <1>3, NoPublishTyped
    <3>2. ASSUME repair.at = "queue", NEW c \in repair.missing, c \notin lost'
          PROVE  c \in repair'.crossed
      <4>1. c \in lost \/ c \in repair.crossed
        BY <3>2 DEF LostInv, LostQueued
      <4>2. c \in lost => Own(c) \in onNode' \ onNode /\ Own(c)[1] = c
        BY <1>1, <3>2 DEF Own, Name
      <4>3. QED BY <1>1, <3>2, <4>1, <4>2
    <3>3. QED BY <1>1, <3>1, <3>2 DEF LostQueued, Confirmed
  <2>5. QED BY <2>1, <2>2, <2>3, <2>4 DEF LostInv
<1>11. QED
  BY <1>5, <1>6, <1>7, <1>8, <1>9, <1>10 DEF IInv, HonestInv, SetInv

LEMMA CreateCodeKeeps == ASSUME IInv, NEW c \in Codes, CreateCode(c) PROVE IInv'
<1> Typed /\ HonestInv /\ LostInv
  BY DEF IInv
<1>1. Typed'
  BY NoCodeFields, CodesAssumption, Shapes DEF Typed, Publishes, Repairs, CodesTypeOK, Steps,
       Names, nodeVars, CreateCode, RowsOnly, Edit
<1>2. CodeRowInv' /\ ReadInv' /\ StageInv'
  BY <1>1, NoCodeFields, Shapes, ShapesNext DEF HonestInv, SetInv, StageInv, Exists, CodeRowInv,
       ReadInv, nodeVars, CreateCode, RowsOnly, Edit
<1>3. NameInv' /\ FlagsAreHonest'
  BY <1>1, NoCodeFields, Shapes, ShapesNext DEF HonestInv, FlagsAreHonest, Exists, NameInv,
       nodeVars, CreateCode, RowsOnly, Edit
<1>4. WorkInv' /\ UnsyncedInv' /\ PutBackInv' /\ ApartInv'
  BY <1>1, NoCodeFields, Shapes, ShapesNext DEF HonestInv, SetInv, WorkInv, UnsyncedInv,
       PutBackInv, ApartInv, Exists, Worked, nodeVars, CreateCode, RowsOnly, Edit
<1>5. FoundInv' /\ ReaddInv'
  BY ShapesNext DEF HonestInv, Exists, Redeemable, CodeRowInv, ReadInv, FoundInv, ReaddInv, Name,
       Own, nodeVars, StillToLook, To, CreateCode, RowsOnly, Edit
<1>6. CrossInv' /\ LostInv'
  BY NoCodeFields, Shapes, ShapesNext DEF HonestInv, LostInv, Confirmed, CrossInv, LostRows,
       LostFound, LostQueued, Name, Own, nodeVars, CreateCode, RowsOnly, Edit
<1>7. QED
  BY <1>1, <1>2, <1>3, <1>4, <1>5, <1>6 DEF IInv, HonestInv, SetInv

LEMMA WindowMovesKeeps == ASSUME IInv, NEW c \in Codes, WindowMoves(c) PROVE IInv'
<1> Typed /\ HonestInv /\ LostInv
  BY DEF IInv
<1>1. Typed'
  BY NoCodeFields, CodesAssumption, Shapes DEF Typed, Publishes, Repairs, CodesTypeOK, Steps,
       Names, nodeVars, countVars, WindowMoves
<1>2. CodeRowInv' /\ ReadInv' /\ StageInv'
  BY <1>1, NoCodeFields, Shapes, ShapesNext DEF HonestInv, SetInv, StageInv, Exists, CodeRowInv,
       ReadInv, nodeVars, WindowMoves
<1>3. NameInv' /\ FlagsAreHonest'
  BY <1>1, NoCodeFields, Shapes, ShapesNext DEF HonestInv, FlagsAreHonest, Exists, NameInv,
       nodeVars, WindowMoves
<1>4. WorkInv' /\ UnsyncedInv' /\ PutBackInv' /\ ApartInv'
  BY <1>1, NoCodeFields, Shapes, ShapesNext DEF HonestInv, SetInv, WorkInv, UnsyncedInv,
       PutBackInv, ApartInv, Exists, Worked, nodeVars, WindowMoves
<1>5. FoundInv' /\ ReaddInv'
  BY ShapesNext DEF HonestInv, Exists, Redeemable, CodeRowInv, ReadInv, FoundInv, ReaddInv, Name,
       Own, nodeVars, StillToLook, To, WindowMoves
<1>6. CrossInv' /\ LostInv'
  BY <1>1, NoCodeFields, Shapes, ShapesNext DEF HonestInv, LostInv, Confirmed, CrossInv,
       LostRows, LostFound, LostQueued, Name, Own, nodeVars, WindowMoves
<1>7. QED
  BY <1>1, <1>2, <1>3, <1>4, <1>5, <1>6 DEF IInv, HonestInv, SetInv

LEMMA DeleteInShopifyKeeps == ASSUME IInv, NEW c \in Codes, DeleteInShopify(c) PROVE IInv'
<1> Typed /\ HonestInv /\ LostInv
  BY DEF IInv
<1>1. Typed'
  BY NoCodeFields, NamesAreNumbers, CodesAssumption, Shapes DEF Typed, Publishes, Repairs,
       CodesTypeOK, Steps, DeleteInShopify, Meddle
<1>2. CodeRowInv' /\ ReadInv' /\ StageInv'
  BY <1>1, NoCodeFields, NamesAreNumbers, Shapes, ShapesNext DEF HonestInv, SetInv, StageInv,
       Exists, CodeRowInv, ReadInv, Name, DeleteInShopify, Meddle
<1>3. NameInv' /\ FlagsAreHonest'
  BY <1>1, NoCodeFields, NamesAreNumbers, Shapes, ShapesNext DEF HonestInv, FlagsAreHonest,
       Exists, NameInv, Name, DeleteInShopify, Meddle
<1>4. WorkInv' /\ UnsyncedInv' /\ PutBackInv' /\ ApartInv'
  BY <1>1, NoCodeFields, NamesAreNumbers, Shapes, ShapesNext DEF HonestInv, SetInv, WorkInv,
       UnsyncedInv, PutBackInv, ApartInv, Exists, Worked, Name, DeleteInShopify, Meddle
<1>5. FoundInv' /\ ReaddInv'
  BY <1>1, NoCodeFields, NamesAreNumbers, Shapes, ShapesNext DEF HonestInv, Redeemable,
       FoundInv, ReaddInv, Name, Own, DeleteInShopify, Meddle
<1>6. CrossInv' /\ LostInv'
  BY <1>1, NoCodeFields, NamesAreNumbers, Shapes, ShapesNext DEF HonestInv, LostInv,
       Confirmed, CrossInv, LostRows, LostFound, LostQueued, Name, Own, DeleteInShopify, Meddle
<1>7. QED
  BY <1>1, <1>2, <1>3, <1>4, <1>5, <1>6 DEF IInv, HonestInv, SetInv

LEMMA TakeInShopifyKeeps == ASSUME IInv, NEW c \in Codes, TakeInShopify(c) PROVE IInv'
<1> Typed /\ HonestInv /\ LostInv
  BY DEF IInv
<1>1. Typed'
  BY NoCodeFields, NamesAreNumbers, CodesAssumption, Shapes DEF Typed, CodesTypeOK, Steps,
       NoRepair, HonestInv, Names, Name, TakeInShopify, Meddle
<1>2. CodeRowInv' /\ ReadInv' /\ StageInv'
  BY <1>1, NoCodeFields, NamesAreNumbers, Shapes, ShapesNext DEF HonestInv, SetInv, StageInv,
       Exists, CodeRowInv, ReadInv, Name, TakeInShopify, Meddle
<1>3. NameInv' /\ FlagsAreHonest'
  BY <1>1, NoCodeFields, NamesAreNumbers, Shapes, ShapesNext DEF HonestInv, FlagsAreHonest,
       Exists, NameInv, Name, TakeInShopify, Meddle
<1>4. WorkInv' /\ UnsyncedInv' /\ PutBackInv' /\ ApartInv'
  BY <1>1, NoCodeFields, NamesAreNumbers, Shapes, ShapesNext DEF HonestInv, SetInv, WorkInv,
       UnsyncedInv, PutBackInv, ApartInv, Exists, Worked, Name, TakeInShopify, Meddle
<1>5. FoundInv' /\ ReaddInv'
  BY <1>1, NoCodeFields, NamesAreNumbers, Shapes, ShapesNext DEF HonestInv, Redeemable,
       FoundInv, ReaddInv, Name, Own, TakeInShopify, Meddle
<1>6. CrossInv' /\ LostInv'
  BY <1>1, NoCodeFields, NamesAreNumbers, Shapes, ShapesNext DEF HonestInv, LostInv,
       Confirmed, CrossInv, LostRows, LostFound, LostQueued, Name, Own, TakeInShopify, Meddle
<1>7. QED
  BY <1>1, <1>2, <1>3, <1>4, <1>5, <1>6 DEF IInv, HonestInv, SetInv

----------------------------------------------------------------------------
(* A publish begins.                                                      *)

LEMMA StartPublishKeeps == ASSUME IInv, StartPublish PROVE IInv'
<1> Typed /\ HonestInv /\ LostInv
  BY DEF IInv
<1>1. Typed'
  BY NoCodeFields, CodesAssumption, Shapes DEF Typed, Publishes, Repairs, CodesTypeOK, Steps,
       NoPublish, Names, nodeVars, countVars, NoCode, StartPublish, PubOnly, NoWrite
<1>2. CodeRowInv' /\ ReadInv' /\ StageInv'
  <2>1. CodeRowInv'
    BY <1>1, NoCodeFields, Shapes, ShapesNext DEF HonestInv, Exists, CodeRowInv, NoPublish,
         nodeVars, StartPublish, PubOnly, NoWrite
  <2>2. ReadInv'
    <3>1. pub'.rows = codeRow /\ UNCHANGED <<codeRow, window, exempt>>
      BY DEF StartPublish, NoPublish, NoWrite, PubOnly
    <3>2. \A c \in Codes : ~(codeRow[c].synced /\ codeRow[c].inFlight)
      BY DEF Typed, CodesTypeOK
    <3>3. QED BY <3>1, <3>2 DEF HonestInv, CodeRowInv, ReadInv
  <2>3. StageInv'
    BY <1>1, NoCodeFields, Shapes, ShapesNext DEF HonestInv, SetInv, StageInv, Exists,
         NoPublish, nodeVars, StartPublish
  <2>4. QED BY <2>1, <2>2, <2>3
<1>3. NameInv' /\ FlagsAreHonest'
  BY <1>1, NoCodeFields, Shapes, ShapesNext DEF HonestInv, FlagsAreHonest, Exists, NameInv,
       NoPublish, nodeVars, StartPublish, PubOnly, NoWrite
<1>4. WorkInv' /\ UnsyncedInv' /\ PutBackInv' /\ ApartInv'
  BY DEF SetInv, WorkInv, UnsyncedInv, PutBackInv, ApartInv, Exists, Worked, NoPublish,
       nodeVars, StartPublish
<1>5. FoundInv' /\ ReaddInv'
  BY <1>1, NoCodeFields, Shapes, ShapesNext DEF HonestInv, Exists, Redeemable, FoundInv,
       ReaddInv, Name, Own, NoPublish, nodeVars, StartPublish
<1>6. CrossInv' /\ LostInv'
  BY ShapesNext DEF HonestInv, LostInv, Exists, Confirmed, CrossInv, LostRows, LostFound,
       LostQueued, Name, nodeVars, StartPublish, PubOnly, NoWrite
<1>7. QED
  BY <1>1, <1>2, <1>3, <1>4, <1>5, <1>6 DEF IInv, HonestInv, SetInv

----------------------------------------------------------------------------
(* The drift repair.                                                       *)

\* A step of the repair that writes no row keeps what is said of the rows, the
\* node and the publish; what is left is what it has listed and found missing.
LEMMA RepairKeeps ==
  ASSUME IInv, UNCHANGED <<codeRow, window, nodeVars, pub, lost, exempt, edits, meddles>>,
         repair' \in Repairs, snags' \in 0 .. MaxSnags, CrossInv', LostQueued'
  PROVE  IInv'
<1> Typed /\ HonestInv /\ LostInv
  BY DEF IInv
<1>1. UNCHANGED <<onNode, nodeOpen, taken, lateAdds>>
  BY DEF nodeVars
<1>2. Typed'
  BY <1>1 DEF Typed, CodesTypeOK
<1>3. CodeRowInv' /\ ReadInv' /\ NameInv' /\ FlagsAreHonest'
  BY <1>1 DEF HonestInv, CodeRowInv, ReadInv, NameInv, FlagsAreHonest
<1>4. SetInv'
  BY DEF HonestInv, SetInv, StageInv, WorkInv, UnsyncedInv, PutBackInv, ApartInv, Worked
<1>5. FoundInv' /\ ReaddInv'
  <2>1. FoundInv'
    BY <1>1 DEF HonestInv, FoundInv, Own, Name
  <2>2. ReaddInv'
    BY <1>1 DEF HonestInv, ReaddInv, Own, Name, Redeemable
  <2>3. QED BY <2>1, <2>2
<1>6. LostRows' /\ LostFound'
  BY <1>1 DEF LostInv, LostRows, LostFound, Confirmed, Own
<1>7. QED
  BY <1>2, <1>3, <1>4, <1>5, <1>6 DEF IInv, HonestInv, LostInv

LEMMA NoRepairTyped == NoRepair \in Repairs /\ NoRepair.at = "idle"
  BY DEF NoRepair, Repairs

LEMMA SeeCountKeeps == ASSUME IInv, SeeCount PROVE IInv'
<1>1. Cardinality(onNode) \in Nat
  BY NodeIsFinite DEF IInv
<1>2. repair' \in Repairs /\ repair'.at = "compare"
  BY <1>1 DEF SeeCount, NoRepair, Repairs
<1>3. QED
  BY <1>2, RepairKeeps DEF SeeCount, RepairOnly, countVars, IInv, Typed, CrossInv, LostQueued

LEMMA CompareCountKeeps == ASSUME IInv, CompareCount PROVE IInv'
<1>1. repair' \in Repairs /\ repair'.at \in {"idle", "list"}
  BY DEF CompareCount, NoRepair, Repairs
<1>2. QED
  BY <1>1, RepairKeeps DEF CompareCount, RepairOnly, countVars, IInv, Typed, CrossInv, LostQueued

LEMMA ListNodeKeeps == ASSUME IInv, ListNode PROVE IInv'
<1>1. repair' \in Repairs /\ repair'.at = "rows" /\ repair'.listed = onNode
  BY DEF ListNode, IInv, Typed, CodesTypeOK, Repairs
<1>2. QED
  BY <1>1, RepairKeeps DEF ListNode, RepairOnly, countVars, nodeVars, IInv, Typed, CrossInv,
     LostQueued

\* What is missing from the list is lost, or landed since.
LEMMA ReadRowsKeeps == ASSUME IInv, ReadRows PROVE IInv'
<1> DEFINE missing == {c \in Codes : /\ Settled(codeRow[c])
                                     /\ Name(codeRow[c], c) \notin repair.listed}
<1> Typed /\ HonestInv /\ LostInv
  BY DEF IInv
<1>1. UNCHANGED <<codeRow, window, onNode, nodeOpen, taken, lateAdds, pub, lost, exempt, countVars>>
  BY DEF ReadRows, RepairOnly, nodeVars
<1>2. CASE missing = {}
  <2>1. repair' = NoRepair
    BY <1>2 DEF ReadRows
  <2>2. QED
    BY <1>1, <2>1, NoRepairTyped, RepairKeeps DEF countVars, nodeVars, Typed, CrossInv, LostQueued
<1>3. CASE missing # {}
  <2>1. /\ repair.at = "rows" /\ repair' \in Repairs /\ repair'.at = "queue"
        /\ repair'.missing = missing /\ repair'.crossed = repair.crossed
    BY <1>3 DEF ReadRows, Typed, Repairs
  <2>2. \A c \in missing : /\ codeRow[c].synced /\ window[c] # "early"
                           /\ Name(codeRow[c], c) \in onNode => c \in repair.crossed
                           /\ Name(codeRow[c], c) \in onNode \/ c \in lost
    BY <2>1 DEF Settled, HonestInv, CodeRowInv, CrossInv, LostInv, LostRows, Name
  <2>3. \A n \in onNode : n[1] \in missing => n[1] \in repair.crossed
    BY <2>2, Shapes DEF HonestInv, NameInv, CodeRowInv, Name
  <2>4. CrossInv'
    BY <1>1, <2>1, <2>2, <2>3 DEF CrossInv
  <2>5. \A c \in missing : ~Confirmed(c)
    <3>1. \A c \in Codes : Confirmed(c) => pub.at # "idle" /\ ~pub.rows[c].synced
      BY Shapes DEF HonestInv, SetInv, UnsyncedInv, Worked, Confirmed
    <3>2. \A c \in Codes : pub.at # "idle" /\ codeRow[c].synced => pub.rows[c].synced
      BY DEF HonestInv, ReadInv
    <3>3. QED BY <2>2, <3>1, <3>2
  <2>6. LostQueued'
    BY <1>1, <2>1, <2>2, <2>5 DEF LostQueued, Confirmed
  <2>7. QED
    BY <1>1, <2>1, <2>4, <2>6, RepairKeeps DEF countVars, nodeVars, Typed
<1>4. QED BY <1>2, <1>3

LEMMA RepairStopsKeeps == ASSUME IInv, RepairStops PROVE IInv'
<1>1. snags' \in 0 .. MaxSnags
  BY CodesAssumption DEF RepairStops, Snag, IInv, Typed
<1>2. QED
  BY <1>1, NoRepairTyped, RepairKeeps DEF RepairStops, Snag, CrossInv, LostQueued

LEMMA QueueMissingKeeps == ASSUME IInv, QueueMissing PROVE IInv'
<1> Typed /\ HonestInv /\ LostInv
  BY DEF IInv
<1>1. Typed'
  BY NoCodeFields, RequeuedFields, CodesAssumption, Shapes DEF Typed, Publishes, Repairs,
       CodesTypeOK, Steps, NoRepair, Names, nodeVars, countVars, QueueMissing, RepairOnly, Update
<1>2. CodeRowInv' /\ ReadInv' /\ StageInv'
  BY RequeuedFields, Shapes, ShapesNext DEF HonestInv, SetInv, LostInv, StageInv, WorkInv,
       Exists, Redeemable, CodeRowInv, ReadInv, ReaddInv, CrossInv, To, QueueMissing, RepairOnly,
       Update
<1>3. NameInv' /\ FlagsAreHonest'
  BY RequeuedFields, Shapes, ShapesNext DEF HonestInv, ApartInv, FlagsAreHonest, NameInv,
       FoundInv, ReaddInv, CrossInv, nodeVars, StillToLook, To, QueueMissing, RepairOnly, Update
<1>4. WorkInv' /\ UnsyncedInv' /\ PutBackInv' /\ ApartInv'
  BY ShapesNext DEF HonestInv, SetInv, WorkInv, UnsyncedInv, PutBackInv, ApartInv, Exists,
       Worked, NoRepair, nodeVars, QueueMissing, RepairOnly, Update
<1>5. FoundInv' /\ ReaddInv'
  BY <1>1, NoCodeFields, RequeuedFields, Shapes, ShapesNext DEF HonestInv, Redeemable,
       FoundInv, ReaddInv, Name, Own, NoRepair, nodeVars, QueueMissing, RepairOnly, Update
<1>6. CrossInv' /\ LostInv'
  BY NoCodeFields, RequeuedFields, Shapes, ShapesNext DEF HonestInv, SetInv, LostInv,
       StageInv, Exists, Confirmed, CodeRowInv, ReadInv, CrossInv, LostRows, LostFound, LostQueued,
       Name, Own, NoRepair, Expected, nodeVars, StillToLook, To, QueueMissing, RepairOnly, Update
<1>7. QED
  BY <1>1, <1>2, <1>3, <1>4, <1>5, <1>6 DEF IInv, HonestInv, SetInv

----------------------------------------------------------------------------
(* A request that lands late.                                              *)

LEMMA LateLandsKeeps == ASSUME IInv, NEW n \in Names, LateLands(n) PROVE IInv'
<1> Typed /\ HonestInv /\ LostInv
  BY DEF IInv
<1>1. Typed'
  BY NoCodeFields, OwnNames, Landing, CodesAssumption, Shapes DEF Typed, Publishes, Repairs,
       CodesTypeOK, Steps, Names, Free, countVars, LateLands
<1>2. CodeRowInv' /\ ReadInv' /\ StageInv'
  BY <1>1, NoCodeFields, OwnNames, Landing, Shapes, ShapesNext DEF HonestInv, SetInv,
       StageInv, Exists, CodeRowInv, ReadInv, StillToLook, LateLands
<1>3. NameInv' /\ FlagsAreHonest'
  BY Landing, Shapes, ShapesNext DEF HonestInv, FlagsAreHonest, Exists, CodeRowInv, ReadInv,
       NameInv, Name, Own, Free, NoRepair, Expected, To, LateLands
<1>4. WorkInv' /\ UnsyncedInv' /\ PutBackInv' /\ ApartInv'
  BY DEF HonestInv, SetInv, WorkInv, UnsyncedInv, PutBackInv, ApartInv, Exists, Worked,
       StillToLook, LateLands
<1>5. FoundInv' /\ ReaddInv'
  BY Landing, Shapes, ShapesNext DEF HonestInv, SetInv, StageInv, WorkInv, UnsyncedInv,
       Exists, Redeemable, ReadInv, FoundInv, ReaddInv, Name, Own, Free, NoRepair, Expected,
       nodeVars, StillToLook, To, LateLands
<1>6. CrossInv' /\ LostInv'
  BY OwnNames, Landing, Shapes, ShapesNext DEF HonestInv, SetInv, LostInv, StageInv, WorkInv,
       UnsyncedInv, Confirmed, Worked, CodeRowInv, ReadInv, NameInv, FoundInv, ReaddInv, CrossInv,
       LostRows, LostFound, LostQueued, Name, Own, Free, To, LateLands
<1>7. QED
  BY <1>1, <1>2, <1>3, <1>4, <1>5, <1>6 DEF IInv, HonestInv, SetInv

----------------------------------------------------------------------------
(* The publish, step by step.                                              *)

LEMMA RemoveStaleKeeps == ASSUME IInv, RemoveStale PROVE IInv'
<1> Typed /\ HonestInv /\ LostInv
  BY DEF IInv
<1>1. /\ pub.at = "retire" /\ pub'.at = IF Stale = {} THEN "expire" ELSE "verify"
      /\ pub'.next = pub.next /\ pub'.rows = pub.rows /\ pub'.todo = Stale
      /\ pub'.batch = pub.batch /\ pub'.ours = pub.ours /\ pub'.theirs = pub.theirs
      /\ UNCHANGED <<codeRow, window, nodeOpen, taken, lateAdds, repair, exempt, countVars>>
  BY DEF RemoveStale, Typed, Publishes, nodeVars, PubOnly, NoWrite
<1>2. \A x \in Stale : /\ x \in Codes /\ Exists(pub.rows[x]) /\ pub.rows[x].synced
                       /\ ~Redeemable(pub.rows[x], x)
  BY <1>1, Shapes DEF Stale, HonestInv, ReadInv
<1>3. lost \subseteq lost' /\ lost' \subseteq Codes /\ onNode' \subseteq onNode
  BY <1>1 DEF RemoveStale, Stale, Typed, CodesTypeOK
<1>4. \A y \in Codes : Own(y) \in onNode \ onNode' => y \in lost'
  BY <1>1 DEF RemoveStale, NamesOf, Own, Name, Stale
<1>5. pub' \in Publishes
  BY <1>1, <1>2, <1>3, <1>4, Shapes DEF RemoveStale, Typed, Publishes, Steps
<1>6. \A c \in Codes : /\ codeRow'[c].name <= meddles /\ pub'.rows[c].name <= meddles
                      /\ ~(codeRow'[c].synced /\ codeRow'[c].inFlight)
  BY <1>1, <1>2, <1>3, <1>4, <1>5, Shapes DEF Typed, CodesTypeOK, Exists
<1>7. Typed'
  BY <1>1, <1>2, <1>3, <1>4, <1>5, <1>6, Shapes DEF Typed, CodesTypeOK, countVars
<1>8. CodeRowInv' /\ ReadInv' /\ StageInv'
  BY <1>1, <1>2, <1>3, <1>4, <1>7, Shapes, ShapesNext DEF HonestInv, SetInv, StageInv, Exists,
       Redeemable, CodeRowInv, ReadInv
<1>9. NameInv' /\ FlagsAreHonest'
  BY <1>1, <1>2, <1>3, <1>4, <1>7, Shapes, ShapesNext DEF HonestInv, FlagsAreHonest, Exists,
       Redeemable, NameInv
<1>10. WorkInv' /\ UnsyncedInv' /\ PutBackInv' /\ ApartInv'
  BY <1>1, <1>2, <1>3 DEF HonestInv, SetInv, StageInv, WorkInv, UnsyncedInv, PutBackInv,
       ApartInv, Exists, Redeemable, Worked, CodeRowInv, ReadInv
<1>11. FoundInv' /\ ReaddInv'
  BY <1>1, <1>2, <1>3, <1>4, <1>7, Shapes DEF FoundInv, ReaddInv, Name, Own
<1>12. CrossInv' /\ LostInv'
  BY <1>1, <1>2, <1>3, <1>4, ShapesNext DEF HonestInv, SetInv, LostInv, Redeemable, Confirmed,
       CodeRowInv, ReadInv, CrossInv, LostRows, LostFound, LostQueued, Name, Own
<1>13. QED
  BY <1>7, <1>8, <1>9, <1>10, <1>11, <1>12 DEF IInv, HonestInv, SetInv

LEMMA VerifyGoneKeeps == ASSUME IInv, VerifyGone PROVE IInv'
<1> Typed /\ HonestInv /\ LostInv
  BY DEF IInv
<1>1. /\ pub.at = "verify" /\ pub'.at = "clear" /\ pub'.next = pub.next /\ pub'.rows = pub.rows
      /\ pub'.todo = pub.todo /\ pub'.batch = pub.batch
      /\ pub'.ours = {c \in pub.todo : Own(c) \in onNode} /\ pub'.theirs = pub.theirs
      /\ UNCHANGED <<codeRow, window, onNode, nodeOpen, taken, lateAdds, repair, lost, exempt,
                     countVars>>
  BY SMTT(20) DEF VerifyGone, Typed, Publishes, nodeVars, PubOnly, NoWrite
<1>2. pub' \in Publishes
  BY <1>1, Shapes DEF VerifyGone, Typed, Publishes, Steps, NoPublish
<1>3. \A c \in Codes : /\ codeRow'[c].name <= meddles /\ pub'.rows[c].name <= meddles
                      /\ ~(codeRow'[c].synced /\ codeRow'[c].inFlight)
  BY <1>1, <1>2, Shapes, NamesAreNumbers, NoPublishTyped, NoCodeFields DEF Typed, CodesTypeOK,
       Exists
<1>4. Typed'
  BY <1>1, <1>2, <1>3, Shapes DEF Typed, CodesTypeOK, countVars
<1>5. CodeRowInv' /\ ReadInv' /\ StageInv'
  BY <1>1, <1>4, Shapes, ShapesNext DEF HonestInv, SetInv, StageInv, Exists, CodeRowInv, ReadInv
<1>6. NameInv' /\ FlagsAreHonest'
  BY <1>1, <1>4, Shapes, ShapesNext DEF HonestInv, FlagsAreHonest, Exists, NameInv, Name, Own
<1>7. WorkInv' /\ UnsyncedInv' /\ PutBackInv' /\ ApartInv'
  BY <1>1, <1>4, Shapes, ShapesNext DEF HonestInv, SetInv, WorkInv, UnsyncedInv, PutBackInv,
       ApartInv, Exists, Worked
<1>8. FoundInv' /\ ReaddInv'
  BY <1>1, <1>4, Shapes, ShapesNext DEF HonestInv, Redeemable, FoundInv, ReaddInv, Name, Own
<1>9. CrossInv' /\ LostInv'
  BY <1>1, <1>4, Shapes, ShapesNext DEF HonestInv, LostInv, Confirmed, CrossInv, LostRows,
       LostFound, LostQueued
<1>10. QED
  BY <1>4, <1>5, <1>6, <1>7, <1>8, <1>9 DEF IInv, HonestInv, SetInv

LEMMA LookReaddsKeeps == ASSUME IInv, LookReadds PROVE IInv'
<1> Typed /\ HonestInv /\ LostInv
  BY DEF IInv
<1>1. /\ pub.at = "look" /\ pub'.at = IF Readds(Pending) = {} THEN "lookup" ELSE "settle"
      /\ pub'.next = pub.next /\ pub'.rows = pub.rows
      /\ pub'.todo = Preflight(Pending \ Readds(Pending)) /\ pub'.batch = pub.batch
      /\ pub'.ours = {c \in Readds(Pending) : Own(c) \in onNode}
      /\ pub'.theirs = {c \in Readds(Pending) : Own(c) \in taken}
      /\ UNCHANGED <<codeRow, window, onNode, nodeOpen, taken, lateAdds, repair, lost, exempt,
                     countVars>>
  BY SMTT(20) DEF LookReadds, Typed, Publishes, nodeVars, PubOnly, NoWrite
<1>2. pub' \in Publishes
  BY <1>1, Shapes DEF LookReadds, Typed, Publishes, Steps, NoPublish, Readds, Preflight,
       Pending
<1>3. \A c \in Codes : /\ codeRow'[c].name <= meddles /\ pub'.rows[c].name <= meddles
                      /\ ~(codeRow'[c].synced /\ codeRow'[c].inFlight)
  BY <1>1, <1>2, Shapes, NamesAreNumbers, NoPublishTyped, NoCodeFields DEF Typed, CodesTypeOK,
       Exists
<1>4. Typed'
  BY <1>1, <1>2, <1>3, Shapes DEF Typed, CodesTypeOK, countVars
<1>5. CodeRowInv' /\ ReadInv' /\ StageInv'
  BY <1>1, <1>4, Shapes, ShapesNext DEF HonestInv, SetInv, StageInv, Exists, Redeemable,
       CodeRowInv, ReadInv, Name
<1>6. NameInv' /\ FlagsAreHonest'
  BY <1>1, <1>4, Shapes, ShapesNext, SMTT(20) DEF HonestInv, FlagsAreHonest, Exists, Redeemable,
       NameInv, Name
<1>7. WorkInv' /\ UnsyncedInv' /\ PutBackInv' /\ ApartInv'
  BY <1>1, <1>4, Shapes, ShapesNext DEF HonestInv, SetInv, StageInv, WorkInv, UnsyncedInv,
       PutBackInv, ApartInv, Exists, Redeemable, Worked, Name, Own, Readds, Preflight, Pending
<1>8. FoundInv' /\ ReaddInv'
  BY <1>1, <1>4, Shapes, ShapesNext DEF HonestInv, Redeemable, FoundInv, ReaddInv, Name, Own,
       Readds, Preflight, Pending
<1>9. CrossInv' /\ LostInv'
  BY <1>1, ShapesNext DEF HonestInv, LostInv, Redeemable, Confirmed, CrossInv, LostRows,
       LostFound, LostQueued, Name, Own, Readds
<1>10. QED
  BY <1>4, <1>5, <1>6, <1>7, <1>8, <1>9 DEF IInv, HonestInv, SetInv

LEMMA LookUpKeeps == ASSUME IInv, LookUp PROVE IInv'
<1> Typed /\ HonestInv /\ LostInv
  BY DEF IInv
<1>1. /\ pub.at = "lookup"
      /\ pub'.at = IF {c \in pub.todo : Own(c) \in taken} = {} THEN "adopt" ELSE "rename"
      /\ pub'.next = pub.next /\ pub'.rows = pub.rows /\ pub'.todo = pub.todo
      /\ pub'.batch = pub.batch
      /\ pub'.ours = pub.ours \cup {c \in pub.todo : Own(c) \in onNode}
      /\ pub'.theirs = {c \in pub.todo : Own(c) \in taken}
      /\ UNCHANGED <<codeRow, window, onNode, nodeOpen, taken, lateAdds, repair, lost, exempt,
                     countVars>>
  BY SMTT(20) DEF LookUp, Typed, Publishes, nodeVars, PubOnly, NoWrite
<1>2. pub' \in Publishes
  BY <1>1, Shapes DEF LookUp, Typed, Publishes, Steps, NoPublish
<1>3. \A c \in Codes : /\ codeRow'[c].name <= meddles /\ pub'.rows[c].name <= meddles
                      /\ ~(codeRow'[c].synced /\ codeRow'[c].inFlight)
  BY <1>1, <1>2, Shapes, NamesAreNumbers, NoPublishTyped, NoCodeFields DEF Typed, CodesTypeOK,
       Exists
<1>4. Typed'
  BY <1>1, <1>2, <1>3, Shapes DEF Typed, CodesTypeOK, countVars
<1>5. CodeRowInv' /\ ReadInv' /\ StageInv'
  BY <1>1, <1>4, Shapes, ShapesNext DEF HonestInv, SetInv, StageInv, Exists, CodeRowInv, ReadInv
<1>6. NameInv' /\ FlagsAreHonest'
  BY <1>1, <1>4, Shapes, ShapesNext DEF HonestInv, FlagsAreHonest, Exists, NameInv, Name, Own
<1>7. WorkInv' /\ UnsyncedInv' /\ PutBackInv' /\ ApartInv'
  BY <1>1, <1>4, Shapes, ShapesNext DEF HonestInv, SetInv, WorkInv, UnsyncedInv, PutBackInv,
       ApartInv, Exists, Worked
<1>8. FoundInv' /\ ReaddInv'
  BY <1>1, <1>4, Shapes, ShapesNext DEF HonestInv, Redeemable, FoundInv, ReaddInv, Name, Own
<1>9. CrossInv' /\ LostInv'
  BY <1>1, <1>4, Shapes, ShapesNext DEF HonestInv, LostInv, Confirmed, CrossInv, LostRows,
       LostFound, LostQueued, Name, Own
<1>10. QED
  BY <1>4, <1>5, <1>6, <1>7, <1>8, <1>9 DEF IInv, HonestInv, SetInv

LEMMA LookAgainKeeps == ASSUME IInv, LookAgain PROVE IInv'
<1> Typed /\ HonestInv /\ LostInv
  BY DEF IInv
<1>1. /\ pub.at = "recheck"
      /\ pub'.at = IF {c \in pub.batch : Free(Own(c))} = {} THEN "mark" ELSE "resend"
      /\ pub'.next = pub.next /\ pub'.rows = pub.rows /\ pub'.todo = pub.todo
      /\ pub'.batch = {c \in pub.batch : Free(Own(c))} /\ pub'.ours = pub.ours
      /\ pub'.theirs = {c \in pub.batch : Own(c) \in taken}
      /\ UNCHANGED <<codeRow, window, onNode, nodeOpen, taken, lateAdds, repair, lost, exempt,
                     countVars>>
  BY SMTT(20) DEF LookAgain, Typed, Publishes, nodeVars, PubOnly, NoWrite
<1>2. pub' \in Publishes
  BY <1>1, Shapes DEF LookAgain, Typed, Publishes, Steps, NoPublish
<1>3. \A c \in Codes : /\ codeRow'[c].name <= meddles /\ pub'.rows[c].name <= meddles
                      /\ ~(codeRow'[c].synced /\ codeRow'[c].inFlight)
  BY <1>1, <1>2, Shapes, NamesAreNumbers, NoPublishTyped, NoCodeFields DEF Typed, CodesTypeOK,
       Exists
<1>4. Typed'
  BY <1>1, <1>2, <1>3, Shapes DEF Typed, CodesTypeOK, countVars
<1>5. CodeRowInv' /\ ReadInv' /\ StageInv'
  BY <1>1, <1>4, Shapes, ShapesNext DEF HonestInv, SetInv, StageInv, Exists, CodeRowInv, ReadInv,
       Name
<1>6. NameInv' /\ FlagsAreHonest'
  BY <1>1, <1>4, Shapes, ShapesNext DEF HonestInv, FlagsAreHonest, Exists, NameInv
<1>7. WorkInv' /\ UnsyncedInv' /\ PutBackInv' /\ ApartInv'
  BY <1>1, <1>4, Shapes, ShapesNext DEF HonestInv, SetInv, WorkInv, UnsyncedInv, PutBackInv,
       ApartInv, Exists, Worked, Name
<1>8. FoundInv' /\ ReaddInv'
  BY <1>1, <1>4, Shapes, ShapesNext DEF HonestInv, Redeemable, FoundInv, ReaddInv, Name, Own,
       Free
<1>9. CrossInv' /\ LostInv'
  BY <1>1, <1>4, Shapes, ShapesNext DEF HonestInv, SetInv, LostInv, StageInv, Confirmed,
       CrossInv, LostRows, LostFound, LostQueued, Name, Own, Free
<1>10. QED
  BY <1>4, <1>5, <1>6, <1>7, <1>8, <1>9 DEF IInv, HonestInv, SetInv

LEMMA SettleReaddsKeeps == ASSUME IInv, SettleReadds PROVE IInv'
<1> Typed /\ HonestInv /\ LostInv
  BY DEF IInv
<1>1. /\ pub.at = "settle" /\ pub'.at = "disable" /\ pub'.next = pub.next
      /\ pub'.rows = Patched(pub.ours, Synced) /\ pub'.todo = pub.todo /\ pub'.batch = pub.batch
      /\ pub'.ours = {} /\ pub'.theirs = pub.theirs /\ Update(pub.ours, Synced)
      /\ UNCHANGED <<window, onNode, nodeOpen, taken, lateAdds, repair, lost, exempt, countVars>>
  BY DEF SettleReadds, Typed, Publishes, nodeVars, PubOnly, NoWrite
<1>2. /\ codeRow' \in [Codes -> Rows]
      /\ \A c \in Codes : c \in pub.ours /\ Exists(codeRow[c]) =>
               /\ codeRow'[c].status = codeRow[c].status
               /\ codeRow'[c].name = codeRow[c].name /\ codeRow'[c].synced
               /\ ~codeRow'[c].inFlight /\ ~codeRow'[c].readd
      /\ \A c \in Codes : ~(c \in pub.ours /\ Exists(codeRow[c])) => codeRow'[c] = codeRow[c]
  BY <1>1, SyncedFields DEF Update, Typed, CodesTypeOK
<1>3. /\ pub'.rows \in [Codes -> Rows]
      /\ \A c \in Codes : c \in pub.ours =>
               /\ pub'.rows[c].status = pub.rows[c].status
               /\ pub'.rows[c].name = pub.rows[c].name /\ pub'.rows[c].synced
               /\ ~pub'.rows[c].inFlight /\ ~pub'.rows[c].readd
      /\ \A c \in Codes : c \notin pub.ours => pub'.rows[c] = pub.rows[c]
  BY <1>1, SyncedFields DEF Patched, Typed, Publishes
<1>4. pub' \in Publishes
  BY <1>1, <1>2, <1>3, Shapes DEF SettleReadds, Typed, Publishes, Steps, NoPublish
<1>5. \A c \in Codes : /\ codeRow'[c].name <= meddles /\ pub'.rows[c].name <= meddles
                      /\ ~(codeRow'[c].synced /\ codeRow'[c].inFlight)
  BY <1>1, <1>2, <1>3, <1>4, Shapes DEF Typed, CodesTypeOK, Exists
<1>6. Typed'
  BY <1>1, <1>2, <1>3, <1>4, <1>5, Shapes DEF Typed, CodesTypeOK, countVars
<1>7. CodeRowInv' /\ ReadInv' /\ StageInv'
  BY <1>1, <1>2, <1>3, <1>6, Shapes, ShapesNext DEF HonestInv, SetInv, StageInv, WorkInv,
       UnsyncedInv, Exists, Worked, CodeRowInv, ReadInv
<1>8. NameInv' /\ FlagsAreHonest'
  BY <1>1, <1>2, <1>3, <1>6, Shapes, ShapesNext DEF HonestInv, FlagsAreHonest, Exists, NameInv
<1>9. WorkInv' /\ UnsyncedInv' /\ PutBackInv' /\ ApartInv'
  BY <1>1, <1>2, <1>3, <1>6, Shapes, ShapesNext DEF HonestInv, SetInv, StageInv, WorkInv,
       UnsyncedInv, PutBackInv, ApartInv, Exists, Worked
<1>10. FoundInv' /\ ReaddInv'
  BY <1>1, <1>2, <1>3, <1>6, Shapes, ShapesNext DEF HonestInv, Exists, Redeemable, FoundInv,
       ReaddInv, Name, Own
<1>11. CrossInv' /\ LostInv'
  BY <1>1, <1>2 DEF HonestInv, SetInv, LostInv, StageInv, Exists, Confirmed, CodeRowInv, ReadInv,
       CrossInv, LostRows, LostFound, LostQueued, Name, Own
<1>12. QED
  BY <1>6, <1>7, <1>8, <1>9, <1>10, <1>11 DEF IInv, HonestInv, SetInv

LEMMA DisableTakenKeeps == ASSUME IInv, DisableTaken PROVE IInv'
<1> Typed /\ HonestInv /\ LostInv
  BY DEF IInv
<1>1. /\ pub.at = "disable" /\ pub'.at = "lookup" /\ pub'.next = pub.next
      /\ pub'.rows = Patched(pub.theirs, Unrestorable) /\ pub'.todo = pub.todo
      /\ pub'.batch = pub.batch /\ pub'.ours = pub.ours /\ pub'.theirs = pub.theirs
      /\ Update(pub.theirs, Unrestorable)
      /\ UNCHANGED <<window, onNode, nodeOpen, taken, lateAdds, repair, lost, exempt, countVars>>
  BY DEF DisableTaken, Typed, Publishes, nodeVars, PubOnly, NoWrite
<1>2. /\ codeRow' \in [Codes -> Rows]
      /\ \A c \in Codes : c \in pub.theirs /\ Exists(codeRow[c]) =>
               /\ codeRow'[c].status = "disabled" /\ codeRow'[c].name = codeRow[c].name
               /\ ~codeRow'[c].synced /\ ~codeRow'[c].inFlight /\ ~codeRow'[c].readd
      /\ \A c \in Codes : ~(c \in pub.theirs /\ Exists(codeRow[c])) => codeRow'[c] = codeRow[c]
  BY <1>1, UnrestorableFields DEF Update, Typed, CodesTypeOK
<1>3. /\ pub'.rows \in [Codes -> Rows]
      /\ \A c \in Codes : c \in pub.theirs =>
               /\ pub'.rows[c].status = "disabled" /\ pub'.rows[c].name = pub.rows[c].name
               /\ ~pub'.rows[c].synced /\ ~pub'.rows[c].inFlight /\ ~pub'.rows[c].readd
      /\ \A c \in Codes : c \notin pub.theirs => pub'.rows[c] = pub.rows[c]
  BY <1>1, UnrestorableFields DEF Patched, Typed, Publishes
<1>4. pub' \in Publishes
  BY <1>1, <1>2, <1>3, Shapes DEF DisableTaken, Typed, Publishes, Steps, NoPublish
<1>5. \A c \in Codes : /\ codeRow'[c].name <= meddles /\ pub'.rows[c].name <= meddles
                      /\ ~(codeRow'[c].synced /\ codeRow'[c].inFlight)
  BY <1>1, <1>2, <1>3, <1>4, Shapes DEF Typed, CodesTypeOK, Exists
<1>6. Typed'
  BY <1>1, <1>2, <1>3, <1>4, <1>5, Shapes DEF Typed, CodesTypeOK, countVars
<1>7. CodeRowInv' /\ ReadInv' /\ StageInv'
  BY <1>1, <1>2, <1>3, <1>6, Shapes, ShapesNext DEF HonestInv, SetInv, StageInv, WorkInv,
       UnsyncedInv, Exists, Worked, CodeRowInv, ReadInv
<1>8. NameInv' /\ FlagsAreHonest'
  BY <1>1, <1>2, <1>3, <1>6, Shapes, ShapesNext DEF HonestInv, SetInv, PutBackInv, ApartInv,
       FlagsAreHonest, Exists, ReadInv, NameInv, FoundInv, ReaddInv, Name, Own
<1>9. WorkInv' /\ UnsyncedInv' /\ PutBackInv' /\ ApartInv'
  BY <1>1, <1>2, <1>3, <1>6, Shapes, ShapesNext DEF HonestInv, SetInv, StageInv, WorkInv,
       UnsyncedInv, PutBackInv, ApartInv, Exists, Worked
<1>10. FoundInv' /\ ReaddInv'
  BY <1>1, <1>2, <1>3, <1>6, Shapes, ShapesNext DEF HonestInv, Exists, Redeemable, FoundInv,
       ReaddInv, Name, Own
<1>11. CrossInv' /\ LostInv'
  BY <1>1, <1>2 DEF HonestInv, SetInv, LostInv, StageInv, ApartInv, Exists, Redeemable,
       Confirmed, CrossInv, LostRows, LostFound, LostQueued
<1>12. QED
  BY <1>6, <1>7, <1>8, <1>9, <1>10, <1>11 DEF IInv, HonestInv, SetInv

LEMMA RenameTakenKeeps == ASSUME IInv, RenameTaken PROVE IInv'
<1> Typed /\ HonestInv /\ LostInv
  BY DEF IInv
<1>1. /\ pub.at = "rename" /\ pub'.at = "lookup" /\ pub'.next = pub.next
      /\ pub'.rows = Patched(pub.theirs, Renamed) /\ pub'.todo = pub.theirs
      /\ pub'.batch = pub.batch /\ pub'.ours = pub.ours /\ pub'.theirs = pub.theirs
      /\ Update(pub.theirs, Renamed)
      /\ UNCHANGED <<window, onNode, nodeOpen, taken, lateAdds, repair, lost, exempt, countVars>>
  BY DEF RenameTaken, Typed, Publishes, nodeVars, PubOnly, NoWrite
<1>2. \A c \in pub.theirs :
        /\ pub.rows[c].name < meddles /\ meddles <= MaxMeddles
        /\ Exists(codeRow[c]) => codeRow[c].name = pub.rows[c].name
  BY <1>1, RenameRoom
<1>3. \A c \in pub.theirs : pub.rows[c].name < MaxMeddles
  BY <1>2, Shapes, NamesAreNumbers, CodesAssumption
<1>4. /\ codeRow' \in [Codes -> Rows]
      /\ \A c \in Codes : c \in pub.theirs /\ Exists(codeRow[c]) =>
               /\ codeRow'[c].status = codeRow[c].status
               /\ codeRow'[c].name = codeRow[c].name + 1 /\ ~codeRow'[c].synced
               /\ ~codeRow'[c].inFlight /\ codeRow'[c].readd = codeRow[c].readd
      /\ \A c \in Codes : ~(c \in pub.theirs /\ Exists(codeRow[c])) => codeRow'[c] = codeRow[c]
  BY <1>1, <1>2, <1>3, RenamedFields, Shapes DEF Update
<1>5. /\ pub'.rows \in [Codes -> Rows]
      /\ \A c \in Codes : c \in pub.theirs =>
               /\ pub'.rows[c].status = pub.rows[c].status
               /\ pub'.rows[c].name = pub.rows[c].name + 1 /\ ~pub'.rows[c].synced
               /\ ~pub'.rows[c].inFlight /\ pub'.rows[c].readd = pub.rows[c].readd
      /\ \A c \in Codes : c \notin pub.theirs => pub'.rows[c] = pub.rows[c]
  BY <1>1, <1>3, RenamedFields, Shapes DEF Patched
<1>6. pub' \in Publishes
  BY <1>1, <1>4, <1>5, Shapes DEF RenameTaken, Typed, Publishes, Steps, NoPublish
<1>7. \A c \in Codes : /\ codeRow'[c].name <= meddles /\ pub'.rows[c].name <= meddles
                      /\ ~(codeRow'[c].synced /\ codeRow'[c].inFlight)
  BY <1>1, <1>2, <1>4, <1>5, <1>6, Shapes, NamesAreNumbers, NoPublishTyped, NoCodeFields DEF
       Typed, CodesTypeOK, Exists
<1>8. Typed'
  BY <1>1, <1>2, <1>4, <1>5, <1>6, <1>7, Shapes DEF Typed, CodesTypeOK, countVars
<1>9. CodeRowInv' /\ ReadInv' /\ StageInv'
  BY <1>1, <1>4, <1>5, <1>8, Shapes, ShapesNext DEF HonestInv, SetInv, StageInv, WorkInv,
       UnsyncedInv, Exists, Worked, CodeRowInv, ReadInv
<1>10. NameInv' /\ FlagsAreHonest'
  BY <1>1, <1>4, <1>5, <1>8, Shapes, ShapesNext DEF HonestInv, FlagsAreHonest, Exists, CodeRowInv,
       ReadInv, NameInv, FoundInv, Name, Own
<1>11. WorkInv' /\ UnsyncedInv' /\ PutBackInv' /\ ApartInv'
  BY <1>1, <1>4, <1>5, <1>8, Shapes, ShapesNext DEF HonestInv, SetInv, WorkInv, UnsyncedInv,
       PutBackInv, ApartInv, Exists, Worked
<1>12. FoundInv' /\ ReaddInv'
  BY <1>1, <1>4, <1>5, <1>8, Shapes, ShapesNext DEF HonestInv, SetInv, Redeemable, CodeRowInv,
       ReadInv, NameInv, FoundInv, ReaddInv, Name, Own
<1>13. CrossInv' /\ LostInv'
  BY <1>1, <1>4, <1>5, <1>8, Shapes, ShapesNext DEF HonestInv, SetInv, LostInv, StageInv,
       Exists, Confirmed, NameInv, FoundInv, CrossInv, LostRows, LostFound, LostQueued, Name, Own
<1>14. QED
  BY <1>8, <1>9, <1>10, <1>11, <1>12, <1>13 DEF IInv, HonestInv, SetInv

LEMMA FlagInFlightKeeps == ASSUME IInv, FlagInFlight PROVE IInv'
<1> Typed /\ HonestInv /\ LostInv
  BY DEF IInv
<1>1. /\ pub.at = "flag" /\ pub'.at = "add" /\ pub'.next = pub.next
      /\ pub'.rows = Patched(pub.todo, InFlight) /\ pub'.todo = pub.todo
      /\ pub'.batch = pub.todo /\ pub'.ours = pub.ours /\ pub'.theirs = pub.theirs
      /\ Update(pub.todo, InFlight)
      /\ UNCHANGED <<window, onNode, nodeOpen, taken, lateAdds, repair, lost, exempt, countVars>>
  BY DEF FlagInFlight, Typed, Publishes, nodeVars, PubOnly, NoWrite
<1>2. /\ codeRow' \in [Codes -> Rows]
      /\ \A c \in Codes : c \in pub.todo /\ Exists(codeRow[c]) =>
               /\ codeRow'[c].status = codeRow[c].status
               /\ codeRow'[c].name = codeRow[c].name
               /\ codeRow'[c].synced = codeRow[c].synced /\ codeRow'[c].inFlight
               /\ codeRow'[c].readd = codeRow[c].readd
      /\ \A c \in Codes : ~(c \in pub.todo /\ Exists(codeRow[c])) => codeRow'[c] = codeRow[c]
  BY <1>1, InFlightFields DEF Update, Typed, CodesTypeOK
<1>3. /\ pub'.rows \in [Codes -> Rows]
      /\ \A c \in Codes : c \in pub.todo =>
               /\ pub'.rows[c].status = pub.rows[c].status
               /\ pub'.rows[c].name = pub.rows[c].name
               /\ pub'.rows[c].synced = pub.rows[c].synced /\ pub'.rows[c].inFlight
               /\ pub'.rows[c].readd = pub.rows[c].readd
      /\ \A c \in Codes : c \notin pub.todo => pub'.rows[c] = pub.rows[c]
  BY <1>1, InFlightFields DEF Patched, Typed, Publishes
<1>4. pub' \in Publishes
  BY <1>1, <1>2, <1>3, Shapes DEF FlagInFlight, Typed, Publishes, Steps, NoPublish
<1>5. \A c \in Codes : /\ codeRow'[c].name <= meddles /\ pub'.rows[c].name <= meddles
                      /\ ~(codeRow'[c].synced /\ codeRow'[c].inFlight)
  BY <1>1, <1>2, <1>3, <1>4, Shapes, NamesAreNumbers, NoPublishTyped, NoCodeFields DEF
       HonestInv, SetInv, UnsyncedInv, ReadInv, Worked, Typed
<1>6. Typed'
  BY <1>1, <1>2, <1>3, <1>4, <1>5, Shapes DEF Typed, CodesTypeOK, countVars
<1>7. CodeRowInv' /\ ReadInv' /\ StageInv'
  BY <1>1, <1>2, <1>3, <1>6, Shapes, ShapesNext DEF HonestInv, SetInv, StageInv, WorkInv,
       UnsyncedInv, Exists, Worked, CodeRowInv, ReadInv
<1>8. NameInv' /\ FlagsAreHonest'
  BY <1>1, <1>2, <1>3, <1>6, Shapes, ShapesNext DEF HonestInv, FlagsAreHonest, Exists, NameInv
<1>9. WorkInv' /\ UnsyncedInv' /\ PutBackInv' /\ ApartInv'
  BY <1>1, <1>2, <1>3, <1>6, Shapes, ShapesNext DEF HonestInv, SetInv, WorkInv, UnsyncedInv,
       PutBackInv, ApartInv, Exists, Worked
<1>10. FoundInv' /\ ReaddInv'
  BY <1>1, <1>2, <1>3, <1>6, Shapes, ShapesNext DEF HonestInv, SetInv, StageInv, WorkInv,
       Redeemable, Worked, CodeRowInv, ReadInv, FoundInv, ReaddInv, Name, Own
<1>11. CrossInv' /\ LostInv'
  BY <1>1, <1>2, <1>3, <1>6, Shapes, ShapesNext DEF HonestInv, LostInv, Exists, Confirmed,
       CrossInv, LostRows, LostFound, LostQueued, Name, Own
<1>12. QED
  BY <1>6, <1>7, <1>8, <1>9, <1>10, <1>11 DEF IInv, HonestInv, SetInv

LEMMA ClearRetiredKeeps == ASSUME IInv, ClearRetired PROVE IInv'
<1> Typed /\ HonestInv /\ LostInv
  BY DEF IInv
<1>1. /\ pub.at = "clear" /\ pub'.at = "expire" /\ pub'.next = pub.next /\ pub'.rows = pub.rows
      /\ pub'.todo = pub.todo /\ pub'.batch = pub.batch /\ pub'.ours = pub.ours
      /\ pub'.theirs = pub.theirs /\ Update(pub.todo \ pub.ours, Unflagged)
      /\ UNCHANGED <<window, onNode, nodeOpen, taken, lateAdds, repair, lost, exempt, countVars>>
  BY DEF ClearRetired, Typed, Publishes, nodeVars, PubOnly, NoWrite, To
<1>2. /\ codeRow' \in [Codes -> Rows]
      /\ \A c \in Codes : c \in (pub.todo \ pub.ours) /\ Exists(codeRow[c]) =>
               /\ codeRow'[c].status = codeRow[c].status
               /\ codeRow'[c].name = codeRow[c].name /\ ~codeRow'[c].synced
               /\ ~codeRow'[c].inFlight /\ codeRow'[c].readd = codeRow[c].readd
      /\ \A c \in Codes : ~(c \in (pub.todo \ pub.ours) /\ Exists(codeRow[c]))
           => codeRow'[c] = codeRow[c]
  BY <1>1, UnflaggedFields DEF Update, Typed, CodesTypeOK
<1>3. pub' \in Publishes
  BY <1>1, <1>2, Shapes DEF ClearRetired, Typed, Publishes, Steps, NoPublish, To
<1>4. \A c \in Codes : /\ codeRow'[c].name <= meddles /\ pub'.rows[c].name <= meddles
                      /\ ~(codeRow'[c].synced /\ codeRow'[c].inFlight)
  BY <1>1, <1>2, <1>3, Shapes, NamesAreNumbers, NoPublishTyped, NoCodeFields DEF Typed,
       CodesTypeOK, Exists
<1>5. Typed'
  BY <1>1, <1>2, <1>3, <1>4, Shapes DEF Typed, CodesTypeOK, countVars
<1>6. CodeRowInv' /\ ReadInv' /\ StageInv'
  BY <1>1, <1>2, <1>5, Shapes, ShapesNext DEF HonestInv, SetInv, StageInv, Exists, CodeRowInv,
       ReadInv
<1>7. NameInv' /\ FlagsAreHonest'
  BY <1>1, <1>2, <1>5, Shapes, ShapesNext DEF HonestInv, SetInv, StageInv, FlagsAreHonest,
       Exists, CodeRowInv, ReadInv, NameInv, FoundInv, Name, Own
<1>8. WorkInv' /\ UnsyncedInv' /\ PutBackInv' /\ ApartInv'
  BY <1>1, <1>2, <1>5, Shapes, ShapesNext DEF HonestInv, SetInv, WorkInv, UnsyncedInv,
       PutBackInv, ApartInv, Exists, Worked
<1>9. FoundInv' /\ ReaddInv'
  BY <1>1, <1>2, <1>5, Shapes, ShapesNext DEF HonestInv, Exists, Redeemable, FoundInv,
       ReaddInv
<1>10. CrossInv' /\ LostInv'
  BY <1>1, <1>2, <1>5, Shapes, ShapesNext DEF HonestInv, LostInv, Exists, Confirmed, CrossInv,
       LostRows, LostFound, LostQueued
<1>11. QED
  BY <1>5, <1>6, <1>7, <1>8, <1>9, <1>10 DEF IInv, HonestInv, SetInv

LEMMA ExpireNodeKeeps == ASSUME IInv, ExpireNode PROVE IInv'
<1> Typed /\ HonestInv /\ LostInv
  BY DEF IInv
<1>1. /\ pub.at = "expire" /\ pub'.at = "look" /\ pub'.next = pub.next /\ pub'.rows = pub.rows
      /\ pub'.todo = pub.todo /\ pub'.batch = pub.batch /\ pub'.ours = pub.ours
      /\ pub'.theirs = pub.theirs
      /\ nodeOpen' \in BOOLEAN
      /\ UNCHANGED <<codeRow, window, onNode, taken, lateAdds, repair, lost, exempt, countVars>>
  BY DEF ExpireNode, Typed, CodesTypeOK, Publishes, nodeVars, PubOnly, NoWrite, To
<1>2. pub' \in Publishes
  BY <1>1, Shapes DEF ExpireNode, Typed, Publishes, Steps, NoPublish, To
<1>3. \A c \in Codes : /\ codeRow'[c].name <= meddles /\ pub'.rows[c].name <= meddles
                      /\ ~(codeRow'[c].synced /\ codeRow'[c].inFlight)
  BY <1>1, <1>2, Shapes, NamesAreNumbers, NoPublishTyped, NoCodeFields DEF Typed, CodesTypeOK,
       Exists
<1>4. Typed'
  BY <1>1, <1>2, <1>3, Shapes DEF Typed, CodesTypeOK, countVars
<1>5. CodeRowInv' /\ ReadInv' /\ StageInv'
  BY <1>1, <1>4, Shapes, ShapesNext DEF HonestInv, SetInv, StageInv, Exists, CodeRowInv, ReadInv
<1>6. NameInv' /\ FlagsAreHonest'
  BY <1>1, <1>4, Shapes, ShapesNext DEF HonestInv, FlagsAreHonest, Exists, NameInv
<1>7. WorkInv' /\ UnsyncedInv' /\ PutBackInv' /\ ApartInv'
  BY <1>1, <1>4, Shapes, ShapesNext DEF HonestInv, SetInv, WorkInv, UnsyncedInv, PutBackInv,
       ApartInv, Exists, Worked
<1>8. FoundInv' /\ ReaddInv'
  BY <1>1, <1>4, Shapes, ShapesNext DEF HonestInv, Redeemable, FoundInv, ReaddInv, Name, Own
<1>9. CrossInv' /\ LostInv'
  BY <1>1, <1>4, Shapes, ShapesNext DEF HonestInv, LostInv, Confirmed, CrossInv, LostRows,
       LostFound, LostQueued
<1>10. QED
  BY <1>4, <1>5, <1>6, <1>7, <1>8, <1>9 DEF IInv, HonestInv, SetInv

LEMMA PushConfigKeeps == ASSUME IInv, PushConfig PROVE IInv'
<1> Typed /\ HonestInv /\ LostInv
  BY DEF IInv
<1>1. /\ pub.at = "config"
      /\ \/ pub' = NoPublish
         \/ /\ pub'.at = "flag"
            /\ pub'.next = "flag"
            /\ pub'.rows = pub.rows
            /\ pub'.todo = pub.todo
            /\ pub'.batch = pub.batch
            /\ pub'.ours = pub.ours
            /\ pub'.theirs = pub.theirs
      /\ nodeOpen' \in BOOLEAN
      /\ UNCHANGED <<codeRow, window, onNode, taken, lateAdds, repair, lost, exempt, countVars>>
  BY DEF PushConfig, Typed, Publishes, nodeVars, PubOnly, NoWrite, To
<1>2. pub' \in Publishes
  BY <1>1, Shapes, NoPublishTyped DEF PushConfig, Typed, Publishes, Steps, NoPublish, To
<1>3. \A c \in Codes : /\ codeRow'[c].name <= meddles /\ pub'.rows[c].name <= meddles
                      /\ ~(codeRow'[c].synced /\ codeRow'[c].inFlight)
  BY <1>1, <1>2, Shapes, NamesAreNumbers, NoPublishTyped, NoCodeFields DEF Typed, CodesTypeOK,
       Exists
<1>4. Typed'
  BY <1>1, <1>2, <1>3, Shapes DEF Typed, CodesTypeOK, countVars
<1>5. CodeRowInv' /\ ReadInv' /\ StageInv'
  BY <1>1, <1>4, Shapes, ShapesNext DEF HonestInv, SetInv, StageInv, Exists, CodeRowInv, ReadInv,
       NoPublish
<1>6. NameInv' /\ FlagsAreHonest'
  BY <1>1, <1>4, Shapes, ShapesNext DEF HonestInv, FlagsAreHonest, Exists, NameInv, NoPublish
<1>7. WorkInv' /\ UnsyncedInv' /\ PutBackInv' /\ ApartInv'
  BY <1>1, <1>4, Shapes, ShapesNext DEF HonestInv, SetInv, WorkInv, UnsyncedInv, PutBackInv,
       ApartInv, Exists, Worked, NoPublish
<1>8. FoundInv' /\ ReaddInv'
  BY <1>1, <1>4, Shapes, ShapesNext DEF HonestInv, Redeemable, FoundInv, ReaddInv, Name, Own,
       NoPublish
<1>9. CrossInv' /\ LostInv'
  BY <1>1, <1>4, Shapes, ShapesNext DEF HonestInv, LostInv, Confirmed, CrossInv, LostRows,
       LostFound, LostQueued, Name, Own, NoPublish
<1>10. QED
  BY <1>4, <1>5, <1>6, <1>7, <1>8, <1>9 DEF IInv, HonestInv, SetInv

LEMMA AdoptOursKeeps == ASSUME IInv, AdoptOurs PROVE IInv'
<1> Typed /\ HonestInv /\ LostInv
  BY DEF IInv
<1>1. /\ pub.at = "adopt"
      /\ \/ pub' = NoPublish
         \/ /\ pub'.at = pub.next
            /\ pub'.next = pub.next
            /\ pub'.rows = Patched(pub.ours, Synced)
            /\ pub'.batch = {}
            /\ pub'.ours = {}
            /\ pub'.theirs = {}
            /\ pub.next = "config" =>
                 pub'.todo = {c \in {d \in Codes : Redeemable(pub'.rows[d], d)} :
                                ~pub'.rows[c].synced}
            /\ pub.next # "config" => pub'.todo = pub.batch \ pub.ours
      /\ Update(pub.ours, Synced)
      /\ UNCHANGED <<window, onNode, nodeOpen, taken, lateAdds, repair, lost, exempt, countVars>>
  BY DEF AdoptOurs, Typed, Publishes, nodeVars, PubOnly, NoWrite
<1>2. /\ codeRow' \in [Codes -> Rows]
      /\ \A c \in Codes : c \in pub.ours /\ Exists(codeRow[c]) =>
               /\ codeRow'[c].status = codeRow[c].status
               /\ codeRow'[c].name = codeRow[c].name /\ codeRow'[c].synced
               /\ ~codeRow'[c].inFlight /\ ~codeRow'[c].readd
      /\ \A c \in Codes : ~(c \in pub.ours /\ Exists(codeRow[c])) => codeRow'[c] = codeRow[c]
  BY <1>1, SyncedFields DEF Update, Typed, CodesTypeOK
<1>3. ASSUME pub' # NoPublish
      PROVE  /\ pub'.rows \in [Codes -> Rows]
             /\ \A c \in Codes : c \in pub.ours =>
                      /\ pub'.rows[c].status = pub.rows[c].status
                      /\ pub'.rows[c].name = pub.rows[c].name /\ pub'.rows[c].synced
                      /\ ~pub'.rows[c].inFlight /\ ~pub'.rows[c].readd
             /\ \A c \in Codes : c \notin pub.ours => pub'.rows[c] = pub.rows[c]
  BY <1>1, <1>3, SyncedFields DEF Patched, Typed, Publishes
<1>4. pub' \in Publishes
  <2>1. Patched(pub.ours, Synced) \in [Codes -> Rows]
    BY SyncedFields, Shapes DEF Patched
  <2>2. pub' = NoPublish
        \/ \E todo \in SUBSET Codes :
             pub' = [pub EXCEPT !.at = pub.next, !.rows = Patched(pub.ours, Synced),
                                !.todo = todo, !.batch = {}, !.ours = {}, !.theirs = {}]
    BY Shapes DEF AdoptOurs
  <2>3. QED BY <2>1, <2>2, Shapes, NoPublishTyped DEF Typed, Publishes, Steps
<1>5. \A c \in Codes : /\ codeRow'[c].name <= meddles /\ pub'.rows[c].name <= meddles
                      /\ ~(codeRow'[c].synced /\ codeRow'[c].inFlight)
  BY <1>1, <1>2, <1>3, <1>4, Shapes, NamesAreNumbers, NoPublishTyped, NoCodeFields DEF Typed,
       CodesTypeOK, Exists
<1>6. Typed'
  BY <1>1, <1>2, <1>3, <1>4, <1>5, Shapes DEF Typed, CodesTypeOK, countVars
<1>7. CodeRowInv' /\ ReadInv' /\ StageInv'
  BY <1>1, <1>2, <1>3, <1>6, Shapes, ShapesNext DEF HonestInv, SetInv, StageInv, WorkInv,
       UnsyncedInv, Exists, Redeemable, Worked, CodeRowInv, ReadInv, NoPublish
<1>8. NameInv' /\ FlagsAreHonest'
  BY <1>1, <1>2, <1>3, <1>6, Shapes, ShapesNext DEF HonestInv, FlagsAreHonest, Exists,
       Redeemable, NameInv, NoPublish
<1>9. WorkInv' /\ UnsyncedInv' /\ PutBackInv' /\ ApartInv'
  BY <1>1, <1>2, <1>3, <1>6, Shapes, ShapesNext DEF HonestInv, SetInv, WorkInv, UnsyncedInv,
       PutBackInv, ApartInv, Exists, Redeemable, Worked, NoPublish
<1>10. FoundInv' /\ ReaddInv'
  BY <1>1, <1>2, <1>3, <1>6, Shapes, ShapesNext DEF HonestInv, SetInv, StageInv, WorkInv,
       PutBackInv, ReadInv, FoundInv, ReaddInv, Name, Own, NoPublish
<1>11. CrossInv' /\ LostInv'
  BY <1>1, <1>2, Shapes, ShapesNext DEF HonestInv, SetInv, LostInv, StageInv, Confirmed,
       CodeRowInv, ReadInv, CrossInv, LostRows, LostFound, LostQueued, Name, Own, NoPublish
<1>12. QED
  BY <1>6, <1>7, <1>8, <1>9, <1>10, <1>11 DEF IInv, HonestInv, SetInv

LEMMA MarkAddedKeeps == ASSUME IInv, MarkAdded PROVE IInv'
<1> Typed /\ HonestInv /\ LostInv
  BY DEF IInv
<1>1. /\ pub.at = "mark"
      /\ \/ pub' = NoPublish
         \/ /\ pub'.at = "reject"
            /\ pub'.next = pub.next
            /\ pub'.rows = Patched(pub.todo \ pub.theirs, Synced)
            /\ pub'.todo = pub.todo
            /\ pub'.batch = pub.batch
            /\ pub'.ours = pub.ours
            /\ pub'.theirs = pub.theirs
      /\ Update(pub.todo \ pub.theirs, Synced)
      /\ UNCHANGED <<window, onNode, nodeOpen, taken, lateAdds, repair, lost, exempt, countVars>>
  BY DEF MarkAdded, Typed, Publishes, nodeVars, PubOnly, NoWrite
<1>2. /\ codeRow' \in [Codes -> Rows]
      /\ \A c \in Codes : c \in (pub.todo \ pub.theirs) /\ Exists(codeRow[c]) =>
               /\ codeRow'[c].status = codeRow[c].status
               /\ codeRow'[c].name = codeRow[c].name /\ codeRow'[c].synced
               /\ ~codeRow'[c].inFlight /\ ~codeRow'[c].readd
      /\ \A c \in Codes : ~(c \in (pub.todo \ pub.theirs) /\ Exists(codeRow[c]))
           => codeRow'[c] = codeRow[c]
  BY <1>1, SyncedFields DEF Update, Typed, CodesTypeOK
<1>3. ASSUME pub' # NoPublish
      PROVE  /\ pub'.rows \in [Codes -> Rows]
             /\ \A c \in Codes : c \in (pub.todo \ pub.theirs) =>
                      /\ pub'.rows[c].status = pub.rows[c].status
                      /\ pub'.rows[c].name = pub.rows[c].name /\ pub'.rows[c].synced
                      /\ ~pub'.rows[c].inFlight /\ ~pub'.rows[c].readd
             /\ \A c \in Codes : c \notin (pub.todo \ pub.theirs) => pub'.rows[c] = pub.rows[c]
  BY <1>1, <1>3, SyncedFields DEF Patched, Typed, Publishes
<1>4. pub' \in Publishes
  BY <1>1, <1>2, <1>3, Shapes, NoPublishTyped DEF MarkAdded, Typed, Publishes, Steps,
       NoPublish
<1>5. \A c \in Codes : /\ codeRow'[c].name <= meddles /\ pub'.rows[c].name <= meddles
                      /\ ~(codeRow'[c].synced /\ codeRow'[c].inFlight)
  BY <1>1, <1>2, <1>3, <1>4, Shapes, NamesAreNumbers, NoPublishTyped, NoCodeFields DEF Typed,
       CodesTypeOK, Exists
<1>6. Typed'
  BY <1>1, <1>2, <1>3, <1>4, <1>5, Shapes DEF Typed, CodesTypeOK, countVars
<1>7. CodeRowInv' /\ ReadInv' /\ StageInv'
  BY <1>1, <1>2, <1>3, <1>6, Shapes, ShapesNext DEF HonestInv, SetInv, StageInv, WorkInv,
       UnsyncedInv, Exists, Worked, CodeRowInv, ReadInv, NoPublish
<1>8. NameInv' /\ FlagsAreHonest'
  BY <1>1, <1>2, <1>3, <1>6, Shapes, ShapesNext DEF HonestInv, FlagsAreHonest, Exists,
       NameInv, NoPublish
<1>9. WorkInv' /\ UnsyncedInv' /\ PutBackInv' /\ ApartInv'
  BY <1>1, <1>2, <1>3, <1>6, Shapes, ShapesNext DEF HonestInv, SetInv, WorkInv, UnsyncedInv,
       PutBackInv, ApartInv, Exists, Worked, NoPublish
<1>10. FoundInv' /\ ReaddInv'
  BY <1>1, <1>2, <1>3, <1>6, Shapes, ShapesNext DEF HonestInv, Exists, Redeemable, FoundInv,
       ReaddInv, Name, Own, NoPublish
<1>11. CrossInv' /\ LostInv'
  BY <1>1, <1>2, <1>3, ShapesNext DEF HonestInv, SetInv, LostInv, Confirmed, CodeRowInv, ReadInv,
       CrossInv, LostRows, LostFound, LostQueued, Name, Own, NoPublish
<1>12. QED
  BY <1>6, <1>7, <1>8, <1>9, <1>10, <1>11 DEF IInv, HonestInv, SetInv

LEMMA SettleRejectedKeeps == ASSUME IInv, SettleRejected PROVE IInv'
<1> Typed /\ HonestInv /\ LostInv
  BY DEF IInv
<1>1. /\ pub.at = "reject"
      /\ \/ pub' = NoPublish
         \/ /\ pub'.at = "lookup"
            /\ pub'.next = pub.next
            /\ pub'.rows = Patched(Readds(pub.theirs), Unrestorable)
            /\ pub'.todo = pub.theirs \ Readds(pub.theirs)
            /\ pub'.batch = pub.theirs \ Readds(pub.theirs)
            /\ pub'.ours = {}
            /\ pub'.theirs = {}
      /\ Update(Readds(pub.theirs), Unrestorable)
      /\ UNCHANGED <<window, onNode, nodeOpen, taken, lateAdds, repair, lost, exempt, countVars>>
  BY DEF SettleRejected, Typed, Publishes, nodeVars, PubOnly, NoWrite
<1>2. /\ codeRow' \in [Codes -> Rows]
      /\ \A c \in Codes : c \in Readds(pub.theirs) /\ Exists(codeRow[c]) =>
               /\ codeRow'[c].status = "disabled" /\ codeRow'[c].name = codeRow[c].name
               /\ ~codeRow'[c].synced /\ ~codeRow'[c].inFlight /\ ~codeRow'[c].readd
      /\ \A c \in Codes : ~(c \in Readds(pub.theirs) /\ Exists(codeRow[c]))
           => codeRow'[c] = codeRow[c]
  BY <1>1, UnrestorableFields DEF Update, Typed, CodesTypeOK
<1>3. ASSUME pub' # NoPublish
      PROVE  /\ pub'.rows \in [Codes -> Rows]
             /\ \A c \in Codes : c \in Readds(pub.theirs) =>
                      /\ pub'.rows[c].status = "disabled"
                      /\ pub'.rows[c].name = pub.rows[c].name /\ ~pub'.rows[c].synced
                      /\ ~pub'.rows[c].inFlight /\ ~pub'.rows[c].readd
             /\ \A c \in Codes : c \notin Readds(pub.theirs) => pub'.rows[c] = pub.rows[c]
  BY <1>1, <1>3, UnrestorableFields DEF Patched, Typed, Publishes
<1>4. pub' \in Publishes
  BY <1>1, <1>2, <1>3, Shapes, NoPublishTyped, ZenonT(30) DEF SettleRejected, Typed, Publishes,
       Steps, NoPublish, Readds
<1>5. \A c \in Codes : /\ codeRow'[c].name <= meddles /\ pub'.rows[c].name <= meddles
                      /\ ~(codeRow'[c].synced /\ codeRow'[c].inFlight)
  BY <1>1, <1>2, <1>3, <1>4, Shapes, NamesAreNumbers, NoPublishTyped, NoCodeFields DEF Typed,
       CodesTypeOK, Exists
<1>6. Typed'
  BY <1>1, <1>2, <1>3, <1>4, <1>5, Shapes DEF Typed, CodesTypeOK, countVars
<1>7. CodeRowInv' /\ ReadInv' /\ StageInv'
  BY <1>1, <1>2, <1>3, <1>6, Shapes, ShapesNext DEF HonestInv, SetInv, StageInv, Exists,
       CodeRowInv, ReadInv, NoPublish, Readds
<1>8. NameInv' /\ FlagsAreHonest'
  <2>1. NameInv'
    BY <1>1, <1>2, <1>3, <1>6, Shapes, ShapesNext DEF HonestInv, Exists, ReadInv,
         NameInv, NoPublish, Readds
  <2>2. FlagsAreHonest'
    BY <1>1, <1>2, <1>6, Shapes, ShapesNext DEF HonestInv, SetInv, FlagsAreHonest, Exists, ReadInv,
         NameInv, ReaddInv, Name, Own, Readds
  <2>3. QED BY <2>1, <2>2
<1>9. WorkInv' /\ UnsyncedInv' /\ PutBackInv' /\ ApartInv'
  BY <1>1, <1>2, <1>3, <1>6, Shapes, ShapesNext DEF HonestInv, SetInv, WorkInv, UnsyncedInv,
       PutBackInv, ApartInv, Exists, Worked, NoPublish, Readds
<1>10. FoundInv' /\ ReaddInv'
  BY <1>1, ShapesNext DEF HonestInv, SetInv, StageInv, FoundInv, ReaddInv, NoPublish, Readds
<1>11. CrossInv' /\ LostInv'
  BY <1>1, <1>2 DEF HonestInv, LostInv, Exists, Confirmed, CrossInv, LostRows, LostFound,
       LostQueued, NoPublish, Readds
<1>12. QED
  BY <1>6, <1>7, <1>8, <1>9, <1>10, <1>11 DEF IInv, HonestInv, SetInv

LEMMA AddCodesKeeps == ASSUME IInv, AddCodes PROVE IInv'
<1> Typed /\ HonestInv /\ LostInv
  BY DEF IInv
<1> DEFINE good == {c \in pub.batch : Free(Own(c))}
<1>1. /\ pub.at \in {"add", "resend"} /\ pub'.at = "mark" /\ pub'.next = pub.next
      /\ pub'.rows = pub.rows /\ pub'.todo = pub.todo /\ pub'.batch = pub.batch
      /\ pub'.ours = pub.ours /\ pub'.theirs = pub.theirs \cup (pub.batch \ good)
      /\ UNCHANGED <<codeRow, window, nodeOpen, taken, lateAdds, exempt, countVars>>
  BY DEF AddCodes, Typed, Publishes
<1>2. Land(NamesOf(good))
  BY DEF AddCodes
<1>3. /\ NamesOf(good) \subseteq Names
      /\ \A n \in NamesOf(good) : n[1] \in good /\ n = Own(n[1]) /\ n[2] = pub.rows[n[1]].name
      /\ \A c \in good : Own(c) \in NamesOf(good)
  BY OwnNames, Shapes
<1>4. /\ onNode' = onNode \cup NamesOf(good) /\ onNode' \subseteq Names
      /\ lost' \subseteq lost
      /\ \A c \in lost \ lost' : \E n \in NamesOf(good) : n[1] = c
      /\ repair' \in Repairs
      /\ repair'.at = repair.at /\ repair'.missing = repair.missing
      /\ repair'.listed = repair.listed /\ repair.crossed \subseteq repair'.crossed
      /\ repair.at \in {"rows", "queue"} => \A n \in NamesOf(good) : n[1] \in repair'.crossed
  BY <1>2, <1>3, Landing
<1>5. /\ \A c \in pub.batch : Own(c) \in onNode \/ Own(c) \in taken \/ Own(c) \in onNode'
      /\ \A c \in pub.batch \ good : Own(c) \in onNode \/ Own(c) \in taken
  BY <1>3, <1>4 DEF Free
<1>6. \A n \in onNode' \ onNode : /\ n[1] \in pub.batch /\ n = Own(n[1])
                                  /\ n \notin taken /\ n[2] = pub.rows[n[1]].name
  BY <1>3, <1>4 DEF Free
<1>7. /\ \A c \in lost \ lost' : c \in pub.batch /\ Own(c) \in onNode'
      /\ repair.at \in {"rows", "queue"} =>
           /\ \A n \in onNode' \ onNode : n[1] \in repair'.crossed
           /\ lost \ lost' \subseteq repair'.crossed
  BY <1>3, <1>4
<1>8. pub' \in Publishes
  BY <1>1, <1>2, <1>3, <1>4, <1>5, <1>6, <1>7, Shapes DEF AddCodes, Typed, Publishes, Steps,
       NoPublish
<1>9. \A c \in Codes : /\ codeRow'[c].name <= meddles /\ pub'.rows[c].name <= meddles
                      /\ ~(codeRow'[c].synced /\ codeRow'[c].inFlight)
  BY <1>1, <1>2, <1>3, <1>4, <1>5, <1>6, <1>7, NoCodeFields DEF Typed, CodesTypeOK, Exists
<1>10. Typed'
  BY <1>1, <1>2, <1>3, <1>4, <1>5, <1>6, <1>7, <1>8, <1>9, Shapes, Landing, OwnNames DEF
       Typed, CodesTypeOK, countVars
<1>11. CodeRowInv' /\ ReadInv' /\ StageInv'
  BY <1>1, <1>2 DEF HonestInv, SetInv, StageInv, Exists, CodeRowInv, ReadInv
<1>12. NameInv' /\ FlagsAreHonest'
  BY <1>1, <1>2, <1>3, <1>4, Shapes, ShapesNext DEF HonestInv, SetInv, WorkInv, UnsyncedInv,
       FlagsAreHonest, Exists, Worked, CodeRowInv, ReadInv, NameInv, FoundInv, ReaddInv
<1>13. WorkInv' /\ UnsyncedInv' /\ PutBackInv' /\ ApartInv'
  BY <1>1, <1>2 DEF HonestInv, SetInv, WorkInv, UnsyncedInv, PutBackInv, ApartInv, Exists,
       Worked
<1>14. FoundInv' /\ ReaddInv'
  BY <1>1, <1>2, <1>5, <1>6 DEF HonestInv, SetInv, PutBackInv, ApartInv, FoundInv, ReaddInv,
       Name, Own
<1>15. CrossInv' /\ LostInv'
  <2>1. CrossInv'
    BY <1>1, <1>2, <1>3, <1>4, <1>5, <1>6 DEF HonestInv, CrossInv, Name, Own
  <2>2. LostRows'
    BY <1>1, <1>2, <1>3, <1>4, <1>7, <1>10 DEF HonestInv, SetInv, LostInv, StageInv, Exists,
         CodeRowInv, ReadInv, LostRows, Name, Own
  <2>3. LostFound'
    BY <1>1, <1>2, <1>3, <1>4, <1>7, <1>10 DEF HonestInv, SetInv, LostInv, StageInv,
         Confirmed, LostFound, Name, Own
  <2>4. LostQueued'
    <3>1. ASSUME repair.at = "queue", NEW c \in repair.missing, c \notin lost'
          PROVE  c \in repair'.crossed
      <4>1. c \in lost \/ c \in repair.crossed
        BY <3>1 DEF LostInv, LostQueued
      <4>2. c \in lost => c \in repair'.crossed
        BY <1>7, <3>1
      <4>3. QED BY <1>4, <4>1, <4>2
    <3>2. ASSUME repair.at = "queue", NEW c \in repair.missing, Confirmed(c)'
          PROVE  c \in repair'.crossed
      <4>1. c \in pub.todo \ (pub.theirs \cup (pub.batch \ good))
        BY <1>1, <3>2 DEF Confirmed
      <4>2. CASE c \in pub.batch
        <5>1. Own(c) \in NamesOf(good) /\ Own(c)[1] = c
          BY <1>3, <4>1, <4>2 DEF Own, Name
        <5>2. QED BY <1>4, <3>2, <5>1
      <4>3. CASE c \notin pub.batch
        <5>1. Confirmed(c)
          BY <1>1, <4>1, <4>3 DEF Confirmed, HonestInv, SetInv, StageInv
        <5>2. c \in repair.crossed
          BY <3>2, <5>1 DEF LostInv, LostQueued
        <5>3. QED BY <1>4, <5>2
      <4>4. QED BY <4>2, <4>3
    <3>3. QED BY <1>4, <3>1, <3>2 DEF LostQueued
  <2>5. QED BY <2>1, <2>2, <2>3, <2>4 DEF LostInv
<1>16. QED
  BY <1>10, <1>11, <1>12, <1>13, <1>14, <1>15 DEF IInv, HonestInv, SetInv

----------------------------------------------------------------------------
(* The publish stops.                                                      *)

LEMMA AddUnknownKeeps == ASSUME IInv, AddUnknown PROVE IInv'
<1>1. snags' \in 0 .. MaxSnags
  BY CodesAssumption DEF AddUnknown, Snag, IInv, Typed
<1>2. QED BY <1>1, StopsKeeps DEF AddUnknown, Snag, To

\* A publish that ends without a request changes nothing but itself.
LEMMA EndKeeps ==
  ASSUME IInv, pub' = NoPublish, snags' \in 0 .. MaxSnags,
         UNCHANGED <<codeRow, window, nodeVars, repair, edits, meddles, lost, exempt>>
  PROVE  IInv'
<1> Typed /\ HonestInv /\ LostInv
  BY DEF IInv
<1>1. Typed'
  BY NoPublishTyped, NoCodeFields, NamesAreNumbers DEF Typed, CodesTypeOK, nodeVars
<1>2. HonestInv'
  BY NoPublishTyped DEF HonestInv, SetInv, StageInv, WorkInv, UnsyncedInv, PutBackInv,
       ApartInv, FlagsAreHonest, Exists, CodeRowInv, ReadInv, NameInv, FoundInv, ReaddInv, CrossInv,
       NoPublish, nodeVars
<1>3. LostInv'
  BY NoPublishTyped DEF LostInv, LostRows, LostFound, LostQueued, Confirmed, Name, nodeVars
<1>4. QED BY <1>1, <1>2, <1>3 DEF IInv

LEMMA PublishFailsKeeps == ASSUME IInv, PublishFails PROVE IInv'
<1>1. snags' \in 0 .. MaxSnags /\ UNCHANGED <<edits, meddles>> /\ pub' = NoPublish
  BY CodesAssumption DEF PublishFails, Snag, IInv, Typed
<1>2. CASE pub.at \in {"add", "resend"} /\ Unanswered
  BY <1>1, <1>2, StopsKeeps
<1>3. CASE UNCHANGED <<codeRow, window, nodeVars, repair, lost, exempt>>
  BY <1>1, <1>3, EndKeeps
<1>4. QED BY <1>2, <1>3 DEF PublishFails

----------------------------------------------------------------------------
(* The step, and the theorems.                                             *)

LEMMA StutterKeeps == ASSUME IInv, UNCHANGED codeVars PROVE IInv'
<1>1. /\ repair' \in Repairs /\ snags' \in 0 .. MaxSnags
      /\ UNCHANGED <<codeRow, window, nodeVars, pub, lost, exempt, edits, meddles>>
  BY DEF codeVars, countVars, IInv, Typed
<1>2. CrossInv' /\ LostQueued'
  BY DEF codeVars, nodeVars, IInv, HonestInv, LostInv, CrossInv, LostQueued, Confirmed
<1>3. QED BY <1>1, <1>2, RepairKeeps

LEMMA StepKeeps == IInv /\ [CodesNext]_codeVars => IInv'
<1> SUFFICES ASSUME IInv, [CodesNext]_codeVars PROVE IInv'
  OBVIOUS
<1>1. ASSUME NEW c \in Codes,
             \/ CreateCode(c) \/ SetStatus(c, "active") \/ SetStatus(c, "disabled")
             \/ DeleteCode(c) \/ Exhaust(c) \/ WindowMoves(c)
             \/ DeleteInShopify(c) \/ TakeInShopify(c)
      PROVE  IInv'
  BY <1>1, CreateCodeKeeps, SetStatusKeeps, DeleteCodeKeeps, ExhaustKeeps, WindowMovesKeeps,
       DeleteInShopifyKeeps, TakeInShopifyKeeps
<1>2. CASE StartPublish \/ AddUnknown \/ PublishFails
  BY <1>2, StartPublishKeeps, AddUnknownKeeps, PublishFailsKeeps
<1>3. CASE CodePublishStep
  BY <1>3, RemoveStaleKeeps, VerifyGoneKeeps, ClearRetiredKeeps, ExpireNodeKeeps,
       LookReaddsKeeps, SettleReaddsKeeps, DisableTakenKeeps, LookUpKeeps, RenameTakenKeeps,
       AdoptOursKeeps, PushConfigKeeps, FlagInFlightKeeps, AddCodesKeeps, LookAgainKeeps,
       MarkAddedKeeps, SettleRejectedKeeps DEF CodePublishStep
<1>4. ASSUME NEW n \in Names, LateLands(n) PROVE IInv'
  BY <1>4, LateLandsKeeps
<1>5. CASE SeeCount \/ RepairStep \/ RepairStops
  BY <1>5, SeeCountKeeps, CompareCountKeeps, ListNodeKeeps, ReadRowsKeeps, QueueMissingKeeps,
       RepairStopsKeeps DEF RepairStep
<1>6. CASE UNCHANGED codeVars
  BY <1>6, StutterKeeps
<1>7. QED BY <1>1, <1>2, <1>3, <1>4, <1>5, <1>6 DEF CodesNext

LEMMA InitKeeps == CodesInit => IInv
<1> SUFFICES ASSUME CodesInit PROVE IInv
  OBVIOUS
<1>1. PICK old \in SUBSET Codes :
        /\ codeRow = [c \in Codes |-> IF c \in old THEN [NewCode EXCEPT !.synced = TRUE]
                                                   ELSE NoCode]
        /\ window = [c \in Codes |-> IF c \in Dated \ old THEN "early" ELSE "open"]
        /\ onNode = old \X {0} /\ nodeOpen = (old # {})
  BY DEF CodesInit
<1> DEFINE there == [NewCode EXCEPT !.synced = TRUE]
<1>2. /\ there \in Rows /\ Exists(there) /\ there.name = 0 /\ there.status = "active"
      /\ there.synced /\ ~there.inFlight /\ ~there.readd
  BY NoCodeFields DEF Rows, Exists
<1>3. /\ codeRow \in [Codes -> Rows]
      /\ \A c \in old : codeRow[c] = there /\ window[c] = "open"
      /\ \A c \in Codes \ old : codeRow[c] = NoCode
  BY <1>1, <1>2, NoCodeFields
<1> HIDE DEF there
<1>4. /\ taken = {} /\ lateAdds = {} /\ pub = NoPublish /\ repair = NoRepair
      /\ edits = 0 /\ meddles = 0 /\ snags = 0 /\ lost = {} /\ exempt = {}
  BY DEF CodesInit
<1>5. /\ repair \in Repairs /\ repair.at = "idle" /\ onNode \subseteq Names
      /\ \A n \in onNode : n[1] \in old /\ n[2] = 0
      /\ \A c \in old : <<c, 0>> \in onNode
  BY <1>1, <1>4, CodesAssumption DEF NoRepair, Repairs, Names
<1>6. Typed
  <2>1. window \in [Codes -> {"early", "open", "over"}] /\ nodeOpen \in BOOLEAN
    BY <1>1
  <2>2. /\ edits \in 0 .. MaxEdits /\ meddles \in 0 .. MaxMeddles /\ snags \in 0 .. MaxSnags
    BY <1>4, CodesAssumption
  <2>3. \A c \in Codes : /\ codeRow[c].name <= meddles /\ pub.rows[c].name <= meddles
                         /\ ~(codeRow[c].synced /\ codeRow[c].inFlight)
    BY <1>2, <1>3, <1>4, NoPublishTyped, NoCodeFields
  <2>4. QED
    BY <1>3, <1>4, <1>5, <2>1, <2>2, <2>3, NoPublishTyped DEF Typed, CodesTypeOK
<1>7. HonestInv
  BY <1>1, <1>4, <1>5, NoPublishTyped, NoCodeFields DEF HonestInv, SetInv, StageInv, WorkInv,
       UnsyncedInv, PutBackInv, ApartInv, Exists, FlagsAreHonest, CodeRowInv, ReadInv, NameInv,
       FoundInv, ReaddInv, CrossInv, NoPublish
<1>8. LostInv
  BY <1>2, <1>3, <1>4, <1>5, NoPublishTyped, NoCodeFields DEF LostInv, LostRows, LostFound,
       LostQueued, Confirmed, Name
<1>9. QED BY <1>6, <1>7, <1>8 DEF IInv

\* IInv holds throughout: whatever merchants, orders, Shopify's admin, the
\* publish and the repair do, and wherever a publish fails or dies (discount-
\* codes.server.ts).
THEOREM CodesInvariant == CodesSpec => []IInv
  BY InitKeeps, StepKeeps, PTL DEF CodesSpec

\* The variables keep their types; no row is both synced and in flight.
THEOREM CodesTypeCorrect == CodesSpec => []CodesTypeOK
<1>1. IInv => CodesTypeOK
  BY DEF IInv, Typed
<1>2. QED BY <1>1, CodesInvariant, PTL

\* Whatever fails or dies, a code on the node has a row of its name that is
\* flagged synced or in flight, so that a later publish finds it: the flag is
\* set before the request and cleared only after Shopify confirmed the removal.
THEOREM HonestFlags == CodesSpec => []FlagsAreHonest
<1>1. IInv => FlagsAreHonest
  BY DEF IInv, HonestInv
<1>2. QED BY <1>1, CodesInvariant, PTL

\* Nothing but the repair queues a code.
LEMMA OnlyRepairQueues ==
  ASSUME IInv, CodesNext, NEW d \in Codes, codeRow'[d].readd, ~codeRow[d].readd
  PROVE  QueueMissing /\ d \in repair.missing
<1> Typed
  BY DEF IInv
<1> codeRow \in [Codes -> Rows]
  BY Shapes
<1>1. ASSUME UNCHANGED codeRow PROVE FALSE
  BY <1>1
<1>2. ASSUME NEW c \in Codes, CreateCode(c) PROVE FALSE
  BY <1>2, NoCodeFields DEF CreateCode
<1>3. ASSUME NEW c \in Codes, NEW s \in {"active", "disabled", "exhausted"},
             codeRow' = [codeRow EXCEPT ![c].status = s]
      PROVE  FALSE
  BY <1>3, StatusOnly
<1>4. ASSUME NEW c \in Codes, DeleteCode(c) PROVE FALSE
  BY <1>4, NoCodeFields DEF DeleteCode
<1>5. ASSUME NEW S, Update(S, Unflagged) \/ Update(S, InFlight) \/ Update(S, Synced)
                    \/ Update(S, Unrestorable) \/ Update(S, Renamed)
      PROVE  FALSE
  BY <1>5, UnflaggedFields, InFlightFields, SyncedFields, UnrestorableFields, RenamedFields
       DEF Update
<1>6. CASE CodePublishStep
  BY <1>5, <1>6 DEF CodePublishStep, RemoveStale, VerifyGone, ClearRetired, ExpireNode,
       LookReadds, SettleReadds, DisableTaken, LookUp, RenameTaken, AdoptOurs, PushConfig,
       FlagInFlight, AddCodes, LookAgain, MarkAdded, SettleRejected, NoWrite
<1>7. CASE QueueMissing
  BY <1>7 DEF QueueMissing, Update
<1>8. QED
  BY <1>1, <1>2, <1>3, <1>4, <1>6, <1>7 DEF CodesNext, SetStatus, Exhaust, WindowMoves,
       DeleteInShopify, TakeInShopify, StartPublish, AddUnknown, PublishFails, LateLands, SeeCount,
       RepairStep, CompareCount, ListNode, ReadRows, RepairStops, Unanswered, NoWrite

\* The drift repair queues a code only after it left the node, and once for
\* each time it did, unless it was added after the node was listed.
THEOREM OneReadd == CodesSpec => OneReaddPerLoss
<1>1. ASSUME IInv, [CodesNext]_codeVars
      PROVE  [\A c \in Codes :
                codeRow'[c].readd /\ ~codeRow[c].readd => c \in lost \cup repair.crossed]_codeVars
  <2>1. ASSUME CodesNext, NEW c \in Codes, codeRow'[c].readd, ~codeRow[c].readd
        PROVE  c \in lost \cup repair.crossed
    BY <1>1, <2>1, OnlyRepairQueues DEF QueueMissing, IInv, LostInv, LostQueued
  <2>2. QED BY <1>1, <2>1
<1>2. QED BY <1>1, CodesInvariant, PTL DEF CodesSpec, OneReaddPerLoss

============================================================================

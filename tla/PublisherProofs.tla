-------------------------- MODULE PublisherProofs --------------------------
(***************************************************************************)
(* Proofs about Publisher, for any offers, requests and bounds: the types, *)
(* and why publishing is safe as long as no lock connection is lost: the   *)
(* inductive invariant behind its safety properties, and the refinement of *)
(* ShopReplica.                                                            *)
(***************************************************************************)
EXTENDS Publisher, SequenceTheorems, TLAPS

AfterRead == Body \ {"read"}

\* What TypeOK needs to be inductive: a sleeping call has a try left, and the
\* body knows where in the history it read.
StepInv ==
  \A w \in Workers : /\ pc[w] = "sleep" => tries[w] < MaxTries
                     /\ pc[w] \in AfterRead => readAt[w] >= 1

TypeInv == TypeOK /\ StepInv

LEMMA TypeInvInit == Init => TypeInv
<1> SUFFICES ASSUME Init PROVE TypeInv
  OBVIOUS
<1> USE PublisherAssumption DEF Init, Workers, Active, PcValues, Body
<1>1. /\ Active \subseteq Offers
      /\ hist \in Seq(SUBSET Offers) /\ hist # <<>> /\ Len(hist) = 1
  OBVIOUS
<1>2. status \in [Offers -> Status]
  BY DEF Status
<1>3. /\ broken \subseteq Offers /\ codeNode \subseteq CodeOffers
      /\ compiled \subseteq Offers /\ guarded \subseteq Offers
      /\ shared \subseteq Offers \ CodeOffers /\ codeLive \subseteq CodeOffers
  BY <1>1
<1>4. /\ codeAt \in [CodeOffers -> 1 .. Len(hist)]
      /\ readAt \in [Workers -> 0 .. Len(hist)]
      /\ saveAt \in [Workers -> 0 .. Len(hist)]
      /\ sharedAt \in 1 .. Len(hist) /\ publishedAt \in 1 .. Len(hist)
  BY <1>1
<1>5. /\ pending \in BOOLEAN /\ newer \subseteq Workers
      /\ lock \in Workers \cup {None}
      /\ pc \in [Workers -> PcValues]
      /\ result \in [Workers -> {"none", "published", "pending", "failed"}]
      /\ tries \in [Workers -> 0 .. MaxTries]
      /\ snap \in [Workers -> SUBSET Offers]
      /\ todo \in [Workers -> SUBSET CodeOffers]
      /\ blame \in [Workers -> Offers \cup {None}]
      /\ faults \in 0 .. MaxFaults /\ drops \in 0 .. MaxDrops
  <2>1. pc \in [Workers -> PcValues]
    OBVIOUS
  <2>2. /\ tries \in [Workers -> 0 .. MaxTries]
        /\ faults \in 0 .. MaxFaults /\ drops \in 0 .. MaxDrops
    OBVIOUS
  <2>3. /\ snap \in [Workers -> SUBSET Offers]
        /\ todo \in [Workers -> SUBSET CodeOffers]
    OBVIOUS
  <2>4. result \in [Workers -> {"none", "published", "pending", "failed"}]
    OBVIOUS
  <2> QED
    BY <2>1, <2>2, <2>3, <2>4
<1>6. TypeOK
  BY <1>1, <1>2, <1>3, <1>4, <1>5 DEF TypeOK
<1> QED
  BY <1>6 DEF TypeInv, StepInv, AfterRead

\* What a write to Shopify does to the variables that Answered governs.
LEMMA AnsweredType ==
  ASSUME TypeInv, NEW w \in Workers, NEW next \in AfterRead,
         pc[w] \in AfterRead, Answered(w, next)
  PROVE  /\ pc' \in [Workers -> PcValues]
         /\ lock' \in Workers \cup {None}
         /\ snap' \in [Workers -> SUBSET Offers]
         /\ readAt' \in [Workers -> 0 .. Len(hist)]
         /\ faults' \in 0 .. MaxFaults
         /\ \A v \in Workers : /\ pc'[v] = "sleep" => pc[v] = "sleep"
                               /\ pc'[v] \in AfterRead =>
                                    pc[v] \in AfterRead /\ readAt'[v] = readAt[v]
<1> USE PublisherAssumption DEF TypeInv, TypeOK, PcValues, Body, AfterRead
<1>1. CASE Goto(w, next) /\ UNCHANGED <<lock, snap, readAt, faults>>
  BY <1>1 DEF Goto
<1>2. CASE Fault /\ Goto(w, IF lock = w THEN "park" ELSE "end") /\ Leave(w)
  <2>1. /\ faults' \in 0 .. MaxFaults
        /\ lock' \in Workers \cup {None}
        /\ snap' \in [Workers -> SUBSET Offers]
        /\ readAt' \in [Workers -> 0 .. Len(hist)]
    BY <1>2, SMTT(30) DEF Fault, Leave
  <2> QED
    BY <1>2, <2>1 DEF Goto, Leave
<1> QED
  BY <1>1, <1>2 DEF Answered

\* A write to Shopify that leaves well-typed what it serves.
LEMMA WriteType ==
  ASSUME TypeInv, NEW w \in Workers, pc[w] \in AfterRead,
         \E next \in AfterRead : Answered(w, next),
         UNCHANGED <<database, codeNode, flag, result, tries, blame, publishedAt, drops>>,
         compiled' \subseteq Offers, shared' \subseteq Offers \ CodeOffers,
         codeLive' \subseteq CodeOffers, guarded' \subseteq Offers,
         sharedAt' \in 1 .. Len(hist), codeAt' \in [CodeOffers -> 1 .. Len(hist)],
         todo' \in [Workers -> SUBSET CodeOffers]
  PROVE  TypeInv'
<1>1. /\ pc' \in [Workers -> PcValues] /\ lock' \in Workers \cup {None}
      /\ snap' \in [Workers -> SUBSET Offers] /\ readAt' \in [Workers -> 0 .. Len(hist)]
      /\ faults' \in 0 .. MaxFaults
      /\ \A v \in Workers : /\ pc'[v] = "sleep" => pc[v] = "sleep"
                            /\ pc'[v] \in AfterRead =>
                                 pc[v] \in AfterRead /\ readAt'[v] = readAt[v]
  BY AnsweredType
<1>2. UNCHANGED <<status, broken, hist, saveAt, codeNode, pending, newer, result, tries,
                  blame, publishedAt, drops>>
  BY DEF database, flag
<1>3. TypeOK'
  BY <1>1, <1>2 DEF TypeInv, TypeOK
<1>4. StepInv'
  BY <1>1, <1>2 DEF TypeInv, StepInv
<1>5. QED BY <1>3, <1>4 DEF TypeInv

\* A save makes the history longer, and every index into it stays one.
LEMMA LongerHistory ==
  ASSUME TypeOK, NEW S \in SUBSET Offers, hist' = Append(hist, S)
  PROVE  /\ hist' \in Seq(SUBSET Offers) /\ hist' # <<>> /\ Len(hist) + 1 \in 0 .. Len(hist')
         /\ readAt \in [Workers -> 0 .. Len(hist')] /\ saveAt \in [Workers -> 0 .. Len(hist')]
         /\ sharedAt \in 1 .. Len(hist') /\ publishedAt \in 1 .. Len(hist')
         /\ codeAt \in [CodeOffers -> 1 .. Len(hist')]
<1>1. /\ hist' \in Seq(SUBSET Offers) /\ hist' # <<>>
      /\ Len(hist) \in Nat /\ Len(hist') = Len(hist) + 1
  <2>1. hist \in Seq(SUBSET Offers)
    BY DEF TypeOK
  <2>2. QED BY <2>1
<1>2. /\ 0 .. Len(hist) \subseteq 0 .. Len(hist') /\ 1 .. Len(hist) \subseteq 1 .. Len(hist')
      /\ Len(hist) + 1 \in 0 .. Len(hist')
  BY <1>1
<1>3. /\ readAt \in [Workers -> 0 .. Len(hist)] /\ saveAt \in [Workers -> 0 .. Len(hist)]
      /\ sharedAt \in 1 .. Len(hist) /\ publishedAt \in 1 .. Len(hist)
      /\ codeAt \in [CodeOffers -> 1 .. Len(hist)]
  BY SMTT(20) DEF TypeOK
<1>4. QED BY <1>1, <1>2, <1>3

LEMMA TypeInvNext == TypeInv /\ [Next]_vars => TypeInv'
<1> SUFFICES ASSUME TypeInv, [Next]_vars PROVE TypeInv'
  OBVIOUS
<1> USE PublisherAssumption
    DEF TypeInv, TypeOK, StepInv, AfterRead, Body, PcValues, Workers, Status,
        database, flag, calls, shopify
<1>1. ASSUME NEW w \in Workers, Publish(w) PROVE TypeInv'
  BY <1>1 DEF Publish, Start, Goto
<1>2. ASSUME NEW w \in Workers, Retry(w) PROVE TypeInv'
  BY <1>2, SMTT(30) DEF Retry, Start, Goto
<1>3. CASE Reconcile
  BY <1>3, SMTT(30) DEF Reconcile, Start, Goto
<1>4. ASSUME NEW w \in Workers, Acquire(w) PROVE TypeInv'
  BY <1>4 DEF Acquire, Goto
<1>5. ASSUME NEW w \in Workers, LockTimeout(w) PROVE TypeInv'
  BY <1>5 DEF LockTimeout, Goto
<1>6. ASSUME NEW w \in Workers, Park(w) PROVE TypeInv'
  BY <1>6 DEF Park, Goto
<1>7. ASSUME NEW w \in Workers, ReadOffers(w) PROVE TypeInv'
  BY <1>7, SMTT(30) DEF ReadOffers, Goto, StaleCodes, Active
<1>8. ASSUME NEW w \in Workers, Neutralized(w) PROVE TypeInv'
  BY <1>8 DEF Neutralized, Goto, WithCodes
<1>9. ASSUME NEW w \in Workers, Compile(w) PROVE TypeInv'
  BY <1>9 DEF Compile, Goto, FirstWrite
<1>10. ASSUME NEW w \in Workers, SyncValidation(w) PROVE TypeInv'
  <2>1. pc[w] \in AfterRead /\ \E next \in AfterRead : Answered(w, next)
    BY <1>10 DEF SyncValidation
  <2>2. guarded' \subseteq Offers
    BY <1>10 DEF SyncValidation
  <2> QED
    BY <1>10, <2>1, <2>2, WriteType DEF SyncValidation
<1>11. ASSUME NEW w \in Workers, PushShared(w) PROVE TypeInv'
  <2>1. pc[w] \in AfterRead /\ \E next \in AfterRead : Answered(w, next)
    BY <1>11 DEF PushShared
  <2>2. shared' \subseteq Offers \ CodeOffers /\ sharedAt' \in 1 .. Len(hist)
    BY <1>11, <2>1 DEF PushShared, Regular
  <2> QED
    BY <1>11, <2>1, <2>2, WriteType DEF PushShared
<1>12. ASSUME NEW w \in Workers, StoreCompiled(w) PROVE TypeInv'
  BY <1>12 DEF StoreCompiled, Goto, Regular, WithCodes
<1>13. ASSUME NEW w \in Workers, WriteManifest(w) PROVE TypeInv'
  BY <1>13, SMTT(30) DEF WriteManifest, Goto
<1>14. ASSUME NEW w \in Workers, Commit(w) PROVE TypeInv'
  BY <1>14, SMTT(30) DEF Commit, Goto, Leave
<1>15. ASSUME NEW w \in Workers, ClearPending(w) PROVE TypeInv'
  BY <1>15 DEF ClearPending, Goto, ClearsFlag
<1>16. ASSUME NEW w \in Workers, NEW o \in Offers, Neutralize(w, o) PROVE TypeInv'
  <2>1. pc[w] \in AfterRead /\ \E next \in AfterRead : Answered(w, next)
    BY <1>16 DEF Neutralize
  <2>2. /\ codeLive' \subseteq CodeOffers /\ codeAt' \in [CodeOffers -> 1 .. Len(hist)]
        /\ todo' \in [Workers -> SUBSET CodeOffers]
    BY <1>16, <2>1 DEF Neutralize
  <2> QED
    BY <1>16, <2>1, <2>2, WriteType DEF Neutralize
<1>17. ASSUME NEW w \in Workers, NEW o \in Offers, CompileCode(w, o) PROVE TypeInv'
  <2>1. CASE o \in broken
    <3>1. /\ Fail(w, None) /\ UNCHANGED todo
          /\ codeNode' = codeNode \cup {o} /\ o \in CodeOffers
      BY <1>17, <2>1 DEF CompileCode
    <3> QED
      BY <1>17, <3>1, SMTT(30) DEF CompileCode, Fail, Leave, Goto
  <2>2. CASE o \notin broken
    <3>0. /\ o \in CodeOffers /\ codeNode' = codeNode \cup {o}
          /\ todo' = [todo EXCEPT ![w] = todo[w] \ {o}]
      BY <1>17, <2>2 DEF CompileCode
    <3>1. /\ codeNode' \subseteq CodeOffers
          /\ todo' \in [Workers -> SUBSET CodeOffers]
      BY <3>0
    <3>2. UNCHANGED <<status, broken, compiled, pending, newer, lock, pc, result,
                      tries, snap, readAt, blame, shared, codeLive, guarded,
                      faults, drops, hist, saveAt, sharedAt, codeAt, publishedAt>>
      BY <1>17, <2>2 DEF CompileCode
    <3>3. TypeOK'
      BY <3>1, <3>2, SMTT(30)
    <3>4. StepInv'
      BY <3>2
    <3> QED
      BY <3>3, <3>4 DEF TypeInv
  <2> QED
    BY <2>1, <2>2
<1>18. ASSUME NEW w \in Workers, NEW o \in Offers, CompileError(w, o) PROVE TypeInv'
  BY <1>18, SMTT(30) DEF CompileError, Fail, Leave, Goto, Regular
<1>19. ASSUME NEW w \in Workers, NEW o \in Offers, PushCode(w, o) PROVE TypeInv'
  <2>1. /\ pc[w] \in AfterRead /\ \E next \in AfterRead : Answered(w, next)
        /\ o \in CodeOffers /\ readAt[w] \in 1 .. Len(hist)
    BY <1>19 DEF PushCode
  <2>2. /\ codeLive' \subseteq CodeOffers
        /\ codeAt' \in [CodeOffers -> 1 .. Len(hist)]
        /\ todo' \in [Workers -> SUBSET CodeOffers]
        /\ compiled' \subseteq Offers
    BY <1>19, <2>1 DEF PushCode
  <2> QED
    BY <1>19, <2>1, <2>2, WriteType DEF PushCode
<1>20. ASSUME NEW w \in Workers, Refused(w) PROVE TypeInv'
  BY <1>20, SMTT(30) DEF Refused, Fault, Fail, Leave, Goto
<1>21. ASSUME NEW w \in Workers, NotApplied(w) PROVE TypeInv'
  BY <1>21, SMTT(30) DEF NotApplied, Fault, Leave, Goto
<1>22. ASSUME NEW w \in Workers, Crash(w) PROVE TypeInv'
  BY <1>22, SMTT(30) DEF Crash, Running, Fault, Leave, Goto
<1>23. ASSUME NEW w \in Workers, LoseConnection(w) PROVE TypeInv'
  BY <1>23, SMTT(30) DEF LoseConnection
<1>24. ASSUME NEW w \in Workers, NEW o \in Offers, Save(w, o) PROVE TypeInv'
  <2>1. PICK s \in {"active", "paused"}, b \in {broken \ {o}, broken \cup {o}} :
          WriteStatus(w, [status EXCEPT ![o] = s], b)
    BY <1>24 DEF Save
  <2>2. /\ status' \in [Offers -> Status] /\ broken' \subseteq Offers
        /\ pc' = [pc EXCEPT ![w] = "saved"]
    BY <1>24, <2>1 DEF Save, WriteStatus, Goto
  <2>3. /\ \E S \in SUBSET Offers : hist' = Append(hist, S)
        /\ saveAt' = [saveAt EXCEPT ![w] = Len(hist) + 1]
    BY <2>1 DEF WriteStatus
  <2>4. /\ hist' \in Seq(SUBSET Offers) /\ hist' # <<>> /\ Len(hist) + 1 \in 0 .. Len(hist')
        /\ readAt \in [Workers -> 0 .. Len(hist')] /\ saveAt \in [Workers -> 0 .. Len(hist')]
        /\ sharedAt \in 1 .. Len(hist') /\ publishedAt \in 1 .. Len(hist')
        /\ codeAt \in [CodeOffers -> 1 .. Len(hist')]
    BY <2>3, LongerHistory
  <2>5. saveAt' \in [Workers -> 0 .. Len(hist')]
    BY <2>3, <2>4
  <2> QED
    BY <1>24, <2>2, <2>4, <2>5 DEF Save
<1>25. CASE UNCHANGED vars
  BY <1>25 DEF vars
<1> QED
  BY <1>1, <1>2, <1>3, <1>4, <1>5, <1>6, <1>7, <1>8, <1>9, <1>10, <1>11, <1>12,
     <1>13, <1>14, <1>15, <1>16, <1>17, <1>18, <1>19, <1>20, <1>21, <1>22,
     <1>23, <1>24, <1>25 DEF Next, Step, Trouble

\* Every reachable state is well typed.
THEOREM TypeCorrect == Spec => []TypeOK
  BY TypeInvInit, TypeInvNext, PTL DEF Spec, TypeInv

----------------------------------------------------------------------------
(* Safety, as long as no lock connection is lost.                          *)

\* Exactly the call in the body holds the lock.
LockInv == \A w \in Workers : pc[w] \in Body <=> lock = w

\* The database and every part of Shopify are states of the history.
HistInv ==
  /\ hist[Len(hist)] = Active
  /\ shared = hist[sharedAt] \ CodeOffers
  /\ \A o \in CodeOffers : o \in codeLive <=> o \in hist[codeAt[o]]

\* A code offer is served by a node the database knows, and is guarded.
NodeInv == codeLive \subseteq codeNode /\ codeLive \subseteq guarded

\* What a call in the body knows of Shopify, step by step.
BodyInv(w) ==
  /\ snap[w] = hist[readAt[w]]
  /\ sharedAt <= readAt[w] /\ publishedAt <= readAt[w] /\ saveAt[w] <= readAt[w]
  /\ \A o \in CodeOffers : codeAt[o] <= readAt[w]
  /\ pc[w] = "neutralize" => codeLive \subseteq snap[w] \cup todo[w]
                             /\ snap[w] \cap todo[w] = {}
  /\ pc[w] # "neutralize" => codeLive \subseteq snap[w]
  /\ pc[w] \in {"nodes", "codes"} => todo[w] \subseteq snap[w]
  /\ pc[w] = "nodes" => WithCodes(w) \subseteq codeNode \cup todo[w]
  /\ pc[w] \notin {"neutralize", "nodes"} => WithCodes(w) \subseteq codeNode
  /\ pc[w] = "shared" => Regular(w) = {} \/ guarded = snap[w]
  /\ pc[w] = "relax" => sharedAt = readAt[w]
  /\ pc[w] \in {"store", "codes", "commit"} =>
       guarded = snap[w] /\ sharedAt = readAt[w]
  /\ pc[w] = "codes" => \A o \in codeLive \ todo[w] : codeAt[o] = readAt[w]
  /\ pc[w] = "commit" => publishedAt = readAt[w]
                         /\ \A o \in codeLive : codeAt[o] = readAt[w]

AllBodies == \A w \in Workers : pc[w] \in AfterRead => BodyInv(w)

ContentInv == HistInv /\ NodeInv /\ ServedSincePublished /\ AllBodies

SafeInv == LockInv /\ ContentInv

\* A save that was answered is not lost: no call that can clear the flag is
\* behind it.
SaveInv ==
  /\ \A w \in Calls : /\ pc[w] = "idle" => result[w] = "none" /\ saveAt[w] = 0
                      /\ result[w] = "published" => saveAt[w] <= publishedAt
  /\ \A w \in Workers : pc[w] = "clear" => saveAt[w] <= publishedAt
  /\ \A v \in Workers \ newer, w \in Calls : result[w] = "pending" =>
       /\ pc[v] \in AfterRead => saveAt[w] <= readAt[v]
       /\ pc[v] = "clear" => saveAt[w] <= publishedAt

KeepInv == SaveInv /\ ConfirmedSaveIsKept

----------------------------------------------------------------------------
(* The lock.                                                               *)

LEMMA LockNext ==
  ASSUME MaxDrops = 0, TypeInv, LockInv, [Next]_vars
  PROVE  LockInv'
<1>0. pc \in [Workers -> PcValues] /\ lock \in Workers \cup {None}
      /\ None \notin Workers
  BY PublisherAssumption DEF TypeInv, TypeOK, Workers
<1> USE <1>0 DEF LockInv, Body, Goto
<1>1. ASSUME NEW w \in Workers, Publish(w) PROVE LockInv'
  BY <1>1 DEF Publish, Start
<1>2. ASSUME NEW w \in Workers, Retry(w) PROVE LockInv'
  BY <1>2 DEF Retry, Start
<1>3. CASE Reconcile
  BY <1>3 DEF Reconcile, Start, Workers
<1>4. ASSUME NEW w \in Workers, Acquire(w) PROVE LockInv'
  BY <1>4 DEF Acquire, LockFree
<1>5. ASSUME NEW w \in Workers, LockTimeout(w) PROVE LockInv'
  BY <1>5 DEF LockTimeout
<1>6. ASSUME NEW w \in Workers, Park(w) PROVE LockInv'
  BY <1>6 DEF Park
<1>7. ASSUME NEW w \in Workers, ReadOffers(w) PROVE LockInv'
  BY <1>7 DEF ReadOffers
<1>8. ASSUME NEW w \in Workers, Neutralized(w) PROVE LockInv'
  BY <1>8 DEF Neutralized
<1>9. ASSUME NEW w \in Workers, Compile(w) PROVE LockInv'
  BY <1>9 DEF Compile, FirstWrite
<1>10. ASSUME NEW w \in Workers, SyncValidation(w) PROVE LockInv'
  BY <1>10 DEF SyncValidation, Answered, Leave
<1>11. ASSUME NEW w \in Workers, PushShared(w) PROVE LockInv'
  BY <1>11 DEF PushShared, Answered, Leave
<1>12. ASSUME NEW w \in Workers, StoreCompiled(w) PROVE LockInv'
  BY <1>12 DEF StoreCompiled
<1>13. ASSUME NEW w \in Workers, WriteManifest(w) PROVE LockInv'
  BY <1>13 DEF WriteManifest
<1>14. ASSUME NEW w \in Workers, Commit(w) PROVE LockInv'
  BY <1>14 DEF Commit, Leave
<1>15. ASSUME NEW w \in Workers, ClearPending(w) PROVE LockInv'
  BY <1>15 DEF ClearPending
<1>16. ASSUME NEW w \in Workers, NEW o \in Offers, Neutralize(w, o) PROVE LockInv'
  BY <1>16 DEF Neutralize, Answered, Leave
<1>17. ASSUME NEW w \in Workers, NEW o \in Offers, CompileCode(w, o) PROVE LockInv'
  BY <1>17 DEF CompileCode, Fail, Leave
<1>18. ASSUME NEW w \in Workers, NEW o \in Offers, CompileError(w, o) PROVE LockInv'
  BY <1>18 DEF CompileError, Fail, Leave
<1>19. ASSUME NEW w \in Workers, NEW o \in Offers, PushCode(w, o) PROVE LockInv'
  BY <1>19 DEF PushCode, Answered, Leave
<1>20. ASSUME NEW w \in Workers, Refused(w) PROVE LockInv'
  BY <1>20 DEF Refused, Fail, Leave
<1>21. ASSUME NEW w \in Workers, NotApplied(w) PROVE LockInv'
  BY <1>21 DEF NotApplied, Leave
<1>22. ASSUME NEW w \in Workers, Crash(w) PROVE LockInv'
  BY <1>22 DEF Crash, Leave
<1>23. ASSUME NEW w \in Workers PROVE ~LoseConnection(w)
  BY DEF LoseConnection, TypeInv, TypeOK
<1>24. ASSUME NEW w \in Workers, NEW o \in Offers, Save(w, o) PROVE LockInv'
  BY <1>24 DEF Save
<1>25. CASE UNCHANGED vars
  BY <1>25 DEF vars, calls
<1> QED
  BY <1>1, <1>2, <1>3, <1>4, <1>5, <1>6, <1>7, <1>8, <1>9, <1>10, <1>11, <1>12,
     <1>13, <1>14, <1>15, <1>16, <1>17, <1>18, <1>19, <1>20, <1>21, <1>22,
     <1>23, <1>24, <1>25 DEF Next, Step, Trouble

\* From the read of the offers to the last write, whoever publishes holds the
\* advisory lock: publishes never interleave unless a lock connection is lost.
THEOREM Serialized ==
  ASSUME MaxDrops = 0
  PROVE  Spec => []NeverInterleaved
<1>1. Init => LockInv
  BY PublisherAssumption DEF Init, LockInv, Body, Workers
<1>2. LockInv => NeverInterleaved
  BY DEF LockInv, NeverInterleaved
<1> QED
  BY <1>1, <1>2, LockNext, TypeInvInit, TypeInvNext, PTL DEF Spec

----------------------------------------------------------------------------
(* Shopify and what the body knows of it.                                  *)

\* A step that leaves the statuses, the code nodes and Shopify alone, and does
\* not move a call within the body, keeps everything.
Quiet ==
  /\ UNCHANGED <<status, hist, saveAt, codeNode, shopify, publishedAt>>
  /\ \A v \in Workers : pc'[v] \in AfterRead =>
       pc'[v] = pc[v] /\ snap'[v] = snap[v] /\ readAt'[v] = readAt[v]
         /\ todo'[v] = todo[v]

LEMMA QuietNext ==
  ASSUME ContentInv, Quiet
  PROVE  ContentInv'
<1>1. /\ UNCHANGED <<status, hist, saveAt, codeNode, shared, codeLive, guarded,
                     sharedAt, codeAt, publishedAt>>
      /\ Active' = Active
  BY DEF Quiet, shopify, Active
<1>2. HistInv' /\ NodeInv' /\ ServedSincePublished'
  BY <1>1 DEF ContentInv, HistInv, NodeInv, ServedSincePublished
<1>3. ASSUME NEW v \in Workers, pc'[v] \in AfterRead PROVE BodyInv(v)'
  <2>1. /\ BodyInv(v)
        /\ pc'[v] = pc[v] /\ snap'[v] = snap[v] /\ readAt'[v] = readAt[v]
        /\ todo'[v] = todo[v]
    BY <1>3 DEF Quiet, ContentInv, AllBodies
  <2> QED
    BY <1>1, <2>1 DEF BodyInv, WithCodes, Regular
<1> QED
  BY <1>2, <1>3 DEF ContentInv, AllBodies

\* A save appends a state to the history: the older ones stay what they were.
LEMMA SaveNext ==
  ASSUME TypeInv, ContentInv, NEW w \in Workers, NEW o \in Offers, Save(w, o)
  PROVE  ContentInv'
<1>1. PICK f, b : WriteStatus(w, f, b)
  BY DEF Save
<1>2. /\ UNCHANGED <<codeNode, shared, codeLive, guarded, sharedAt, codeAt,
                     publishedAt, snap, readAt, todo>>
      /\ \A v \in Workers : pc'[v] \in AfterRead => v # w /\ pc'[v] = pc[v]
  BY DEF Save, shopify, Goto, TypeInv, TypeOK, AfterRead, Body
<1>3. /\ hist \in Seq(SUBSET Offers) /\ Active' \in SUBSET Offers
      /\ hist' = Append(hist, Active')
      /\ saveAt' = [saveAt EXCEPT ![w] = Len(hist) + 1]
  BY <1>1 DEF WriteStatus, TypeInv, TypeOK, Active
<1>4. /\ Len(hist') = Len(hist) + 1
      /\ hist'[Len(hist')] = Active'
      /\ \A i \in 1 .. Len(hist) : hist'[i] = hist[i]
  BY <1>3
<1>5. HistInv' /\ NodeInv' /\ ServedSincePublished'
  BY <1>2, <1>4
     DEF ContentInv, HistInv, NodeInv, ServedSincePublished, TypeInv, TypeOK
<1>6. ASSUME NEW v \in Workers, pc'[v] \in AfterRead PROVE BodyInv(v)'
  <2>1. BodyInv(v) /\ saveAt'[v] = saveAt[v] /\ pc'[v] = pc[v]
    BY <1>2, <1>3, <1>6 DEF ContentInv, AllBodies, TypeInv, TypeOK
  <2>2. hist'[readAt[v]] = hist[readAt[v]]
    BY <1>2, <1>4, <1>6, SMTT(30) DEF TypeInv, TypeOK, StepInv
  <2> QED
    BY <1>2, <2>1, <2>2 DEF BodyInv, WithCodes, Regular
<1> QED
  BY <1>5, <1>6 DEF ContentInv, AllBodies

\* Only the holder of the lock is in the body, so a step of the body only has to
\* keep what the holder knows.
LEMMA HolderNext ==
  ASSUME TypeInv, LockInv, NEW w \in Workers, pc[w] \in Body, NEW step,
         Goto(w, step), step \in AfterRead => BodyInv(w)'
  PROVE  AllBodies'
<1> SUFFICES ASSUME NEW v \in Workers, pc'[v] \in AfterRead PROVE BodyInv(v)'
  BY DEF AllBodies
<1>1. v # w => pc'[v] = pc[v] /\ pc[v] \notin Body
  BY DEF LockInv, TypeInv, TypeOK, Goto
<1>2. v = w
  BY <1>1 DEF AfterRead
<1>3. pc'[w] = step
  BY DEF TypeInv, TypeOK, Goto
<1> QED
  BY <1>2, <1>3

\* A write to Shopify only has to keep it when its answer comes back.
LEMMA AnsweredNext ==
  ASSUME TypeInv, LockInv, NEW w \in Workers, pc[w] \in Body, NEW step,
         Answered(w, step),
         Goto(w, step) /\ UNCHANGED <<snap, readAt>> => BodyInv(w)'
  PROVE  AllBodies'
<1>1. CASE Goto(w, step) /\ UNCHANGED <<snap, readAt>>
  BY <1>1, HolderNext
<1>2. CASE \E over \in {"park", "end"} : Goto(w, over)
  <2>1. PICK over \in {"park", "end"} : Goto(w, over)
    BY <1>2
  <2>2. over \notin AfterRead
    BY <2>1 DEF AfterRead, Body
  <2> QED
    BY <2>1, <2>2, HolderNext
<1> QED
  BY <1>1, <1>2 DEF Answered

LEMMA ReadNext ==
  ASSUME TypeInv, LockInv, ContentInv, NEW w \in Workers, ReadOffers(w)
  PROVE  ContentInv'
<1>1. /\ UNCHANGED <<status, hist, saveAt, codeNode, shared, codeLive, guarded,
                     sharedAt, codeAt, publishedAt>>
      /\ Active' = Active
      /\ pc[w] \in Body /\ Goto(w, "neutralize")
  BY DEF ReadOffers, database, shopify, Active, Body
<1>2. HistInv' /\ NodeInv' /\ ServedSincePublished'
  BY <1>1 DEF ContentInv, HistInv, NodeInv, ServedSincePublished
<1>3. BodyInv(w)'
  <2>1. /\ snap'[w] = Active /\ readAt'[w] = Len(hist) /\ todo'[w] = codeNode \ Active
        /\ pc'[w] = "neutralize"
    BY <1>1 DEF ReadOffers, StaleCodes, TypeInv, TypeOK, Goto
  <2>2. /\ hist[Len(hist)] = Active /\ codeLive \subseteq codeNode
        /\ sharedAt <= Len(hist) /\ publishedAt <= Len(hist)
        /\ saveAt[w] <= Len(hist)
        /\ \A o \in CodeOffers : codeAt[o] <= Len(hist)
    BY DEF ContentInv, HistInv, NodeInv, TypeInv, TypeOK
  <2> QED
    BY <1>1, <2>1, <2>2 DEF BodyInv
<1>4. AllBodies'
  BY <1>1, <1>3, HolderNext
<1> QED
  BY <1>2, <1>4 DEF ContentInv

\* What a call in the body knows, when it holds of the call.
LEMMA InBody ==
  ASSUME TypeInv, ContentInv, NEW w \in Workers, pc[w] \in AfterRead
  PROVE  /\ BodyInv(w)
         /\ readAt[w] \in 1 .. Len(hist)
         /\ snap[w] \subseteq Offers /\ todo[w] \subseteq CodeOffers
         /\ pc[w] \in Body
  BY DEF ContentInv, AllBodies, TypeInv, TypeOK, StepInv, AfterRead

LEMMA NeutralizeNext ==
  ASSUME TypeInv, LockInv, ContentInv, NEW w \in Workers, NEW o \in Offers,
         Neutralize(w, o)
  PROVE  ContentInv'
<1>1. /\ UNCHANGED <<status, hist, saveAt, codeNode, shared, guarded, sharedAt,
                     publishedAt>>
      /\ Active' = Active
      /\ pc[w] = "neutralize" /\ o \in todo[w]
      /\ codeLive' = codeLive \ {o}
      /\ codeAt' = [codeAt EXCEPT ![o] = readAt[w]]
      /\ todo' = [todo EXCEPT ![w] = todo[w] \ {o}]
      /\ Answered(w, "neutralize")
  BY DEF Neutralize, database, Active
<1>2. pc[w] \in AfterRead
  BY <1>1 DEF AfterRead, Body
<1>3. /\ BodyInv(w) /\ readAt[w] \in 1 .. Len(hist) /\ o \in CodeOffers
      /\ pc[w] \in Body
  BY <1>1, <1>2, InBody
<1>4. /\ codeAt \in [CodeOffers -> 1 .. Len(hist)]
      /\ codeAt'[o] = readAt[w]
      /\ \A c \in CodeOffers \ {o} : codeAt'[c] = codeAt[c]
  BY <1>1, <1>3 DEF TypeInv, TypeOK
<1>5. o \notin hist[readAt[w]]
  BY <1>1, <1>3 DEF BodyInv
<1>6. HistInv'
  BY <1>1, <1>3, <1>4, <1>5 DEF ContentInv, HistInv
<1>7. NodeInv' /\ ServedSincePublished'
  BY <1>1, <1>3, <1>4 DEF ContentInv, NodeInv, ServedSincePublished, BodyInv
<1>8. ASSUME Goto(w, "neutralize"), UNCHANGED <<snap, readAt>> PROVE BodyInv(w)'
  <2>1. /\ pc'[w] = "neutralize" /\ todo'[w] = todo[w] \ {o}
        /\ snap' = snap /\ readAt' = readAt
    BY <1>1, <1>8 DEF Goto, TypeInv, TypeOK
  <2> QED
    BY <1>1, <1>3, <1>4, <2>1 DEF BodyInv
<1>9. AllBodies'
  BY <1>1, <1>3, <1>8, AnsweredNext
<1> QED
  BY <1>6, <1>7, <1>9 DEF ContentInv

LEMMA NeutralizedNext ==
  ASSUME TypeInv, LockInv, ContentInv, NEW w \in Workers, Neutralized(w)
  PROVE  ContentInv'
<1>1. /\ UNCHANGED <<status, hist, saveAt, codeNode, shared, codeLive, guarded,
                     sharedAt, codeAt, publishedAt, snap, readAt>>
      /\ Active' = Active
      /\ pc[w] = "neutralize" /\ todo[w] = {} /\ Goto(w, "nodes")
      /\ todo' = [todo EXCEPT ![w] = WithCodes(w)]
  BY DEF Neutralized, database, shopify, Active
<1>2. HistInv' /\ NodeInv' /\ ServedSincePublished'
  BY <1>1 DEF ContentInv, HistInv, NodeInv, ServedSincePublished
<1>3. BodyInv(w) /\ pc[w] \in Body
  BY <1>1, InBody DEF AfterRead, Body
<1>4. pc'[w] = "nodes" /\ todo'[w] = WithCodes(w)
  BY <1>1 DEF Goto, TypeInv, TypeOK
<1>5. BodyInv(w)'
  BY <1>1, <1>3, <1>4 DEF BodyInv, WithCodes
<1>6. AllBodies'
  BY <1>1, <1>3, <1>5, HolderNext
<1> QED
  BY <1>2, <1>6 DEF ContentInv

LEMMA CompileCodeNext ==
  ASSUME TypeInv, LockInv, ContentInv, NEW w \in Workers, NEW o \in Offers,
         CompileCode(w, o)
  PROVE  ContentInv'
<1>1. /\ UNCHANGED <<status, hist, saveAt, shared, codeLive, guarded, sharedAt,
                     codeAt, publishedAt>>
      /\ Active' = Active
      /\ pc[w] = "nodes" /\ o \in todo[w]
      /\ codeNode' = codeNode \cup {o}
  BY DEF CompileCode, database, shopify, Active
<1>2. HistInv' /\ NodeInv' /\ ServedSincePublished'
  BY <1>1 DEF ContentInv, HistInv, NodeInv, ServedSincePublished
<1>3. BodyInv(w) /\ pc[w] \in Body
  BY <1>1, InBody DEF AfterRead, Body
<1>4. CASE o \in broken
  <2>1. Goto(w, "end")
    BY <1>4 DEF CompileCode, Fail
  <2>2. AllBodies'
    BY <1>3, <2>1, HolderNext DEF AfterRead, Body
  <2> QED
    BY <1>2, <2>2 DEF ContentInv
<1>5. CASE o \notin broken
  <2>1. /\ UNCHANGED <<pc, snap, readAt>> /\ pc[w] = "nodes"
        /\ todo'[w] = todo[w] \ {o}
    BY <1>1, <1>5 DEF CompileCode, TypeInv, TypeOK
  <2>2. BodyInv(w)'
    BY <1>1, <1>3, <2>1 DEF BodyInv, WithCodes
  <2>3. Goto(w, "nodes")
    BY <2>1 DEF Goto, TypeInv, TypeOK
  <2>4. AllBodies'
    BY <1>3, <2>2, <2>3, HolderNext
  <2> QED
    BY <1>2, <2>4 DEF ContentInv
<1> QED
  BY <1>4, <1>5

LEMMA CompileNext ==
  ASSUME TypeInv, LockInv, ContentInv, NEW w \in Workers, Compile(w)
  PROVE  ContentInv'
<1>1. /\ UNCHANGED <<status, hist, saveAt, codeNode, shared, codeLive, guarded,
                     sharedAt, codeAt, publishedAt, snap, readAt, todo>>
      /\ Active' = Active
      /\ pc[w] = "nodes" /\ todo[w] = {} /\ Goto(w, FirstWrite(w))
  BY DEF Compile, database, shopify, Active
<1>2. HistInv' /\ NodeInv' /\ ServedSincePublished'
  BY <1>1 DEF ContentInv, HistInv, NodeInv, ServedSincePublished
<1>3. BodyInv(w) /\ pc[w] \in Body
  BY <1>1, InBody DEF AfterRead, Body
<1>4. /\ pc'[w] = FirstWrite(w) /\ pc'[w] \in {"validate", "shared"}
      /\ pc'[w] = "shared" => Regular(w) = {}
  BY <1>1 DEF Goto, FirstWrite, TypeInv, TypeOK
<1>5. BodyInv(w)'
  BY <1>1, <1>3, <1>4 DEF BodyInv, WithCodes, Regular
<1>6. AllBodies'
  BY <1>1, <1>3, <1>5, HolderNext
<1> QED
  BY <1>2, <1>6 DEF ContentInv

LEMMA SyncValidationNext ==
  ASSUME TypeInv, LockInv, ContentInv, NEW w \in Workers, SyncValidation(w)
  PROVE  ContentInv'
<1> DEFINE step == IF pc[w] = "validate" THEN "shared" ELSE "store"
<1>1. /\ UNCHANGED <<status, hist, saveAt, codeNode, shared, codeLive, sharedAt,
                     codeAt, publishedAt, todo>>
      /\ Active' = Active
      /\ pc[w] \in {"validate", "relax"} /\ guarded' = snap[w]
      /\ Answered(w, step)
  BY DEF SyncValidation, database, Active
<1>2. BodyInv(w) /\ pc[w] \in Body
  BY <1>1, InBody DEF AfterRead, Body
<1>3. HistInv' /\ NodeInv' /\ ServedSincePublished'
  BY <1>1, <1>2
     DEF ContentInv, HistInv, NodeInv, ServedSincePublished, BodyInv
<1>4. ASSUME Goto(w, step), UNCHANGED <<snap, readAt>> PROVE BodyInv(w)'
  <2>1. /\ pc'[w] = step /\ snap' = snap /\ readAt' = readAt
        /\ pc[w] = "validate" => pc'[w] = "shared"
        /\ pc[w] = "relax" => pc'[w] = "store"
    BY <1>4, <1>1 DEF Goto, TypeInv, TypeOK
  <2> HIDE DEF step
  <2> QED
    BY <1>1, <1>2, <2>1 DEF BodyInv, WithCodes, Regular
<1> HIDE DEF step
<1>5. AllBodies'
  BY <1>1, <1>2, <1>4, AnsweredNext
<1> QED
  BY <1>3, <1>5 DEF ContentInv

LEMMA PushSharedNext ==
  ASSUME TypeInv, LockInv, ContentInv, NEW w \in Workers, PushShared(w)
  PROVE  ContentInv'
<1> DEFINE step == IF Regular(w) = {} THEN "relax" ELSE "store"
<1>1. /\ UNCHANGED <<status, hist, saveAt, codeNode, codeLive, guarded, codeAt,
                     publishedAt, todo>>
      /\ Active' = Active
      /\ pc[w] = "shared" /\ shared' = Regular(w) /\ sharedAt' = readAt[w]
      /\ Answered(w, step)
  BY DEF PushShared, database, Active
<1>2. BodyInv(w) /\ pc[w] \in Body
  BY <1>1, InBody DEF AfterRead, Body
<1>3. HistInv' /\ NodeInv' /\ ServedSincePublished'
  BY <1>1, <1>2
     DEF ContentInv, HistInv, NodeInv, ServedSincePublished, BodyInv, Regular
<1>4. ASSUME Goto(w, step), UNCHANGED <<snap, readAt>> PROVE BodyInv(w)'
  <2>0. step = "relax" \/ (step = "store" /\ Regular(w) # {})
    OBVIOUS
  <2> HIDE DEF step
  <2>1. /\ pc'[w] = step /\ snap' = snap /\ readAt' = readAt
        /\ pc'[w] = "relax" \/ (pc'[w] = "store" /\ Regular(w) # {})
    BY <1>4, <1>1, <2>0 DEF Goto, TypeInv, TypeOK
  <2>2. readAt[w] \in Nat
    BY DEF TypeInv, TypeOK
  <2> QED
    BY <1>1, <1>2, <2>1, <2>2 DEF BodyInv, WithCodes, Regular
<1> HIDE DEF step
<1>5. AllBodies'
  BY <1>1, <1>2, <1>4, AnsweredNext
<1> QED
  BY <1>3, <1>5 DEF ContentInv

LEMMA StoreCompiledNext ==
  ASSUME TypeInv, LockInv, ContentInv, NEW w \in Workers, StoreCompiled(w)
  PROVE  ContentInv'
<1>1. /\ UNCHANGED <<status, hist, saveAt, codeNode, shared, codeLive, guarded,
                     sharedAt, codeAt, publishedAt, snap, readAt>>
      /\ Active' = Active
      /\ pc[w] = "store" /\ Goto(w, "codes")
      /\ todo' = [todo EXCEPT ![w] = WithCodes(w)]
  BY DEF StoreCompiled, database, shopify, Active
<1>2. HistInv' /\ NodeInv' /\ ServedSincePublished'
  BY <1>1 DEF ContentInv, HistInv, NodeInv, ServedSincePublished
<1>3. BodyInv(w) /\ pc[w] \in Body
  BY <1>1, InBody DEF AfterRead, Body
<1>4. /\ pc'[w] = "codes" /\ todo'[w] = WithCodes(w)
      /\ codeLive \subseteq todo'[w]
  BY <1>1, <1>3 DEF Goto, BodyInv, WithCodes, TypeInv, TypeOK
<1>5. BodyInv(w)'
  BY <1>1, <1>3, <1>4 DEF BodyInv, WithCodes, Regular
<1>6. AllBodies'
  BY <1>1, <1>3, <1>5, HolderNext
<1> QED
  BY <1>2, <1>6 DEF ContentInv

LEMMA PushCodeNext ==
  ASSUME TypeInv, LockInv, ContentInv, NEW w \in Workers, NEW o \in Offers,
         PushCode(w, o)
  PROVE  ContentInv'
<1>1. /\ UNCHANGED <<status, hist, saveAt, codeNode, shared, guarded, sharedAt,
                     publishedAt>>
      /\ Active' = Active
      /\ pc[w] = "codes" /\ o \in todo[w]
      /\ codeLive' = codeLive \cup {o}
      /\ codeAt' = [codeAt EXCEPT ![o] = readAt[w]]
      /\ todo' = [todo EXCEPT ![w] = todo[w] \ {o}]
      /\ Answered(w, "codes")
  BY DEF PushCode, database, Active
<1>2. /\ BodyInv(w) /\ readAt[w] \in 1 .. Len(hist) /\ o \in CodeOffers
      /\ pc[w] \in Body
  BY <1>1, InBody DEF AfterRead, Body
<1>3. /\ codeAt \in [CodeOffers -> 1 .. Len(hist)]
      /\ codeAt'[o] = readAt[w]
      /\ \A c \in CodeOffers \ {o} : codeAt'[c] = codeAt[c]
  BY <1>1, <1>2 DEF TypeInv, TypeOK
<1>4. o \in hist[readAt[w]] /\ o \in codeNode /\ o \in guarded
  BY <1>1, <1>2 DEF BodyInv, WithCodes
<1>5. HistInv'
  BY <1>1, <1>2, <1>3, <1>4 DEF ContentInv, HistInv
<1>6. NodeInv' /\ ServedSincePublished'
  <2>1. NodeInv'
    BY <1>1, <1>4 DEF ContentInv, NodeInv
  <2>2. /\ codeLive \subseteq CodeOffers /\ publishedAt <= readAt[w]
        /\ ServedSincePublished
    BY <1>2 DEF ContentInv, BodyInv, TypeInv, TypeOK
  <2>3. ServedSincePublished'
    BY <1>1, <1>3, <2>2 DEF ServedSincePublished
  <2> QED
    BY <2>1, <2>3
<1>7. ASSUME Goto(w, "codes"), UNCHANGED <<snap, readAt>> PROVE BodyInv(w)'
  <2>1. /\ pc'[w] = "codes" /\ todo'[w] = todo[w] \ {o}
        /\ snap' = snap /\ readAt' = readAt
    BY <1>1, <1>7 DEF Goto, TypeInv, TypeOK
  <2>2. codeLive \subseteq CodeOffers
    BY DEF TypeInv, TypeOK
  <2> QED
    BY <1>1, <1>2, <1>3, <1>4, <2>1, <2>2 DEF BodyInv, WithCodes
<1>8. AllBodies'
  BY <1>1, <1>2, <1>7, AnsweredNext
<1> QED
  BY <1>5, <1>6, <1>8 DEF ContentInv

LEMMA WriteManifestNext ==
  ASSUME TypeInv, LockInv, ContentInv, NEW w \in Workers, WriteManifest(w)
  PROVE  ContentInv'
<1>1. /\ UNCHANGED <<status, hist, saveAt, codeNode, shared, codeLive, guarded,
                     sharedAt, codeAt, snap, readAt, todo>>
      /\ Active' = Active
      /\ pc[w] = "codes" /\ todo[w] = {} /\ Goto(w, "commit")
      /\ publishedAt' = readAt[w]
  BY DEF WriteManifest, database, shopify, Active
<1>2. /\ BodyInv(w) /\ pc[w] \in Body /\ readAt[w] \in Nat
  BY <1>1, InBody, SMTT(30) DEF AfterRead, Body, TypeInv, TypeOK
<1>3. HistInv' /\ NodeInv' /\ ServedSincePublished'
  BY <1>1, <1>2
     DEF ContentInv, HistInv, NodeInv, ServedSincePublished, BodyInv
<1>4. pc'[w] = "commit"
  BY <1>1 DEF Goto, TypeInv, TypeOK
<1>5. BodyInv(w)'
  BY <1>1, <1>2, <1>4 DEF BodyInv, WithCodes
<1>6. AllBodies'
  BY <1>1, <1>2, <1>5, HolderNext
<1> QED
  BY <1>3, <1>6 DEF ContentInv

\* The steps outside the body, and those that leave it, are quiet.
LEMMA OutsideNext ==
  ASSUME TypeInv, ContentInv, NEW w \in Workers,
         \/ Publish(w) \/ Retry(w) \/ Acquire(w) \/ LockTimeout(w) \/ Park(w)
         \/ ClearPending(w) \/ Commit(w) \/ Refused(w) \/ NotApplied(w) \/ Crash(w)
         \/ Reconcile \/ (\E o \in Offers : CompileError(w, o))
  PROVE  ContentInv'
<1>0. /\ pc \in [Workers -> PcValues] /\ snap \in [Workers -> SUBSET Offers]
      /\ readAt \in [Workers -> 0 .. Len(hist)] /\ Cron \in Workers
  BY DEF TypeInv, TypeOK, Workers
<1> USE <1>0 DEF Quiet, AfterRead, Body, Goto, database, Leave
<1>1. CASE Publish(w) \/ Retry(w)
  BY <1>1, QuietNext DEF Publish, Retry, Start
<1>2. CASE Reconcile
  BY <1>2, QuietNext DEF Reconcile, Start
<1>3. CASE Acquire(w) \/ LockTimeout(w)
  BY <1>3, QuietNext DEF Acquire, LockTimeout
<1>4. CASE Park(w) \/ ClearPending(w)
  BY <1>4, QuietNext DEF Park, ClearPending
<1>5. CASE Commit(w)
  BY <1>5, QuietNext DEF Commit
<1>6. CASE Refused(w)
  BY <1>6, QuietNext DEF Refused, Fail
<1>7. CASE NotApplied(w)
  BY <1>7, QuietNext DEF NotApplied
<1>8. CASE Crash(w)
  BY <1>8, QuietNext DEF Crash
<1>9. CASE \E o \in Offers : CompileError(w, o)
  BY <1>9, QuietNext DEF CompileError, Fail
<1> QED
  BY <1>1, <1>2, <1>3, <1>4, <1>5, <1>6, <1>7, <1>8, <1>9

LEMMA ContentNext ==
  ASSUME MaxDrops = 0, TypeInv, LockInv, ContentInv, [Next]_vars
  PROVE  ContentInv'
<1>1. CASE Reconcile
  <2>1. Cron \in Workers
    BY DEF Workers
  <2> QED
    BY <1>1, <2>1, OutsideNext
<1>2. ASSUME NEW w \in Workers, Step(w) PROVE ContentInv'
  BY <1>2, OutsideNext, ReadNext, NeutralizeNext, NeutralizedNext,
     CompileCodeNext, CompileNext, SyncValidationNext, PushSharedNext,
     StoreCompiledNext, PushCodeNext, WriteManifestNext DEF Step
<1>3. ASSUME NEW w \in Workers, Trouble(w) PROVE ContentInv'
  <2>1. ~LoseConnection(w)
    BY DEF LoseConnection, TypeInv, TypeOK
  <2> QED
    BY <1>3, <2>1, OutsideNext DEF Trouble
<1>4. ASSUME NEW w \in Workers, NEW o \in Offers, Save(w, o) PROVE ContentInv'
  BY <1>4, SaveNext
<1>5. CASE UNCHANGED vars
  <2>1. Quiet
    BY <1>5 DEF Quiet, vars, database, calls
  <2> QED
    BY <2>1, QuietNext
<1> QED
  BY <1>1, <1>2, <1>3, <1>4, <1>5 DEF Next

LEMMA SafeInit == Init => SafeInv
<1> SUFFICES ASSUME Init PROVE SafeInv
  OBVIOUS
<1>1. LockInv /\ AllBodies
  BY PublisherAssumption
     DEF Init, LockInv, AllBodies, AfterRead, Body, Workers
<1>2. HistInv /\ NodeInv /\ ServedSincePublished
  BY DEF Init, HistInv, NodeInv, ServedSincePublished, Active
<1> QED
  BY <1>1, <1>2 DEF SafeInv, ContentInv

LEMMA SafeNext ==
  ASSUME MaxDrops = 0, TypeInv, SafeInv, [Next]_vars
  PROVE  SafeInv'
  BY LockNext, ContentNext DEF SafeInv

\* Without a lost lock connection the invariant holds in every reachable state.
THEOREM Safe ==
  ASSUME MaxDrops = 0
  PROVE  Spec => [](TypeInv /\ SafeInv)
  BY SafeInit, SafeNext, TypeInvInit, TypeInvNext, PTL DEF Spec

\* A code offer served by its own node is always guarded by the cart validation.
THEOREM CodesGuarded ==
  ASSUME MaxDrops = 0
  PROVE  Spec => []LiveCodesAreGuarded
<1>1. SafeInv => LiveCodesAreGuarded
  BY DEF SafeInv, ContentInv, NodeInv, LiveCodesAreGuarded
<1> QED
  BY <1>1, Safe, PTL

\* Shopify never serves anything older than the last complete publish.
THEOREM NothingOlderServed ==
  ASSUME MaxDrops = 0
  PROVE  Spec => []ServedSincePublished
<1>1. SafeInv => ServedSincePublished
  BY DEF SafeInv, ContentInv
<1> QED
  BY <1>1, Safe, PTL

----------------------------------------------------------------------------
(* What single steps may do.                                               *)

\* Only the push of the shared configuration changes what the shared nodes serve.
LEMMA OnlyPushShared ==
  ASSUME [Next]_vars
  PROVE  UNCHANGED shared \/ \E w \in Workers : PushShared(w)
<1> USE DEF shopify
<1>1. CASE Reconcile
  BY <1>1 DEF Reconcile, Start
<1>2. ASSUME NEW w \in Workers, Step(w), ~PushShared(w) PROVE UNCHANGED shared
  BY <1>2 DEF Step, Publish, Start, Acquire, LockTimeout, Park, Retry, ReadOffers,
     Neutralized, Compile, SyncValidation, StoreCompiled, WriteManifest, Commit,
     ClearPending, Neutralize, CompileCode, CompileError, PushCode
<1>3. ASSUME NEW w \in Workers, Trouble(w) PROVE UNCHANGED shared
  BY <1>3 DEF Trouble, Refused, NotApplied, Crash, LoseConnection
<1>4. ASSUME NEW w \in Workers, NEW o \in Offers, Save(w, o) PROVE UNCHANGED shared
  BY <1>4 DEF Save
<1>5. CASE UNCHANGED vars
  BY <1>5 DEF vars
<1> QED
  BY <1>1, <1>2, <1>3, <1>4, <1>5 DEF Next

\* The shared configuration never starts serving an offer the cart validation
\* does not know.
THEOREM GuardrailsFirst ==
  ASSUME MaxDrops = 0
  PROVE  Spec => NewOffersAreGuarded
<1>1. ASSUME TypeInv, SafeInv, [Next]_vars
      PROVE  [shared' \ shared \subseteq guarded']_vars
  <2>1. CASE UNCHANGED shared
    BY <2>1
  <2>2. ASSUME NEW w \in Workers, PushShared(w)
        PROVE  shared' \ shared \subseteq guarded'
    <3>1. BodyInv(w) /\ pc[w] = "shared"
      BY <2>2, <1>1, InBody DEF SafeInv, PushShared, AfterRead, Body
    <3>2. shared' = Regular(w) /\ guarded' = guarded
      BY <2>2 DEF PushShared
    <3> QED
      BY <3>1, <3>2 DEF BodyInv, Regular
  <2> QED
    BY <1>1, <2>1, <2>2, OnlyPushShared
<1> QED
  BY <1>1, Safe, PTL DEF Spec, NewOffersAreGuarded

\* Only a compile error blames an offer.
LEMMA OnlyCompileErrorBlames ==
  ASSUME TypeInv, [Next]_vars, NEW w \in Workers, blame'[w] \in Offers,
         blame[w] = None
  PROVE  \E o \in Offers : CompileError(w, o)
<1>0. /\ None \notin Offers /\ blame \in [Workers -> Offers \cup {None}]
      /\ blame' # blame
  BY PublisherAssumption DEF TypeInv, TypeOK
<1> USE <1>0 DEF calls
<1>1. CASE Reconcile
  BY <1>1 DEF Reconcile, Start
<1>2. ASSUME NEW v \in Workers, Step(v) PROVE \E o \in Offers : CompileError(v, o)
  <2>1. ASSUME NEW o \in Offers, CompileCode(v, o) PROVE FALSE
    BY <2>1 DEF CompileCode, Fail
  <2> QED
    BY <1>2, <2>1 DEF Step, Publish, Start, Acquire, LockTimeout, Park, Retry,
       ReadOffers, Neutralized, Compile, SyncValidation, PushShared,
       StoreCompiled, WriteManifest, Commit, ClearPending, Neutralize, PushCode
<1>3. ASSUME NEW v \in Workers, Trouble(v) PROVE FALSE
  BY <1>3 DEF Trouble, Refused, Fail, NotApplied, Crash, LoseConnection
<1>4. ASSUME NEW v \in Workers, NEW o \in Offers, Save(v, o) PROVE FALSE
  BY <1>4 DEF Save
<1>5. CASE UNCHANGED vars
  BY <1>5 DEF vars
<1>6. ASSUME NEW v \in Workers, NEW o \in Offers, CompileError(v, o) PROVE v = w
  BY <1>6 DEF CompileError, Fail
<1> QED
  BY <1>1, <1>2, <1>3, <1>4, <1>5, <1>6 DEF Next

\* A publish that fails on a regular offer has already stopped the codes of every
\* offer it saw as not active.
THEOREM StaleCodesStopped ==
  ASSUME MaxDrops = 0
  PROVE  Spec => CompileErrorStopsStaleCodes
<1>1. ASSUME TypeInv, SafeInv, [Next]_vars, NEW w \in Workers,
             blame'[w] \in Offers, blame[w] = None
      PROVE  codeLive \subseteq snap[w]
  <2>1. pc[w] = "nodes"
    BY <1>1, OnlyCompileErrorBlames DEF CompileError
  <2>2. BodyInv(w)
    BY <1>1, <2>1, InBody DEF SafeInv, AfterRead, Body
  <2> QED
    BY <2>1, <2>2 DEF BodyInv
<1>2. TypeInv /\ SafeInv /\ [Next]_vars =>
        [\A w \in Workers : blame'[w] \in Offers /\ blame[w] = None
           => codeLive \subseteq snap[w]]_vars
  BY <1>1
<1> QED
  BY <1>2, Safe, PTL DEF Spec, CompileErrorStopsStaleCodes

----------------------------------------------------------------------------
(* Publisher implements ShopReplica.                                       *)

LEMMA ReplicaInit == Init => Replica!Init
<1> SUFFICES ASSUME Init PROVE Replica!Init
  OBVIOUS
<1>1. Active \in SUBSET Offers /\ hist = <<Active>> /\ hist[1] = Active
  BY DEF Init, Active
<1>2. SlotAt = [n \in Slots |-> 1]
  BY DEF Init, SlotAt, Slots
<1>3. SlotServes = [n \in Slots |-> hist[1] \cap SlotOffers[n]]
  BY <1>1 DEF Init, SlotServes, SlotOffers, Slots, Active
<1> QED
  BY <1>1, <1>2, <1>3 DEF Replica!Init

\* Writing one code node is the abstract Serve of its slot.
LEMMA CodeSlotServed ==
  ASSUME TypeInv, NEW o \in CodeOffers, NEW k \in codeAt[o] .. Len(hist),
         UNCHANGED <<hist, shared, sharedAt>>,
         codeAt' = [codeAt EXCEPT ![o] = k],
         codeLive' \ {o} = codeLive \ {o},
         o \in codeLive' <=> o \in hist[k]
  PROVE  Replica!Serve(o)
<1>1. o \in Slots /\ o # SharedSlot /\ codeAt \in [CodeOffers -> 1 .. Len(hist)]
  BY PublisherAssumption DEF Slots, SharedSlot, TypeInv, TypeOK
<1>2. k \in SlotAt[o] .. Len(hist)
  BY <1>1 DEF SlotAt
<1>3. SlotAt' = [SlotAt EXCEPT ![o] = k]
  BY <1>1 DEF SlotAt, Slots
<1>4. SlotServes' = [SlotServes EXCEPT ![o] = hist[k] \cap SlotOffers[o]]
  <2>1. SlotServes'[o] = hist[k] \cap SlotOffers[o]
    BY <1>1 DEF SlotServes, SlotOffers
  <2>2. \A n \in Slots \ {o} : SlotServes'[n] = SlotServes[n]
    BY <1>1 DEF SlotServes
  <2> QED
    BY <1>1, <2>1, <2>2 DEF SlotServes
<1> QED
  BY <1>2, <1>3, <1>4 DEF Replica!Serve

LEMMA SharedSlotServed ==
  ASSUME TypeInv, SafeInv, NEW w \in Workers, PushShared(w)
  PROVE  Replica!Serve(SharedSlot)
<1>1. /\ UNCHANGED <<hist, codeLive, codeAt>> /\ pc[w] = "shared"
      /\ shared' = Regular(w) /\ sharedAt' = readAt[w]
  BY DEF PushShared, database
<1>2. /\ BodyInv(w) /\ readAt[w] \in 1 .. Len(hist) /\ snap[w] \subseteq Offers
  BY <1>1, InBody DEF SafeInv, AfterRead, Body
<1>3. SharedSlot \in Slots /\ SharedSlot \notin CodeOffers /\ sharedAt \in Nat
  BY PublisherAssumption DEF Slots, SharedSlot, TypeInv, TypeOK
<1>4. readAt[w] \in SlotAt[SharedSlot] .. Len(hist)
  BY <1>2, <1>3 DEF SlotAt, BodyInv
<1>5. SlotAt' = [SlotAt EXCEPT ![SharedSlot] = readAt[w]]
  BY <1>1, <1>3 DEF SlotAt, Slots
<1>6. SlotServes' = [SlotServes EXCEPT ![SharedSlot] =
                       hist[readAt[w]] \cap SlotOffers[SharedSlot]]
  BY <1>1, <1>2, <1>3 DEF SlotServes, SlotOffers, Slots, Regular, BodyInv
<1> QED
  BY <1>1, <1>4, <1>5, <1>6 DEF Replica!Serve

LEMMA ReplicaStutters ==
  ASSUME UNCHANGED <<hist, shared, codeLive, sharedAt, codeAt>>
  PROVE  UNCHANGED Replica!vars
  BY DEF Replica!vars, SlotAt, SlotServes

LEMMA ReplicaNext ==
  ASSUME TypeInv, SafeInv, [Next]_vars
  PROVE  [Replica!Next]_(Replica!vars)
<1> DEFINE Goal == [Replica!Next]_(Replica!vars)
<1>1. ASSUME Reconcile PROVE Goal
  BY <1>1, ReplicaStutters DEF Reconcile, Start, database, shopify
<1>2. ASSUME NEW w \in Workers, NEW o \in Offers, Save(w, o) PROVE Goal
  <2>1. PICK f, b : WriteStatus(w, f, b)
    BY <1>2 DEF Save
  <2>2. /\ UNCHANGED <<shared, codeLive, sharedAt, codeAt>>
        /\ hist' = Append(hist, {c \in Offers : f[c] = "active"})
    BY <1>2, <2>1 DEF Save, WriteStatus, shopify
  <2>3. Replica!Save
    BY <2>2 DEF Replica!Save, SlotAt, SlotServes
  <2> QED
    BY <2>3 DEF Replica!Next
<1>3. ASSUME NEW w \in Workers, PushShared(w) PROVE Goal
  <2>1. SharedSlot \in Slots
    BY DEF Slots
  <2> QED
    BY <1>3, <2>1, SharedSlotServed DEF Replica!Next
<1>4. ASSUME NEW w \in Workers, NEW o \in Offers, Neutralize(w, o) PROVE Goal
  <2>1. /\ UNCHANGED <<hist, shared, sharedAt>>
        /\ codeLive' = codeLive \ {o} /\ codeAt' = [codeAt EXCEPT ![o] = readAt[w]]
        /\ pc[w] = "neutralize" /\ o \in todo[w]
    BY <1>4 DEF Neutralize, database
  <2>2. /\ BodyInv(w) /\ readAt[w] \in 1 .. Len(hist) /\ o \in CodeOffers
    BY <2>1, InBody DEF SafeInv, AfterRead, Body
  <2>3. /\ o \notin hist[readAt[w]] /\ readAt[w] \in codeAt[o] .. Len(hist)
        /\ o \in Slots
    BY <2>1, <2>2 DEF BodyInv, TypeInv, TypeOK, Slots
  <2> QED
    BY <2>1, <2>2, <2>3, CodeSlotServed DEF Replica!Next
<1>5. ASSUME NEW w \in Workers, NEW o \in Offers, PushCode(w, o) PROVE Goal
  <2>1. /\ UNCHANGED <<hist, shared, sharedAt>>
        /\ codeLive' = codeLive \cup {o} /\ codeAt' = [codeAt EXCEPT ![o] = readAt[w]]
        /\ pc[w] = "codes" /\ o \in todo[w]
    BY <1>5 DEF PushCode, database
  <2>2. /\ BodyInv(w) /\ readAt[w] \in 1 .. Len(hist) /\ o \in CodeOffers
    BY <2>1, InBody DEF SafeInv, AfterRead, Body
  <2>3. /\ o \in hist[readAt[w]] /\ readAt[w] \in codeAt[o] .. Len(hist)
        /\ o \in Slots
    BY <2>1, <2>2 DEF BodyInv, TypeInv, TypeOK, Slots
  <2> QED
    BY <2>1, <2>2, <2>3, CodeSlotServed DEF Replica!Next
<1>6. ASSUME NEW w \in Workers,
             \/ Publish(w) \/ Acquire(w) \/ LockTimeout(w) \/ Park(w) \/ Retry(w)
             \/ ReadOffers(w) \/ Neutralized(w) \/ Compile(w) \/ SyncValidation(w)
             \/ StoreCompiled(w) \/ WriteManifest(w) \/ Commit(w) \/ ClearPending(w)
             \/ \E o \in Offers : CompileCode(w, o) \/ CompileError(w, o)
      PROVE  Goal
  <2>1. ASSUME NEW o \in Offers, CompileCode(w, o) \/ CompileError(w, o)
        PROVE  UNCHANGED <<hist, shared, codeLive, sharedAt, codeAt>>
    BY <2>1 DEF CompileCode, CompileError, database, shopify
  <2>2. UNCHANGED <<hist, shared, codeLive, sharedAt, codeAt>>
    BY <1>6, <2>1
       DEF Publish, Start, Acquire, LockTimeout, Park, Retry, ReadOffers,
           Neutralized, Compile, SyncValidation, StoreCompiled, WriteManifest,
           Commit, ClearPending, database, shopify
  <2> QED
    BY <2>2, ReplicaStutters
<1>7. ASSUME NEW w \in Workers, Trouble(w) PROVE Goal
  BY <1>7, ReplicaStutters
     DEF Trouble, Refused, NotApplied, Crash, LoseConnection, database, shopify
<1>8. ASSUME UNCHANGED vars PROVE Goal
  BY <1>8, ReplicaStutters DEF vars, database, shopify
<1> HIDE DEF Goal
<1>9. ASSUME NEW w \in Workers, Step(w) PROVE Goal
  <2>1. ASSUME NEW o \in Offers, CompileCode(w, o) \/ CompileError(w, o)
        PROVE  Goal
    BY <1>6, <2>1
  <2> QED
    BY <1>3, <1>4, <1>5, <1>6, <1>9, <2>1 DEF Step
<1>10. Goal
  BY <1>1, <1>2, <1>7, <1>8, <1>9 DEF Next
<1> QED
  BY <1>10 DEF Goal

\* Shopify is a replica of the database's history: each node serves its offers of
\* one past state and only moves forward.
THEOREM Implements ==
  ASSUME MaxDrops = 0
  PROVE  Spec => IsReplica
  BY ReplicaInit, ReplicaNext, Safe, PTL DEF Spec, IsReplica, Replica!Spec

----------------------------------------------------------------------------
(* No answered save is lost.                                               *)

\* A step that answers nothing, sets and clears no flag, and brings no call to
\* a place where it can do damage.
Unanswered ==
  /\ UNCHANGED <<saveAt, pending>> /\ publishedAt <= publishedAt'
  /\ \A w \in Calls : /\ result'[w] \in {"published", "pending"} =>
                           result'[w] = result[w]
                      /\ pc'[w] = "idle" => pc[w] = "idle" /\ result'[w] = result[w]
  /\ \A v \in Workers :
       /\ pc'[v] \in AfterRead => pc[v] \in AfterRead /\ readAt'[v] = readAt[v]
       /\ pc'[v] = "clear" => pc[v] = "clear"
       /\ v \notin newer' => v \notin newer \/ pc'[v] \notin AfterRead \cup {"clear"}

LEMMA UnansweredNext ==
  ASSUME TypeInv, TypeInv', KeepInv, Unanswered
  PROVE  KeepInv'
<1>1. /\ saveAt' = saveAt /\ pending' = pending /\ publishedAt <= publishedAt'
      /\ publishedAt \in Nat /\ publishedAt' \in Nat
      /\ \A w \in Workers : saveAt[w] \in Nat
      /\ Calls \subseteq Workers
  <2>1. saveAt' = saveAt /\ pending' = pending /\ publishedAt <= publishedAt'
    BY DEF Unanswered
  <2>2. publishedAt \in Nat /\ publishedAt' \in Nat
    BY DEF TypeInv, TypeOK
  <2>3. \A w \in Workers : saveAt[w] \in Nat
    BY DEF TypeInv, TypeOK
  <2> QED
    BY <2>1, <2>2, <2>3 DEF Workers
<1>2. \A w \in Workers : saveAt[w] <= publishedAt => saveAt[w] <= publishedAt'
  BY <1>1
<1>3. \A w \in Calls : /\ pc'[w] = "idle" => result'[w] = "none" /\ saveAt'[w] = 0
                       /\ result'[w] = "published" => saveAt'[w] <= publishedAt'
  BY <1>1, <1>2 DEF Unanswered, KeepInv, SaveInv
<1>4. \A w \in Workers : pc'[w] = "clear" => saveAt'[w] <= publishedAt'
  BY <1>1, <1>2 DEF Unanswered, KeepInv, SaveInv
<1>5. ASSUME NEW v \in Workers, v \notin newer', NEW w \in Calls,
             result'[w] = "pending"
      PROVE  /\ pc'[v] \in AfterRead => saveAt'[w] <= readAt'[v]
             /\ pc'[v] = "clear" => saveAt'[w] <= publishedAt'
  BY <1>1, <1>2, <1>5 DEF Unanswered, KeepInv, SaveInv
<1>6. ConfirmedSaveIsKept'
  BY <1>1, <1>2 DEF Unanswered, KeepInv, ConfirmedSaveIsKept
<1> QED
  BY <1>3, <1>4, <1>5, <1>6 DEF KeepInv, SaveInv

\* The steps of a call that neither read the offers nor end it.
LEMMA UnansweredSteps ==
  ASSUME TypeInv, SafeInv, NEW w \in Workers,
         \/ Publish(w) \/ Retry(w) \/ Reconcile \/ Acquire(w) \/ LockTimeout(w)
         \/ Neutralized(w) \/ Compile(w) \/ SyncValidation(w) \/ PushShared(w)
         \/ StoreCompiled(w) \/ WriteManifest(w)
         \/ Refused(w) \/ NotApplied(w) \/ Crash(w)
         \/ (\E o \in Offers : \/ Neutralize(w, o) \/ CompileCode(w, o)
                               \/ CompileError(w, o) \/ PushCode(w, o))
  PROVE  Unanswered
<1>0. /\ pc \in [Workers -> PcValues] /\ readAt \in [Workers -> 0 .. Len(hist)]
      /\ result \in [Workers -> {"none", "published", "pending", "failed"}]
      /\ publishedAt \in Nat
      /\ Calls \subseteq Workers /\ Cron \in Workers /\ Cron \notin Calls
      /\ publishedAt <= publishedAt
  BY PublisherAssumption, SMTT(20) DEF TypeInv, TypeOK, Workers
<1> USE <1>0 DEF Unanswered, AfterRead, Body, Goto, database, flag, Leave
<1>1. CASE Publish(w)
  BY <1>1 DEF Publish, Start
<1>2. CASE Retry(w)
  BY <1>2 DEF Retry, Start
<1>3. CASE Reconcile
  BY <1>3 DEF Reconcile, Start
<1>4. CASE Acquire(w) \/ LockTimeout(w)
  BY <1>4 DEF Acquire, LockTimeout
<1>5. CASE Neutralized(w)
  BY <1>5 DEF Neutralized
<1>6. CASE Compile(w)
  BY <1>6 DEF Compile, FirstWrite
<1>7. CASE SyncValidation(w)
  BY <1>7 DEF SyncValidation, Answered
<1>8. CASE PushShared(w)
  BY <1>8 DEF PushShared, Answered
<1>9. CASE StoreCompiled(w)
  BY <1>9 DEF StoreCompiled
<1>10. CASE WriteManifest(w)
  <2>1. pc[w] = "codes" /\ pc[w] \in AfterRead
    BY <1>10 DEF WriteManifest
  <2>2. publishedAt <= readAt[w]
    BY <2>1, InBody DEF SafeInv, BodyInv
  <2> QED
    BY <1>10, <2>2 DEF WriteManifest
<1>11. CASE Refused(w)
  BY <1>11 DEF Refused, Fail
<1>12. CASE NotApplied(w)
  BY <1>12 DEF NotApplied
<1>13. CASE Crash(w)
  BY <1>13 DEF Crash
<1>14. ASSUME NEW o \in Offers, Neutralize(w, o) PROVE Unanswered
  BY <1>14 DEF Neutralize, Answered
<1>15. ASSUME NEW o \in Offers, CompileCode(w, o) PROVE Unanswered
  BY <1>15 DEF CompileCode, Fail
<1>16. ASSUME NEW o \in Offers, CompileError(w, o) PROVE Unanswered
  BY <1>16 DEF CompileError, Fail
<1>17. ASSUME NEW o \in Offers, PushCode(w, o) PROVE Unanswered
  BY <1>17 DEF PushCode, Answered
<1> QED
  BY <1>1, <1>2, <1>3, <1>4, <1>5, <1>6, <1>7, <1>8, <1>9, <1>10, <1>11, <1>12,
     <1>13, <1>14, <1>15, <1>16, <1>17

LEMMA SaveKeeps ==
  ASSUME TypeInv, KeepInv, NEW w \in Workers, NEW o \in Offers, Save(w, o)
  PROVE  KeepInv'
<1>0. /\ pc \in [Workers -> PcValues] /\ saveAt \in [Workers -> 0 .. Len(hist)]
      /\ Calls \subseteq Workers
  BY DEF TypeInv, TypeOK, Workers
<1>1. /\ UNCHANGED <<pending, newer, result, readAt, publishedAt>>
      /\ w \in Calls /\ pc[w] = "idle" /\ result[w] = "none"
      /\ pc' = [pc EXCEPT ![w] = "saved"]
      /\ \A v \in Workers \ {w} : saveAt'[v] = saveAt[v]
  BY <1>0 DEF Save, WriteStatus, Goto, flag, KeepInv, SaveInv
<1>2. \A v \in Workers : /\ v = w => pc'[v] = "saved"
                         /\ v # w => pc'[v] = pc[v] /\ saveAt'[v] = saveAt[v]
  BY <1>0, <1>1
<1>3. "saved" \notin AfterRead \cup {"clear", "idle"}
  BY DEF AfterRead, Body
<1>4. SaveInv'
  BY <1>0, <1>1, <1>2, <1>3 DEF KeepInv, SaveInv
<1>5. ConfirmedSaveIsKept'
  BY <1>0, <1>1, <1>2 DEF KeepInv, ConfirmedSaveIsKept
<1> QED
  BY <1>4, <1>5 DEF KeepInv

\* Parking flags the shop, and every running call as older than the flag.
LEMMA ParkKeeps ==
  ASSUME TypeInv, KeepInv, NEW w \in Workers, Park(w)
  PROVE  KeepInv'
<1>0. /\ pc \in [Workers -> PcValues] /\ Calls \subseteq Workers
      /\ result \in [Workers -> {"none", "published", "pending", "failed"}]
  BY DEF TypeInv, TypeOK, Workers
<1>1. /\ UNCHANGED <<saveAt, readAt, publishedAt>>
      /\ pc[w] = "park" /\ pending' = TRUE
      /\ newer' = {v \in Workers : Running(v)}
      /\ result' = [result EXCEPT ![w] = "pending"]
      /\ pc'[w] \in {"sleep", "end"}
      /\ \A v \in Workers \ {w} : pc'[v] = pc[v]
  BY <1>0 DEF Park, Goto, database
<1>2. \A v \in Workers \ newer' : pc'[v] \in {"idle", "end"}
  BY <1>0, <1>1 DEF Running
<1>3. \A v \in Workers : /\ pc'[v] = "clear" => pc[v] = "clear"
                         /\ pc'[v] = "idle" => pc[v] = "idle" /\ v # w
  BY <1>1
<1>4. SaveInv'
  BY <1>0, <1>1, <1>2, <1>3 DEF KeepInv, SaveInv, AfterRead, Body
<1> QED
  BY <1>1, <1>4 DEF KeepInv, ConfirmedSaveIsKept

\* What is read under the lock is as new as every save.
LEMMA ReadKeeps ==
  ASSUME TypeInv, KeepInv, NEW w \in Workers, ReadOffers(w)
  PROVE  KeepInv'
<1>0. /\ pc \in [Workers -> PcValues] /\ Calls \subseteq Workers
      /\ readAt \in [Workers -> 0 .. Len(hist)]
      /\ \A v \in Workers : saveAt[v] <= Len(hist)
  BY SMTT(20) DEF TypeInv, TypeOK, Workers
<1>1. /\ UNCHANGED <<saveAt, result, publishedAt, pending, newer>>
      /\ pc'[w] = "neutralize" /\ readAt'[w] = Len(hist)
      /\ \A v \in Workers \ {w} : pc'[v] = pc[v] /\ readAt'[v] = readAt[v]
  BY <1>0 DEF ReadOffers, Goto, database, flag
<1>2. SaveInv'
  BY <1>0, <1>1 DEF KeepInv, SaveInv
<1> QED
  BY <1>1, <1>2 DEF KeepInv, ConfirmedSaveIsKept

\* A publish commits with everything it read on Shopify.
LEMMA CommitKeeps ==
  ASSUME TypeInv, SafeInv, KeepInv, NEW w \in Workers, Commit(w)
  PROVE  KeepInv'
<1>0. /\ pc \in [Workers -> PcValues] /\ Calls \subseteq Workers
      /\ readAt \in [Workers -> 0 .. Len(hist)]
  BY DEF TypeInv, TypeOK, Workers
<1>1. /\ UNCHANGED <<saveAt, result, publishedAt, pending, newer>>
      /\ pc[w] = "commit" /\ pc'[w] \in {"clear", "end"}
      /\ \A v \in Workers \ {w} : pc'[v] = pc[v] /\ readAt'[v] = readAt[v]
  BY <1>0 DEF Commit, Goto, Leave, database, flag
<1>2. pc[w] \in AfterRead
  BY <1>1 DEF AfterRead, Body
<1>3. publishedAt = readAt[w] /\ saveAt[w] <= publishedAt
  BY <1>1, <1>2, InBody DEF SafeInv, BodyInv
<1>4. \A v \in Workers : pc'[v] = "idle" => pc[v] = "idle"
  BY <1>1
<1>5. "clear" \notin AfterRead /\ "end" \notin AfterRead
  BY DEF AfterRead, Body
<1>6. ASSUME NEW v \in Workers \ newer', NEW u \in Calls, result'[u] = "pending"
      PROVE  /\ pc'[v] \in AfterRead => saveAt'[u] <= readAt'[v]
             /\ pc'[v] = "clear" => saveAt'[u] <= publishedAt'
  BY <1>1, <1>2, <1>3, <1>5, <1>6 DEF KeepInv, SaveInv
<1>7. SaveInv'
  BY <1>0, <1>1, <1>3, <1>4, <1>6 DEF KeepInv, SaveInv
<1> QED
  BY <1>1, <1>7 DEF KeepInv, ConfirmedSaveIsKept

\* Only a call that has published every pending save clears the flag.
LEMMA ClearKeeps ==
  ASSUME TypeInv, KeepInv, NEW w \in Workers, ClearPending(w)
  PROVE  KeepInv'
<1>0. /\ pc \in [Workers -> PcValues] /\ Calls \subseteq Workers
      /\ result \in [Workers -> {"none", "published", "pending", "failed"}]
  BY DEF TypeInv, TypeOK, Workers
<1>1. /\ UNCHANGED <<saveAt, readAt, publishedAt, newer>>
      /\ pc[w] = "clear" /\ pc'[w] = "end"
      /\ pending' = (pending /\ ~ClearsFlag(w))
      /\ result'[w] = IF result[w] = "none" THEN "published" ELSE result[w]
      /\ \A v \in Workers \ {w} : pc'[v] = pc[v] /\ result'[v] = result[v]
  BY <1>0 DEF ClearPending, Goto, database
<1>2. saveAt[w] <= publishedAt
  BY <1>1 DEF KeepInv, SaveInv
<1>3. \A v \in Workers : result'[v] = "pending" => result[v] = "pending"
  BY <1>1
<1>4. \A v \in Workers : pc'[v] \in AfterRead \cup {"clear", "idle"} =>
                           v # w /\ pc'[v] = pc[v]
  BY <1>1 DEF AfterRead, Body
<1>5. SaveInv'
  BY <1>0, <1>1, <1>2, <1>3, <1>4 DEF KeepInv, SaveInv
<1>6. ASSUME NEW u \in Calls, result'[u] \in {"published", "pending"}
      PROVE  pending' \/ saveAt'[u] <= publishedAt'
  <2>1. CASE result'[u] = "published"
    BY <1>1, <1>5, <2>1 DEF SaveInv
  <2>2. CASE result'[u] = "pending" /\ w \in newer
    <3>1. pending \/ saveAt[u] <= publishedAt
      BY <1>0, <1>3, <2>2 DEF KeepInv, ConfirmedSaveIsKept
    <3> QED
      BY <1>1, <2>2, <3>1 DEF ClearsFlag
  <2>3. CASE result'[u] = "pending" /\ w \notin newer
    BY <1>0, <1>1, <1>3, <2>3 DEF KeepInv, SaveInv
  <2> QED
    BY <1>6, <2>1, <2>2, <2>3
<1> QED
  BY <1>5, <1>6 DEF KeepInv, ConfirmedSaveIsKept

LEMMA KeepInit == Init => KeepInv
  BY DEF Init, KeepInv, SaveInv, ConfirmedSaveIsKept, Workers, AfterRead

LEMMA KeepNext ==
  ASSUME MaxDrops = 0, TypeInv, TypeInv', SafeInv, KeepInv, [Next]_vars
  PROVE  KeepInv'
<1>1. CASE Reconcile
  <2>1. Cron \in Workers
    BY DEF Workers
  <2> QED
    BY <1>1, <2>1, UnansweredSteps, UnansweredNext
<1>2. ASSUME NEW w \in Workers, Step(w) PROVE KeepInv'
  BY <1>2, UnansweredSteps, UnansweredNext, ParkKeeps, ReadKeeps, CommitKeeps,
     ClearKeeps DEF Step
<1>3. ASSUME NEW w \in Workers, Trouble(w) PROVE KeepInv'
  <2>1. ~LoseConnection(w)
    BY DEF LoseConnection, TypeInv, TypeOK
  <2> QED
    BY <1>3, <2>1, UnansweredSteps, UnansweredNext DEF Trouble
<1>4. ASSUME NEW w \in Workers, NEW o \in Offers, Save(w, o) PROVE KeepInv'
  BY <1>4, SaveKeeps
<1>5. CASE UNCHANGED vars
  <2>1. publishedAt \in Nat /\ Calls \subseteq Workers
    BY DEF TypeInv, TypeOK, Workers
  <2>2. Unanswered
    BY <1>5, <2>1 DEF Unanswered, vars, database, flag, calls
  <2> QED
    BY <2>2, UnansweredNext
<1> QED
  BY <1>1, <1>2, <1>3, <1>4, <1>5 DEF Next

\* A save answered with success is in the last complete publish or the shop is
\* still flagged: no race of publishes, retries and flags loses it.
THEOREM NoSaveLost ==
  ASSUME MaxDrops = 0
  PROVE  Spec => []ConfirmedSaveIsKept
<1>1. KeepInv => ConfirmedSaveIsKept
  BY DEF KeepInv
<1> QED
  BY <1>1, KeepInit, KeepNext, Safe, PTL DEF Spec
=============================================================================

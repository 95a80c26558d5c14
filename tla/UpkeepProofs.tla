---------------------------- MODULE UpkeepProofs ----------------------------
(***************************************************************************)
(* Proofs about what has to come to an end by itself, for every value of the*)
(* constants:                                                              *)
(*   - WorkspaceRecovery: a dispatched order has its whole checkpoint, and *)
(*     whoever repeats it begins on the files of the checkpoint; an isolated*)
(*     order is put to a worker once, replaces no file of the owner, and loses*)
(*     nothing its worker wrote once it is verified;                       *)
(*   - NativeWorker: what a worker writes or sends its grants allow;        *)
(*   - MemoryGovernance and BadCaseLog: a candidate is decided once, what is *)
(*     in force was promoted, and no bad case is reported twice;            *)
(*   - Commitments and Opportunities: the saved state of the scanner is the  *)
(*     replay of the journal up to its sequence, and a commitment is proposed*)
(*     once for a date, and due again only when it moved on.                *)
(***************************************************************************)
EXTENDS MCUpkeep, BridgeProofs, FiniteSetTheorems, WellFoundedInduction, TLAPS

-----------------------------------------------------------------------------
(* WorkspaceRecovery.                                                        *)

\* The tree an order works in is there while it works.
InTree ==
  stage \in {"hashing", "copying", "working", "settling", "returning"} /\ Isolated => sandbox \in Trees

\* Between the stages the order has the status they leave it with.
Begun ==
  /\ stage \in {"hashing", "copying"} => order.status = "none"
  /\ stage \in {"dispatching", "working", "failing", "settling", "returning", "leaving"} => order.status # "none"
  /\ order.status # "none" => order.attempt >= 1
  /\ stage = "dispatching" => attempt >= 1
  /\ stage = "returning" /\ ~Isolated => pending = {}

Typed == RecoveryTypeOK /\ InTree /\ Begun

LEMMA WorkTreeIsATree ==
  ASSUME Typed, stage \in {"hashing", "copying", "working"}
  PROVE  WorkTree \in Trees
  BY DEF Typed, RecoveryTypeOK, InTree, WorkTree

LEMMA PreparedIsATree ==
  ASSUME Typed, Isolated, NEW tree, Prepared(tree)
  PROVE  tree \in Trees
<1>1. [f \in Files |-> IF live[f] = "absent" THEN "absent" ELSE "base"] \in Trees
  BY DEF Trees, Contents
<1> QED
  BY <1>1 DEF Typed, RecoveryTypeOK, Prepared

LEMMA RestoredIsATree ==
  ASSUME Typed
  PROVE  Restored(live) \in Trees
  BY DEF Typed, RecoveryTypeOK, Restored, Restorable, Trees

\* A tree with one file exchanged is a tree.
LEMMA WithOneFile ==
  ASSUME NEW tree \in Trees, NEW f \in Files, NEW c \in Contents
  PROVE  [tree EXCEPT ![f] = c] \in Trees
  BY DEF Trees

LEMMA FileOfTree ==
  ASSUME NEW tree \in Trees, NEW f \in Files
  PROVE  tree[f] \in Contents
  BY DEF Trees

LEMMA TypesHold == RecoverySpec => []Typed
<1> USE RecoveryAssumption
<1>1. RecoveryInit => Typed
  <2> SUFFICES ASSUME RecoveryInit PROVE Typed
    OBVIOUS
  <2>1. live \in Trees /\ copies \in Trees
    BY DEF RecoveryInit, Trees, Contents
  <2>2. order \in [status : {"none", "running", "failed", "completed"}, attempt : 0 .. Budget]
    BY DEF RecoveryInit
  <2> QED
    BY <2>1, <2>2 DEF RecoveryInit, Typed, RecoveryTypeOK, InTree, Begun, Stages
<1>2. Typed /\ [RecoveryNext]_recoveryVars => Typed'
  <2> SUFFICES ASSUME Typed, [RecoveryNext]_recoveryVars PROVE Typed'
    OBVIOUS
  <2>t. Typed
    OBVIOUS
  <2> USE DEF Typed, RecoveryTypeOK, InTree, Begun, Isolated, rest, durable, local, Stages
  <2>j. ASSUME NEW n \in 1 .. Budget + 1, stage \in {"idle", "failing"}, order.status # "none", n \in {order.attempt, order.attempt + 1}, Judge(n)
        PROVE  Typed'
    <3>1. CASE Repeat(n)
      BY <2>j, <3>1, <2>t, RestoredIsATree DEF Judge, Repeat
    <3>2. CASE ReconcileOrder
      BY <2>j, <3>2 DEF Judge, ReconcileOrder, Delivered, ChangedFiles
    <3>3. CASE Block
      BY <2>j, <3>3 DEF Judge, Block
    <3> QED
      BY <2>j, <3>1, <3>2, <3>3 DEF Judge
  <2>1. CASE BeginFresh
    <3>1. Isolated => sandbox' \in Trees
      BY <2>1, <2>t, PreparedIsATree DEF BeginFresh
    <3> QED
      BY <2>1, <3>1 DEF BeginFresh
  <2>2. CASE SaveHashes
    <3>1. WorkTree \in Trees
      BY <2>2, <2>t, WorkTreeIsATree DEF SaveHashes
    <3>2. pending' \subseteq Files
      BY <2>2 DEF SaveHashes, Present
    <3> QED
      BY <2>2, <3>1, <3>2 DEF SaveHashes
  <2>3. CASE CopyOne
    <3>1. WorkTree \in Trees
      BY <2>3, <2>t, WorkTreeIsATree DEF CopyOne
    <3>2. PICK f \in pending : /\ copies' = IF WorkTree[f] = "absent" THEN copies ELSE [copies EXCEPT ![f] = WorkTree[f]]
                              /\ pending' = pending \ {f}
      BY <2>3 DEF CopyOne
    <3>3. copies' \in Trees
      BY <3>1, <3>2, WithOneFile, FileOfTree
    <3> QED
      BY <2>3, <3>2, <3>3 DEF CopyOne
  <2>4. CASE RecordDispatch
    BY <2>4 DEF RecordDispatch
  <2>5. CASE BeginInterrupted
    BY <2>5, <2>j DEF BeginInterrupted
  <2>6. CASE BeginCompleted
    BY <2>6 DEF BeginCompleted
  <2>7. CASE Resume
    <3>1. Isolated => sandbox' \in Trees
      BY <2>7, <2>t, PreparedIsATree DEF Resume
    <3>0. AttemptsAllowed <= Budget /\ AttemptsAllowed \in Nat
      BY DEF AttemptsAllowed
    <3>1a. attempt <= AttemptsAllowed
      BY <2>7 DEF Resume
    <3>1b. attempt \in 0 .. Budget + 1
      OBVIOUS
    <3>2. attempt \in 0 .. Budget
      BY <3>0, <3>1a, <3>1b
    <3>3. order' \in [status : {"none", "running", "failed", "completed"}, attempt : 0 .. Budget]
      BY <2>7, <3>2 DEF Resume
    <3>4. order'.status # "none" /\ order'.attempt >= 1
      BY <2>7 DEF Resume
    <3> QED
      BY <2>7, <3>1, <3>3, <3>4 DEF Resume
  <2>8. CASE GiveUp
    BY <2>8 DEF GiveUp
  <2>9. CASE Complete
    BY <2>9 DEF Complete
  <2>10. CASE Fail
    BY <2>10 DEF Fail
  <2>11. CASE Catch
    BY <2>11, <2>j DEF Catch
  <2>12. CASE BeginSettling
    BY <2>12 DEF BeginSettling
  <2>13. CASE ReturnOne
    <3>1. PICK f \in pending :
            /\ IF live[f] = "absent" /\ f \notin Bulky
               THEN live' = [live EXCEPT ![f] = sandbox[f]] /\ returned' = returned \cup {f} /\ UNCHANGED kept
               ELSE kept' = TRUE /\ UNCHANGED <<live, returned>>
            /\ pending' = pending \ {f}
      BY <2>13 DEF ReturnOne
    <3>2. sandbox \in Trees
      BY <2>13, <3>1 DEF ReturnOne
    <3>3. live' \in Trees /\ returned' \subseteq Files
      BY <3>1, <3>2, WithOneFile, FileOfTree
    <3> QED
      BY <2>13, <3>1, <3>3 DEF ReturnOne
  <2>14. CASE Dispose
    BY <2>14 DEF Dispose
  <2>15. CASE Lose
    BY <2>15 DEF Lose
  <2>16. ASSUME NEW f \in Files, EditFile(f) PROVE Typed'
    <3>1. live' \in Trees
      BY <2>16, WithOneFile DEF EditFile, Contents
    <3> QED
      BY <2>16, <3>1 DEF EditFile
  <2>17. ASSUME NEW f \in Files, NEW c \in Contents, Work(f, c) PROVE Typed'
    <3>1. CASE Isolated
      <4>1. sandbox' \in Trees
        BY <2>17, <3>1, WithOneFile DEF Work
      <4> QED
        BY <2>17, <3>1, <4>1 DEF Work
    <3>2. CASE ~Isolated
      <4>1. live' \in Trees
        BY <2>17, <3>2, WithOneFile DEF Work
      <4> QED
        BY <2>17, <3>2, <4>1 DEF Work
    <3> QED
      BY <3>1, <3>2
  <2>18. CASE UNCHANGED recoveryVars
    BY <2>18 DEF recoveryVars
  <2> QED
    BY <2>1, <2>2, <2>3, <2>4, <2>5, <2>6, <2>7, <2>8, <2>9, <2>10, <2>11, <2>12, <2>13, <2>14, <2>15, <2>16, <2>17, <2>18 DEF RecoveryNext, Proceed
<1> QED
  BY <1>1, <1>2, PTL DEF RecoverySpec

\* The plan fixes the risk of an order.
LEMMA RiskIsFixed ==
  ASSUME [RecoveryNext]_recoveryVars
  PROVE  Isolated' <=> Isolated
  BY DEF RecoveryNext, Proceed, BeginFresh, GiveUp, BeginInterrupted, BeginCompleted, SaveHashes, CopyOne,
         RecordDispatch, Resume, Complete, Fail, Catch, BeginSettling, ReturnOne, Dispose, Lose, EditFile, Work,
         Judge, recoveryVars, rest, Isolated

-----------------------------------------------------------------------------
(* What is verified is on its way out, and what cannot be undone is never    *)
(* put to a worker again: the verdict on its files is a block, and a failed  *)
(* verification finds its only attempt spent.                                *)

Settled ==
  /\ verified => order.status = "completed" /\ stage \in {"idle", "settling", "returning", "over"}
  /\ stage \in {"settling", "returning"} => verified
  /\ Isolated /\ stage = "dispatching" => attempt > 1
  /\ Isolated /\ stage = "returning" => pending \subseteq NamedFiles

LEMMA BlockedOnly ==
  ASSUME Isolated, NEW n, Repeat(n) \/ ReconcileOrder
  PROVE  FALSE
  BY DEF Repeat, ReconcileOrder, RecoveryVerdict

LEMMA SettledHolds == RecoverySpec => []Settled
<1> USE RecoveryAssumption
<1>1. RecoveryInit => Settled
  BY DEF RecoveryInit, Settled
<1>2. Typed /\ Settled /\ [RecoveryNext]_recoveryVars => Settled'
  <2> SUFFICES ASSUME Typed, Settled, [RecoveryNext]_recoveryVars PROVE Settled'
    OBVIOUS
  <2>t. Begun /\ order \in [status : {"none", "running", "failed", "completed"}, attempt : 0 .. Budget]
        /\ attempt \in 0 .. Budget + 1
    BY DEF Typed, RecoveryTypeOK
  <2> USE <2>t DEF Settled, Begun, rest, durable, local
  <2>i. Isolated' <=> Isolated
    BY RiskIsFixed
  <2> USE <2>i
  <2>j. ASSUME NEW n \in 1 .. Budget + 1, stage \in {"idle", "failing"}, order.status # "none",
               stage = "idle" => order.status # "completed", Judge(n)
        PROVE  Settled'
    <3>0. ~verified
      BY <2>j
    <3>1. CASE Repeat(n)
      BY <2>j, <3>0, <3>1, BlockedOnly DEF Judge, Repeat
    <3>2. CASE ReconcileOrder
      BY <2>j, <3>0, <3>2 DEF Judge, ReconcileOrder
    <3>3. CASE Block
      BY <2>j, <3>0, <3>3 DEF Judge, Block
    <3> QED
      BY <2>j, <3>1, <3>2, <3>3 DEF Judge
  <2>1. CASE BeginFresh
    BY <2>1 DEF BeginFresh, Prepared
  <2>2. CASE SaveHashes
    BY <2>2 DEF SaveHashes
  <2>3. CASE CopyOne
    BY <2>3 DEF CopyOne
  <2>4. CASE RecordDispatch
    BY <2>4 DEF RecordDispatch
  <2>5. CASE BeginInterrupted
    BY <2>5, <2>j DEF BeginInterrupted
  <2>6. CASE BeginCompleted
    BY <2>6 DEF BeginCompleted
  <2>7. CASE Resume
    BY <2>7 DEF Resume, Prepared
  <2>8. CASE GiveUp
    BY <2>8 DEF GiveUp
  <2>9. CASE Complete
    BY <2>9 DEF Complete
  <2>10. CASE Fail
    BY <2>10 DEF Fail
  <2>11. CASE Catch
    BY <2>11, <2>j DEF Catch
  <2>12. CASE BeginSettling
    BY <2>12 DEF BeginSettling
  <2>13. CASE ReturnOne
    BY <2>13 DEF ReturnOne
  <2>14. CASE Dispose
    BY <2>14 DEF Dispose
  <2>15. CASE Lose
    BY <2>15 DEF Lose
  <2>16. ASSUME NEW f \in Files, EditFile(f) PROVE Settled'
    BY <2>16 DEF EditFile
  <2>17. ASSUME NEW f \in Files, NEW c \in Contents, Work(f, c) PROVE Settled'
    BY <2>17 DEF Work
  <2>18. CASE UNCHANGED recoveryVars
    BY <2>18 DEF recoveryVars
  <2> QED
    BY <2>1, <2>2, <2>3, <2>4, <2>5, <2>6, <2>7, <2>8, <2>9, <2>10, <2>11, <2>12, <2>13, <2>14, <2>15, <2>16, <2>17, <2>18 DEF RecoveryNext, Proceed
<1> QED
  BY <1>1, <1>2, TypesHold, PTL DEF RecoverySpec

-----------------------------------------------------------------------------
(* The checkpoint.  Its files change only before the first dispatch, which   *)
(* waits for the last copy; a crash in between begins it anew.               *)

Copied(fs) == \A f \in fs : copies[f] = hashes[f]

Checkpoint ==
  /\ edits \in Nat
  /\ stage = "copying" => hashes \in Trees
  /\ stage = "copying" /\ edits = 0 => hashes = WorkTree /\ Copied(Storable \ pending)
  /\ order.status # "none" => hashes \in Trees
  /\ order.status # "none" /\ edits = 0 => Copied(Storable)
  /\ stage = "dispatching" /\ edits = 0 /\ order.status # "completed" =>
       \A f \in Storable : live[f] = hashes[f]

\* What a restored tree holds of the files that could be kept.
LEMMA RestoredIsTheCheckpoint ==
  ASSUME hashes \in Trees, Copied(Storable), NEW f \in Storable
  PROVE  Restored(live)[f] = hashes[f]
<1>1. f \in Files /\ hashes[f] # "absent" /\ copies[f] = hashes[f]
  BY DEF Storable, Present, Copied
<1>2. f \in Restorable
  BY <1>1 DEF Restorable, Present
<1> QED
  BY <1>1, <1>2 DEF Restored

LEMMA CheckpointHolds == RecoverySpec => []Checkpoint
<1> USE RecoveryAssumption
<1>1. RecoveryInit => Checkpoint
  BY DEF RecoveryInit, Checkpoint
<1>2. Typed /\ Checkpoint /\ [RecoveryNext]_recoveryVars => Checkpoint'
  <2> SUFFICES ASSUME Typed, Checkpoint, [RecoveryNext]_recoveryVars PROVE Checkpoint'
    OBVIOUS
  <2>t. Begun /\ order \in [status : {"none", "running", "failed", "completed"}, attempt : 0 .. Budget]
    BY DEF Typed, RecoveryTypeOK
  <2>i. Isolated' <=> Isolated
    BY RiskIsFixed
  <2> USE <2>t, <2>i DEF Checkpoint, Begun, rest, durable, local, Copied, Storable, Present
  <2>j. ASSUME NEW n \in 1 .. Budget + 1, stage \in {"idle", "failing"}, order.status # "none", Judge(n)
        PROVE  Checkpoint'
    <3>0. UNCHANGED <<hashes, copies, edits>> /\ order'.status # "none" /\ stage' # "copying"
      BY <2>j DEF Judge, Repeat, ReconcileOrder, Block
    <3>1. CASE Repeat(n)
      <4>1. CASE RecoveryVerdict = "rerun"
        <5>1. ChangedFiles = {} /\ live' = live
          BY <3>1, <4>1 DEF Repeat, RecoveryVerdict
        <5> QED
          BY <2>j, <3>0, <5>1 DEF ChangedFiles
      <4>2. CASE RecoveryVerdict = "restored"
        <5>1. live' = Restored(live)
          BY <3>1, <4>2 DEF Repeat
        <5> QED
          BY <2>j, <3>0, <5>1, RestoredIsTheCheckpoint
      <4> QED
        BY <3>1, <4>1, <4>2 DEF Repeat
    <3>2. CASE ReconcileOrder \/ Block
      BY <2>j, <3>0, <3>2 DEF ReconcileOrder, Block
    <3> QED
      BY <2>j, <3>1, <3>2 DEF Judge
  <2>1. CASE BeginFresh
    BY <2>1 DEF BeginFresh, Prepared
  <2>2. CASE SaveHashes
    <3>1. WorkTree \in Trees
      BY <2>2, WorkTreeIsATree DEF SaveHashes
    <3>2. WorkTree' = WorkTree
      BY <2>2 DEF SaveHashes, WorkTree
    <3> QED
      BY <2>2, <3>1, <3>2 DEF SaveHashes
  <2>3. CASE CopyOne
    <3>1. PICK f \in pending : /\ copies' = IF WorkTree[f] = "absent" THEN copies ELSE [copies EXCEPT ![f] = WorkTree[f]]
                              /\ pending' = pending \ {f}
      BY <2>3 DEF CopyOne
    <3>2. WorkTree' = WorkTree /\ UNCHANGED <<hashes, order, edits, stage, live>> /\ stage = "copying"
      BY <2>3 DEF CopyOne, WorkTree
    <3>3. copies \in Trees
      BY DEF Typed, RecoveryTypeOK
    <3>4. ASSUME edits = 0, NEW g \in Storable \ pending' PROVE copies'[g] = hashes[g]
      <4>1. g \in Files /\ hashes[g] # "absent" /\ hashes = WorkTree
        BY <3>2, <3>4
      <4>2. CASE g = f
        BY <3>1, <3>3, <4>1, <4>2 DEF Trees
      <4>3. CASE g # f
        BY <3>1, <3>2, <3>3, <3>4, <4>1, <4>3 DEF Trees
      <4> QED
        BY <4>2, <4>3
    <3> QED
      BY <3>2, <3>4
  <2>4. CASE RecordDispatch
    BY <2>4 DEF RecordDispatch
  <2>5. CASE BeginInterrupted
    BY <2>5, <2>j DEF BeginInterrupted
  <2>6. CASE BeginCompleted
    BY <2>6 DEF BeginCompleted
  <2>7. CASE Resume
    BY <2>7 DEF Resume, Prepared
  <2>8. CASE GiveUp
    BY <2>8 DEF GiveUp
  <2>9. CASE Complete
    BY <2>9 DEF Complete
  <2>10. CASE Fail
    BY <2>10 DEF Fail
  <2>11. CASE Catch
    BY <2>11, <2>j DEF Catch
  <2>12. CASE BeginSettling
    BY <2>12 DEF BeginSettling
  <2>13. CASE ReturnOne
    BY <2>13 DEF ReturnOne
  <2>14. CASE Dispose
    BY <2>14 DEF Dispose
  <2>15. CASE Lose
    BY <2>15 DEF Lose
  <2>16. ASSUME NEW f \in Files, EditFile(f) PROVE Checkpoint'
    <3>1. edits' # 0 /\ edits' \in Nat
      BY <2>16 DEF EditFile
    <3> QED
      BY <2>16, <3>1 DEF EditFile
  <2>17. ASSUME NEW f \in Files, NEW c \in Contents, Work(f, c) PROVE Checkpoint'
    BY <2>17 DEF Work
  <2>18. CASE UNCHANGED recoveryVars
    BY <2>18 DEF recoveryVars, WorkTree, Isolated
  <2> QED
    BY <2>1, <2>2, <2>3, <2>4, <2>5, <2>6, <2>7, <2>8, <2>9, <2>10, <2>11, <2>12, <2>13, <2>14, <2>15, <2>16, <2>17, <2>18 DEF RecoveryNext, Proceed
<1> QED
  BY <1>1, <1>2, TypesHold, PTL DEF RecoverySpec

-----------------------------------------------------------------------------
(* The files of an isolated order.  None is with the owner before it was     *)
(* verified; from then on each is returned, still to be returned, or a       *)
(* reason to keep the sandbox.                                               *)

Carried ==
  /\ Isolated /\ ~(verified /\ stage \in {"returning", "idle", "over"}) =>
       \A f \in Files : live[f] # "work"
  /\ Isolated /\ stage = "returning" /\ ~kept =>
       \A f \in Files : sandbox[f] = "work" => f \in pending \cup returned

LEMMA CarriedHolds == RecoverySpec => []Carried
<1> USE RecoveryAssumption
<1>1. RecoveryInit => Carried
  BY DEF RecoveryInit, Carried
<1>2. Typed /\ Settled /\ Carried /\ [RecoveryNext]_recoveryVars => Carried'
  <2> SUFFICES ASSUME Typed, Settled, Carried, [RecoveryNext]_recoveryVars PROVE Carried'
    OBVIOUS
  <2>t. live \in Trees /\ Settled /\ pending \subseteq Files
    BY DEF Typed, RecoveryTypeOK
  <2>b. Begun /\ order.attempt \in 0 .. Budget
    BY DEF Typed, RecoveryTypeOK
  <2>i. Isolated' <=> Isolated
    BY RiskIsFixed
  <2> USE <2>t, <2>i DEF Carried, Settled, rest, durable, local
  <2>j. ASSUME NEW n \in 1 .. Budget + 1, stage \in {"idle", "failing"},
               stage = "idle" => order.status # "completed", Judge(n)
        PROVE  Carried'
    <3>1. CASE ~Isolated
      BY <3>1
    <3>2. CASE Isolated
      <4>1. Block
        BY <2>j, <3>2, BlockedOnly DEF Judge
      <4> QED
        BY <2>j, <4>1 DEF Judge, Block
    <3> QED
      BY <3>1, <3>2
  <2>1. CASE BeginFresh
    <3>1. ~verified
      BY <2>1 DEF BeginFresh
    <3> QED
      BY <2>1, <3>1 DEF BeginFresh
  <2>2. CASE SaveHashes
    BY <2>2 DEF SaveHashes
  <2>3. CASE CopyOne
    BY <2>3 DEF CopyOne
  <2>4. CASE RecordDispatch
    BY <2>4 DEF RecordDispatch
  <2>5. CASE BeginInterrupted
    BY <2>5, <2>b, <2>j DEF BeginInterrupted, Begun
  <2>6. CASE BeginCompleted
    <3>1. \/ verified' /\ stage' = "over"
          \/ ~verified' /\ ~verified /\ stage' = "dispatching"
      BY <2>6 DEF BeginCompleted
    <3>2. live' = live
      BY <2>6 DEF BeginCompleted
    <3> QED
      BY <3>1, <3>2
  <2>7. CASE Resume
    BY <2>7 DEF Resume, Prepared
  <2>8. CASE GiveUp
    BY <2>8 DEF GiveUp
  <2>9. CASE Complete
    BY <2>9 DEF Complete
  <2>10. CASE Fail
    BY <2>10 DEF Fail
  <2>11. CASE Catch
    BY <2>11, <2>b, <2>j DEF Catch, Begun
  <2>12. CASE BeginSettling
    <3>1. CASE ~Isolated
      BY <3>1
    <3>2. ASSUME Isolated, ~kept', NEW f \in Files, sandbox[f] = "work" PROVE f \in pending'
      <4>1. live[f] # "work"
        BY <2>12, <3>2 DEF BeginSettling
      <4>2. f \in Leftover
        BY <3>2, <4>1 DEF Leftover
      <4>3. Leftover \ NamedFiles = {} /\ pending' = Leftover \cap NamedFiles
        BY <2>12, <3>2 DEF BeginSettling
      <4> QED
        BY <4>2, <4>3
    <3> QED
      BY <2>12, <3>1, <3>2 DEF BeginSettling
  <2>13. CASE ReturnOne
    <3>1. PICK f \in pending :
            /\ IF live[f] = "absent" /\ f \notin Bulky
               THEN live' = [live EXCEPT ![f] = sandbox[f]] /\ returned' = returned \cup {f} /\ UNCHANGED kept
               ELSE kept' = TRUE /\ UNCHANGED <<live, returned>>
            /\ pending' = pending \ {f}
      BY <2>13 DEF ReturnOne
    <3>2. verified' /\ stage' = "returning" /\ sandbox' = sandbox /\ stage = "returning"
      BY <2>13 DEF ReturnOne
    <3>3. ~kept' => ~kept /\ pending \cup returned = pending' \cup returned'
      BY <3>1
    <3> QED
      BY <3>2, <3>3
  <2>14. CASE Dispose
    BY <2>14 DEF Dispose
  <2>15. CASE Lose
    BY <2>15 DEF Lose
  <2>16. ASSUME NEW f \in Files, EditFile(f) PROVE Carried'
    <3>1. live' = [live EXCEPT ![f] = "own"] /\ UNCHANGED <<sandbox, pending, returned, kept, stage, verified>>
      BY <2>16 DEF EditFile
    <3>2. \A g \in Files : live'[g] = "work" => live[g] = "work"
      BY <3>1 DEF Trees
    <3> QED
      BY <3>1, <3>2
  <2>17. ASSUME NEW f \in Files, NEW c \in Contents, Work(f, c) PROVE Carried'
    BY <2>17 DEF Work
  <2>18. CASE UNCHANGED recoveryVars
    BY <2>18 DEF recoveryVars
  <2> QED
    BY <2>1, <2>2, <2>3, <2>4, <2>5, <2>6, <2>7, <2>8, <2>9, <2>10, <2>11, <2>12, <2>13, <2>14, <2>15, <2>16, <2>17, <2>18 DEF RecoveryNext, Proceed
<1> QED
  BY <1>1, <1>2, TypesHold, SettledHolds, PTL DEF RecoverySpec

-----------------------------------------------------------------------------
(* The theorems.                                                             *)

\* The order, the three trees and the stage keep their types.
THEOREM RecoveryTyping == RecoverySpec => []RecoveryTypeOK
<1>1. Typed => RecoveryTypeOK
  BY DEF Typed
<1> QED
  BY <1>1, TypesHold, PTL

\* A dispatch in the journal has the whole checkpoint behind it: what a recovery
\* compares with, and the copies it restores (workspace-evidence.ts, save).
THEOREM DispatchedWithCheckpoint == RecoverySpec => []CheckpointIsWhole
<1>1. Checkpoint => CheckpointIsWhole
  <2>1. NoTree \notin Trees
    BY RecoveryAssumption DEF NoTree, Trees, Contents
  <2> QED
    BY <2>1 DEF Checkpoint, Copied, CheckpointIsWhole
<1> QED
  BY <1>1, CheckpointHolds, PTL

\* No worker begins again on what an earlier attempt left of a file that could be
\* kept, unless its owner edited the workspace meanwhile.
THEOREM RepetitionBeginsClean == RecoverySpec => BeginsClean
<1> DEFINE Promised == (stage = "dispatching" /\ stage' = "working" /\ edits = 0 /\ order.status # "completed") =>
                     \A f \in Storable : live[f] = hashes[f]
<1>1. Checkpoint => Promised
  BY DEF Checkpoint
<1>2. [][Promised]_recoveryVars => BeginsClean
  BY DEF BeginsClean
<1> HIDE DEF Promised
<1> QED
  BY <1>1, <1>2, CheckpointHolds, PTL

\* An order with effects that cannot be undone is put to a worker once.
THEOREM IsolatedRunsOnce == RecoverySpec => IsolatedIsNotRepeated
<1> DEFINE Promised == (Isolated /\ stage # "working" /\ stage' = "working") => order.status = "none"
<1>1. Typed /\ Settled /\ [RecoveryNext]_recoveryVars => Promised
  <2> SUFFICES ASSUME Typed, Settled, [RecoveryNext]_recoveryVars, Isolated, stage # "working", stage' = "working"
               PROVE  order.status = "none"
    OBVIOUS
  <2>1. ~Resume
    BY DEF Resume, AttemptsAllowed, Settled, Typed, RecoveryTypeOK
  <2>2. RecordDispatch
    BY <2>1 DEF RecoveryNext, Proceed, BeginFresh, GiveUp, BeginInterrupted, BeginCompleted, SaveHashes, CopyOne,
                Complete, Fail, Catch, BeginSettling, ReturnOne, Dispose, Lose, EditFile, Work,
                Judge, Repeat, ReconcileOrder, Block, recoveryVars
  <2> QED
    BY <2>2 DEF RecordDispatch, Typed, Begun
<1>2. [][Promised]_recoveryVars => IsolatedIsNotRepeated
  BY DEF IsolatedIsNotRepeated
<1> HIDE DEF Promised
<1> QED
  BY <1>1, <1>2, TypesHold, SettledHolds, PTL DEF RecoverySpec

\* Of an isolated order only named files arrive, and only where the owner has none
\* (isolated-workspace.ts, applyIsolatedArtifacts).
THEOREM IsolatedIsNotMerged == RecoverySpec => OwnersTreeIsSafe
<1> DEFINE Promised == Isolated => \A f \in Files :
                     live'[f] = live[f] \/ live'[f] = "own" \/ (live[f] = "absent" /\ f \in NamedFiles)
<1>1. Typed /\ Settled /\ [RecoveryNext]_recoveryVars => Promised
  <2> SUFFICES ASSUME Typed, Settled, [RecoveryNext]_recoveryVars, Isolated, NEW f \in Files
               PROVE  live'[f] = live[f] \/ live'[f] = "own" \/ (live[f] = "absent" /\ f \in NamedFiles)
    OBVIOUS
  <2>t. live \in Trees
    BY DEF Typed, RecoveryTypeOK
  <2>1. CASE ReturnOne
    <3>1. PICK g \in pending : \/ live[g] = "absent" /\ live' = [live EXCEPT ![g] = sandbox[g]]
                              \/ live' = live
      BY <2>1 DEF ReturnOne
    <3>2. g \in NamedFiles
      BY <2>1 DEF ReturnOne, Settled
    <3> QED
      BY <2>t, <3>1, <3>2 DEF Trees
  <2>2. ASSUME NEW g \in Files, EditFile(g) PROVE live'[f] = live[f] \/ live'[f] = "own"
    BY <2>t, <2>2 DEF EditFile, Trees
  <2>3. ASSUME NEW n, Judge(n) PROVE live' = live
    BY <2>3, BlockedOnly DEF Judge, Block
  <2>4. CASE ~ReturnOne /\ ~(\E g \in Files : EditFile(g))
    <3>1. live' = live
      BY <2>3, <2>4 DEF RecoveryNext, Proceed, BeginFresh, GiveUp, BeginInterrupted, BeginCompleted, SaveHashes,
                CopyOne, RecordDispatch, Resume, Complete, Fail, Catch, BeginSettling, Dispose, Lose, Work,
                recoveryVars, durable
    <3> QED
      BY <3>1
  <2> QED
    BY <2>1, <2>2, <2>4
<1>2. [][Promised]_recoveryVars => OwnersTreeIsSafe
  BY DEF OwnersTreeIsSafe
<1> HIDE DEF Promised
<1> QED
  BY <1>1, <1>2, TypesHold, SettledHolds, PTL DEF RecoverySpec

\* Once an isolated order is verified, its sandbox goes only when every file its
\* worker wrote is with the owner (core/runtime.ts, withExecutionWorkspace).
THEOREM VerifiedWorkIsKept == RecoverySpec => NothingIsLost
<1> DEFINE Promised == (Isolated /\ verified /\ sandbox' = NoTree /\ sandbox # NoTree) =>
                     \A f \in Files : sandbox[f] = "work" => f \in returned
<1>1. Typed /\ Settled /\ Carried /\ [RecoveryNext]_recoveryVars => Promised
  <2> SUFFICES ASSUME Typed, Settled, Carried, [RecoveryNext]_recoveryVars,
                      Isolated, verified, sandbox' = NoTree, sandbox # NoTree,
                      NEW f \in Files, sandbox[f] = "work"
               PROVE  f \in returned
    OBVIOUS
  <2>1. Dispose
    BY DEF RecoveryNext, Proceed, BeginFresh, GiveUp, BeginInterrupted, BeginCompleted, SaveHashes,
           CopyOne, RecordDispatch, Resume, Complete, Fail, Catch, BeginSettling, ReturnOne, Lose, EditFile, Work,
           Judge, recoveryVars, durable, Settled, Typed, Begun
  <2>2. stage = "returning" /\ pending = {} /\ ~kept
    BY <2>1 DEF Dispose, Settled
  <2> QED
    BY <2>2 DEF Carried
<1>2. [][Promised]_recoveryVars => NothingIsLost
  BY DEF NothingIsLost
<1> HIDE DEF Promised
<1> QED
  BY <1>1, <1>2, TypesHold, SettledHolds, CarriedHolds, PTL DEF RecoverySpec

\* What a recovery relies on, wherever the runtime died (workspace-evidence.ts).
THEOREM RecoveryHolds == RecoverySpec => []RecoveryInv
  BY RecoveryTyping, DispatchedWithCheckpoint, PTL DEF RecoveryInv

\* What no step does to the owner's files and to the work of an order, for any
\* files, any edits and any deaths (runtime.ts, isolated-workspace.ts).
THEOREM RecoveryStepsHold == RecoverySpec => RecoverySteps
  BY IsolatedRunsOnce, IsolatedIsNotMerged, VerifiedWorkIsKept, RepetitionBeginsClean DEF RecoverySteps
-----------------------------------------------------------------------------
(* NativeWorker.                                                             *)

\* What the attempt could not read of what its order names is remembered; after
\* the signal there is only what is left of the reply under way.
ToolRun == [tool : DOMAIN Tools, place : Places, failed : BOOLEAN]
NotRead(named, run) == run.failed /\ run.tool = "read_file" /\ run.place \in named
WorkerIInv ==
  /\ WorkerTypeOK /\ late \in Nat
  /\ calls \in Seq(Call) /\ made \subseteq ToolRun
  /\ \A run \in made : NotRead(workOrder.named, run) => run.place \in missing
  /\ IF aborted = "no" THEN late = 0 ELSE late + Len(calls) <= MaxCalls
  /\ ending = "completed" => missing = {}

LEMMA WorkerBegins == WorkerInit => WorkerIInv
  BY WorkerAssumption DEF WorkerInit, WorkerIInv, WorkerTypeOK

LEMMA FewerCalls ==
  ASSUME WorkerIInv, calls # <<>>, calls' = Tail(calls)
  PROVE  /\ calls' \in Seq(Call) /\ Len(calls') = Len(calls) - 1 /\ Len(calls') <= MaxCalls
         /\ Head(calls) \in Call
         /\ \A i \in DOMAIN calls' : calls'[i].tool \in DOMAIN Tools /\ calls'[i].place \in Places
<1>1. calls' \in Seq(Call) /\ Len(calls') = Len(calls) - 1 /\ Head(calls) \in Call
  BY DEF WorkerIInv
<1>2. Len(calls') <= MaxCalls
  BY <1>1, WorkerAssumption DEF WorkerIInv, WorkerTypeOK
<1>3. \A i \in DOMAIN calls' : calls'[i] \in Call
  BY <1>1
<1> QED BY <1>1, <1>2, <1>3 DEF Call

LEMMA WorkerGoesOn == WorkerIInv /\ [WorkerNext]_workerVars => WorkerIInv'
<1> SUFFICES ASSUME WorkerIInv, [WorkerNext]_workerVars PROVE WorkerIInv'
  OBVIOUS
<1>0. CASE UNCHANGED workerVars
  BY <1>0 DEF workerVars, WorkerIInv, WorkerTypeOK
<1>1. CASE Refuse
  <2>1. /\ calls' \in Seq(Call) /\ Len(calls') = Len(calls) - 1 /\ Len(calls') <= MaxCalls
        /\ \A i \in DOMAIN calls' : calls'[i].tool \in DOMAIN Tools /\ calls'[i].place \in Places
    BY <1>1, FewerCalls DEF Refuse
  <2>2. aborted' \in {"no", "deadline", "budget"} /\ (aborted # "no" => aborted' # "no") /\ late' = late
    BY <1>1 DEF Refuse, WorkerIInv, WorkerTypeOK
  <2>3. IF aborted' = "no" THEN late' = 0 ELSE late' + Len(calls') <= MaxCalls
    BY <2>1, <2>2, WorkerAssumption DEF WorkerIInv, WorkerTypeOK
  <2> QED BY <1>1, <2>1, <2>2, <2>3 DEF Refuse, WorkerIInv, WorkerTypeOK
<1>2. CASE RunTool
  <2> DEFINE call == Head(calls)
             run(f) == [tool |-> call.tool, place |-> call.place, failed |-> f]
             wrote(f) == call.tool = "write_file" /\ ~f
             unread(f) == f /\ call.tool = "read_file" /\ Named(call.place)
  <2>1. /\ calls' \in Seq(Call) /\ Len(calls') = Len(calls) - 1 /\ Len(calls') <= MaxCalls
        /\ call \in Call
        /\ \A i \in DOMAIN calls' : calls'[i].tool \in DOMAIN Tools /\ calls'[i].place \in Places
    BY <1>2, FewerCalls DEF RunTool
  <2>2. PICK f \in MayFail(call) :
          /\ made' = made \cup {run(f)}
          /\ missing' = IF unread(f) THEN missing \cup {call.place} ELSE missing
          /\ present' = IF wrote(f) THEN present \cup {call.place} ELSE present
    BY <1>2 DEF RunTool
  <2> DEFINE done == run(f)
  <2>3. f \in BOOLEAN
    BY DEF MayFail
  <2>4. /\ done \in ToolRun /\ call.place \in Places /\ made' = made \cup {done}
        /\ NotRead(workOrder.named, done) => unread(f) /\ done.place = call.place
    BY <2>1, <2>2, <2>3 DEF ToolRun, Call, NotRead, Named
  <2>5. missing \subseteq missing' /\ missing' \subseteq workOrder.named /\ (NotRead(workOrder.named, done) => done.place \in missing')
    BY <2>2, <2>4 DEF Named, WorkerIInv, WorkerTypeOK
  <2>6. /\ made' \subseteq ToolRun
        /\ \A tool \in made' : NotRead(workOrder'.named, tool) => tool.place \in missing'
    <3>1. workOrder' = workOrder
      BY <1>2 DEF RunTool
    <3> HIDE DEF done
    <3> QED BY <3>1, <2>4, <2>5 DEF WorkerIInv
  <2>7. present' \subseteq Places
    BY <2>2, <2>4 DEF WorkerIInv, WorkerTypeOK
  <2>8. late' \in Nat /\ IF aborted' = "no" THEN late' = 0 ELSE late' + Len(calls') <= MaxCalls
    <3>1. late' = (IF aborted = "no" THEN late ELSE late + 1) /\ aborted' = aborted
      BY <1>2 DEF RunTool
    <3> QED BY <3>1, <2>1, WorkerAssumption DEF WorkerIInv
  <2>9. /\ UNCHANGED <<workOrder, rounds, counted, aborted, ending>> /\ ending = "running"
    BY <1>2 DEF RunTool
  <2> HIDE DEF call
  <2> QED BY <2>1, <2>5, <2>6, <2>7, <2>8, <2>9 DEF WorkerIInv, WorkerTypeOK
<1>3. CASE End \/ Abort
  BY <1>3 DEF End, Abort, WorkerIInv, WorkerTypeOK
<1>4. CASE Deadline
  <2>1. late' = 0 /\ calls' = calls /\ late' + Len(calls') <= MaxCalls
    BY <1>4 DEF Deadline, WorkerIInv, WorkerTypeOK
  <2> QED BY <1>4, <2>1 DEF Deadline, WorkerIInv, WorkerTypeOK
<1>5. ASSUME NEW n \in 1 .. MaxCalls, NEW next \in [1 .. n -> Call], ModelReply(next) PROVE WorkerIInv'
  <2>1. next \in Seq(Call) /\ Len(next) = n /\ DOMAIN next = 1 .. n /\ n <= MaxCalls
    BY WorkerAssumption
  <2>2. \A i \in DOMAIN next : next[i].tool \in DOMAIN Tools /\ next[i].place \in Places
    BY <2>1 DEF Call
  <2>3. rounds' \in 0 .. MaxModelRounds
    BY <1>5, WorkerAssumption DEF ModelReply, WorkerIInv, WorkerTypeOK
  <2> QED BY <1>5, <2>1, <2>2, <2>3 DEF ModelReply, WorkerIInv, WorkerTypeOK
<1> QED BY <1>0, <1>1, <1>2, <1>3, <1>4, <1>5 DEF WorkerNext, WorkerStep

\* Whatever the model answers and calls, for any order and any limits: a completed
\* attempt read every file its order names that it tried to read, and the tools
\* run after the signal are those of one reply (native-agent-worker.ts).
THEOREM WorkerHolds == WorkerSpec => []WorkerInv
<1>1. WorkerIInv => WorkerInv
  <2> SUFFICES ASSUME WorkerIInv PROVE WorkerInv
    OBVIOUS
  <2>1. late <= MaxCalls
    BY WorkerAssumption DEF WorkerIInv
  <2> QED BY <2>1 DEF WorkerIInv, NotRead, WorkerInv, NothingInvented, DeadlineBoundsWork
<1> QED BY <1>1, WorkerBegins, WorkerGoesOn, PTL DEF WorkerSpec

\* Rounds of a model stay within what they were begun for: an attempt within its
\* order and deadline, and, when the daemon answers its requests one after the
\* other, a turn within the one execution it may have.
THEOREM ModelWorkHolds == ASSUME OneAtATime PROVE WorkerSpec /\ TurnsSpec => []ModelWorkInv
<1> QED BY WorkerHolds, TurnsHold, PTL DEF ModelWorkInv

-----------------------------------------------------------------------------
(* MemoryGovernance.                                                         *)

\* Where the holder of the lock is, and what the journal and the index say then.
\* The two differ only in the memory of a journaled mutation nobody gave up.
Agrees ==
  /\ staged = {} => ~recorded /\ ~waived /\ cause = {}
  /\ phase # "free" => staged # {}
  /\ phase = "staged" => ~recorded /\ ~waived /\ \A c \in cause : verdicts[c] = {}
  /\ phase \in {"recorded", "writing", "indexing", "unlinking", "unstaging"} => recorded /\ ~waived
  /\ phase = "waived" => waived \/ ~recorded
  /\ phase \in {"unlinking", "unstaging"} => rows[Here.memory] = {Here.entry}
  /\ recorded /\ ~waived => ruled[Here.memory] = {Here.entry}
  /\ \A m \in Memories : rows[m] # ruled[m] => recorded /\ ~waived /\ m = Here.memory

GovernanceIInv == GovernanceTypeOK /\ Agrees /\ OnlyKnownFilesReplaced /\ DecidedOnce

LEMMA Optionals ==
  ASSUME NEW S
  PROVE  /\ {} \in Optional(S)
         /\ \A x \in S : {x} \in Optional(S) /\ The({x}) = x
         /\ \A o \in Optional(S) : \A x \in o : x \in S /\ o = {x}
         /\ \A o \in Optional(S) : o # {} => o = {The(o)} /\ The(o) \in S
         /\ \A o : AtMostOne(o, S) <=> o \in Optional(S)
<1>1. \A x \in S : The({x}) = x
  BY DEF The
<1>2. \A o \in Optional(S) : o # {} => \E x \in S : o = {x}
  BY DEF Optional
<1>3. \A o : AtMostOne(o, S) <=> o \in Optional(S)
  BY DEF AtMostOne, Optional
<1> QED BY <1>1, <1>2, <1>3 DEF Optional

LEMMA HereIsStaged == ASSUME GovernanceTypeOK, staged # {} PROVE Here \in Mutation /\ Here \in staged
<1>1. staged \in Optional(Mutation)
  BY Optionals DEF GovernanceTypeOK
<1>2. staged = {The(staged)} /\ The(staged) \in Mutation
  BY <1>1, Optionals
<1> QED BY <1>2 DEF Here

LEMMA RenderedFile == ASSUME NEW row \in Row PROVE Render(row) \in Optional(File)
<1>1. [body |-> row.body, meta |-> row.meta] \in File
  BY DEF Row, File
<1> QED BY <1>1, Optionals DEF Render

LEMMA GovernanceBegins == GovernanceInit => GovernanceIInv
<1> SUFFICES ASSUME GovernanceInit PROVE GovernanceIInv
  OBVIOUS
<1>1. /\ {} \in Optional(Row) /\ {} \in Optional(File) /\ {} \in Optional(Mutation)
  BY Optionals
<1>2. GovernanceTypeOK
  <2>1. /\ files \in [Memories -> [Statuses -> Optional(File)]]
        /\ rows \in [Memories -> Optional(Row)] /\ ruled \in [Memories -> Optional(Row)]
        /\ AtMostOne(staged, Mutation)
    BY <1>1 DEF GovernanceInit, AtMostOne
  <2>2. verdicts \in [Candidates -> SUBSET {"promoted", "rejected"}] /\ cause \subseteq Candidates
    BY DEF GovernanceInit
  <2>3. spent \in [mutations : 0 .. MaxMutations, edits : 0 .. MaxEdits, halts : 0 .. MaxHalts]
    BY GovernanceAssumption DEF GovernanceInit
  <2>4. phase = "free" /\ {recorded, waived, raced} \subseteq BOOLEAN
    BY DEF GovernanceInit
  <2> QED BY <2>1, <2>2, <2>3, <2>4 DEF GovernanceTypeOK
<1>3. Agrees /\ OnlyKnownFilesReplaced /\ DecidedOnce
  BY DEF GovernanceInit, Agrees, OnlyKnownFilesReplaced, DecidedOnce
<1> QED BY <1>2, <1>3 DEF GovernanceIInv

\* Staging writes down the files as they are; nothing else has happened yet.
LEMMA StageStep ==
  ASSUME GovernanceIInv, NEW m \in Memories, NEW entry \in Row, NEW acceptFileEdit, NEW why \in SUBSET Candidates,
         \A c \in why : verdicts[c] = {}, Stage(m, entry, acceptFileEdit, why)
  PROVE  GovernanceIInv'
<1>T. GovernanceTypeOK /\ Agrees /\ DecidedOnce
  BY DEF GovernanceIInv
<1> DEFINE from == IF rows[m] = {} THEN entry.status ELSE The(rows[m]).status
           mutation == [memory |-> m, entry |-> entry, from |-> from,
                        source |-> files[m][from], target |-> files[m][entry.status]]
<1>1. from \in Statuses /\ entry.status \in Statuses
  <2>1. rows[m] # {} => The(rows[m]) \in Row
    BY <1>T, Optionals DEF GovernanceTypeOK
  <2> QED BY <2>1 DEF Row
<1>2. mutation \in Mutation
  <2>1. files[m][from] \in Optional(File) /\ files[m][entry.status] \in Optional(File)
    BY <1>T, <1>1 DEF GovernanceTypeOK
  <2> HIDE DEF from
  <2> QED BY <1>1, <2>1 DEF Mutation
<1>3. staged = {} /\ staged' = {mutation} /\ phase' = "staged" /\ cause' = why
  BY DEF Stage
<1>4. UNCHANGED <<files, rows, recorded, waived, verdicts, ruled, raced>>
  BY DEF Stage
<1>5. spent' \in [mutations : 0 .. MaxMutations, edits : 0 .. MaxEdits, halts : 0 .. MaxHalts]
  <2>1. spent.mutations < MaxMutations /\ spent' = [spent EXCEPT !["mutations"] = spent["mutations"] + 1]
    BY DEF Stage, Spend
  <2> QED BY <2>1, <1>T, GovernanceAssumption DEF GovernanceTypeOK
<1> HIDE DEF mutation
<1>6. AtMostOne(staged', Mutation)
  BY <1>2, <1>3 DEF AtMostOne
<1>7. GovernanceTypeOK'
  BY <1>T, <1>3, <1>4, <1>5, <1>6 DEF GovernanceTypeOK
<1>8. Agrees'
  BY <1>T, <1>3, <1>4 DEF Agrees
<1>9. OnlyKnownFilesReplaced' /\ DecidedOnce'
  BY <1>T, <1>3, <1>4 DEF OnlyKnownFilesReplaced, DecidedOnce
<1> QED BY <1>7, <1>8, <1>9 DEF GovernanceIInv

LEMMA StageAlone ==
  ASSUME GovernanceIInv, NEW m \in Memories, NEW entry \in Row, NEW acceptFileEdit, Stage(m, entry, acceptFileEdit, {})
  PROVE  GovernanceIInv'
<1>1. {} \in SUBSET Candidates /\ \A c \in {} : verdicts[c] = {}
  OBVIOUS
<1> QED BY <1>1, StageStep

LEMMA StagersStep ==
  ASSUME GovernanceIInv, NEW m \in Memories,
         \/ \E c \in Candidates, b \in Bodies, k \in Metas : Promote(c, m, b, k)
         \/ \E b \in Bodies, k \in Metas : Author(m, b, k) \/ Update(m, b, k)
         \/ \E s \in Statuses : SetStatus(m, s)
         \/ Sync(m)
  PROVE  GovernanceIInv'
<1>T. GovernanceTypeOK
  BY DEF GovernanceIInv
<1>C. \A b \in Texts, k \in Metas, s \in Statuses : Changed(m, b, k, s) \in Row
  BY DEF Changed, Row
<1>R. \A row \in rows[m] : row \in Row /\ row.body \in Texts /\ row.meta \in Metas /\ row.status \in Statuses
  <2>1. rows[m] \in Optional(Row)
    BY <1>T DEF GovernanceTypeOK
  <2>2. \A row \in rows[m] : row \in Row
    BY <2>1, Optionals
  <2> QED BY <2>2 DEF Row
<1>B. \A b \in Bodies : b \in Texts /\ Redact(b) \in Texts
  BY DEF Texts, Redact
<1>S. "active" \in Statuses /\ "archived" \in Statuses /\ "secret" \in Metas
  BY DEF Statuses, Metas
<1>1. ASSUME NEW c \in Candidates, NEW b \in Bodies, NEW k \in Metas, Promote(c, m, b, k)
      PROVE  GovernanceIInv'
  <2>1. (IF b \in Personal THEN "secret" ELSE k) \in Metas
    BY <1>S
  <2>2. Changed(m, Redact(b), IF b \in Personal THEN "secret" ELSE k, "active") \in Row
    BY <2>1, <1>C, <1>B, <1>S
  <2>3. verdicts[c] = {} /\ Stage(m, Changed(m, Redact(b), IF b \in Personal THEN "secret" ELSE k, "active"), FALSE, {c})
    BY <1>1 DEF Promote
  <2> QED BY <2>2, <2>3, StageStep
<1>2. ASSUME NEW b \in Bodies, NEW k \in Metas, Author(m, b, k) \/ Update(m, b, k)
      PROVE  GovernanceIInv'
  <2>1. PICK s \in Statuses : Stage(m, Changed(m, b, k, s), FALSE, {})
    BY <1>2, <1>R, <1>S DEF Author, Update
  <2>2. Changed(m, b, k, s) \in Row
    BY <1>C, <1>B
  <2> QED BY <2>1, <2>2, StageAlone
<1>3. ASSUME NEW s \in Statuses, SetStatus(m, s) PROVE GovernanceIInv'
  <2>1. PICK row \in rows[m] : Stage(m, Changed(m, row.body, row.meta, s), FALSE, {})
    BY <1>3 DEF SetStatus
  <2>2. Changed(m, row.body, row.meta, s) \in Row
    BY <1>C, <1>R
  <2> QED BY <2>1, <2>2, StageAlone
<1>4. CASE Sync(m)
  <2>1. ASSUME NEW s \in Differs(m), NEW seen \in files[m][s],
               Stage(m, Changed(m, seen.body, seen.meta, s), TRUE, {})
        PROVE  GovernanceIInv'
    <3>1. s \in Statuses /\ \E other \in files[m][s] : other.body # Broken
      BY DEF Differs, Parsed
    <3>2. files[m][s] \in Optional(File)
      BY <3>1, <1>T DEF GovernanceTypeOK
    <3>3. seen \in File /\ seen.body # Broken
      BY <3>1, <3>2, Optionals
    <3>4. Changed(m, seen.body, seen.meta, s) \in Row
      BY <3>1, <3>3, <1>C DEF File
    <3> QED BY <2>1, <3>4, StageAlone
  <2>2. ASSUME NEW row \in rows[m], Stage(m, [row EXCEPT !.status = "archived"], TRUE, {}) PROVE GovernanceIInv'
    <3>1. [row EXCEPT !.status = "archived"] \in Row
      BY <1>R, <1>S DEF Row
    <3> QED BY <2>2, <3>1, StageAlone
  <2> QED BY <1>4, <2>1, <2>2 DEF Sync
<1> QED BY <1>1, <1>2, <1>3, <1>4

\* A step that leaves the mutation, the files and the phase's meaning alone.
LEMMA MutationSteps ==
  ASSUME GovernanceIInv, Record \/ Check \/ Rename \/ Index \/ Unlink \/ Unstage \/ Recover \/ KeepFile \/ Halt
  PROVE  GovernanceIInv'
<1>T. GovernanceTypeOK /\ Agrees /\ DecidedOnce /\ OnlyKnownFilesReplaced
  BY DEF GovernanceIInv
<1>H. staged # {} => /\ Here.memory \in Memories /\ Here.entry \in Row /\ Here.from \in Statuses
                     /\ Here.entry.status \in Statuses
  BY <1>T, HereIsStaged DEF Mutation, Row
<1>S. staged' = staged => Here' = Here
  BY DEF Here
<1>R. staged # {} => Render(Here.entry) \in Optional(File) /\ {Here.entry} \in Optional(Row)
  BY <1>H, RenderedFile, Optionals
<1>1. CASE Record
  <2>1. staged # {} /\ ~recorded /\ ~waived /\ Here' = Here
    BY <1>1, <1>T, <1>S DEF Record, Agrees
  <2>2. ruled' = [ruled EXCEPT ![Here.memory] = {Here.entry}] /\ recorded' = TRUE /\ phase' = "recorded"
    BY <1>1 DEF Record
  <2>3. verdicts' = [c \in Candidates |-> verdicts[c] \cup IF c \in cause THEN {"promoted"} ELSE {}]
    BY <1>1 DEF Record
  <2>4. UNCHANGED <<files, rows, staged, cause, waived, raced, spent>>
    BY <1>1 DEF Record
  <2>5. verdicts' \in [Candidates -> SUBSET {"promoted", "rejected"}]
    BY <2>3, <1>T DEF GovernanceTypeOK
  <2>6. ruled' \in [Memories -> Optional(Row)]
    BY <2>1, <2>2, <1>R, <1>T DEF GovernanceTypeOK
  <2>7. GovernanceTypeOK'
    BY <2>2, <2>4, <2>5, <2>6, <1>T DEF GovernanceTypeOK
  <2>8. /\ ruled'[Here.memory] = {Here.entry}
        /\ \A m \in Memories : m # Here.memory => ruled'[m] = ruled[m]
    BY <2>1, <2>2, <1>H, <1>T DEF GovernanceTypeOK
  <2>9. Agrees'
    BY <2>1, <2>2, <2>4, <2>8, <1>T DEF Agrees
  <2>10. DecidedOnce'
    <3>1. \A c \in cause : verdicts[c] = {}
      BY <1>1, <1>T DEF Record, Agrees
    <3>2. ASSUME NEW c \in Candidates PROVE verdicts'[c] # {"promoted", "rejected"}
      <4>1. CASE c \in cause
        BY <4>1, <3>1, <2>3
      <4>2. CASE c \notin cause
        <5>1. verdicts'[c] = verdicts[c]
          BY <4>2, <2>3
        <5> QED BY <5>1, <1>T DEF DecidedOnce
      <4> QED BY <4>1, <4>2
    <3> QED BY <3>2 DEF DecidedOnce
  <2> QED BY <2>2, <2>7, <2>9, <2>10 DEF GovernanceIInv, OnlyKnownFilesReplaced
<1>2. CASE Check
  <2>1. UNCHANGED <<files, rows, staged, cause, recorded, waived, verdicts, ruled, spent>> /\ raced' = FALSE
    BY <1>2 DEF Check
  <2>2. phase = "recorded" /\ staged # {} /\ recorded /\ ~waived
    BY <1>2, <1>T DEF Check, Agrees
  <2>3. phase' = IF SameFiles \/ AlreadyWritten THEN "writing" ELSE "free"
    BY <1>2 DEF Check
  <2>4. GovernanceTypeOK'
    BY <2>1, <2>3, <1>T DEF GovernanceTypeOK
  <2>5. Agrees' /\ DecidedOnce'
    BY <2>1, <2>2, <2>3, <1>S, <1>T DEF Agrees, DecidedOnce
  <2>6. SameFiles \/ AlreadyWritten =>
          /\ files[Here.memory][Here.from] \in {Here.source, {}, Render(Here.entry)}
          /\ files[Here.memory][Here.entry.status] \in {Here.target, Render(Here.entry)}
    BY DEF SameFiles, AlreadyWritten
  <2>7. OnlyKnownFilesReplaced'
    BY <2>1, <2>3, <2>6, <1>S DEF OnlyKnownFilesReplaced
  <2> QED BY <2>4, <2>5, <2>7 DEF GovernanceIInv
<1>3. CASE Rename
  <2>1. UNCHANGED <<rows, staged, cause, recorded, waived, verdicts, ruled, raced, spent>>
        /\ phase = "writing" /\ phase' = "indexing"
    BY <1>3 DEF Rename
  <2>2. files' = [files EXCEPT ![Here.memory][Here.entry.status] = Render(Here.entry)]
    BY <1>3 DEF Rename
  <2>3. staged # {} /\ recorded /\ ~waived
    BY <2>1, <1>T DEF Agrees
  <2>4. files' \in [Memories -> [Statuses -> Optional(File)]]
    BY <2>2, <2>3, <1>H, <1>R, <1>T DEF GovernanceTypeOK
  <2>5. /\ files'[Here.memory][Here.entry.status] = Render(Here.entry)
        /\ \A s \in Statuses : s # Here.entry.status => files'[Here.memory][s] = files[Here.memory][s]
    BY <2>2, <2>3, <1>H, <1>T DEF GovernanceTypeOK
  <2>6. GovernanceTypeOK'
    BY <2>1, <2>4, <1>T DEF GovernanceTypeOK
  <2>7. Agrees' /\ DecidedOnce'
    BY <2>1, <2>3, <1>S, <1>T DEF Agrees, DecidedOnce
  <2>8. OnlyKnownFilesReplaced'
    <3>1. ~raced => files'[Here.memory][Here.from] \in {Here.source, {}, Render(Here.entry)}
      BY <2>1, <2>3, <2>5, <1>H, <1>T DEF OnlyKnownFilesReplaced
    <3> QED BY <2>1, <2>5, <3>1, <1>S DEF OnlyKnownFilesReplaced
  <2> QED BY <2>6, <2>7, <2>8 DEF GovernanceIInv
<1>4. CASE Index
  <2>1. UNCHANGED <<files, staged, cause, recorded, waived, verdicts, ruled, raced, spent>>
        /\ phase = "indexing" /\ phase' = "unlinking"
    BY <1>4 DEF Index
  <2>2. rows' = [rows EXCEPT ![Here.memory] = {Here.entry}]
    BY <1>4 DEF Index
  <2>3. staged # {} /\ recorded /\ ~waived
    BY <2>1, <1>T DEF Agrees
  <2>4. rows' \in [Memories -> Optional(Row)]
    BY <2>2, <2>3, <1>H, <1>R, <1>T DEF GovernanceTypeOK
  <2>5. /\ rows'[Here.memory] = {Here.entry}
        /\ \A m \in Memories : m # Here.memory => rows'[m] = rows[m]
    BY <2>2, <2>3, <1>H, <1>T DEF GovernanceTypeOK
  <2>6. GovernanceTypeOK'
    BY <2>1, <2>4, <1>T DEF GovernanceTypeOK
  <2>7. Agrees'
    BY <2>1, <2>3, <2>5, <1>S, <1>T DEF Agrees
  <2>8. OnlyKnownFilesReplaced' /\ DecidedOnce'
    BY <2>1, <1>S, <1>T DEF OnlyKnownFilesReplaced, DecidedOnce
  <2> QED BY <2>6, <2>7, <2>8 DEF GovernanceIInv
<1>5. CASE Unlink
  <2>1. UNCHANGED <<rows, staged, cause, recorded, waived, verdicts, ruled, raced, spent>>
        /\ phase = "unlinking" /\ phase' = "unstaging"
    BY <1>5 DEF Unlink
  <2>2. files' = IF Here.from = Here.entry.status THEN files ELSE [files EXCEPT ![Here.memory][Here.from] = {}]
    BY <1>5 DEF Unlink
  <2>3. staged # {} /\ recorded /\ ~waived /\ {} \in Optional(File)
    BY <2>1, <1>T, Optionals DEF Agrees
  <2>4. files' \in [Memories -> [Statuses -> Optional(File)]]
    BY <2>2, <2>3, <1>H, <1>T DEF GovernanceTypeOK
  <2>5. GovernanceTypeOK'
    BY <2>1, <2>4, <1>T DEF GovernanceTypeOK
  <2>6. Agrees' /\ DecidedOnce' /\ OnlyKnownFilesReplaced'
    BY <2>1, <2>3, <1>S, <1>T DEF Agrees, DecidedOnce, OnlyKnownFilesReplaced
  <2> QED BY <2>5, <2>6 DEF GovernanceIInv
<1>6. CASE Unstage
  <2>1. /\ phase \in {"unstaging", "waived"} /\ phase' = "free"
        /\ staged' = {} /\ cause' = {} /\ recorded' = FALSE /\ waived' = FALSE
        /\ UNCHANGED <<files, rows, verdicts, ruled, raced, spent>>
    BY <1>6 DEF Unstage
  <2>2. GovernanceTypeOK'
    <3>1. AtMostOne(staged', Mutation)
      BY <2>1 DEF AtMostOne
    <3> QED BY <2>1, <3>1, <1>T DEF GovernanceTypeOK
  <2>3. \A m \in Memories : rows[m] = ruled[m]
    BY <2>1, <1>T DEF Agrees
  <2>4. Agrees' /\ DecidedOnce' /\ OnlyKnownFilesReplaced'
    BY <2>1, <2>3, <1>T DEF Agrees, DecidedOnce, OnlyKnownFilesReplaced
  <2> QED BY <2>2, <2>4 DEF GovernanceIInv
<1>7. CASE Recover
  <2>1. /\ staged # {} /\ phase' = IF waived \/ ~recorded THEN "waived" ELSE "recorded"
        /\ UNCHANGED <<files, rows, staged, cause, recorded, waived, verdicts, ruled, raced, spent>>
    BY <1>7 DEF Recover
  <2>2. GovernanceTypeOK'
    BY <2>1, <1>T DEF GovernanceTypeOK
  <2>3. Agrees' /\ DecidedOnce' /\ OnlyKnownFilesReplaced'
    BY <2>1, <1>S, <1>T DEF Agrees, DecidedOnce, OnlyKnownFilesReplaced
  <2> QED BY <2>2, <2>3 DEF GovernanceIInv
<1>8. CASE KeepFile
  <2>1. /\ staged # {} /\ recorded /\ ~waived /\ waived' = TRUE /\ phase' = "waived"
        /\ UNCHANGED <<files, rows, staged, cause, recorded, verdicts, raced, spent>>
    BY <1>8 DEF KeepFile
  <2>2. ruled' = [ruled EXCEPT ![Here.memory] = rows[Here.memory]]
    BY <1>8 DEF KeepFile
  <2>3. ruled' \in [Memories -> Optional(Row)]
    BY <2>1, <2>2, <1>H, <1>T DEF GovernanceTypeOK
  <2>4. GovernanceTypeOK'
    BY <2>1, <2>3, <1>T DEF GovernanceTypeOK
  <2>5. \A m \in Memories : rows[m] = ruled'[m]
    BY <2>1, <2>2, <1>H, <1>T DEF GovernanceTypeOK, Agrees
  <2>6. Agrees' /\ DecidedOnce' /\ OnlyKnownFilesReplaced'
    BY <2>1, <2>5, <1>T DEF Agrees, DecidedOnce, OnlyKnownFilesReplaced
  <2> QED BY <2>4, <2>6 DEF GovernanceIInv
<1>9. CASE Halt
  <2>1. /\ phase' = "free" /\ cause' = {}
        /\ UNCHANGED <<files, rows, staged, recorded, waived, verdicts, ruled, raced>>
    BY <1>9 DEF Halt
  <2>2. spent' \in [mutations : 0 .. MaxMutations, edits : 0 .. MaxEdits, halts : 0 .. MaxHalts]
    <3>1. spent.halts < MaxHalts /\ spent' = [spent EXCEPT !["halts"] = spent["halts"] + 1]
      BY <1>9 DEF Halt, Spend
    <3> QED BY <3>1, <1>T, GovernanceAssumption DEF GovernanceTypeOK
  <2>3. GovernanceTypeOK'
    BY <2>1, <2>2, <1>T DEF GovernanceTypeOK
  <2>4. Agrees' /\ DecidedOnce' /\ OnlyKnownFilesReplaced'
    BY <2>1, <1>S, <1>T DEF Agrees, DecidedOnce, OnlyKnownFilesReplaced
  <2> QED BY <2>3, <2>4 DEF GovernanceIInv
<1> QED BY <1>1, <1>2, <1>3, <1>4, <1>5, <1>6, <1>7, <1>8, <1>9

\* The owner's edit touches the files of one memory; the check that let the
\* mutation through is void from then on.
LEMMA EditStep ==
  ASSUME GovernanceIInv, NEW m \in Memories, NEW s \in Statuses, Edit(m, s)
  PROVE  GovernanceIInv'
<1>T. GovernanceTypeOK /\ Agrees /\ DecidedOnce /\ OnlyKnownFilesReplaced
  BY DEF GovernanceIInv
<1>1. UNCHANGED <<rows, staged, phase, cause, recorded, waived, verdicts, ruled>>
      /\ raced' = (raced \/ (phase \in {"writing", "indexing", "unlinking"} /\ Here.memory = m))
  BY DEF Edit
<1>2. spent' \in [mutations : 0 .. MaxMutations, edits : 0 .. MaxEdits, halts : 0 .. MaxHalts]
  <2>1. spent.edits < MaxEdits /\ spent' = [spent EXCEPT !["edits"] = spent["edits"] + 1]
    BY DEF Edit, Spend
  <2> QED BY <2>1, <1>T, GovernanceAssumption DEF GovernanceTypeOK
<1>3. PICK new \in [Statuses -> Optional(File)] : files' = [files EXCEPT ![m] = new]
  <2>1. CASE \E doc \in Optional(File) : files' = [files EXCEPT ![m][s] = doc]
    <3>1. PICK doc \in Optional(File) : files' = [files EXCEPT ![m][s] = doc]
      BY <2>1
    <3>2. [files[m] EXCEPT ![s] = doc] \in [Statuses -> Optional(File)]
      BY <1>T DEF GovernanceTypeOK
    <3>3. files' = [files EXCEPT ![m] = [files[m] EXCEPT ![s] = doc]]
      BY <3>1, <1>T DEF GovernanceTypeOK
    <3> QED BY <3>2, <3>3
  <2>2. CASE \E t \in Statuses : files' = [files EXCEPT ![m] = [x \in Statuses |-> IF x = t THEN files[m][s] ELSE {}]]
    <3>1. PICK t \in Statuses : files' = [files EXCEPT ![m] = [x \in Statuses |-> IF x = t THEN files[m][s] ELSE {}]]
      BY <2>2
    <3>2. {} \in Optional(File) /\ files[m][s] \in Optional(File)
      BY <1>T, Optionals DEF GovernanceTypeOK
    <3>3. [x \in Statuses |-> IF x = t THEN files[m][s] ELSE {}] \in [Statuses -> Optional(File)]
      BY <3>2
    <3> QED BY <3>1, <3>3
  <2> QED BY <2>1, <2>2 DEF Edit
<1>4. /\ files' \in [Memories -> [Statuses -> Optional(File)]]
      /\ \A n \in Memories : n # m => files'[n] = files[n]
  BY <1>3, <1>T DEF GovernanceTypeOK
<1>5. GovernanceTypeOK'
  BY <1>1, <1>2, <1>4, <1>T DEF GovernanceTypeOK
<1>6. Here' = Here
  BY <1>1 DEF Here
<1>7. Agrees' /\ DecidedOnce'
  BY <1>1, <1>6, <1>T DEF Agrees, DecidedOnce
<1>8. OnlyKnownFilesReplaced'
  <2>1. phase # "free" => Here.memory \in Memories
    BY <1>T, HereIsStaged DEF Agrees, Mutation
  <2> QED BY <1>1, <1>4, <1>6, <2>1, <1>T DEF OnlyKnownFilesReplaced
<1> QED BY <1>5, <1>7, <1>8 DEF GovernanceIInv

LEMMA RejectStep == ASSUME GovernanceIInv, NEW c \in Candidates, Reject(c) PROVE GovernanceIInv'
<1>T. GovernanceTypeOK /\ Agrees /\ DecidedOnce
  BY DEF GovernanceIInv
<1>1. /\ phase = "free" /\ staged = {} /\ verdicts' = [verdicts EXCEPT ![c] = {"rejected"}]
      /\ UNCHANGED <<files, rows, staged, phase, cause, recorded, waived, ruled, raced, spent>>
  BY DEF Reject
<1>2. verdicts' \in [Candidates -> SUBSET {"promoted", "rejected"}]
  BY <1>1, <1>T DEF GovernanceTypeOK
<1>3. GovernanceTypeOK'
  BY <1>1, <1>2, <1>T DEF GovernanceTypeOK
<1>4. Agrees' /\ OnlyKnownFilesReplaced'
  BY <1>1, <1>T DEF Agrees, OnlyKnownFilesReplaced
<1>5. DecidedOnce'
  <2>1. verdicts'[c] = {"rejected"} /\ \A d \in Candidates : d # c => verdicts'[d] = verdicts[d]
    BY <1>1, <1>T DEF GovernanceTypeOK
  <2>2. {"rejected"} # {"promoted", "rejected"}
    OBVIOUS
  <2> QED BY <2>1, <2>2, <1>T DEF DecidedOnce
<1> QED BY <1>3, <1>4, <1>5 DEF GovernanceIInv

LEMMA GovernanceGoesOn == GovernanceIInv /\ [GovernanceNext]_governanceVars => GovernanceIInv'
<1> SUFFICES ASSUME GovernanceIInv, [GovernanceNext]_governanceVars PROVE GovernanceIInv'
  OBVIOUS
<1>1. CASE UNCHANGED governanceVars
  BY <1>1 DEF governanceVars, GovernanceIInv, GovernanceTypeOK, Agrees, OnlyKnownFilesReplaced, DecidedOnce, Here
<1>2. CASE Govern \/ KeepFile \/ Halt
  BY <1>2, MutationSteps DEF Govern
<1>3. ASSUME NEW m \in Memories, NEW s \in Statuses, Edit(m, s) PROVE GovernanceIInv'
  BY <1>3, EditStep
<1>4. ASSUME NEW c \in Candidates, Reject(c) PROVE GovernanceIInv'
  BY <1>4, RejectStep
<1>5. ASSUME NEW m \in Memories, Sync(m) PROVE GovernanceIInv'
  BY <1>5, StagersStep
<1>6. ASSUME NEW m \in Memories, NEW s \in Statuses, SetStatus(m, s) PROVE GovernanceIInv'
  BY <1>6, StagersStep
<1>7. ASSUME NEW m \in Memories, NEW b \in Bodies, NEW k \in Metas, Author(m, b, k) \/ Update(m, b, k)
      PROVE  GovernanceIInv'
  BY <1>7, StagersStep
<1>8. ASSUME NEW c \in Candidates, NEW m \in Memories, NEW b \in Bodies, NEW k \in Metas, Promote(c, m, b, k)
      PROVE  GovernanceIInv'
  BY <1>8, StagersStep
<1> QED BY <1>1, <1>2, <1>3, <1>4, <1>5, <1>6, <1>7, <1>8 DEF GovernanceNext

\* For any memories, candidates and bounds, over a death at any of the five steps
\* of a mutation and any edits of the owner: the index is what the journaled
\* decisions amount to, a candidate is decided once, and no file is replaced that
\* the decision did not know (memory-governance.ts).
THEOREM GovernanceHolds == GovernanceSpec => []GovernanceInv
<1>1. GovernanceIInv => GovernanceInv
  <2> SUFFICES ASSUME GovernanceIInv PROVE GovernanceInv
    OBVIOUS
  <2>1. IndexFollowsJournal
    <3> SUFFICES ASSUME NEW m \in Memories, rows[m] # ruled[m]
                 PROVE  recorded /\ \E mutation \in staged : mutation.memory = m
      BY DEF IndexFollowsJournal
    <3>1. recorded /\ staged # {} /\ m = Here.memory
      BY DEF GovernanceIInv, Agrees
    <3>2. Here \in staged
      BY <3>1, HereIsStaged DEF GovernanceIInv
    <3> QED BY <3>1, <3>2
  <2> QED BY <2>1 DEF GovernanceIInv, GovernanceInv
<1> QED BY <1>1, GovernanceBegins, GovernanceGoesOn, PTL DEF GovernanceSpec

-----------------------------------------------------------------------------
(* BadCaseLog.                                                               *)

\* Up to the last case of a pass under way, every failure is in the log already or
\* among what the pass is about to append; what is recorded meanwhile comes later.
PassCovers ==
  /\ fresh \in Seq(DOMAIN happened)
  /\ at \in {"appending", "marking"} =>
       /\ fresh # <<>>
       /\ \A i \in 1..Newest : happened[i] => i \in appended \/ (at = "appending" /\ i \in ToSet(fresh))

LogIInv == LogTypeOK /\ MarkerIsHonest /\ PassCovers

LEMMA LogBegins == LogInit => LogIInv
  BY DEF LogInit, LogIInv, LogTypeOK, MarkerIsHonest, PassCovers, ToSet

LEMMA LogGoesOn == LogIInv /\ [LogNext]_caseVars => LogIInv'
<1> SUFFICES ASSUME LogIInv, [LogNext]_caseVars PROVE LogIInv'
  OBVIOUS
<1>T. LogTypeOK /\ MarkerIsHonest /\ PassCovers
  BY DEF LogIInv
<1>N. fresh # <<>> => Newest = fresh[Len(fresh)] /\ Newest \in DOMAIN happened
  BY <1>T DEF Newest, Last, PassCovers
<1>0. CASE UNCHANGED caseVars
  BY <1>0, <1>T DEF caseVars, LogIInv, LogTypeOK, MarkerIsHonest, PassCovers, Newest
<1>1. CASE Happen
  <2>1. PICK bad \in BOOLEAN : happened' = Append(happened, bad)
    BY <1>1 DEF Happen
  <2>2. UNCHANGED <<file, marker, fresh, at, appended, crashes>>
    BY <1>1 DEF Happen
  <2>3. /\ happened' \in Seq(BOOLEAN) /\ Len(happened') = Len(happened) + 1
        /\ DOMAIN happened \subseteq DOMAIN happened'
        /\ \A i \in DOMAIN happened : happened'[i] = happened[i]
    BY <2>1, <1>T DEF LogTypeOK
  <2>4. LogTypeOK'
    BY <2>2, <2>3, <1>T DEF LogTypeOK
  <2>5. MarkerIsHonest'
    BY <2>2, <2>3, <1>T DEF LogTypeOK, MarkerIsHonest
  <2>6. PassCovers'
    <3>1. fresh \in Seq(DOMAIN happened')
      BY <2>3, <1>T DEF PassCovers
    <3>2. Newest' = Newest
      BY <2>2 DEF Newest
    <3>3. ASSUME at \in {"appending", "marking"}, NEW i \in 1..Newest, happened'[i]
          PROVE  i \in appended \/ (at = "appending" /\ i \in ToSet(fresh))
      <4>1. i \in DOMAIN happened
        BY <3>3, <1>N, <1>T DEF PassCovers, LogTypeOK
      <4> QED BY <3>3, <4>1, <2>3, <1>T DEF PassCovers
    <3> QED BY <2>2, <3>1, <3>2, <3>3, <1>T DEF PassCovers
  <2> QED BY <2>4, <2>5, <2>6 DEF LogIInv
<1>2. CASE Collect
  <2>1. /\ fresh' \in InOrder(FreshCases(marker)) /\ FreshCases(marker) # {} /\ at' = "appending"
        /\ UNCHANGED <<happened, file, marker, appended, crashes>>
    BY <1>2 DEF Collect
  <2>2. ToSet(fresh') = FreshCases(marker) /\ FreshCases(marker) \subseteq DOMAIN happened
    BY <2>1 DEF InOrder, FreshCases, BadCases
  <2>3. PICK n : fresh' \in [1..n -> FreshCases(marker)] /\ n = Cardinality(FreshCases(marker))
    BY <2>1 DEF InOrder
  <2>4. n \in Nat
    <3>1. IsFiniteSet(DOMAIN happened)
      BY <1>T, FS_Interval DEF LogTypeOK
    <3>2. IsFiniteSet(FreshCases(marker))
      BY <2>2, <3>1, FS_Subset
    <3> QED BY <2>3, <3>2, FS_CardinalityType
  <2>5. fresh' \in Seq(DOMAIN happened) /\ fresh' # <<>>
    <3>1. fresh' \in Seq(DOMAIN happened)
      BY <2>2, <2>3, <2>4
    <3>2. fresh' # <<>>
      BY <2>1, <2>2 DEF ToSet
    <3> QED BY <3>1, <3>2
  <2>6. Newest' = fresh'[Len(fresh')] /\ Newest' \in DOMAIN happened
    BY <2>5 DEF Newest, Last
  <2>7. \A i \in 1..Newest' : happened[i] => i \in appended \/ i \in ToSet(fresh')
    <3> SUFFICES ASSUME NEW i \in 1..Newest', happened[i], i \notin appended PROVE i \in ToSet(fresh')
      OBVIOUS
    <3>1. i \in DOMAIN happened
      BY <2>6, <1>T DEF LogTypeOK
    <3>2. i > marker
      BY <3>1, <1>T DEF MarkerIsHonest, LogTypeOK
    <3> QED BY <2>2, <3>1, <3>2 DEF FreshCases, BadCases
  <2>8. LogTypeOK' /\ MarkerIsHonest'
    BY <2>1, <1>T DEF LogTypeOK, MarkerIsHonest
  <2>9. PassCovers'
    BY <2>1, <2>5, <2>7 DEF PassCovers
  <2> QED BY <2>8, <2>9 DEF LogIInv
<1>3. CASE AppendBlock
  <2>1. /\ at = "appending" /\ file' = file \o fresh /\ appended' = appended \cup ToSet(fresh) /\ at' = "marking"
        /\ UNCHANGED <<happened, marker, fresh, crashes>>
    BY <1>3 DEF AppendBlock
  <2>2. ToSet(fresh) \subseteq DOMAIN happened
    BY <1>T DEF PassCovers, ToSet
  <2>3. file' \in Seq(Nat) /\ ToSet(file') \subseteq appended'
    BY <2>1, <1>T DEF LogTypeOK, PassCovers, ToSet
  <2>4. LogTypeOK'
    BY <2>1, <2>2, <2>3, <1>T DEF LogTypeOK
  <2>5. MarkerIsHonest'
    BY <2>1, <1>T DEF MarkerIsHonest
  <2>6. PassCovers'
    BY <2>1, <1>T DEF PassCovers, Newest
  <2> QED BY <2>4, <2>5, <2>6 DEF LogIInv
<1>4. CASE WriteMarker
  <2>1. /\ at = "marking" /\ marker' = Newest /\ fresh' = <<>> /\ at' = "rotating"
        /\ UNCHANGED <<happened, file, appended, crashes>>
    BY <1>4 DEF WriteMarker
  <2>2. Newest \in DOMAIN happened /\ \A i \in 1..Newest : happened[i] => i \in appended
    BY <2>1, <1>N, <1>T DEF PassCovers
  <2>3. LogTypeOK'
    BY <2>1, <2>2, <1>T DEF LogTypeOK
  <2> QED BY <2>1, <2>2, <2>3 DEF LogIInv, MarkerIsHonest, PassCovers
<1>5. CASE RotateIfNeeded
  <2>1. /\ at' = "idle" /\ UNCHANGED <<happened, marker, fresh, appended, crashes>>
        /\ file' = IF Len(file) <= MaxLines THEN file ELSE SubSeq(file, (Len(file) \div 2) + 1, Len(file))
    BY <1>5 DEF RotateIfNeeded
  <2>2. file' \in Seq(Nat) /\ ToSet(file') \subseteq ToSet(file)
    BY <2>1, <1>T DEF ToSet, LogTypeOK
  <2>3. LogTypeOK' /\ MarkerIsHonest'
    BY <2>1, <2>2, <1>T DEF LogTypeOK, MarkerIsHonest
  <2> QED BY <2>1, <2>3, <1>T DEF LogIInv, PassCovers
<1>6. CASE Crash
  <2>1. /\ fresh' = <<>> /\ at' = "idle" /\ UNCHANGED <<happened, appended>>
        /\ marker' \in {marker, 0} /\ file' \in {file, <<>>}
    BY <1>6 DEF Crash
  <2>2. file' \in Seq(Nat) /\ ToSet(file') \subseteq appended /\ marker' \in 0..Len(happened)
    <3>1. ToSet(<<>>) = {} /\ <<>> \in Seq(Nat)
      BY DEF ToSet
    <3>2. CASE file' = file
      BY <2>1, <3>2, <1>T DEF LogTypeOK
    <3>3. CASE file' = <<>>
      <4>1. ToSet(file') = {}
        BY <3>1, <3>3
      <4> QED BY <2>1, <3>1, <3>3, <4>1, <1>T DEF LogTypeOK
    <3> QED BY <2>1, <3>2, <3>3
  <2>3. MarkerIsHonest'
    BY <2>1, <1>T DEF MarkerIsHonest
  <2> QED BY <2>1, <2>2, <2>3, <1>T DEF LogIInv, LogTypeOK, PassCovers
<1> QED BY <1>0, <1>1, <1>2, <1>3, <1>4, <1>5, <1>6 DEF LogNext, AppendNew

\* For any journal and any deaths between the writes of a pass, also one that
\* leaves the marker unreadable: the marker never speaks for a failure that was not
\* appended (bad-case-log.ts: "restarting never ... misses").
THEOREM LogHolds == LogSpec => []LogInv
<1>1. LogIInv => LogInv
  BY DEF LogIInv, LogInv
<1> QED BY <1>1, LogBegins, LogGoesOn, PTL DEF LogSpec

\* What is kept beside the journal agrees with it after a death at any write: the
\* memory files and their index, the log of failures and its marker.
THEOREM RecordsHold == GovernanceSpec /\ LogSpec => []RecordsInv
<1> QED BY GovernanceHolds, LogHolds, PTL DEF RecordsInv

-----------------------------------------------------------------------------
(* Commitments: the projection.                                               *)

\* The values a projection goes through on the first n events.
IsProjection(f, news, base, n) ==
  f = [i \in 0 .. n |-> IF i = 0 THEN base ELSE Applied(f[i - 1], news[i])]

LEMMA ProjectionExists ==
  ASSUME NEW news, NEW base, NEW n \in Nat
  PROVE  \E f : IsProjection(f, news, base, n)
<1> DEFINE Good(m) == \E f : IsProjection(f, news, base, m)
           Bad == {m \in 0..n : ~ Good(m)}
<1> HIDE DEF Good
<1>2. Bad = {}
  <2> SUFFICES ASSUME Bad # {} PROVE FALSE
    OBVIOUS
  <2>1. Bad \subseteq Nat
    OBVIOUS
  <2>2. PICK m \in Bad : \A y \in Bad : m <= y
    BY <2>1, LeastNumber
  <2>3. CASE m = 0
    <3> DEFINE g == [i \in 0..0 |-> base]
    <3>1. g = [i \in 0..0 |-> IF i = 0 THEN base ELSE Applied(g[i - 1], news[i])]
      <4>1. \A i \in 0..0 : i = 0
        OBVIOUS
      <4> QED
        BY <4>1
    <3>2. IsProjection(g, news, base, 0)
      BY <3>1 DEF IsProjection
    <3> QED
      BY <2>2, <2>3, <3>2 DEF Good
  <2>4. CASE m # 0
    <3>1. m - 1 \in 0..n /\ m \in Nat /\ ~(m <= m - 1)
      BY <2>2, <2>4
    <3>2. PICK f : IsProjection(f, news, base, m - 1)
      <4>1. Good(m - 1)
        BY <2>2, <3>1
      <4> QED
        BY <4>1 DEF Good
    <3> DEFINE next == Applied(f[m - 1], news[m])
               g == [i \in 0..m |-> IF i = m THEN next ELSE f[i]]
    <3> HIDE DEF next
    <3>3. ASSUME NEW i \in 0..m
          PROVE  g[i] = IF i = 0 THEN base ELSE Applied(g[i - 1], news[i])
      <4>1. CASE i = m
        <5>1. g[i] = next /\ g[i - 1] = f[m - 1]
          BY <4>1, <2>4, <3>1
        <5> QED
          BY <5>1, <4>1, <2>4 DEF next
      <4>2. CASE i # m
        <5>1. i \in 0..(m - 1) /\ (i # 0 => i - 1 \in 0..(m - 1) /\ i - 1 # m /\ i - 1 \in 0..m)
          BY <4>2, <3>1
        <5>2. g[i] = f[i] /\ (i # 0 => g[i - 1] = f[i - 1])
          BY <4>2, <5>1
        <5>3. f[i] = IF i = 0 THEN base ELSE Applied(f[i - 1], news[i])
          BY <3>2, <5>1 DEF IsProjection
        <5> QED
          BY <5>2, <5>3
      <4> QED
        BY <4>1, <4>2
    <3>4. g = [i \in 0..m |-> g[i]]
      OBVIOUS
    <3> HIDE DEF g
    <3>5. IsProjection(g, news, base, m)
      BY <3>3, <3>4 DEF IsProjection
    <3> QED
      BY <2>2, <3>5 DEF Good
  <2> QED
    BY <2>3, <2>4
<1>1. n \in 0..n
  OBVIOUS
<1>3. Good(n)
  BY <1>1, <1>2
<1> QED
  BY <1>3 DEF Good

\* Two projections agree as far as what they project does.
LEMMA ProjectionsAgree ==
  ASSUME NEW n \in Nat, NEW m \in 0 .. n, NEW f, NEW g, NEW s, NEW t, NEW base,
         IsProjection(f, s, base, n), IsProjection(g, t, base, m),
         \A i \in 1 .. m : s[i] = t[i]
  PROVE  \A i \in 0 .. m : f[i] = g[i]
<1> DEFINE Off == {i \in 0 .. m : f[i] # g[i]}
<1> SUFFICES ASSUME Off # {} PROVE FALSE
  OBVIOUS
<1>1. Off \subseteq Nat
  OBVIOUS
<1>2. PICK k \in Off : \A y \in Off : k <= y
  BY <1>1, LeastNumber
<1>3. k \in 0 .. m /\ k \in 0 .. n /\ m \in Nat
  OBVIOUS
<1>4. f[k] = IF k = 0 THEN base ELSE Applied(f[k - 1], s[k])
  BY <1>3 DEF IsProjection
<1>5. g[k] = IF k = 0 THEN base ELSE Applied(g[k - 1], t[k])
  BY <1>3 DEF IsProjection
<1>6. k # 0
  BY <1>4, <1>5
<1>7. k - 1 \in 0 .. m /\ k \in 1 .. m /\ ~(k <= k - 1)
  BY <1>3, <1>6
<1>8. f[k - 1] = g[k - 1] /\ s[k] = t[k]
  BY <1>2, <1>7
<1>9. f[k] = g[k]
  BY <1>4, <1>5, <1>6, <1>8
<1> QED
  BY <1>9

LEMMA ProjectIs ==
  ASSUME NEW S, NEW s \in Seq(S), NEW base
  PROVE  \E f : IsProjection(f, s, base, Len(s)) /\ Project(s, base) = f[Len(s)]
<1>0. Len(s) \in Nat
  OBVIOUS
<1>1. \E f : IsProjection(f, s, base, Len(s))
  BY <1>0, ProjectionExists
<1> QED
  BY <1>1 DEF IsProjection, Project

\* Any projection of as many events gives what Project does.
LEMMA ProjectIsAny ==
  ASSUME NEW S, NEW s \in Seq(S), NEW base, NEW f, NEW n \in Nat, Len(s) <= n, NEW t, IsProjection(f, t, base, n),
         \A i \in 1 .. Len(s) : t[i] = s[i]
  PROVE  Project(s, base) = f[Len(s)]
<1>1. Len(s) \in 0 .. n /\ Len(s) \in 0 .. Len(s)
  OBVIOUS
<1>2. PICK g : IsProjection(g, s, base, Len(s)) /\ Project(s, base) = g[Len(s)]
  BY ProjectIs
<1>3. \A i \in 0 .. Len(s) : f[i] = g[i]
  BY <1>1, <1>2, ProjectionsAgree
<1> QED
  BY <1>1, <1>2, <1>3

\* An event more is applied to what the events before it made.
LEMMA ProjectOneMore ==
  ASSUME NEW S, NEW s \in Seq(S), NEW e, NEW base
  PROVE  Project(Append(s, e), base) = Applied(Project(s, base), e)
<1> DEFINE t == Append(s, e)
           n == Len(s)
<1>1. /\ t \in Seq(S \cup {e}) /\ n \in Nat /\ Len(t) = n + 1
      /\ t[n + 1] = e /\ \A i \in 1 .. n : t[i] = s[i]
  BY Appends
<1> HIDE DEF t
<1>2. PICK f : IsProjection(f, t, base, Len(t)) /\ Project(t, base) = f[Len(t)]
  BY <1>1, ProjectIs
<1>3. IsProjection(f, t, base, n + 1) /\ Project(t, base) = f[n + 1]
  BY <1>1, <1>2
<1>4. Project(s, base) = f[n]
  <2>1. n + 1 \in Nat /\ n <= n + 1
    BY <1>1
  <2> QED
    BY <1>1, <1>3, <2>1, ProjectIsAny
<1>5. f[n + 1] = Applied(f[n], t[n + 1])
  <2>1. n + 1 \in 0 .. n + 1 /\ n + 1 # 0 /\ (n + 1) - 1 = n
    BY <1>1
  <2> QED
    BY <1>3, <2>1 DEF IsProjection
<1> QED
  BY <1>1, <1>3, <1>4, <1>5 DEF t

LEMMA ProjectNone ==
  ASSUME NEW base
  PROVE  Project(<<>>, base) = base
<1>1. <<>> \in Seq({}) /\ Len(<<>>) = 0
  OBVIOUS
<1>2. PICK f : IsProjection(f, <<>>, base, 0) /\ Project(<<>>, base) = f[0]
  BY <1>1, ProjectIs
<1> QED
  BY <1>2 DEF IsProjection

\* A part of a sequence.
LEMMA PartOf ==
  ASSUME NEW S, NEW s \in Seq(S), NEW k \in 0 .. Len(s)
  PROVE  /\ SubSeq(s, 1, k) \in Seq(S) /\ Len(SubSeq(s, 1, k)) = k
         /\ \A i \in 1 .. k : SubSeq(s, 1, k)[i] = s[i]
         /\ SubSeq(s, k + 1, Len(s)) \in Seq(S) /\ Len(SubSeq(s, k + 1, Len(s))) = Len(s) - k
         /\ \A i \in 1 .. Len(s) - k : SubSeq(s, k + 1, Len(s))[i] = s[k + i]
  OBVIOUS

\* Reading on from where one stopped comes to the same as reading it all.
LEMMA ProjectInParts ==
  ASSUME NEW S, NEW s \in Seq(S), NEW base, NEW k \in 0 .. Len(s)
  PROVE  Project(SubSeq(s, k + 1, Len(s)), Project(SubSeq(s, 1, k), base)) = Project(s, base)
<1> DEFINE n == Len(s)
           a == SubSeq(s, 1, k)
           z == SubSeq(s, k + 1, n)
<1>1. /\ a \in Seq(S) /\ Len(a) = k /\ \A i \in 1 .. k : a[i] = s[i]
      /\ z \in Seq(S) /\ Len(z) = n - k /\ \A i \in 1 .. n - k : z[i] = s[k + i]
      /\ n \in Nat /\ k \in Nat /\ k <= n /\ n - k \in Nat
  BY PartOf
<1> HIDE DEF a, z, n
<1>2. PICK f : IsProjection(f, s, base, n) /\ Project(s, base) = f[n]
  BY ProjectIs DEF n
<1>3. Project(a, base) = f[k]
  BY <1>1, <1>2, ProjectIsAny
<1> DEFINE h == [i \in 0 .. n - k |-> f[k + i]]
<1>4. ASSUME NEW i \in 0 .. n - k
      PROVE  h[i] = IF i = 0 THEN f[k] ELSE Applied(h[i - 1], z[i])
  <2>1. CASE i = 0
    BY <2>1, <1>1
  <2>2. CASE i # 0
    <3>1. k + i \in 0 .. n /\ k + i # 0 /\ i \in 1 .. n - k /\ i - 1 \in 0 .. n - k /\ k + (i - 1) = (k + i) - 1
      BY <2>2, <1>1
    <3>2. f[k + i] = Applied(f[(k + i) - 1], s[k + i])
      BY <3>1, <1>2 DEF IsProjection
    <3>3. h[i] = f[k + i] /\ h[i - 1] = f[(k + i) - 1] /\ z[i] = s[k + i]
      BY <3>1, <1>1
    <3> QED
      BY <2>2, <3>2, <3>3
  <2> QED
    BY <2>1, <2>2
<1>5. h = [i \in 0 .. n - k |-> h[i]] /\ h[n - k] = f[n]
  <2>1. n - k \in 0 .. n - k /\ k + (n - k) = n
    BY <1>1
  <2> QED
    BY <2>1
<1> HIDE DEF h
<1>6. IsProjection(h, z, f[k], n - k)
  BY <1>4, <1>5 DEF IsProjection
<1>7. Project(z, f[k]) = h[n - k]
  <2>1. n - k <= n - k
    BY <1>1
  <2> QED
    BY <1>1, <1>6, <2>1, ProjectIsAny
<1> QED
  BY <1>2, <1>3, <1>5, <1>7 DEF a, z, n

\* Events that are not about the state leave it as it is.
LEMMA ProjectStays ==
  ASSUME NEW S, NEW s \in Seq(S), NEW base, NEW k \in 0 .. Len(s),
         \A i \in k + 1 .. Len(s) : s[i].type \notin StateTypes
  PROVE  Project(SubSeq(s, 1, k), base) = Project(s, base)
<1> DEFINE n == Len(s)
           a == SubSeq(s, 1, k)
<1>1. /\ a \in Seq(S) /\ Len(a) = k /\ \A i \in 1 .. k : a[i] = s[i]
      /\ n \in Nat /\ k \in Nat /\ k <= n
  BY PartOf
<1> HIDE DEF a
<1>2. PICK f : IsProjection(f, s, base, n) /\ Project(s, base) = f[n]
  BY ProjectIs
<1>3. Project(a, base) = f[k]
  BY <1>1, <1>2, ProjectIsAny
<1> DEFINE Off == {i \in k .. n : f[i] # f[k]}
<1>4. Off = {}
  <2> SUFFICES ASSUME Off # {} PROVE FALSE
    OBVIOUS
  <2>1. Off \subseteq Nat
    BY <1>1
  <2>2. PICK i \in Off : \A y \in Off : i <= y
    BY <2>1, LeastNumber
  <2>3. i # k /\ i \in k .. n
    OBVIOUS
  <2>4. i \in 0 .. n /\ i # 0 /\ i - 1 \in k .. n /\ i \in k + 1 .. n /\ ~(i <= i - 1)
    BY <2>3, <1>1
  <2>5. f[i] = Applied(f[i - 1], s[i])
    BY <1>2, <2>4 DEF IsProjection
  <2>6. f[i - 1] = f[k]
    BY <2>2, <2>4
  <2>7. s[i].type \notin {"recorded", "updated"}
    BY <2>4 DEF StateTypes
  <2>8. Applied(f[i - 1], s[i]) = f[i - 1]
    BY <2>7 DEF Applied
  <2> QED
    BY <2>5, <2>6, <2>8
<1>5. n \in k .. n
  BY <1>1
<1>6. f[n] = f[k]
  BY <1>4, <1>5
<1> QED
  BY <1>2, <1>3, <1>6 DEF a

-----------------------------------------------------------------------------
(* Commitments.                                                              *)

\* One process reconciles at a time.
OneReconciler == \A p, q \in Reconcilers : p = q

Failures == {i \in DOMAIN events : events[i].type = "failed"}

JournalsAreSequences ==
  /\ \E S : events \in Seq(S)
  /\ planned \in Seq(Serving)
  /\ serves = [r \in Serving |-> serves[r]]
  /\ pass = [p \in Reconcilers |-> pass[p]]

\* A run fails once, and what an event settles was planned for it and verified.
EventsAreSound ==
  /\ \A i \in Failures : events[i].id \in Serving /\ outcome[events[i].id] = "failed"
  /\ \A i, j \in Failures : events[i].id = events[j].id => i = j
  /\ \A i \in DOMAIN events : \A r \in events[i].run :
       r \in ToSet(planned) /\ serves[r] = {events[i].id} /\ outcome[r] = "verified"
  /\ SettledOnce

\* What is owed has a due date.
Dated(state) ==
  /\ DOMAIN state \subseteq Owed \cup Goals
  /\ \A c \in DOMAIN state \cap Owed : "due" \in DOMAIN state[c] /\ state[c].due \in Int

\* The commitments a pass has still to look at, or to settle.
Unsettled(p) == pass[p].todo \cup {s.id : s \in pass[p].settling}

\* A settlement under way names a run that was never settled; a run that was
\* settled since the pass read the journal serves none of what it has still to do.
PassIsSound(p) ==
  /\ pass[p].step \in {"idle", "examine", "settle"}
  /\ pass[p].step # "settle" => pass[p].settling = {}
  /\ pass[p].step = "idle" => pass[p].todo = {}
  /\ \A s, t \in pass[p].settling : s = t
  /\ \A s \in pass[p].settling : s.id \notin pass[p].todo /\ AtMostOne(s.run, Serving)
  /\ \A s \in pass[p].settling : \A r \in s.run :
       r \in ToSet(planned) /\ serves[r] = {s.id} /\ outcome[r] = "verified" /\ r \notin SettledRuns
  /\ pass[p].step # "idle" =>
       /\ pass[p].seen.planned \in Seq(Serving) /\ ToSet(pass[p].seen.planned) \subseteq ToSet(planned)
       /\ \A r \in ToSet(pass[p].seen.planned) : pass[p].seen.outcome[r] \in Finished => outcome[r] = pass[p].seen.outcome[r]
       /\ \A r \in SettledRuns \ pass[p].seen.settled : \A c \in Unsettled(p) : serves[r] # {c}

\* What a pass read of the commitments it has still to settle is still so, and
\* it settles a recurrence on a later date.
PassIsCurrent(p) ==
  /\ \A c \in Unsettled(p) :
       /\ c \in DOMAIN State \cap Owed
       /\ pass[p].seen.state[c].due = State[c].due
       /\ pass[p].seen.now \in Int
  /\ \A s \in pass[p].settling :
       s.fields = IF s.id \in Recurring
                  THEN [due |-> NextOccurrence(pass[p].seen.state[s.id].due, pass[p].seen.now)]
                  ELSE [status |-> "met"]

CommitmentsIInv ==
  /\ CommitmentsTypeOK /\ JournalsAreSequences /\ EventsAreSound /\ Dated(State)
  /\ \A p \in Reconcilers : PassIsSound(p) /\ PassIsCurrent(p)

LEMMA EventFields ==
  ASSUME NEW type, NEW id, NEW fields, NEW run
  PROVE  /\ Event(type, id, fields, run).type = type /\ Event(type, id, fields, run).id = id
         /\ Event(type, id, fields, run).fields = fields /\ Event(type, id, fields, run).run = run
         /\ Event(type, id, fields, run).at = today
  BY DEF Event

LEMMA AppliedIs ==
  ASSUME NEW state, NEW e
  PROVE  /\ e.type = "recorded" =>
              /\ DOMAIN Applied(state, e) = DOMAIN state \cup {e.id}
              /\ Applied(state, e)[e.id] = e.fields
              /\ \A c \in DOMAIN state \ {e.id} : Applied(state, e)[c] = state[c]
         /\ e.type = "updated" /\ e.id \in DOMAIN state =>
              /\ DOMAIN Applied(state, e) = DOMAIN state
              /\ Applied(state, e)[e.id] = Overlaid(e.fields, state[e.id])
              /\ \A c \in DOMAIN state \ {e.id} : Applied(state, e)[c] = state[c]
         /\ e.type \notin StateTypes => Applied(state, e) = state
<1>1. ASSUME e.type = "recorded"
      PROVE  /\ DOMAIN Applied(state, e) = DOMAIN state \cup {e.id}
             /\ Applied(state, e)[e.id] = e.fields
             /\ \A c \in DOMAIN state \ {e.id} : Applied(state, e)[c] = state[c]
  <2>1. Applied(state, e) = Overlaid([c \in {e.id} |-> e.fields], state)
    BY <1>1 DEF Applied
  <2>3. Applied(state, e) = [x \in {e.id} \cup DOMAIN state |-> IF x \in {e.id} THEN e.fields ELSE state[x]]
    BY <2>1 DEF Overlaid
  <2> QED
    BY <2>3
<1>2. ASSUME e.type = "updated", e.id \in DOMAIN state
      PROVE  /\ DOMAIN Applied(state, e) = DOMAIN state
             /\ Applied(state, e)[e.id] = Overlaid(e.fields, state[e.id])
             /\ \A c \in DOMAIN state \ {e.id} : Applied(state, e)[c] = state[c]
  <2>1. Applied(state, e) = [state EXCEPT ![e.id] = Overlaid(e.fields, @)]
    BY <1>2 DEF Applied
  <2> QED
    BY <1>2, <2>1
<1>3. e.type \notin StateTypes => Applied(state, e) = state
  BY DEF Applied, StateTypes
<1> QED
  BY <1>1, <1>2, <1>3

LEMMA JournalGrows ==
  ASSUME JournalsAreSequences, NEW e, events' = Append(events, e)
  PROVE  /\ \E S : events' \in Seq(S)
         /\ Len(events) \in Nat /\ Len(events') = Len(events) + 1
         /\ DOMAIN events = 1 .. Len(events) /\ DOMAIN events' = DOMAIN events \cup {Len(events) + 1}
         /\ Len(events) + 1 \notin DOMAIN events
         /\ events'[Len(events) + 1] = e
         /\ \A i \in DOMAIN events : events'[i] = events[i]
         /\ State' = Applied(State, e)
         /\ SettledRuns' = SettledRuns \cup e.run
<1>1. PICK S : events \in Seq(S)
  BY DEF JournalsAreSequences
<1>2. /\ events' \in Seq(S \cup {e})
      /\ Len(events) \in Nat /\ Len(events') = Len(events) + 1
      /\ DOMAIN events = 1 .. Len(events) /\ DOMAIN events' = 1 .. Len(events) + 1
      /\ events'[Len(events) + 1] = e
      /\ \A i \in 1 .. Len(events) : events'[i] = events[i]
  BY <1>1, Appends
<1>3. DOMAIN events' = DOMAIN events \cup {Len(events) + 1} /\ Len(events) + 1 \notin DOMAIN events
  BY <1>2
<1>4. Project(events', NoFields) = Applied(Project(events, NoFields), e)
  BY <1>1, ProjectOneMore
<1>5. SettledRuns' = SettledRuns \cup e.run
  BY <1>2, <1>3 DEF SettledRuns
<1> QED
  BY <1>2, <1>3, <1>4, <1>5 DEF State

\* What every step leaves of the runs.
RunsGoOn ==
  /\ ToSet(planned) \subseteq ToSet(planned')
  /\ \A r \in ToSet(planned) : serves'[r] = serves[r]
  /\ \A r \in Serving : outcome[r] # "open" => outcome'[r] = outcome[r]

\* Another event keeps the journal sound when it reports a failure of its own and
\* settles no run that was settled.
LEMMA EventsStaySound ==
  ASSUME CommitmentsIInv, RunsGoOn, NEW e, events' = Append(events, e),
         e.type = "failed" => e.id \in Serving /\ outcome[e.id] = "open" /\ outcome'[e.id] = "failed",
         \A r \in e.run : r \in ToSet(planned) /\ serves[r] = {e.id} /\ outcome[r] = "verified" /\ r \notin SettledRuns
  PROVE  EventsAreSound'
<1>0. /\ ToSet(planned) \subseteq Serving /\ EventsAreSound
  BY DEF CommitmentsIInv, CommitmentsTypeOK
<1> DEFINE n == Len(events) + 1
<1>1. /\ DOMAIN events' = DOMAIN events \cup {n} /\ n \notin DOMAIN events /\ events'[n] = e
      /\ \A i \in DOMAIN events : events'[i] = events[i]
  BY JournalGrows DEF CommitmentsIInv
<1> HIDE DEF n
<1>2. \A i \in Failures' : i \in Failures \/ (i = n /\ e.type = "failed")
  BY <1>1 DEF Failures
<1>3. ASSUME NEW i \in Failures' PROVE events'[i].id \in Serving /\ outcome'[events'[i].id] = "failed"
  <2>1. CASE i \in Failures
    <3>1. i \in DOMAIN events /\ events'[i] = events[i] /\ events[i].id \in Serving /\ outcome[events[i].id] = "failed"
      BY <2>1, <1>0, <1>1 DEF Failures, EventsAreSound
    <3> QED
      BY <3>1 DEF RunsGoOn
  <2>2. CASE i = n /\ e.type = "failed"
    BY <2>2, <1>1
  <2> QED
    BY <1>2, <2>1, <2>2
<1>4. ASSUME NEW i \in Failures', NEW j \in Failures', events'[i].id = events'[j].id PROVE i = j
  <2>1. CASE i \in Failures /\ j \in Failures
    BY <2>1, <1>4, <1>0, <1>1 DEF Failures, EventsAreSound
  <2>2. ASSUME NEW k \in Failures, e.type = "failed" PROVE events[k].id # e.id
    <3>1. outcome[events[k].id] = "failed"
      BY <1>0 DEF EventsAreSound
    <3> QED
      BY <3>1, <2>2
  <2>3. CASE i \in Failures /\ j = n /\ e.type = "failed"
    BY <2>2, <2>3, <1>1, <1>4 DEF Failures
  <2>4. CASE j \in Failures /\ i = n /\ e.type = "failed"
    BY <2>2, <2>4, <1>1, <1>4 DEF Failures
  <2> QED
    BY <1>2, <2>1, <2>3, <2>4
<1>5. ASSUME NEW i \in DOMAIN events', NEW r \in events'[i].run
      PROVE  r \in ToSet(planned)' /\ serves'[r] = {events'[i].id} /\ outcome'[r] = "verified"
  <2>1. CASE i \in DOMAIN events
    <3>1. r \in ToSet(planned) /\ serves[r] = {events[i].id} /\ outcome[r] = "verified" /\ r \in Serving
      BY <2>1, <1>5, <1>0, <1>1 DEF EventsAreSound
    <3> QED
      BY <3>1, <2>1, <1>1 DEF RunsGoOn
  <2>2. CASE i = n
    <3>1. r \in ToSet(planned) /\ serves[r] = {e.id} /\ outcome[r] = "verified" /\ r \in Serving
      BY <2>2, <1>5, <1>0, <1>1
    <3> QED
      BY <3>1, <2>2, <1>1 DEF RunsGoOn
  <2> QED
    BY <1>1, <2>1, <2>2
<1>6. ASSUME NEW i \in DOMAIN events', NEW j \in DOMAIN events', i # j, events'[i].run # {}
      PROVE  events'[i].run # events'[j].run
  <2>1. CASE i \in DOMAIN events /\ j \in DOMAIN events
    BY <2>1, <1>6, <1>0, <1>1 DEF EventsAreSound, SettledOnce
  <2>2. ASSUME NEW k \in DOMAIN events, e.run # {} PROVE events[k].run # e.run
    <3>1. PICK r \in e.run : r \notin SettledRuns
      BY <2>2
    <3> QED
      BY <3>1 DEF SettledRuns
  <2>3. CASE i \in DOMAIN events /\ j = n
    BY <2>2, <2>3, <1>1, <1>6
  <2>4. CASE i = n /\ j \in DOMAIN events
    BY <2>2, <2>4, <1>1, <1>6
  <2> QED
    BY <1>1, <1>6, <2>1, <2>3, <2>4
<1>7. SettledOnce'
  BY <1>6 DEF SettledOnce
<1> QED
  BY <1>3, <1>4, <1>5, <1>7 DEF EventsAreSound

\* A step that reconciles nothing and settles nothing leaves what the passes know
\* as it was.
LEMMA PassesStay ==
  ASSUME CommitmentsIInv, RunsGoOn, pass' = pass, SettledRuns' = SettledRuns,
         \A c \in DOMAIN State \cap Owed : c \in DOMAIN State' /\ State'[c].due = State[c].due
  PROVE  \A p \in Reconcilers : PassIsSound(p)' /\ PassIsCurrent(p)'
<1> TAKE p \in Reconcilers
<1>0. PassIsSound(p) /\ PassIsCurrent(p) /\ ToSet(planned) \subseteq Serving
  BY DEF CommitmentsIInv, CommitmentsTypeOK
<1>1. Unsettled(p)' = Unsettled(p)
  BY DEF Unsettled
<1>r. \A r \in SettledRuns : r \in ToSet(planned) /\ outcome[r] = "verified"
  BY DEF CommitmentsIInv, EventsAreSound, SettledRuns
<1>2. ASSUME NEW s \in pass[p].settling, NEW r \in s.run
      PROVE  r \in ToSet(planned)' /\ serves'[r] = {s.id} /\ outcome'[r] = "verified" /\ r \notin SettledRuns'
  <2>1. r \in ToSet(planned) /\ serves[r] = {s.id} /\ outcome[r] = "verified" /\ r \notin SettledRuns /\ r \in Serving
    BY <1>0, <1>2 DEF PassIsSound
  <2> QED
    BY <2>1 DEF RunsGoOn
<1>3. ASSUME pass[p].step # "idle"
      PROVE  /\ pass[p].seen.planned \in Seq(Serving) /\ ToSet(pass[p].seen.planned) \subseteq ToSet(planned)'
             /\ \A r \in ToSet(pass[p].seen.planned) : pass[p].seen.outcome[r] \in Finished => outcome'[r] = pass[p].seen.outcome[r]
             /\ \A r \in SettledRuns' \ pass[p].seen.settled : \A c \in Unsettled(p) : serves'[r] # {c}
  <2>1. /\ pass[p].seen.planned \in Seq(Serving) /\ ToSet(pass[p].seen.planned) \subseteq ToSet(planned)
        /\ \A r \in ToSet(pass[p].seen.planned) : pass[p].seen.outcome[r] \in Finished => outcome[r] = pass[p].seen.outcome[r]
        /\ \A r \in SettledRuns \ pass[p].seen.settled : \A c \in Unsettled(p) : serves[r] # {c}
    BY <1>0, <1>3 DEF PassIsSound
  <2>2. ASSUME NEW r \in ToSet(pass[p].seen.planned), pass[p].seen.outcome[r] \in Finished
        PROVE  outcome'[r] = pass[p].seen.outcome[r]
    <3>1. r \in Serving /\ outcome[r] = pass[p].seen.outcome[r] /\ outcome[r] # "open"
      BY <1>0, <2>1, <2>2 DEF Finished
    <3> QED
      BY <3>1 DEF RunsGoOn
  <2> QED
    BY <2>1, <2>2, <1>r DEF RunsGoOn
<1>4. PassIsSound(p)'
  BY <1>0, <1>1, <1>2, <1>3 DEF PassIsSound
<1>5. ASSUME NEW c \in Unsettled(p)
      PROVE  /\ c \in DOMAIN State' \cap Owed
             /\ pass[p].seen.state[c].due = State'[c].due
             /\ pass[p].seen.now \in Int
  <2>1. /\ c \in DOMAIN State \cap Owed
        /\ pass[p].seen.state[c].due = State[c].due
        /\ pass[p].seen.now \in Int
    BY <1>0 DEF PassIsCurrent
  <2> QED
    BY <2>1
<1>6. \A s \in pass[p].settling :
         s.fields = IF s.id \in Recurring
                    THEN [due |-> NextOccurrence(pass[p].seen.state[s.id].due, pass[p].seen.now)]
                    ELSE [status |-> "met"]
  BY <1>0 DEF PassIsCurrent
<1>7. PassIsCurrent(p)'
  BY <1>1, <1>5, <1>6 DEF PassIsCurrent
<1> QED
  BY <1>4, <1>7

\* Steps without an event.
LEMMA SilentStep ==
  ASSUME CommitmentsIInv, RunsGoOn, UNCHANGED <<events, pass>>, CommitmentsTypeOK',
         planned' \in Seq(Serving), serves' = [r \in Serving |-> serves'[r]]
  PROVE  CommitmentsIInv'
<1>1. State' = State /\ SettledRuns' = SettledRuns
  BY DEF State, SettledRuns
<1>2. \A p \in Reconcilers : PassIsSound(p)' /\ PassIsCurrent(p)'
  BY <1>1, PassesStay
<1>3. JournalsAreSequences'
  BY DEF CommitmentsIInv, JournalsAreSequences
<1>4. EventsAreSound'
  <2>1. ToSet(planned) \subseteq Serving /\ EventsAreSound
    BY DEF CommitmentsIInv, CommitmentsTypeOK
  <2>2. Failures' = Failures /\ (SettledOnce' <=> SettledOnce)
    BY DEF Failures, SettledOnce
  <2>3. \A i \in Failures : events[i].id \in Serving /\ outcome'[events[i].id] = "failed"
    BY <2>1 DEF EventsAreSound, RunsGoOn
  <2>4. \A i \in DOMAIN events : \A r \in events[i].run :
          r \in ToSet(planned)' /\ serves'[r] = {events[i].id} /\ outcome'[r] = "verified"
    BY <2>1 DEF EventsAreSound, RunsGoOn
  <2> QED
    BY <2>1, <2>2, <2>3, <2>4 DEF EventsAreSound
<1>5. Dated(State')
  BY <1>1 DEF CommitmentsIInv
<1>6. Dated(State)'
  BY <1>5 DEF Dated
<1> QED
  BY <1>2, <1>3, <1>4, <1>6 DEF CommitmentsIInv

\* Steps that append an event that settles nothing.
LEMMA TellingStep ==
  ASSUME CommitmentsIInv, RunsGoOn, NEW e, events' = Append(events, e), e.run = {}, pass' = pass, CommitmentsTypeOK',
         planned' \in Seq(Serving), serves' = [r \in Serving |-> serves'[r]],
         e.type = "failed" => e.id \in Serving /\ outcome[e.id] = "open" /\ outcome'[e.id] = "failed",
         e.type \notin StateTypes \/ (e.type = "recorded" /\ e.id \notin DOMAIN State /\ e.id \in Owed \cup Goals
                                      /\ (e.id \in Owed => "due" \in DOMAIN e.fields /\ e.fields.due \in Int))
  PROVE  /\ CommitmentsIInv'
         /\ \A c \in DOMAIN State : c \in DOMAIN State' /\ State'[c] = State[c]
<1>1. State' = Applied(State, e) /\ SettledRuns' = SettledRuns /\ \E S : events' \in Seq(S)
  BY JournalGrows DEF CommitmentsIInv
<1>2. Dated(State)
  BY DEF CommitmentsIInv
<1>3. \A c \in DOMAIN State : c \in DOMAIN State' /\ State'[c] = State[c]
  <2>1. CASE e.type \notin StateTypes
    BY <2>1, <1>1, AppliedIs
  <2>2. CASE e.type = "recorded" /\ e.id \notin DOMAIN State
    <3>1. DOMAIN State' = DOMAIN State \cup {e.id} /\ \A c \in DOMAIN State \ {e.id} : State'[c] = State[c]
      BY <2>2, <1>1, AppliedIs
    <3> QED
      BY <3>1, <2>2
  <2> QED
    BY <2>1, <2>2
<1>4. Dated(State')
  <2>1. CASE e.type \notin StateTypes
    BY <2>1, <1>1, <1>2, AppliedIs
  <2>2. CASE e.type = "recorded" /\ e.id \notin DOMAIN State /\ e.id \in Owed \cup Goals
                                      /\ (e.id \in Owed => "due" \in DOMAIN e.fields /\ e.fields.due \in Int)
    <3>1. DOMAIN State' = DOMAIN State \cup {e.id} /\ State'[e.id] = e.fields /\ \A c \in DOMAIN State \ {e.id} : State'[c] = State[c]
      BY <2>2, <1>1, AppliedIs
    <3>2. DOMAIN State' \subseteq Owed \cup Goals
      BY <3>1, <2>2, <1>2 DEF Dated
    <3>3. ASSUME NEW c \in DOMAIN State' \cap Owed PROVE "due" \in DOMAIN State'[c] /\ State'[c].due \in Int
      <4>1. CASE c = e.id
        BY <4>1, <3>1, <2>2, <3>3
      <4>2. CASE c # e.id
        <5>1. c \in DOMAIN State \cap Owed /\ State'[c] = State[c]
          BY <4>2, <3>1, <3>3
        <5> QED
          BY <5>1, <1>2 DEF Dated
      <4> QED BY <4>1, <4>2
    <3> QED
      BY <3>2, <3>3 DEF Dated
  <2> QED
    BY <2>1, <2>2
<1>5. Dated(State)'
  BY <1>4 DEF Dated
<1>6. EventsAreSound'
  BY EventsStaySound
<1>7. \A p \in Reconcilers : PassIsSound(p)' /\ PassIsCurrent(p)'
  BY <1>1, <1>3, PassesStay
<1>8. JournalsAreSequences'
  BY <1>1 DEF CommitmentsIInv, JournalsAreSequences
<1>9. CommitmentsIInv'
  BY <1>5, <1>6, <1>7, <1>8 DEF CommitmentsIInv
<1> QED
  BY <1>3, <1>9

LEMMA LaterOf ==
  ASSUME NEW a \in Int, NEW b \in Int
  PROVE  Max({a, b}) \in Int /\ a <= Max({a, b}) /\ b <= Max({a, b})
<1>1. \E x \in {a, b} : \A y \in {a, b} : x >= y
  OBVIOUS
<1>2. Max({a, b}) \in {a, b} /\ \A y \in {a, b} : Max({a, b}) >= y
  BY <1>1 DEF Max
<1> QED
  BY <1>2

LEMMA NextIsLater ==
  ASSUME NEW due \in Int, NEW now \in Int
  PROVE  NextOccurrence(due, now) \in Int /\ due < NextOccurrence(due, now)
<1> DEFINE m == Max({due, now})
<1>1. m \in Int /\ due <= m
  BY LaterOf
<1>2. NextOccurrence(due, now) = 1 + m
  BY DEF NextOccurrence
<1> HIDE DEF m
<1> QED
  BY <1>1, <1>2

LEMMA EventsAreDated ==
  ASSUME CommitmentsIInv, NEW e, events' = Append(events, e), e.at = today
  PROVE  \A i \in DOMAIN events' : events'[i].at \in 0 .. MaxToday
<1>1. /\ DOMAIN events' = DOMAIN events \cup {Len(events) + 1}
      /\ events'[Len(events) + 1] = e /\ \A i \in DOMAIN events : events'[i] = events[i]
  BY JournalGrows DEF CommitmentsIInv
<1> QED
  BY <1>1 DEF CommitmentsIInv, CommitmentsTypeOK

\* The run that is found for c was planned for c, ended, and was not settled when
\* the pass read the journal.
LEMMA ServingRunIs ==
  ASSUME NEW seen, seen.planned \in Seq(Serving), NEW c
  PROVE  /\ AtMostOne(ServingRun(seen, c), Serving)
         /\ \A r \in ServingRun(seen, c) :
              r \in ToSet(seen.planned) /\ serves[r] = {c} /\ seen.outcome[r] \in Finished /\ r \notin seen.settled
<1> DEFINE done == {i \in DOMAIN seen.planned :
                 /\ serves[seen.planned[i]] = {c} /\ seen.outcome[seen.planned[i]] \in Finished
                 /\ seen.planned[i] \notin seen.settled}
<1>1. ServingRun(seen, c) = IF done = {} THEN {} ELSE {seen.planned[Min(done)]}
  BY DEF ServingRun
<1>2. ASSUME done # {} PROVE Min(done) \in done
  <2>1. done \subseteq Nat
    OBVIOUS
  <2> QED
    BY <1>2, <2>1, LeastIs
<1>3. CASE done = {}
  BY <1>1, <1>3 DEF AtMostOne
<1>4. CASE done # {}
  <2> DEFINE r == seen.planned[Min(done)]
  <2>1. /\ Min(done) \in DOMAIN seen.planned
        /\ serves[r] = {c} /\ seen.outcome[r] \in Finished /\ r \notin seen.settled
    BY <1>2, <1>4
  <2>2. r \in ToSet(seen.planned) /\ r \in Serving
    <3>1. \A q \in Seq(Serving) : \A i \in DOMAIN q : q[i] \in Serving /\ q[i] \in ToSet(q)
      BY DEF ToSet
    <3>2. r \in Serving /\ r \in ToSet(seen.planned)
      BY <2>1, <3>1
    <3> QED
      BY <3>2
  <2>3. ServingRun(seen, c) = {r}
    BY <1>1, <1>4
  <2> HIDE DEF r
  <2> QED
    BY <2>1, <2>2, <2>3 DEF AtMostOne
<1> QED
  BY <1>3, <1>4

\* What is decided about c: at most one settlement, of c, by a run that was
\* verified or by none, of a recurrence on a later date.
LEMMA VerdictIs ==
  ASSUME NEW seen, seen.planned \in Seq(Serving), NEW c, NEW s \in Verdict(c, seen)
  PROVE  /\ Verdict(c, seen) = {s} /\ s.id = c
         /\ AtMostOne(s.run, Serving)
         /\ \A r \in s.run :
              r \in ToSet(seen.planned) /\ serves[r] = {c} /\ seen.outcome[r] = "verified" /\ r \notin seen.settled
         /\ s.fields = IF c \in Recurring
                       THEN [due |-> NextOccurrence(seen.state[c].due, seen.now)]
                       ELSE [status |-> "met"]
<1> DEFINE found == ServingRun(seen, c)
           Made(run) == [id |-> c, run |-> run,
                         fields |-> IF c \in Recurring
                                    THEN [due |-> NextOccurrence(seen.state[c].due, seen.now)]
                                    ELSE [status |-> "met"]]
<1>0. /\ AtMostOne(found, Serving)
      /\ \A r \in found : r \in ToSet(seen.planned) /\ serves[r] = {c} /\ r \notin seen.settled
  BY ServingRunIs
<1>s. \A run : Settlement(c, seen, run) = {Made(run)}
  BY DEF Settlement
<1>1. PICK run : /\ Verdict(c, seen) = Settlement(c, seen, run)
                 /\ run = {} \/ (run = found /\ \E r \in found : seen.outcome[r] = "verified")
  <2>1. CASE \E r \in found : seen.outcome[r] = "verified"
    <3>1. Verdict(c, seen) = IF \A r \in found : artifact[r] THEN Settlement(c, seen, found) ELSE {}
      BY <2>1 DEF Verdict
    <3>2. Verdict(c, seen) = Settlement(c, seen, found)
      BY <3>1
    <3> QED
      BY <2>1, <3>2
  <2>2. CASE ~ \E r \in found : seen.outcome[r] = "verified"
    <3>1. Verdict(c, seen) = IF c \in Recurring /\ seen.state[c].due <= seen.now THEN Settlement(c, seen, {}) ELSE {}
      BY <2>2 DEF Verdict
    <3>2. Verdict(c, seen) = Settlement(c, seen, {})
      BY <3>1
    <3> QED
      BY <3>2
  <2> QED
    BY <2>1, <2>2
<1>2. s = Made(run) /\ Verdict(c, seen) = {s}
  BY <1>1, <1>s
<1> HIDE DEF found
<1>3. AtMostOne(run, Serving)
  BY <1>0, <1>1 DEF AtMostOne
<1>4. \A r \in run : r \in ToSet(seen.planned) /\ serves[r] = {c} /\ seen.outcome[r] = "verified" /\ r \notin seen.settled
  BY <1>0, <1>1 DEF AtMostOne
<1> QED
  BY <1>2, <1>3, <1>4

\* No due date that is known moves back.
DueIsKept ==
  \A c \in DOMAIN State \cap Owed : c \in DOMAIN State' /\ State[c].due <= State'[c].due

LEMMA SilentIsKept ==
  ASSUME CommitmentsIInv, UNCHANGED events
  PROVE  DueIsKept
<1>1. State' = State
  BY DEF State
<1>2. \A c \in DOMAIN State \cap Owed : State[c].due \in Int
  BY DEF CommitmentsIInv, Dated
<1> QED
  BY <1>1, <1>2 DEF DueIsKept

LEMMA TellingIsKept ==
  ASSUME CommitmentsIInv, \A c \in DOMAIN State : c \in DOMAIN State' /\ State'[c] = State[c]
  PROVE  DueIsKept
<1>1. \A c \in DOMAIN State \cap Owed : State[c].due \in Int
  BY DEF CommitmentsIInv, Dated
<1> QED
  BY <1>1 DEF DueIsKept

LEMMA RunsAreLeft ==
  ASSUME UNCHANGED <<planned, serves, outcome>>
  PROVE  RunsGoOn
BY DEF RunsGoOn

LEMMA RecordStep ==
  ASSUME CommitmentsIInv, NEW id, NEW fields, id \in Owed \cup Goals, id \notin DOMAIN State,
         id \in Owed => "due" \in DOMAIN fields /\ fields.due \in Int,
         events' = Append(events, Event("recorded", id, fields, {})),
         UNCHANGED <<today, planned, serves, outcome, artifact, pass>>
  PROVE  CommitmentsIInv' /\ DueIsKept
<1> DEFINE e == Event("recorded", id, fields, {})
<1>1. e.type = "recorded" /\ e.id = id /\ e.fields = fields /\ e.run = {} /\ e.at = today
  BY EventFields
<1> HIDE DEF e
<1>2. events' = Append(events, e)
  BY DEF e
<1>3. RunsGoOn
  BY RunsAreLeft
<1>4. CommitmentsTypeOK'
  <2>1. \A i \in DOMAIN events' : events'[i].at \in 0 .. MaxToday
    BY <1>1, <1>2, EventsAreDated
  <2> QED
    BY <2>1 DEF CommitmentsIInv, CommitmentsTypeOK
<1>5. planned' \in Seq(Serving) /\ serves' = [r \in Serving |-> serves'[r]]
  BY DEF CommitmentsIInv, JournalsAreSequences
<1>6. CommitmentsIInv' /\ \A c \in DOMAIN State : c \in DOMAIN State' /\ State'[c] = State[c]
  BY <1>1, <1>2, <1>3, <1>4, <1>5, TellingStep
<1> QED
  BY <1>6, TellingIsKept

LEMMA PlanStep ==
  ASSUME CommitmentsIInv, NEW r \in Serving, r \notin ToSet(planned), NEW set, AtMostOne(set, Owed),
         planned' = Append(planned, r), serves' = [serves EXCEPT ![r] = set],
         UNCHANGED <<events, today, outcome, artifact, pass>>
  PROVE  CommitmentsIInv' /\ DueIsKept
<1>0. /\ planned \in Seq(Serving) /\ serves = [x \in Serving |-> serves[x]]
      /\ ToSet(planned) \subseteq Serving /\ \A x \in Serving : AtMostOne(serves[x], Owed)
  BY DEF CommitmentsIInv, JournalsAreSequences, CommitmentsTypeOK
<1>1. planned' \in Seq(Serving) /\ ToSet(planned') = ToSet(planned) \cup {r}
  <2>1. Serving \cup {r} = Serving
    OBVIOUS
  <2>2. /\ planned' \in Seq(Serving)
        /\ DOMAIN planned = 1 .. Len(planned) /\ DOMAIN planned' = 1 .. Len(planned) + 1 /\ Len(planned) \in Nat
        /\ planned'[Len(planned) + 1] = r
        /\ \A i \in 1 .. Len(planned) : planned'[i] = planned[i]
    BY <1>0, <2>1, Appends
  <2>3. DOMAIN planned' = DOMAIN planned \cup {Len(planned) + 1}
    BY <2>2
  <2> QED
    BY <2>2, <2>3 DEF ToSet
<1>2. serves' = [x \in Serving |-> serves'[x]] /\ serves'[r] = set /\ \A x \in Serving \ {r} : serves'[x] = serves[x]
  BY <1>0
<1>3. RunsGoOn
  <2>1. ToSet(planned) \subseteq ToSet(planned') /\ \A x \in ToSet(planned) : serves'[x] = serves[x]
    BY <1>0, <1>1, <1>2
  <2> QED
    BY <2>1 DEF RunsGoOn
<1>4. CommitmentsTypeOK'
  <2>1. ToSet(planned)' \subseteq Serving
    BY <1>0, <1>1
  <2>2. \A x \in Serving : AtMostOne(serves'[x], Owed)
    BY <1>0, <1>2
  <2> QED
    BY <2>1, <2>2 DEF CommitmentsIInv, CommitmentsTypeOK
<1>5. CommitmentsIInv'
  BY <1>1, <1>2, <1>3, <1>4, SilentStep
<1> QED
  BY <1>5, SilentIsKept

LEMMA EndStep ==
  ASSUME CommitmentsIInv, NEW r \in Serving, NEW how \in Outcomes, RunEnds(r, how)
  PROVE  CommitmentsIInv' /\ DueIsKept
<1> DEFINE type == IF how = "failed" THEN "failed" ELSE "completed"
           e == Event(type, r, NoFields, {})
<1>1. e.type = type /\ e.id = r /\ e.run = {} /\ e.at = today
  BY EventFields
<1> HIDE DEF e
<1>2. /\ events' = Append(events, e) /\ outcome[r] = "open" /\ outcome' = [outcome EXCEPT ![r] = how] /\ how # "open"
      /\ UNCHANGED <<today, planned, serves, artifact, pass>>
  BY DEF e, RunEnds
<1>3. outcome' \in [Serving -> Outcomes] /\ outcome'[r] = how /\ \A x \in Serving \ {r} : outcome'[x] = outcome[x]
  BY <1>2 DEF CommitmentsIInv, CommitmentsTypeOK
<1>4. RunsGoOn
  BY <1>2, <1>3 DEF RunsGoOn
<1>5. CommitmentsTypeOK'
  <2>1. \A i \in DOMAIN events' : events'[i].at \in 0 .. MaxToday
    BY <1>1, <1>2, EventsAreDated
  <2> QED
    BY <2>1, <1>2, <1>3 DEF CommitmentsIInv, CommitmentsTypeOK
<1>6. planned' \in Seq(Serving) /\ serves' = [x \in Serving |-> serves'[x]]
  BY <1>2 DEF CommitmentsIInv, JournalsAreSequences
<1>7. e.type \notin StateTypes /\ (e.type = "failed" => e.id \in Serving /\ outcome[e.id] = "open" /\ outcome'[e.id] = "failed")
  BY <1>1, <1>2, <1>3 DEF StateTypes
<1>8. CommitmentsIInv' /\ \A c \in DOMAIN State : c \in DOMAIN State' /\ State'[c] = State[c]
  BY <1>1, <1>2, <1>4, <1>5, <1>6, <1>7, TellingStep
<1> QED
  BY <1>8, TellingIsKept

\* A pass begins: what it reads is what is so.
LEMMA BeginStep ==
  ASSUME OneReconciler, CommitmentsIInv, NEW p \in Reconcilers, BeginPass(p)
  PROVE  CommitmentsIInv' /\ DueIsKept
<1> DEFINE todo == {c \in DOMAIN State \cap Owed : State[c].status = "open"}
           seen == [state |-> State, planned |-> planned, outcome |-> outcome, settled |-> SettledRuns, now |-> today]
           x == [step |-> "examine", todo |-> todo, settling |-> {}, seen |-> seen]
<1>1. /\ pass' = [pass EXCEPT ![p] = x]
      /\ UNCHANGED <<events, today, planned, serves, outcome, artifact>>
  BY DEF BeginPass
<1>2. /\ pass = [q \in Reconcilers |-> pass[q]] /\ planned \in Seq(Serving) /\ ToSet(planned) \subseteq Serving
      /\ today \in Int
  BY CommitmentsAssumption DEF CommitmentsIInv, JournalsAreSequences, CommitmentsTypeOK
<1>3. /\ pass' = [q \in Reconcilers |-> pass'[q]] /\ pass'[p] = x
      /\ State' = State /\ SettledRuns' = SettledRuns
  BY <1>1, <1>2 DEF State, SettledRuns
<1>4. /\ pass'[p].step = "examine" /\ pass'[p].todo = todo /\ pass'[p].settling = {} /\ pass'[p].seen = seen
      /\ seen.state = State /\ seen.planned = planned /\ seen.outcome = outcome /\ seen.settled = SettledRuns /\ seen.now = today
      /\ todo \subseteq DOMAIN State \cap Owed
  BY <1>3
<1> HIDE DEF x, todo, seen
<1>5. Unsettled(p)' = todo
  BY <1>4 DEF Unsettled
<1>6. PassIsSound(p)'
  <2>1. /\ seen.planned \in Seq(Serving) /\ ToSet(seen.planned) \subseteq ToSet(planned)'
        /\ \A r \in ToSet(seen.planned) : seen.outcome[r] \in Finished => outcome'[r] = seen.outcome[r]
        /\ SettledRuns' \ seen.settled = {}
    BY <1>1, <1>2, <1>3, <1>4
  <2> QED
    BY <1>4, <2>1 DEF PassIsSound
<1>7. PassIsCurrent(p)'
  BY <1>2, <1>3, <1>4, <1>5 DEF PassIsCurrent
<1>8. \A q \in Reconcilers : q = p
  BY DEF OneReconciler
<1>9. CommitmentsTypeOK'
  BY <1>1, <1>4, <1>8 DEF CommitmentsIInv, CommitmentsTypeOK
<1>10. JournalsAreSequences'
  BY <1>1, <1>3 DEF CommitmentsIInv, JournalsAreSequences
<1>11. EventsAreSound'
  BY <1>1 DEF CommitmentsIInv, EventsAreSound, Failures, SettledOnce
<1>12. Dated(State)'
  BY <1>3 DEF CommitmentsIInv, Dated
<1>13. CommitmentsIInv'
  BY <1>6, <1>7, <1>8, <1>9, <1>10, <1>11, <1>12 DEF CommitmentsIInv
<1> QED
  BY <1>1, <1>13, SilentIsKept

LEMMA ProceedsIs ==
  ASSUME CommitmentsIInv, NEW p \in Reconcilers, NEW step, NEW todo, NEW settling, Proceeds(p, step, todo, settling)
  PROVE  /\ pass' = [q \in Reconcilers |-> pass'[q]]
         /\ pass'[p].step = step /\ pass'[p].todo = todo /\ pass'[p].settling = settling
         /\ pass'[p].seen = pass[p].seen
<1> DEFINE x == [step |-> step, todo |-> todo, seen |-> pass[p].seen, settling |-> settling]
<1>1. pass = [q \in Reconcilers |-> pass[q]] /\ pass' = [pass EXCEPT ![p] = x]
  BY DEF CommitmentsIInv, JournalsAreSequences, Proceeds
<1>2. x.step = step /\ x.todo = todo /\ x.settling = settling /\ x.seen = pass[p].seen
  OBVIOUS
<1> HIDE DEF x
<1>3. pass' = [q \in Reconcilers |-> pass'[q]] /\ pass'[p] = x
  BY <1>1
<1> QED
  BY <1>2, <1>3

\* Steps of the one pass that leave the journal and the runs alone.
LEMMA PassStep ==
  ASSUME OneReconciler, CommitmentsIInv, NEW p \in Reconcilers,
         UNCHANGED <<events, today, planned, serves, outcome, artifact>>,
         pass' = [q \in Reconcilers |-> pass'[q]], PassIsSound(p)', PassIsCurrent(p)'
  PROVE  CommitmentsIInv' /\ DueIsKept
<1>1. \A q \in Reconcilers : q = p
  BY DEF OneReconciler
<1>2. State' = State
  BY DEF State
<1>3. CommitmentsTypeOK'
  <2>1. \A q \in Reconcilers : pass'[q].step \in {"idle", "examine", "settle"}
    BY <1>1 DEF PassIsSound
  <2> QED
    BY <2>1 DEF CommitmentsIInv, CommitmentsTypeOK
<1>4. JournalsAreSequences'
  BY DEF CommitmentsIInv, JournalsAreSequences
<1>5. EventsAreSound'
  BY DEF CommitmentsIInv, EventsAreSound, Failures, SettledOnce
<1>6. Dated(State)'
  BY <1>2 DEF CommitmentsIInv, Dated
<1>7. CommitmentsIInv'
  BY <1>1, <1>3, <1>4, <1>5, <1>6 DEF CommitmentsIInv
<1> QED
  BY <1>7, SilentIsKept

LEMMA ExamineStep ==
  ASSUME OneReconciler, CommitmentsIInv, NEW p \in Reconcilers, Examine(p)
  PROVE  CommitmentsIInv' /\ DueIsKept
<1>0. /\ PassIsSound(p) /\ PassIsCurrent(p) /\ pass[p].step = "examine"
      /\ pass = [q \in Reconcilers |-> pass[q]]
      /\ UNCHANGED <<events, today, planned, serves, outcome, artifact>>
      /\ ToSet(planned) \subseteq Serving
  BY DEF CommitmentsIInv, CommitmentsTypeOK, JournalsAreSequences, Examine
<1>s. State' = State /\ SettledRuns' = SettledRuns
  BY <1>0 DEF State, SettledRuns
<1>1. CASE pass[p].todo = {}
  <2>1. pass' = [pass EXCEPT ![p] = Resting]
    BY <1>1 DEF Examine
  <2>2. pass' = [q \in Reconcilers |-> pass'[q]] /\ pass'[p] = Resting
    BY <1>0, <2>1
  <2>3. pass'[p].step = "idle" /\ pass'[p].todo = {} /\ pass'[p].settling = {}
    BY <2>2 DEF Resting
  <2>4. PassIsSound(p)'
    BY <2>3 DEF PassIsSound
  <2>5. PassIsCurrent(p)'
    BY <2>3 DEF PassIsCurrent, Unsettled
  <2> QED
    BY <1>0, <2>2, <2>4, <2>5, PassStep
<1>2. CASE pass[p].todo # {}
  <2>1. PICK c \in pass[p].todo :
          Proceeds(p, IF Verdict(c, pass[p].seen) = {} THEN "examine" ELSE "settle",
                   pass[p].todo \ {c}, Verdict(c, pass[p].seen))
    BY <1>2 DEF Examine
  <2> DEFINE seen == pass[p].seen
             verdict == Verdict(c, seen)
             step == IF verdict = {} THEN "examine" ELSE "settle"
  <2>2. /\ pass' = [q \in Reconcilers |-> pass'[q]]
        /\ pass'[p].step = step /\ pass'[p].todo = pass[p].todo \ {c} /\ pass'[p].settling = verdict
        /\ pass'[p].seen = seen
    BY <2>1, ProceedsIs
  <2>3. /\ seen.planned \in Seq(Serving) /\ ToSet(seen.planned) \subseteq ToSet(planned)
        /\ \A r \in ToSet(seen.planned) : seen.outcome[r] \in Finished => outcome[r] = seen.outcome[r]
        /\ \A r \in SettledRuns \ seen.settled : \A d \in Unsettled(p) : serves[r] # {d}
    BY <1>0 DEF PassIsSound
  <2>4. ASSUME NEW s \in verdict
        PROVE  /\ verdict = {s} /\ s.id = c /\ AtMostOne(s.run, Serving)
               /\ \A r \in s.run :
                    r \in ToSet(seen.planned) /\ serves[r] = {c} /\ seen.outcome[r] = "verified" /\ r \notin seen.settled
               /\ s.fields = IF c \in Recurring
                             THEN [due |-> NextOccurrence(seen.state[c].due, seen.now)]
                             ELSE [status |-> "met"]
    BY <2>3, VerdictIs
  <2>u. pass[p].todo \subseteq Unsettled(p) /\ c \in Unsettled(p)
    BY <2>1 DEF Unsettled
  <2> HIDE DEF verdict, seen
  <2>5. Unsettled(p)' \subseteq pass[p].todo
    BY <2>1, <2>2, <2>4 DEF Unsettled
  <2>6. ASSUME NEW s \in verdict, NEW r \in s.run
        PROVE  r \in ToSet(planned) /\ serves[r] = {s.id} /\ outcome[r] = "verified" /\ r \notin SettledRuns
    <3>1. r \in ToSet(seen.planned) /\ serves[r] = {c} /\ seen.outcome[r] = "verified" /\ r \notin seen.settled /\ s.id = c
      BY <2>4, <2>6
    <3>2. r \in ToSet(planned) /\ outcome[r] = "verified"
      BY <2>3, <3>1 DEF Finished
    <3>3. r \notin SettledRuns
      BY <2>3, <3>1, <2>u
    <3> QED
      BY <3>1, <3>2, <3>3
  <2>7. PassIsSound(p)'
    <3>1. \A s, t \in verdict : s = t
      BY <2>4
    <3>2. \A s \in verdict : s.id \notin pass[p].todo \ {c} /\ AtMostOne(s.run, Serving)
      BY <2>4
    <3>3. \A s \in verdict : \A r \in s.run :
            r \in ToSet(planned)' /\ serves'[r] = {s.id} /\ outcome'[r] = "verified" /\ r \notin SettledRuns'
      BY <2>6, <1>0, <1>s
    <3>4. \A r \in SettledRuns' \ seen.settled : \A d \in Unsettled(p)' : serves'[r] # {d}
      BY <1>0, <1>s, <2>3, <2>5, <2>u
    <3>5. step \in {"examine", "settle"} /\ (step # "settle" => verdict = {})
      OBVIOUS
    <3> HIDE DEF step
    <3> QED
      BY <1>0, <2>2, <2>3, <3>1, <3>2, <3>3, <3>4, <3>5 DEF PassIsSound
  <2>8. PassIsCurrent(p)'
    <3>1. ASSUME NEW d \in Unsettled(p)'
          PROVE  d \in DOMAIN State' \cap Owed /\ seen.state[d].due = State'[d].due /\ seen.now \in Int
      <4>1. d \in Unsettled(p)
        BY <2>5, <2>u, <3>1
      <4> QED
        BY <4>1, <1>0, <1>s DEF PassIsCurrent, seen
    <3> QED
      BY <2>2, <2>4, <3>1 DEF PassIsCurrent
  <2> QED
    BY <1>0, <2>2, <2>7, <2>8, PassStep
<1> QED
  BY <1>1, <1>2

LEMMA FieldsOver ==
  ASSUME NEW old, "due" \in DOMAIN old
  PROVE  /\ \A n : "due" \in DOMAIN Overlaid([due |-> n], old) /\ Overlaid([due |-> n], old).due = n
         /\ "due" \in DOMAIN Overlaid([status |-> "met"], old) /\ Overlaid([status |-> "met"], old).due = old.due
<1>1. ASSUME NEW n
      PROVE  "due" \in DOMAIN Overlaid([due |-> n], old) /\ Overlaid([due |-> n], old).due = n
  BY DEF Overlaid
<1>2. "due" \in DOMAIN Overlaid([status |-> "met"], old) /\ Overlaid([status |-> "met"], old).due = old.due
  BY DEF Overlaid
<1> QED
  BY <1>1, <1>2

\* A settlement advances its recurrence, and no other commitment.
LEMMA SettleStep ==
  ASSUME OneReconciler, CommitmentsIInv, NEW p \in Reconcilers, Settle(p)
  PROVE  CommitmentsIInv' /\ DueIsKept
<1>0. /\ PassIsSound(p) /\ PassIsCurrent(p) /\ pass[p].step = "settle" /\ EventsAreSound /\ Dated(State)
      /\ UNCHANGED <<today, planned, serves, outcome, artifact>>
      /\ ToSet(planned) \subseteq Serving
  BY DEF CommitmentsIInv, CommitmentsTypeOK, Settle
<1>1. PICK s \in pass[p].settling : events' = Append(events, Event("updated", s.id, s.fields, s.run))
  BY DEF Settle
<1> DEFINE e == Event("updated", s.id, s.fields, s.run)
<1>2. e.type = "updated" /\ e.id = s.id /\ e.fields = s.fields /\ e.run = s.run /\ e.at = today
  BY EventFields
<1> HIDE DEF e
<1>3. events' = Append(events, e)
  BY <1>1 DEF e
<1>4. /\ pass' = [q \in Reconcilers |-> pass'[q]]
      /\ pass'[p].step = "examine" /\ pass'[p].todo = pass[p].todo /\ pass'[p].settling = {}
      /\ pass'[p].seen = pass[p].seen
  <2>1. Proceeds(p, "examine", pass[p].todo, {})
    BY DEF Settle
  <2> QED
    BY <2>1, ProceedsIs
<1>5. /\ State' = Applied(State, e) /\ SettledRuns' = SettledRuns \cup s.run
      /\ \E S : events' \in Seq(S)
  BY <1>2, <1>3, JournalGrows DEF CommitmentsIInv
<1>6. RunsGoOn
  BY <1>0, RunsAreLeft
<1>7. \A r \in s.run : r \in ToSet(planned) /\ serves[r] = {s.id} /\ outcome[r] = "verified" /\ r \notin SettledRuns
  BY <1>0, <1>1 DEF PassIsSound
<1>8. EventsAreSound'
  BY <1>2, <1>3, <1>6, <1>7, EventsStaySound
<1>9. /\ s.id \in Unsettled(p) /\ s.id \notin pass[p].todo
      /\ s.id \in DOMAIN State \cap Owed
      /\ pass[p].seen.state[s.id].due = State[s.id].due /\ pass[p].seen.now \in Int
      /\ "due" \in DOMAIN State[s.id] /\ State[s.id].due \in Int
  <2>1. s.id \in Unsettled(p)
    BY <1>1 DEF Unsettled
  <2>2. /\ s.id \in DOMAIN State \cap Owed
        /\ pass[p].seen.state[s.id].due = State[s.id].due /\ pass[p].seen.now \in Int
    BY <1>0, <2>1 DEF PassIsCurrent
  <2>3. "due" \in DOMAIN State[s.id] /\ State[s.id].due \in Int
    BY <1>0, <2>2 DEF Dated
  <2> QED
    BY <1>0, <1>1, <2>1, <2>2, <2>3 DEF PassIsSound
<1>10. /\ DOMAIN State' = DOMAIN State /\ State'[s.id] = Overlaid(s.fields, State[s.id])
       /\ \A c \in DOMAIN State \ {s.id} : State'[c] = State[c]
  <2>1. s.id \in DOMAIN State
    BY <1>9
  <2>2. /\ DOMAIN Applied(State, e) = DOMAIN State
        /\ Applied(State, e)[e.id] = Overlaid(e.fields, State[e.id])
        /\ \A c \in DOMAIN State \ {e.id} : Applied(State, e)[c] = State[c]
    BY <1>2, <2>1, AppliedIs
  <2> QED
    BY <1>2, <1>5, <2>2
<1>11. "due" \in DOMAIN State'[s.id] /\ State'[s.id].due \in Int /\ State[s.id].due <= State'[s.id].due
  <2> DEFINE next == NextOccurrence(pass[p].seen.state[s.id].due, pass[p].seen.now)
  <2>1. next \in Int /\ State[s.id].due < next
    BY <1>9, NextIsLater
  <2>2. s.fields = IF s.id \in Recurring THEN [due |-> next] ELSE [status |-> "met"]
    BY <1>0, <1>1 DEF PassIsCurrent
  <2> HIDE DEF next
  <2>3. CASE s.id \in Recurring
    <3>1. State'[s.id] = Overlaid([due |-> next], State[s.id])
      BY <1>10, <2>2, <2>3
    <3>2. "due" \in DOMAIN State'[s.id] /\ State'[s.id].due = next
      BY <1>9, <3>1, FieldsOver
    <3> QED
      BY <1>9, <2>1, <3>2
  <2>4. CASE s.id \notin Recurring
    <3>1. State'[s.id] = Overlaid([status |-> "met"], State[s.id])
      BY <1>10, <2>2, <2>4
    <3>2. "due" \in DOMAIN State'[s.id] /\ State'[s.id].due = State[s.id].due
      BY <1>9, <3>1, FieldsOver
    <3> QED
      BY <1>9, <3>2
  <2> QED
    BY <2>3, <2>4
<1>12. Dated(State)'
  <2>1. DOMAIN State' \subseteq Owed \cup Goals
    BY <1>0, <1>10 DEF Dated
  <2>2. ASSUME NEW c \in DOMAIN State' \cap Owed PROVE "due" \in DOMAIN State'[c] /\ State'[c].due \in Int
    <3>1. CASE c = s.id
      BY <3>1, <1>11
    <3>2. CASE c # s.id
      <4>1. State'[c] = State[c] /\ c \in DOMAIN State \cap Owed
        BY <3>2, <1>10, <2>2
      <4> QED
        BY <4>1, <1>0 DEF Dated
    <3> QED
      BY <3>1, <3>2
  <2>3. Dated(State')
    BY <2>1, <2>2 DEF Dated
  <2> QED
    BY <2>3 DEF Dated
<1>13. DueIsKept
  <2>1. ASSUME NEW c \in DOMAIN State \cap Owed PROVE c \in DOMAIN State' /\ State[c].due <= State'[c].due
    <3>1. CASE c = s.id
      BY <3>1, <1>10, <1>11
    <3>2. CASE c # s.id
      <4>1. State'[c] = State[c] /\ State[c].due \in Int /\ c \in DOMAIN State'
        BY <3>2, <1>0, <1>10, <2>1 DEF Dated
      <4> QED
        BY <4>1
    <3> QED
      BY <3>1, <3>2
  <2> QED
    BY <2>1 DEF DueIsKept
<1>14. Unsettled(p)' = pass[p].todo
  BY <1>4 DEF Unsettled
<1>15. PassIsSound(p)'
  <2>1. /\ pass[p].seen.planned \in Seq(Serving) /\ ToSet(pass[p].seen.planned) \subseteq ToSet(planned)
        /\ \A r \in ToSet(pass[p].seen.planned) : pass[p].seen.outcome[r] \in Finished => outcome[r] = pass[p].seen.outcome[r]
        /\ \A r \in SettledRuns \ pass[p].seen.settled : \A c \in Unsettled(p) : serves[r] # {c}
    BY <1>0 DEF PassIsSound
  <2>2. \A r \in SettledRuns' \ pass[p].seen.settled : \A c \in pass[p].todo : serves[r] # {c}
    <3>1. ASSUME NEW r \in s.run, NEW c \in pass[p].todo PROVE serves[r] # {c}
      <4>1. serves[r] = {s.id} /\ c # s.id
        BY <1>7, <1>9, <3>1
      <4> QED
        BY <4>1
    <3>2. pass[p].todo \subseteq Unsettled(p)
      BY DEF Unsettled
    <3> QED
      BY <1>5, <2>1, <3>1, <3>2
  <2> QED
    BY <1>0, <1>4, <1>14, <2>1, <2>2 DEF PassIsSound
<1>16. PassIsCurrent(p)'
  <2>1. ASSUME NEW c \in pass[p].todo
        PROVE  c \in DOMAIN State' \cap Owed /\ pass[p].seen.state[c].due = State'[c].due /\ pass[p].seen.now \in Int
    <3>1. c \in Unsettled(p) /\ c # s.id
      BY <1>9, <2>1 DEF Unsettled
    <3>2. c \in DOMAIN State \cap Owed /\ pass[p].seen.state[c].due = State[c].due /\ pass[p].seen.now \in Int
      BY <1>0, <3>1 DEF PassIsCurrent
    <3> QED
      BY <1>10, <3>1, <3>2
  <2> QED
    BY <1>4, <1>14, <2>1 DEF PassIsCurrent
<1>17. \A q \in Reconcilers : q = p
  BY DEF OneReconciler
<1>18. CommitmentsTypeOK'
  <2>1. \A i \in DOMAIN events' : events'[i].at \in 0 .. MaxToday
    BY <1>2, <1>3, EventsAreDated
  <2>2. \A q \in Reconcilers : pass'[q].step \in {"idle", "examine", "settle"}
    BY <1>4, <1>17
  <2> QED
    BY <1>0, <2>1, <2>2 DEF CommitmentsIInv, CommitmentsTypeOK
<1>19. JournalsAreSequences'
  BY <1>0, <1>4, <1>5 DEF CommitmentsIInv, JournalsAreSequences
<1>20. CommitmentsIInv'
  BY <1>8, <1>12, <1>15, <1>16, <1>17, <1>18, <1>19 DEF CommitmentsIInv
<1> QED
  BY <1>13, <1>20

LEMMA CommitmentsBegin == CommitmentsInit => CommitmentsIInv
<1> SUFFICES ASSUME CommitmentsInit PROVE CommitmentsIInv
  OBVIOUS
<1>1. /\ events = <<>> /\ today = 0 /\ planned = <<>>
      /\ serves = [r \in Serving |-> {}] /\ outcome = [r \in Serving |-> "open"] /\ artifact = [r \in Serving |-> TRUE]
      /\ pass = [p \in Reconcilers |-> Resting]
  BY DEF CommitmentsInit
<1>2. DOMAIN events = {} /\ events \in Seq({}) /\ planned \in Seq(Serving) /\ ToSet(planned) = {}
  BY <1>1 DEF ToSet
<1>3. State = NoFields /\ DOMAIN State = {} /\ SettledRuns = {}
  BY <1>1, <1>2, ProjectNone DEF State, NoFields, SettledRuns
<1>4. CommitmentsTypeOK
  <2>1. today \in 0 .. MaxToday
    BY <1>1, CommitmentsAssumption
  <2>2. \A r \in Serving : AtMostOne(serves[r], Owed)
    BY <1>1 DEF AtMostOne
  <2>3. \A p \in Reconcilers : pass[p].step \in {"idle", "examine", "settle"}
    BY <1>1 DEF Resting
  <2>4. outcome \in [Serving -> Outcomes] /\ artifact \in [Serving -> BOOLEAN]
    BY <1>1 DEF Outcomes
  <2> QED
    BY <1>2, <2>1, <2>2, <2>3, <2>4 DEF CommitmentsTypeOK
<1>5. JournalsAreSequences
  BY <1>1, <1>2 DEF JournalsAreSequences
<1>6. EventsAreSound
  BY <1>2 DEF EventsAreSound, Failures, SettledOnce
<1>7. Dated(State)
  BY <1>3 DEF Dated
<1>8. ASSUME NEW p \in Reconcilers PROVE PassIsSound(p) /\ PassIsCurrent(p)
  <2>1. pass[p].step = "idle" /\ pass[p].todo = {} /\ pass[p].settling = {}
    BY <1>1 DEF Resting
  <2> QED
    BY <2>1 DEF PassIsSound, PassIsCurrent, Unsettled
<1> QED
  BY <1>4, <1>5, <1>6, <1>7, <1>8 DEF CommitmentsIInv

LEMMA CommitmentsStep ==
  ASSUME OneReconciler, CommitmentsIInv, CommitmentsNext
  PROVE  CommitmentsIInv' /\ DueIsKept
<1>0. /\ planned \in Seq(Serving) /\ serves = [r \in Serving |-> serves[r]] /\ ToSet(planned) \subseteq Serving
      /\ today \in Nat /\ MaxToday \in Nat
  BY CommitmentsAssumption DEF CommitmentsIInv, JournalsAreSequences, CommitmentsTypeOK
<1>1. ASSUME NEW c \in Owed, RecordCommitment(c) PROVE CommitmentsIInv' /\ DueIsKept
  <2> DEFINE fields == [status |-> "open", due |-> today + 1]
  <2>1. "due" \in DOMAIN fields /\ fields.due \in Int
    BY <1>0
  <2>2. /\ c \notin DOMAIN State /\ events' = Append(events, Event("recorded", c, fields, {}))
        /\ UNCHANGED <<today, planned, serves, outcome, artifact, pass>>
    BY <1>1 DEF RecordCommitment
  <2> HIDE DEF fields
  <2> QED
    BY <2>1, <2>2, RecordStep
<1>2. ASSUME NEW c \in Owed, NEW r \in Serving, PlanServing(r, c) PROVE CommitmentsIInv' /\ DueIsKept
  <2>1. AtMostOne({c}, Owed)
    BY DEF AtMostOne
  <2>2. /\ r \notin ToSet(planned) /\ planned' = Append(planned, r) /\ serves' = [serves EXCEPT ![r] = {c}]
        /\ UNCHANGED <<events, today, outcome, artifact, pass>>
    BY <1>2 DEF PlanServing
  <2> QED
    BY <2>1, <2>2, PlanStep
<1>3. ASSUME NEW g \in Goals, RecordGoal(g) PROVE CommitmentsIInv' /\ DueIsKept
  <2>1. g \notin Owed
    BY CommitmentsAssumption
  <2>2. /\ g \notin DOMAIN State /\ events' = Append(events, Event("recorded", g, [status |-> "active"], {}))
        /\ UNCHANGED <<today, planned, serves, outcome, artifact, pass>>
    BY <1>3 DEF RecordGoal
  <2> QED
    BY <2>1, <2>2, RecordStep
<1>4. ASSUME NEW r \in Serving, ArtifactLost(r) PROVE CommitmentsIInv' /\ DueIsKept
  <2>1. artifact' = [artifact EXCEPT ![r] = FALSE] /\ UNCHANGED <<events, today, planned, serves, outcome, pass>>
    BY <1>4 DEF ArtifactLost
  <2>2. CommitmentsTypeOK'
    BY <2>1 DEF CommitmentsIInv, CommitmentsTypeOK
  <2> QED
    BY <1>0, <2>1, <2>2, RunsAreLeft, SilentStep, SilentIsKept
<1>5. ASSUME NEW r \in Serving, NEW how \in Outcomes, RunEnds(r, how) PROVE CommitmentsIInv' /\ DueIsKept
  BY <1>5, EndStep
<1>6. ASSUME DayPasses PROVE CommitmentsIInv' /\ DueIsKept
  <2>1. today < MaxToday /\ today' = today + 1 /\ UNCHANGED <<events, planned, serves, outcome, artifact, pass>>
    BY <1>6 DEF DayPasses
  <2>2. today' \in 0 .. MaxToday
    BY <1>0, <2>1
  <2>3. CommitmentsTypeOK'
    BY <2>1, <2>2 DEF CommitmentsIInv, CommitmentsTypeOK
  <2> QED
    BY <1>0, <2>1, <2>3, RunsAreLeft, SilentStep, SilentIsKept
<1>7. ASSUME NEW p \in Reconcilers, Reconcile(p) PROVE CommitmentsIInv' /\ DueIsKept
  BY <1>7, BeginStep, ExamineStep, SettleStep DEF Reconcile
<1> QED
  BY <1>1, <1>2, <1>3, <1>4, <1>5, <1>6, <1>7 DEF CommitmentsNext

-----------------------------------------------------------------------------
(* Opportunities.                                                            *)

\* The cards of deadlines and of failures fit one scan.
FewCards == Cardinality(Owed) + Cardinality(Serving) <= MaxCards

ScannerIsSound ==
  /\ OpportunitiesTypeOK
  /\ scanner = [state |-> scanner.state, sequence |-> scanner.sequence, step |-> scanner.step, cards |-> scanner.cards]
  /\ \E T : scanner.cards \in Seq(T)
  /\ scanner.step = "idle" => scanner.cards = <<>>

\* What the scan found is recorded, or still in its hands.
FailuresAreKnown ==
  \A i \in 1 .. scanner.sequence :
    events[i].type = "failed" => FailedCard(events[i].id, i) \in Proposed \cup ToSet(scanner.cards)

OpportunitiesIInv == CommitmentsIInv /\ ScannerIsSound /\ ScannedStateIsReplay /\ FailuresAreKnown

\* SetToSeq lists a finite set, each element once.
LEMMA ListingIs ==
  ASSUME NEW S, IsFiniteSet(S)
  PROVE  SetToSeq(S) \in Seq(S) /\ Len(SetToSeq(S)) = Cardinality(S)
<1> DEFINE n == Cardinality(S)
           f == SetToSeq(S)
<1>1. n \in Nat /\ ExistsBijection(1..n, S)
  BY FS_CardinalityType
<1>2. \E b \in [1..n -> S] : IsInjective(b)
  BY <1>1 DEF ExistsBijection, Bijection, Injection
<1>3. f \in [1..n -> S]
  BY <1>2 DEF SetToSeq
<1> HIDE DEF f
<1>4. f \in Seq(S) /\ Len(f) = n
  BY <1>1, <1>3
<1> QED
  BY <1>4 DEF f

\* Two sequences with the same elements at the same places are one.
LEMMA SameSequence ==
  ASSUME NEW T, NEW s \in Seq(T), NEW t \in Seq(T), Len(s) = Len(t), \A i \in 1 .. Len(s) : s[i] = t[i]
  PROVE  s = t
  OBVIOUS

\* The events so far stay where they are.
JournalIsKept ==
  /\ Len(events) <= Len(events')
  /\ \A k \in 0 .. Len(events) : SubSeq(events', 1, k) = SubSeq(events, 1, k)
  /\ \A i \in 1 .. Len(events) : events'[i] = events[i]
  /\ Proposed \subseteq Proposed'

LEMMA KeepingIs ==
  ASSUME JournalsAreSequences, events' = events \/ \E e : events' = Append(events, e)
  PROVE  JournalIsKept /\ Len(events) \in Nat /\ DOMAIN events = 1 .. Len(events)
<1>1. PICK S : events \in Seq(S)
  BY DEF JournalsAreSequences
<1>2. Len(events) \in Nat /\ DOMAIN events = 1 .. Len(events)
  BY <1>1
<1>3. CASE events' = events
  <2>1. \A k \in 0 .. Len(events) : SubSeq(events', 1, k) = SubSeq(events, 1, k)
    BY <1>3
  <2>2. Len(events) <= Len(events') /\ \A i \in 1 .. Len(events) : events'[i] = events[i]
    BY <1>2, <1>3
  <2>3. Proposed \subseteq Proposed'
    BY <1>3 DEF Proposed
  <2> QED
    BY <1>2, <2>1, <2>2, <2>3 DEF JournalIsKept
<1>4. ASSUME NEW e, events' = Append(events, e) PROVE JournalIsKept
  <2>1. /\ events' \in Seq(S \cup {e}) /\ Len(events') = Len(events) + 1 /\ DOMAIN events' = 1 .. Len(events) + 1
        /\ \A i \in 1 .. Len(events) : events'[i] = events[i]
    BY <1>1, <1>4, Appends
  <2>2. ASSUME NEW k \in 0 .. Len(events) PROVE SubSeq(events', 1, k) = SubSeq(events, 1, k)
    <3>1. /\ SubSeq(events, 1, k) \in Seq(S) /\ Len(SubSeq(events, 1, k)) = k
          /\ \A i \in 1 .. k : SubSeq(events, 1, k)[i] = events[i]
      BY <1>1, PartOf
    <3>2. k \in 0 .. Len(events')
      BY <1>2, <2>1
    <3>3. /\ SubSeq(events', 1, k) \in Seq(S \cup {e}) /\ Len(SubSeq(events', 1, k)) = k
          /\ \A i \in 1 .. k : SubSeq(events', 1, k)[i] = events'[i]
      BY <2>1, <3>2, PartOf
    <3>4. \A i \in 1 .. k : SubSeq(events', 1, k)[i] = SubSeq(events, 1, k)[i]
      BY <1>2, <2>1, <3>1, <3>3
    <3>5. SubSeq(events, 1, k) \in Seq(S \cup {e})
      <4>1. \A q \in Seq(S) : q \in Seq(S \cup {e})
        OBVIOUS
      <4> QED BY <3>1, <4>1
    <3> QED
      BY <3>1, <3>3, <3>4, <3>5, SameSequence
  <2>3. Proposed \subseteq Proposed'
    <3>1. \A i \in DOMAIN events : i \in DOMAIN events' /\ events'[i] = events[i]
      BY <1>2, <2>1
    <3> QED
      BY <3>1 DEF Proposed, CardsOf
  <2>4. Len(events) <= Len(events')
    BY <1>2, <2>1
  <2> QED
    BY <2>1, <2>2, <2>3, <2>4 DEF JournalIsKept
<1> QED
  BY <1>2, <1>3, <1>4

\* What the owner and the runs do leaves what the scan knows.
LEMMA ScannerStays ==
  ASSUME OpportunitiesIInv, events' = events \/ \E e : events' = Append(events, e),
         UNCHANGED scanner, restarts' = restarts
  PROVE  ScannerIsSound' /\ ScannedStateIsReplay' /\ FailuresAreKnown'
<1>1. JournalIsKept /\ Len(events) \in Nat
  BY KeepingIs DEF OpportunitiesIInv, CommitmentsIInv
<1>2. scanner.sequence \in 0 .. Len(events)
  BY DEF OpportunitiesIInv, ScannerIsSound, OpportunitiesTypeOK
<1>3. scanner.sequence \in 0 .. Len(events')
  <2>1. Len(events') \in Nat
    <3>1. CASE events' = events
      BY <3>1, <1>1
    <3>2. ASSUME NEW e, events' = Append(events, e) PROVE Len(events') \in Nat
      BY <1>1, <3>2, JournalGrows DEF OpportunitiesIInv, CommitmentsIInv
    <3> QED
      BY <3>1, <3>2
  <2> QED
    BY <1>1, <1>2, <2>1 DEF JournalIsKept
<1>4. ScannerIsSound'
  BY <1>3 DEF OpportunitiesIInv, ScannerIsSound, OpportunitiesTypeOK
<1>5. ScannedStateIsReplay'
  BY <1>1, <1>2 DEF OpportunitiesIInv, ScannedStateIsReplay, JournalIsKept
<1>6. FailuresAreKnown'
  <2>1. \A i \in 1 .. scanner.sequence : events'[i] = events[i]
    BY <1>1, <1>2 DEF JournalIsKept
  <2>2. Proposed \subseteq Proposed'
    BY <1>1 DEF JournalIsKept
  <2> QED
    BY <2>1, <2>2 DEF OpportunitiesIInv, FailuresAreKnown
<1> QED
  BY <1>4, <1>5, <1>6

\* What was appended since the scan last read.
LEMMA NewsIs ==
  ASSUME NEW S, NEW s \in Seq(S), NEW k \in 0 .. Len(s), NEW news, news = SubSeq(s, k + 1, Len(s))
  PROVE  /\ news \in Seq(S) /\ Len(news) = Len(s) - k /\ DOMAIN news = 1 .. Len(s) - k
         /\ Len(s) \in Nat /\ k \in Nat /\ k <= Len(s)
         /\ \A i \in DOMAIN news : k + i \in k + 1 .. Len(s) /\ k + i \in DOMAIN s /\ news[i] = s[k + i]
         /\ \A i \in k + 1 .. Len(s) : i - k \in DOMAIN news /\ news[i - k] = s[i]
<1>1. /\ news \in Seq(S) /\ Len(news) = Len(s) - k /\ Len(s) \in Nat /\ k \in Nat /\ k <= Len(s)
      /\ \A i \in 1 .. Len(s) - k : news[i] = s[k + i]
  <2>1. Len(s) \in Nat /\ k \in Nat /\ k <= Len(s)
    OBVIOUS
  <2> QED
    BY <2>1, PartOf
<1>2. DOMAIN news = 1 .. Len(s) - k /\ DOMAIN s = 1 .. Len(s)
  BY <1>1
<1>3. \A i \in 1 .. Len(s) - k : k + i \in k + 1 .. Len(s) /\ k + i \in 1 .. Len(s)
  BY <1>1
<1>4. \A i \in k + 1 .. Len(s) : i - k \in 1 .. Len(s) - k /\ k + (i - k) = i
  BY <1>1
<1> QED
  BY <1>1, <1>2, <1>3, <1>4

\* The place to read from next: nothing about the state lies behind it.
LEMMA AppliedUpToIs ==
  ASSUME NEW S, NEW s \in Seq(S), NEW k \in 0 .. Len(s), NEW news, news = SubSeq(s, k + 1, Len(s))
  PROVE  /\ AppliedUpTo(news, k) \in k .. Len(s)
         /\ \A i \in AppliedUpTo(news, k) + 1 .. Len(s) : s[i].type \notin StateTypes
<1> DEFINE n == Len(s)
           P == {i \in DOMAIN news : news[i].type \in StateTypes}
           m == Max({0} \cup P)
<1>1. /\ DOMAIN news = 1 .. n - k /\ n \in Nat /\ k \in Nat /\ k <= n
      /\ \A i \in k + 1 .. n : i - k \in DOMAIN news /\ news[i - k] = s[i]
  BY NewsIs
<1> HIDE DEF n
<1>2. m \in 0 .. n - k /\ \A y \in P : y <= m
  <2>1. n - k \in Nat /\ {0} \cup P \subseteq 0 .. n - k /\ {0} \cup P # {}
    BY <1>1
  <2>2. m \in {0} \cup P /\ \A y \in {0} \cup P : y <= m
    BY <2>1, GreatestIs
  <2> QED
    BY <2>1, <2>2
<1>3. CASE \E i \in DOMAIN news : news[i].type \in StateTypes
  <2>1. AppliedUpTo(news, k) = m + k
    BY <1>3 DEF AppliedUpTo, LastApplied
  <2> HIDE DEF m
  <2>2. m + k \in k .. n
    BY <1>1, <1>2
  <2>3. ASSUME NEW i \in m + k + 1 .. n PROVE s[i].type \notin StateTypes
    <3>1. i \in k + 1 .. n /\ ~(i - k <= m)
      BY <1>1, <1>2, <2>3
    <3>2. i - k \notin P
      BY <1>2, <3>1
    <3> QED
      BY <1>1, <3>1, <3>2
  <2> QED
    BY <2>1, <2>2, <2>3 DEF n
<1>4. CASE ~ \E i \in DOMAIN news : news[i].type \in StateTypes
  <2>1. AppliedUpTo(news, k) = k
    BY <1>4 DEF AppliedUpTo
  <2>2. k \in k .. n
    BY <1>1
  <2>3. ASSUME NEW i \in k + 1 .. n PROVE s[i].type \notin StateTypes
    <3>1. i - k \in DOMAIN news /\ news[i - k] = s[i]
      BY <1>1
    <3> QED
      BY <1>4, <3>1
  <2> QED
    BY <2>1, <2>2, <2>3 DEF n
<1> QED
  BY <1>3, <1>4

LEMMA ListOf ==
  ASSUME NEW T, NEW n \in Nat, NEW f \in [1 .. n -> T]
  PROVE  f \in Seq(T) /\ Len(f) = n
  OBVIOUS

\* The first elements of three lists in a row.
FirstOf(a, b, c, n) == SubSeq(a \o b \o c, 1, Min({n, Len(a \o b \o c)}))

Includes(first, b, n) == Len(first) <= n /\ \A i \in 1 .. Len(b) : \E j \in 1 .. Len(first) : first[j] = b[i]

LEMMA JoinedIs ==
  ASSUME NEW T, NEW a \in Seq(T), NEW b \in Seq(T), NEW c \in Seq(T), NEW n \in Nat, Len(a) + Len(b) <= n
  PROVE  FirstOf(a, b, c, n) \in Seq(T) /\ Includes(FirstOf(a, b, c, n), b, n)
<1> DEFINE found == a \o b \o c
           first == FirstOf(a, b, c, n)
<1>0. first = SubSeq(found, 1, Min({n, Len(found)}))
  BY DEF FirstOf
<1> HIDE DEF first
<1>1. /\ found \in Seq(T) /\ Len(found) = Len(a) + Len(b) + Len(c)
      /\ Len(a) \in Nat /\ Len(b) \in Nat /\ Len(c) \in Nat
  OBVIOUS
<1>f. found = (a \o b) \o c
  OBVIOUS
<1> HIDE DEF found
<1>2. ASSUME NEW i \in 1 .. Len(b) PROVE found[Len(a) + i] = b[i]
  <2>1. a \o b \in Seq(T) /\ Len(a \o b) = Len(a) + Len(b) /\ (a \o b)[Len(a) + i] = b[i]
    BY <1>1
  <2> DEFINE ab == a \o b
  <2> HIDE DEF ab
  <2>2. ab \in Seq(T) /\ Len(ab) = Len(a) + Len(b) /\ ab[Len(a) + i] = b[i] /\ found = ab \o c
    BY <2>1, <1>f DEF ab
  <2>3. Len(a) + i \in 1 .. Len(ab)
    BY <1>1, <2>2
  <2>4. \A p \in Seq(T), q \in Seq(T) : \A x \in 1 .. Len(p) : (p \o q)[x] = p[x]
    OBVIOUS
  <2> QED
    BY <2>2, <2>3, <2>4
<1> DEFINE m == Min({n, Len(found)})
<1>3. m \in {n, Len(found)} /\ m <= n /\ m <= Len(found)
  <2>1. \E x \in {n, Len(found)} : \A y \in {n, Len(found)} : x <= y
    BY <1>1
  <2>2. m \in {n, Len(found)} /\ \A y \in {n, Len(found)} : m <= y
    BY <2>1 DEF Min
  <2> QED
    BY <2>2
<1> HIDE DEF m
<1>4. m \in 0 .. Len(found)
  BY <1>1, <1>3
<1>5. first \in Seq(T) /\ Len(first) = m /\ \A i \in 1 .. m : first[i] = found[i]
  <2>1. first = SubSeq(found, 1, m)
    BY <1>0 DEF m
  <2>2. ASSUME NEW q \in Seq(T), NEW x \in 0 .. Len(q)
        PROVE  SubSeq(q, 1, x) \in Seq(T) /\ Len(SubSeq(q, 1, x)) = x /\ \A i \in 1 .. x : SubSeq(q, 1, x)[i] = q[i]
    BY PartOf
  <2> QED
    BY <1>1, <1>4, <2>1, <2>2
<1>6. ASSUME NEW i \in 1 .. Len(b) PROVE Len(a) + i \in 1 .. m
  BY <1>1, <1>3
<1>7. /\ first \in Seq(T) /\ Len(first) <= n
      /\ \A i \in 1 .. Len(b) : \E j \in 1 .. Len(first) : first[j] = b[i]
  BY <1>2, <1>3, <1>5, <1>6
<1> QED
  BY <1>7 DEF first, Includes

AllFailures(found, news, k) ==
  \A i \in DOMAIN news : news[i].type = "failed" =>
    \E j \in 1 .. Len(found) : found[j] = FailedCard(news[i].id, k + i)

\* What a scan finds: few enough cards, and one for each failure it read.
LEMMA ScanIs ==
  ASSUME CommitmentsIInv, FewCards, NEW k \in 0 .. Len(events), NEW state,
         NEW news, news = SubSeq(events, k + 1, Len(events))
  PROVE  /\ \E T : Scan(state, news, k) \in Seq(T)
         /\ Len(Scan(state, news, k)) <= MaxCards
         /\ AllFailures(Scan(state, news, k), news, k)
<1> DEFINE due == {c \in DOMAIN state \cap Owed : state[c].due - today \in 0 .. Window}
           failed == {i \in DOMAIN news : news[i].type = "failed"}
           busy == \E i \in DOMAIN news : news[i].type \in {"failed", "completed"} /\ today - news[i].at < Quiet
           idle == {g \in DOMAIN state \cap Goals : state[g].status = "active" /\ ~busy}
           D == {DeadlineCard(c, state[c].due) : c \in due}
           F == [i \in DOMAIN news |-> FailedCard(news[i].id, k + i)]
           G == {NeglectedCard(g) : g \in idle}
           T == D \cup {F[i] : i \in DOMAIN news} \cup G
           a == SetToSeq(D)
           b == Picked(F, failed)
           c == SetToSeq(G)
           first == FirstOf(a, b, c, MaxCards)
<1>0. Scan(state, news, k) = first
  BY DEF Scan, FirstOf
<1>1. PICK S : events \in Seq(S)
  BY DEF CommitmentsIInv, JournalsAreSequences
<1>2. /\ news \in Seq(S) /\ DOMAIN news = 1 .. Len(news) /\ Len(news) \in Nat /\ k \in Nat
      /\ \A i \in DOMAIN news : k + i \in DOMAIN events /\ news[i] = events[k + i]
  <2>1. /\ news \in Seq(S) /\ k \in Nat
        /\ \A i \in DOMAIN news : k + i \in DOMAIN events /\ news[i] = events[k + i]
    BY <1>1, NewsIs
  <2> QED
    BY <2>1
<1>3. IsFiniteSet(Owed) /\ IsFiniteSet(Serving) /\ IsFiniteSet(Goals) /\ MaxCards \in Nat
  BY CommitmentsAssumption, OpportunitiesAssumption
<1>4. IsFiniteSet(D) /\ Cardinality(D) <= Cardinality(Owed)
  <2>1. IsFiniteSet(due) /\ Cardinality(due) <= Cardinality(Owed)
    <3>1. due \subseteq Owed
      OBVIOUS
    <3> HIDE DEF due
    <3> QED
      BY <3>1, <1>3, FS_Subset
  <2> DEFINE f == [x \in due |-> DeadlineCard(x, state[x].due)]
  <2>2. f \in Surjection(due, D)
    BY DEF Surjection
  <2> HIDE DEF f, due, D
  <2>3. IsFiniteSet(D) /\ Cardinality(D) <= Cardinality(due)
    BY <2>1, <2>2, FS_Surjection
  <2>4. Cardinality(D) \in Nat /\ Cardinality(due) \in Nat /\ Cardinality(Owed) \in Nat
    BY <1>3, <2>1, <2>3, FS_CardinalityType
  <2> QED
    BY <2>1, <2>3, <2>4
<1>5. IsFiniteSet(G)
  <2>1. IsFiniteSet(idle)
    <3>1. idle \subseteq Goals
      OBVIOUS
    <3> HIDE DEF idle
    <3> QED
      BY <3>1, <1>3, FS_Subset
  <2> DEFINE f == [x \in idle |-> NeglectedCard(x)]
  <2>2. f \in Surjection(idle, G)
    BY DEF Surjection
  <2> HIDE DEF f, idle, G
  <2> QED
    BY <2>1, <2>2, FS_Surjection
<1>6. Cardinality(failed) <= Cardinality(Serving)
  <2>1. ASSUME NEW i \in failed
        PROVE  k + i \in Failures /\ news[i].id = events[k + i].id /\ news[i].id \in Serving /\ i \in Nat
    <3>1. k + i \in Failures /\ news[i].id = events[k + i].id /\ i \in Nat
      BY <1>2, <2>1 DEF Failures
    <3>2. events[k + i].id \in Serving
      BY <3>1 DEF CommitmentsIInv, EventsAreSound
    <3> QED
      BY <3>1, <3>2
  <2>2. ASSUME NEW i \in failed, NEW j \in failed, news[i].id = news[j].id PROVE i = j
    <3>1. k + i = k + j
      BY <2>1, <2>2 DEF CommitmentsIInv, EventsAreSound
    <3> QED
      BY <1>2, <2>1, <3>1
  <2> DEFINE f == [i \in failed |-> news[i].id]
  <2> HIDE DEF failed
  <2>3. f \in Injection(failed, Serving)
    BY <2>1, <2>2 DEF Injection, IsInjective
  <2> HIDE DEF f
  <2> QED
    BY <1>3, <2>3, FS_Injection
<1> HIDE DEF due, idle
<1>7. F \in Seq(T) /\ Len(F) = Len(news) /\ D \subseteq T /\ G \subseteq T
  <2>1. F \in [1 .. Len(news) -> T]
    BY <1>2
  <2> HIDE DEF F, T
  <2>2. F \in Seq(T) /\ Len(F) = Len(news)
    BY <1>2, <2>1, ListOf
  <2> QED
    BY <2>2 DEF T
<1> HIDE DEF T, D, G, F
<1>8. a \in Seq(D) /\ Len(a) = Cardinality(D) /\ c \in Seq(G)
  BY <1>4, <1>5, ListingIs
<1>9. /\ b \in Seq(T) /\ Len(b) = Cardinality(failed \cap (1 .. Len(F)))
      /\ \A i \in failed \cap (1 .. Len(F)) : \E j \in 1 .. Len(b) : b[j] = F[i]
  <2> HIDE DEF failed
  <2>1. Keeps(b, F, failed, T)
    BY <1>7, PickedIs
  <2> HIDE DEF b
  <2> QED
    BY <2>1 DEF Keeps
<1>10. failed \cap (1 .. Len(F)) = failed
  BY <1>2, <1>7
<1>11. Len(a) + Len(b) <= MaxCards
  <2>1. /\ Cardinality(Owed) \in Nat /\ Cardinality(Serving) \in Nat /\ Len(a) \in Nat /\ Len(b) \in Nat
        /\ Len(a) <= Cardinality(Owed) /\ Len(b) <= Cardinality(Serving)
    <3> HIDE DEF a, b, failed
    <3>1. Cardinality(Owed) \in Nat /\ Cardinality(Serving) \in Nat
      BY <1>3, FS_CardinalityType
    <3>2. Len(a) \in Nat /\ Len(b) \in Nat
      BY <1>8, <1>9
    <3>3. Len(b) = Cardinality(failed)
      BY <1>9, <1>10
    <3> QED
      BY <1>4, <1>6, <1>8, <3>1, <3>2, <3>3
  <2> HIDE DEF a, b
  <2> QED
    BY <1>3, <2>1 DEF FewCards
<1>12. a \in Seq(T) /\ c \in Seq(T)
  <2> HIDE DEF a, c
  <2> QED
    BY <1>7, <1>8
<1> HIDE DEF a, b, c
<1>13. /\ first \in Seq(T) /\ Len(first) <= MaxCards
       /\ \A i \in 1 .. Len(b) : \E j \in 1 .. Len(first) : first[j] = b[i]
  <2>1. FirstOf(a, b, c, MaxCards) \in Seq(T) /\ Includes(FirstOf(a, b, c, MaxCards), b, MaxCards)
    BY <1>3, <1>9, <1>11, <1>12, JoinedIs
  <2> QED
    BY <2>1 DEF Includes
<1> HIDE DEF first
<1>14. ASSUME NEW i \in DOMAIN news, news[i].type = "failed"
       PROVE  \E j \in 1 .. Len(first) : first[j] = FailedCard(news[i].id, k + i)
  <2>1. i \in failed /\ F[i] = FailedCard(news[i].id, k + i)
    BY <1>14 DEF F
  <2>2. PICK x \in 1 .. Len(b) : b[x] = F[i]
    BY <1>9, <1>10, <2>1
  <2>3. PICK j \in 1 .. Len(first) : first[j] = b[x]
    BY <1>13
  <2> QED
    BY <2>1, <2>2, <2>3
<1> QED
  BY <1>0, <1>13, <1>14 DEF AllFailures

\* The process reads what was appended, and knows the state the journal says.
LEMMA BeginScanStep ==
  ASSUME OpportunitiesIInv, FewCards, BeginScan
  PROVE  OpportunitiesIInv'
<1> DEFINE k == scanner.sequence
           news == SubSeq(events, k + 1, Len(events))
           state == Project(news, scanner.state)
           found == Scan(state, news, k)
           places == {i \in DOMAIN found : found[i] \notin CardsOf("proposed", news)}
           unseen == Picked(found, places)
           m == AppliedUpTo(news, k)
<1>1. PICK S : events \in Seq(S)
  BY DEF OpportunitiesIInv, CommitmentsIInv, JournalsAreSequences
<1>2. k \in 0 .. Len(events) /\ restarts \in 0 .. MaxRestarts /\ scanner.cards = <<>> /\ MaxCards \in Nat
  BY OpportunitiesAssumption DEF OpportunitiesIInv, ScannerIsSound, OpportunitiesTypeOK, BeginScan
<1>3. /\ scanner' = [state |-> state, sequence |-> m, step |-> "recording", cards |-> unseen]
      /\ UNCHANGED <<commitmentVars, accepting, restarts>>
  BY DEF BeginScan
<1> HIDE DEF unseen
<1>4. /\ scanner'.state = state /\ scanner'.sequence = m /\ scanner'.step = "recording" /\ scanner'.cards = unseen
      /\ scanner' = [state |-> scanner'.state, sequence |-> scanner'.sequence, step |-> scanner'.step, cards |-> scanner'.cards]
  BY <1>3
<1>n. news = SubSeq(events, k + 1, Len(events))
  OBVIOUS
<1> HIDE DEF news
<1>5. /\ \E T : found \in Seq(T)
      /\ Len(found) <= MaxCards
      /\ \A i \in DOMAIN news : news[i].type = "failed" =>
           \E j \in 1 .. Len(found) : found[j] = FailedCard(news[i].id, k + i)
  <2> HIDE DEF k, state
  <2>1. /\ \E T : Scan(state, news, k) \in Seq(T)
        /\ Len(Scan(state, news, k)) <= MaxCards
        /\ AllFailures(Scan(state, news, k), news, k)
    BY <1>2, <1>n, ScanIs DEF OpportunitiesIInv
  <2>2. found = Scan(state, news, k)
    OBVIOUS
  <2> HIDE DEF found
  <2> QED
    BY <2>1, <2>2 DEF AllFailures
<1>6. /\ DOMAIN news = 1 .. Len(events) - k /\ Len(events) \in Nat /\ k \in Nat
      /\ \A i \in DOMAIN news : k + i \in DOMAIN events /\ news[i] = events[k + i]
      /\ \A i \in k + 1 .. Len(events) : i - k \in DOMAIN news /\ news[i - k] = events[i]
  <2> HIDE DEF k
  <2> QED
    BY <1>1, <1>2, <1>n, NewsIs
<1>7. m \in k .. Len(events) /\ \A i \in m + 1 .. Len(events) : events[i].type \notin StateTypes
  BY <1>1, <1>2, <1>n, AppliedUpToIs
<1>8. state = Project(SubSeq(events, 1, m), NoFields)
  <2>1. scanner.state = Project(SubSeq(events, 1, k), NoFields)
    BY DEF OpportunitiesIInv, ScannedStateIsReplay
  <2>2. state = Project(events, NoFields)
    BY <1>1, <1>2, <1>n, <2>1, ProjectInParts
  <2>3. m \in 0 .. Len(events)
    BY <1>6, <1>7
  <2> HIDE DEF m
  <2>4. Project(SubSeq(events, 1, m), NoFields) = Project(events, NoFields)
    BY <1>1, <1>7, <2>3, ProjectStays
  <2> QED
    BY <2>2, <2>4
<1> HIDE DEF found, state, m
<1>9. PICK T : found \in Seq(T)
  BY <1>5
<1>10. /\ unseen \in Seq(T) /\ Len(unseen) = Cardinality(places \cap (1 .. Len(found)))
       /\ \A i \in places \cap (1 .. Len(found)) : \E j \in 1 .. Len(unseen) : unseen[j] = found[i]
  <2> HIDE DEF places
  <2>1. Keeps(unseen, found, places, T)
    BY <1>9, PickedIs DEF unseen
  <2> QED
    BY <2>1 DEF Keeps
<1>11. Len(unseen) <= MaxCards
  <2>1. Len(found) \in Nat /\ Len(unseen) \in Nat
    <3>1. \A q \in Seq(T) : Len(q) \in Nat
      OBVIOUS
    <3>2. unseen \in Seq(T) /\ found \in Seq(T)
      BY <1>9, <1>10
    <3> HIDE DEF places
    <3> QED
      BY <3>1, <3>2
  <2>2. IsFiniteSet(1 .. Len(found)) /\ Cardinality(1 .. Len(found)) = Len(found)
    <3>1. ASSUME NEW n \in Nat PROVE IsFiniteSet(1 .. n) /\ Cardinality(1 .. n) = n
      <4>1. IsFiniteSet(1 .. n) /\ Cardinality(1 .. n) = IF 1 > n THEN 0 ELSE n - 1 + 1
        BY FS_Interval
      <4> QED
        BY <4>1
    <3> QED
      BY <2>1, <3>1
  <2>3. Cardinality(places \cap (1 .. Len(found))) <= Cardinality(1 .. Len(found))
    <3>1. places \cap (1 .. Len(found)) \subseteq 1 .. Len(found)
      OBVIOUS
    <3> HIDE DEF places
    <3> QED
      BY <2>2, <3>1, FS_Subset
  <2> HIDE DEF places
  <2> QED
    BY <1>2, <1>5, <1>10, <2>1, <2>2, <2>3
<1>12. ASSUME NEW j \in 1 .. Len(found) PROVE found[j] \in Proposed \cup ToSet(unseen)
  <2>1. CASE found[j] \in CardsOf("proposed", news)
    <3>1. PICK i \in DOMAIN news : news[i].type = "proposed" /\ found[j] = news[i].id
      BY <2>1 DEF CardsOf
    <3>2. k + i \in DOMAIN events /\ events[k + i].type = "proposed" /\ found[j] = events[k + i].id
      BY <1>6, <3>1
    <3> QED
      BY <3>2 DEF Proposed, CardsOf
  <2>2. CASE found[j] \notin CardsOf("proposed", news)
    <3>1. DOMAIN found = 1 .. Len(found)
      BY <1>9
    <3>2. j \in places
      BY <1>12, <2>2, <3>1
    <3>3. PICK x \in 1 .. Len(unseen) : unseen[x] = found[j]
      BY <1>10, <1>12, <3>2
    <3>4. DOMAIN unseen = 1 .. Len(unseen)
      BY <1>10
    <3> QED
      BY <3>3, <3>4 DEF ToSet
  <2> QED
    BY <2>1, <2>2
<1> HIDE DEF k
<1>13. CommitmentsIInv'
  <2>1. UNCHANGED <<events, today, planned, serves, outcome, artifact, pass>>
    BY <1>3 DEF commitmentVars
  <2>2. CommitmentsTypeOK' /\ planned' \in Seq(Serving) /\ serves' = [r \in Serving |-> serves'[r]]
    BY <2>1 DEF OpportunitiesIInv, CommitmentsIInv, CommitmentsTypeOK, JournalsAreSequences
  <2> QED
    BY <2>1, <2>2, RunsAreLeft, SilentStep DEF OpportunitiesIInv
<1>14. events' = events /\ restarts' = restarts
  BY <1>3 DEF commitmentVars
<1>15. ScannerIsSound'
  <2>1. m \in 0 .. Len(events)
    BY <1>6, <1>7
  <2>2. OpportunitiesTypeOK'
    BY <1>2, <1>4, <1>11, <1>14, <2>1 DEF OpportunitiesTypeOK
  <2> QED
    BY <1>4, <1>10, <2>2 DEF ScannerIsSound
<1>16. ScannedStateIsReplay'
  BY <1>4, <1>8, <1>14 DEF ScannedStateIsReplay
<1>17. FailuresAreKnown'
  <2>1. ASSUME NEW i \in 1 .. m, events[i].type = "failed"
        PROVE  FailedCard(events[i].id, i) \in Proposed \cup ToSet(unseen)
    <3>1. CASE i \in 1 .. k
      <4>1. FailedCard(events[i].id, i) \in Proposed \cup ToSet(scanner.cards)
        BY <2>1, <3>1 DEF OpportunitiesIInv, FailuresAreKnown, k
      <4>2. ToSet(scanner.cards) = {}
        BY <1>2 DEF ToSet
      <4> QED
        BY <4>1, <4>2
    <3>2. CASE i \notin 1 .. k
      <4>1. i \in k + 1 .. Len(events) /\ k + (i - k) = i
        BY <1>6, <1>7, <2>1, <3>2
      <4>2. i - k \in DOMAIN news /\ news[i - k] = events[i]
        BY <1>6, <4>1
      <4>3. PICK j \in 1 .. Len(found) : found[j] = FailedCard(events[i].id, i)
        BY <1>5, <2>1, <4>1, <4>2
      <4> QED
        BY <1>12, <4>3
    <3> QED
      BY <3>1, <3>2
  <2>2. Proposed' = Proposed
    BY <1>14 DEF Proposed
  <2> QED
    BY <1>4, <1>14, <2>1, <2>2 DEF FailuresAreKnown
<1> QED
  BY <1>13, <1>15, <1>16, <1>17 DEF OpportunitiesIInv

\* Each step of a commitment appends one event, or none.
LEMMA OneEventAtMost ==
  ASSUME CommitmentsNext
  PROVE  events' = events \/ \E e : events' = Append(events, e)
<1>1. ASSUME NEW c \in Owed, RecordCommitment(c) PROVE \E e : events' = Append(events, e)
  BY <1>1 DEF RecordCommitment
<1>2. ASSUME NEW c \in Owed, NEW r \in Serving, PlanServing(r, c) PROVE events' = events
  BY <1>2 DEF PlanServing
<1>3. ASSUME NEW g \in Goals, RecordGoal(g) PROVE \E e : events' = Append(events, e)
  BY <1>3 DEF RecordGoal
<1>4. ASSUME NEW r \in Serving, ArtifactLost(r) PROVE events' = events
  BY <1>4 DEF ArtifactLost
<1>5. ASSUME NEW r \in Serving, NEW how \in Outcomes, RunEnds(r, how) PROVE \E e : events' = Append(events, e)
  BY <1>5 DEF RunEnds
<1>6. ASSUME DayPasses PROVE events' = events
  BY <1>6 DEF DayPasses
<1>7. ASSUME NEW p \in Reconcilers, BeginPass(p) PROVE events' = events
  BY <1>7 DEF BeginPass
<1>8. ASSUME NEW p \in Reconcilers, Examine(p) PROVE events' = events
  BY <1>8 DEF Examine
<1>9. ASSUME NEW p \in Reconcilers, Settle(p) PROVE \E e : events' = Append(events, e)
  BY <1>9 DEF Settle
<1> QED
  BY <1>1, <1>2, <1>3, <1>4, <1>5, <1>6, <1>7, <1>8, <1>9 DEF CommitmentsNext, Reconcile

\* A card that is recorded or resolved changes nothing a pass looks at.
LEMMA CardStep ==
  ASSUME CommitmentsIInv, NEW type \in {"proposed", "resolved"}, NEW card,
         events' = Append(events, Event(type, card, NoFields, {})),
         UNCHANGED <<today, planned, serves, outcome, artifact, pass>>
  PROVE  CommitmentsIInv' /\ DueIsKept
<1> DEFINE e == Event(type, card, NoFields, {})
<1>1. e.type = type /\ e.run = {} /\ e.at = today
  BY EventFields
<1> HIDE DEF e
<1>2. events' = Append(events, e)
  BY DEF e
<1>3. e.type # "failed" /\ e.type \notin StateTypes
  BY <1>1 DEF StateTypes
<1>4. RunsGoOn
  BY RunsAreLeft
<1>5. CommitmentsTypeOK'
  <2>1. \A i \in DOMAIN events' : events'[i].at \in 0 .. MaxToday
    BY <1>1, <1>2, EventsAreDated
  <2> QED
    BY <2>1 DEF CommitmentsIInv, CommitmentsTypeOK
<1>6. planned' \in Seq(Serving) /\ serves' = [r \in Serving |-> serves'[r]]
  BY DEF CommitmentsIInv, JournalsAreSequences
<1>7. CommitmentsIInv' /\ \A c \in DOMAIN State : c \in DOMAIN State' /\ State'[c] = State[c]
  BY <1>1, <1>2, <1>3, <1>4, <1>5, <1>6, TellingStep
<1> QED
  BY <1>7, TellingIsKept

LEMMA ResolveStep ==
  ASSUME OpportunitiesIInv, NEW card, Resolve(card),
         UNCHANGED <<today, planned, serves, outcome, artifact, pass, scanner, restarts>>
  PROVE  OpportunitiesIInv' /\ DueIsKept
<1>1. events' = Append(events, Event("resolved", card, NoFields, {}))
  BY DEF Resolve
<1>2. CommitmentsIInv' /\ DueIsKept
  BY <1>1, CardStep DEF OpportunitiesIInv
<1>3. ScannerIsSound' /\ ScannedStateIsReplay' /\ FailuresAreKnown'
  BY <1>1, ScannerStays
<1> QED
  BY <1>2, <1>3 DEF OpportunitiesIInv

LEMMA RestIsKept ==
  ASSUME OpportunitiesIInv, UNCHANGED commitmentVars
  PROVE  CommitmentsIInv' /\ DueIsKept
<1>1. UNCHANGED <<events, today, planned, serves, outcome, artifact, pass>>
  BY DEF commitmentVars
<1>2. CommitmentsTypeOK' /\ planned' \in Seq(Serving) /\ serves' = [r \in Serving |-> serves'[r]]
  BY <1>1 DEF OpportunitiesIInv, CommitmentsIInv, CommitmentsTypeOK, JournalsAreSequences
<1> QED
  BY <1>1, <1>2, RunsAreLeft, SilentStep, SilentIsKept DEF OpportunitiesIInv

\* The next card of a scan is recorded, or the scan is over.
LEMMA RecordCardStep ==
  ASSUME OpportunitiesIInv, RecordCard
  PROVE  OpportunitiesIInv' /\ DueIsKept
<1>0. /\ UNCHANGED <<today, planned, serves, outcome, artifact, pass, accepting, restarts>>
      /\ scanner.step = "recording"
      /\ scanner = [state |-> scanner.state, sequence |-> scanner.sequence, step |-> scanner.step, cards |-> scanner.cards]
      /\ scanner.sequence \in 0 .. Len(events) /\ Len(scanner.cards) <= MaxCards /\ restarts \in 0 .. MaxRestarts
      /\ MaxCards \in Nat
  BY OpportunitiesAssumption DEF OpportunitiesIInv, ScannerIsSound, OpportunitiesTypeOK, RecordCard
<1>T. PICK T : scanner.cards \in Seq(T)
  BY DEF OpportunitiesIInv, ScannerIsSound
<1>1. CASE scanner.cards = <<>>
  <2>1. scanner' = [scanner EXCEPT !.step = "idle"] /\ UNCHANGED events
    BY <1>1 DEF RecordCard
  <2>2. /\ scanner' = [state |-> scanner.state, sequence |-> scanner.sequence, step |-> "idle", cards |-> scanner.cards]
    BY <1>0, <2>1
  <2>3. scanner'.state = scanner.state /\ scanner'.sequence = scanner.sequence /\ scanner'.step = "idle" /\ scanner'.cards = scanner.cards
    BY <2>2
  <2>4. CommitmentsIInv' /\ DueIsKept
    BY <1>0, <2>1, RestIsKept DEF commitmentVars
  <2>5. ScannerIsSound'
    BY <1>0, <1>T, <1>1, <2>1, <2>2, <2>3 DEF ScannerIsSound, OpportunitiesTypeOK
  <2>6. ScannedStateIsReplay' /\ FailuresAreKnown'
    BY <2>1, <2>3 DEF OpportunitiesIInv, ScannedStateIsReplay, FailuresAreKnown, Proposed
  <2> QED
    BY <2>4, <2>5, <2>6 DEF OpportunitiesIInv
<1>2. CASE scanner.cards # <<>>
  <2> DEFINE card == Head(scanner.cards)
             others == Tail(scanner.cards)
             e == Event("proposed", card, NoFields, {})
  <2>1. events' = Append(events, e) /\ scanner' = [scanner EXCEPT !.cards = others]
    BY <1>2 DEF RecordCard
  <2>2. scanner' = [state |-> scanner.state, sequence |-> scanner.sequence, step |-> scanner.step, cards |-> others]
    BY <1>0, <2>1
  <2>3. scanner'.state = scanner.state /\ scanner'.sequence = scanner.sequence /\ scanner'.step = "recording" /\ scanner'.cards = others
    BY <1>0, <2>2
  <2>4. CommitmentsIInv' /\ DueIsKept
    BY <1>0, <2>1, CardStep DEF OpportunitiesIInv
  <2>5. /\ others \in Seq(T) /\ Len(others) <= MaxCards
        /\ ToSet(scanner.cards) = {card} \cup ToSet(others)
    <3>1. ASSUME NEW q \in Seq(T), q # <<>>
          PROVE  /\ Tail(q) \in Seq(T) /\ Len(Tail(q)) = Len(q) - 1 /\ Len(q) \in Nat
                 /\ DOMAIN q = 1 .. Len(q) /\ DOMAIN Tail(q) = 1 .. Len(q) - 1
                 /\ q[1] = Head(q) /\ \A i \in 1 .. Len(q) - 1 : Tail(q)[i] = q[i + 1]
      BY <3>1
    <3>2. ASSUME NEW q \in Seq(T), q # <<>>
          PROVE  ToSet(q) = {Head(q)} \cup ToSet(Tail(q))
      <4>1. /\ Len(q) \in Nat /\ Len(q) > 0 /\ DOMAIN q = 1 .. Len(q) /\ DOMAIN Tail(q) = 1 .. Len(q) - 1
            /\ q[1] = Head(q) /\ \A i \in 1 .. Len(q) - 1 : Tail(q)[i] = q[i + 1]
        BY <3>1, <3>2
      <4>2. ASSUME NEW i \in DOMAIN q PROVE q[i] \in {Head(q)} \cup ToSet(Tail(q))
        <5>1. CASE i = 1
          BY <4>1, <5>1
        <5>2. CASE i # 1
          <6>1. i - 1 \in DOMAIN Tail(q) /\ Tail(q)[i - 1] = q[i]
            BY <4>1, <4>2, <5>2
          <6> QED
            BY <6>1 DEF ToSet
        <5> QED BY <5>1, <5>2
      <4>3. ASSUME NEW i \in DOMAIN Tail(q) PROVE Tail(q)[i] \in ToSet(q)
        <5>1. i + 1 \in DOMAIN q /\ Tail(q)[i] = q[i + 1]
          BY <4>1, <4>3
        <5> QED
          BY <5>1 DEF ToSet
      <4>4. Head(q) \in ToSet(q)
        <5>1. 1 \in DOMAIN q
          BY <4>1
        <5> QED
          BY <4>1, <5>1 DEF ToSet
      <4> QED
        BY <4>2, <4>3, <4>4 DEF ToSet
    <3>3. others \in Seq(T) /\ Len(others) = Len(scanner.cards) - 1 /\ Len(scanner.cards) \in Nat
      BY <1>T, <1>2, <3>1
    <3> QED
      BY <1>0, <1>T, <1>2, <3>2, <3>3
  <2>6. JournalIsKept /\ Len(events) \in Nat
    BY <2>1, KeepingIs DEF OpportunitiesIInv, CommitmentsIInv
  <2>7. Len(events') = Len(events) + 1 /\ card \in Proposed'
    <3>1. e.type = "proposed" /\ e.id = card
      BY EventFields
    <3> HIDE DEF e
    <3>2. /\ Len(events') = Len(events) + 1 /\ Len(events) + 1 \in DOMAIN events' /\ events'[Len(events) + 1] = e
      BY <2>1, JournalGrows DEF OpportunitiesIInv, CommitmentsIInv
    <3> HIDE DEF card
    <3> QED
      BY <3>1, <3>2 DEF Proposed, CardsOf
  <2> HIDE DEF card, others, e
  <2>8. ScannerIsSound'
    <3>1. scanner.sequence \in 0 .. Len(events')
      BY <1>0, <2>6, <2>7
    <3> QED
      BY <1>0, <2>2, <2>3, <2>5, <3>1 DEF ScannerIsSound, OpportunitiesTypeOK
  <2>9. ScannedStateIsReplay'
    BY <1>0, <2>3, <2>6 DEF OpportunitiesIInv, ScannedStateIsReplay, JournalIsKept
  <2>10. FailuresAreKnown'
    <3>1. \A i \in 1 .. scanner.sequence : events'[i] = events[i]
      BY <1>0, <2>6 DEF JournalIsKept
    <3>2. Proposed \subseteq Proposed'
      BY <2>6 DEF JournalIsKept
    <3>3. ToSet(scanner.cards) \subseteq Proposed' \cup ToSet(others)
      BY <2>5, <2>7
    <3> QED
      BY <2>3, <3>1, <3>2, <3>3 DEF OpportunitiesIInv, FailuresAreKnown
  <2> QED
    BY <2>4, <2>8, <2>9, <2>10 DEF OpportunitiesIInv
<1> QED
  BY <1>1, <1>2

\* A new process has read nothing.
LEMMA AfreshIs ==
  ASSUME JournalsAreSequences, scanner' = NewScanner, restarts' \in 0 .. MaxRestarts, Len(events') \in Nat,
         events' = events
  PROVE  ScannerIsSound' /\ ScannedStateIsReplay' /\ FailuresAreKnown'
<1>1. /\ scanner'.state = NoFields /\ scanner'.sequence = 0 /\ scanner'.step = "idle" /\ scanner'.cards = <<>>
      /\ scanner' = [state |-> scanner'.state, sequence |-> scanner'.sequence, step |-> scanner'.step, cards |-> scanner'.cards]
  BY DEF NewScanner
<1>2. PICK S : events \in Seq(S)
  BY DEF JournalsAreSequences
<1>3. SubSeq(events, 1, 0) = <<>>
  <2>1. 0 \in 0 .. Len(events)
    BY <1>2
  <2>2. SubSeq(events, 1, 0) \in Seq(S) /\ Len(SubSeq(events, 1, 0)) = 0
    BY <1>2, <2>1, PartOf
  <2>3. \A q \in Seq(S) : Len(q) = 0 => q = <<>>
    OBVIOUS
  <2> QED
    BY <2>2, <2>3
<1>4. ScannedStateIsReplay'
  BY <1>1, <1>3, ProjectNone DEF ScannedStateIsReplay
<1>5. FailuresAreKnown'
  BY <1>1 DEF FailuresAreKnown
<1>6. ScannerIsSound'
  <2>1. <<>> \in Seq({}) /\ Len(<<>>) = 0
    OBVIOUS
  <2>2. Len(<<>>) <= MaxCards /\ scanner'.sequence \in 0 .. Len(events')
    BY <1>1, <2>1, OpportunitiesAssumption
  <2> QED
    BY <1>1, <2>1, <2>2 DEF ScannerIsSound, OpportunitiesTypeOK
<1> QED
  BY <1>4, <1>5, <1>6

LEMMA OpportunitiesBegin == OpportunitiesInit => OpportunitiesIInv
<1> SUFFICES ASSUME OpportunitiesInit PROVE OpportunitiesIInv
  OBVIOUS
<1>1. CommitmentsIInv /\ events = <<>> /\ scanner = NewScanner /\ restarts = 0
  BY CommitmentsBegin DEF OpportunitiesInit, CommitmentsInit
<1>2. /\ scanner.state = NoFields /\ scanner.sequence = 0 /\ scanner.step = "idle" /\ scanner.cards = <<>>
      /\ scanner = [state |-> scanner.state, sequence |-> scanner.sequence, step |-> scanner.step, cards |-> scanner.cards]
  BY <1>1 DEF NewScanner
<1>3. <<>> \in Seq({}) /\ Len(<<>>) = 0 /\ SubSeq(<<>>, 1, 0) = <<>>
  <2>1. <<>> \in Seq({}) /\ Len(<<>>) = 0
    OBVIOUS
  <2>2. \A q \in Seq({}) : q = <<>>
    OBVIOUS
  <2>3. 0 \in 0 .. Len(<<>>)
    BY <2>1
  <2>4. SubSeq(<<>>, 1, 0) \in Seq({})
    BY <2>1, <2>3, PartOf
  <2> QED
    BY <2>1, <2>2, <2>4
<1>4. ScannedStateIsReplay
  BY <1>1, <1>2, <1>3, ProjectNone DEF ScannedStateIsReplay
<1>5. FailuresAreKnown
  BY <1>2 DEF FailuresAreKnown
<1>6. ScannerIsSound
  BY <1>1, <1>2, <1>3, OpportunitiesAssumption DEF ScannerIsSound, OpportunitiesTypeOK
<1> QED
  BY <1>1, <1>4, <1>5, <1>6 DEF OpportunitiesIInv

\* The card of a failed run is resolved; any other becomes a run.
LEMMA AcceptStep ==
  ASSUME OpportunitiesIInv, NEW card, Accept(card)
  PROVE  OpportunitiesIInv' /\ DueIsKept
<1>0. UNCHANGED <<today, outcome, artifact, pass, scanner, restarts>>
  BY DEF Accept
<1>1. CASE card.source = "failed_task"
  <2>1. Resolve(card) /\ UNCHANGED <<planned, serves, accepting>>
    BY <1>1 DEF Accept
  <2> QED
    BY <1>0, <2>1, ResolveStep
<1>2. CASE card.source # "failed_task"
  <2>1. PICK r \in Serving \ ToSet(planned) :
          /\ planned' = Append(planned, r)
          /\ serves' = [serves EXCEPT ![r] = {card.about} \cap Owed]
          /\ UNCHANGED events
    BY <1>2 DEF Accept
  <2>2. AtMostOne({card.about} \cap Owed, Owed)
    BY DEF AtMostOne
  <2>3. CommitmentsIInv' /\ DueIsKept
    BY <1>0, <2>1, <2>2, PlanStep DEF OpportunitiesIInv
  <2>4. ScannerIsSound' /\ ScannedStateIsReplay' /\ FailuresAreKnown'
    BY <1>0, <2>1, ScannerStays
  <2> QED
    BY <2>3, <2>4 DEF OpportunitiesIInv
<1> QED
  BY <1>1, <1>2

LEMMA OpportunitiesGoOn ==
  ASSUME OneReconciler, FewCards, OpportunitiesIInv, [OpportunitiesNext]_opportunityVars
  PROVE  OpportunitiesIInv' /\ DueIsKept
<1>1. CASE CommitmentsNext /\ UNCHANGED cardVars
  <2>1. UNCHANGED <<scanner, accepting, restarts>>
    BY <1>1 DEF cardVars
  <2>2. CommitmentsIInv' /\ DueIsKept
    BY <1>1, CommitmentsStep DEF OpportunitiesIInv
  <2>3. ScannerIsSound' /\ ScannedStateIsReplay' /\ FailuresAreKnown'
    BY <1>1, <2>1, OneEventAtMost, ScannerStays
  <2> QED
    BY <2>2, <2>3 DEF OpportunitiesIInv
<1>2. CASE BeginScan
  <2>1. UNCHANGED commitmentVars
    BY <1>2 DEF BeginScan
  <2> QED
    BY <1>2, <2>1, BeginScanStep, RestIsKept
<1>3. CASE RecordCard
  BY <1>3, RecordCardStep
<1>4. CASE Restart
  <2>1. /\ UNCHANGED commitmentVars /\ scanner' = NewScanner
        /\ restarts < MaxRestarts /\ restarts' = restarts + 1 /\ restarts \in 0 .. MaxRestarts
    BY <1>4 DEF Restart, OpportunitiesIInv, ScannerIsSound, OpportunitiesTypeOK
  <2>2. events' = events /\ Len(events') \in Nat /\ JournalsAreSequences
    <3>1. JournalsAreSequences /\ events' = events
      BY <2>1 DEF OpportunitiesIInv, CommitmentsIInv, commitmentVars
    <3>2. Len(events) \in Nat
      BY <3>1, KeepingIs
    <3> QED
      BY <3>1, <3>2
  <2>3. restarts' \in 0 .. MaxRestarts
    BY <2>1, OpportunitiesAssumption
  <2>4. ScannerIsSound' /\ ScannedStateIsReplay' /\ FailuresAreKnown'
    BY <2>1, <2>2, <2>3, AfreshIs
  <2> QED
    BY <2>1, <2>4, RestIsKept DEF OpportunitiesIInv
<1>5. CASE FinishAccept
  <2>1. PICK a \in accepting : Resolve(a.card)
    BY <1>5 DEF FinishAccept
  <2>2. UNCHANGED <<today, planned, serves, outcome, artifact, pass, scanner, restarts>>
    BY <1>5 DEF FinishAccept
  <2> QED
    BY <2>1, <2>2, ResolveStep
<1>6. ASSUME NEW card \in Listed, Accept(card) PROVE OpportunitiesIInv' /\ DueIsKept
  BY <1>6, AcceptStep
<1>7. ASSUME NEW card \in Listed, Dismiss(card) PROVE OpportunitiesIInv' /\ DueIsKept
  <2>1. Resolve(card) /\ UNCHANGED <<today, planned, serves, outcome, artifact, pass, scanner, restarts>>
    BY <1>7 DEF Dismiss
  <2> QED
    BY <2>1, ResolveStep
<1>8. CASE UNCHANGED opportunityVars
  <2>1. UNCHANGED <<events, scanner, accepting, restarts>> /\ UNCHANGED commitmentVars
    BY <1>8 DEF opportunityVars, cardVars, commitmentVars
  <2>2. ScannerIsSound' /\ ScannedStateIsReplay' /\ FailuresAreKnown'
    BY <2>1, ScannerStays
  <2> QED
    BY <2>1, <2>2, RestIsKept DEF OpportunitiesIInv
<1> QED
  BY <1>1, <1>2, <1>3, <1>4, <1>5, <1>6, <1>7, <1>8 DEF OpportunitiesNext

\* What a scan knows of the owner's state, read piece by piece and over restarts,
\* is what the journal says; every failure before it is proposed; and a run
\* settles one occurrence of what it was planned for, once it was verified
\* (opportunity-service.ts, commitment-reconciler.ts): with one process that
\* reconciles, and as many cards as a scan takes.
THEOREM OpportunitiesHold ==
  ASSUME OneReconciler, FewCards
  PROVE  OpportunitiesSpec => []OpportunitiesInv
<1>1. OpportunitiesIInv => OpportunitiesInv
  <2> SUFFICES ASSUME OpportunitiesIInv PROVE OpportunitiesInv
    OBVIOUS
  <2>1. CommitmentsInv
    BY DEF OpportunitiesIInv, CommitmentsIInv, CommitmentsInv, EventsAreSound, SettledByItsRun
  <2>2. FailuresAreProposed
    <3> SUFFICES ASSUME scanner.step = "idle", NEW i \in 1 .. scanner.sequence, events[i].type = "failed"
                 PROVE  FailedCard(events[i].id, i) \in Proposed
      BY DEF FailuresAreProposed
    <3>1. FailedCard(events[i].id, i) \in Proposed \cup ToSet(scanner.cards)
      BY DEF OpportunitiesIInv, FailuresAreKnown
    <3>2. ToSet(scanner.cards) = {}
      BY DEF OpportunitiesIInv, ScannerIsSound, ToSet
    <3> QED
      BY <3>1, <3>2
  <2> QED
    BY <2>1, <2>2 DEF OpportunitiesIInv, OpportunitiesInv, ScannerIsSound
<1>2. OpportunitiesIInv /\ [OpportunitiesNext]_opportunityVars => OpportunitiesIInv'
  BY OpportunitiesGoOn
<1> QED
  BY <1>1, <1>2, OpportunitiesBegin, PTL DEF OpportunitiesSpec

\* No occurrence that is due moves back, whatever settles it: what a run served
\* is never due again (commitment-reconciler.ts), with one process that
\* reconciles.
THEOREM DueAdvances ==
  ASSUME OneReconciler, FewCards
  PROVE  OpportunitiesSpec => DueOnlyAdvances
<1>1. OpportunitiesIInv /\ [OpportunitiesNext]_opportunityVars => OpportunitiesIInv'
  BY OpportunitiesGoOn
<1>2. ASSUME OpportunitiesIInv, [OpportunitiesNext]_opportunityVars
      PROVE  [\A c \in DOMAIN State \cap Recurring : (State[c].due <= State[c].due')]_commitmentVars
  <2>1. DueIsKept
    BY <1>2, OpportunitiesGoOn
  <2>2. \A c \in DOMAIN State \cap Recurring : State[c].due <= State'[c].due
    BY <2>1 DEF DueIsKept, Owed
  <2> QED
    BY <2>2
<1> QED
  BY <1>1, <1>2, OpportunitiesBegin, PTL DEF OpportunitiesSpec, DueOnlyAdvances

=============================================================================

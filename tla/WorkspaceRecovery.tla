------------------------- MODULE WorkspaceRecovery -------------------------
(* What one work order may do to the files of the owner: the tree it works   *)
(* in (core/isolated-workspace.ts), the checkpoint taken before its first    *)
(* dispatch and the copies it is restored from (core/workspace-evidence.ts), *)
(* the verdict on what an interrupted or failed attempt left behind, and how *)
(* the files of an isolated order come back (core/runtime.ts).  The adapters *)
(* are safe to repeat: the others never reach the verdict (SubagentDispatch).*)
EXTENDS Naturals, FiniteSets

CONSTANTS
  Files,         \* paths of the workspace
  Bulky,         \* files above 2 MB: no checkpoint keeps them, none is brought back
  NamedFiles,         \* files the plan names
  Budget,        \* budget.maxAttempts
  MaxOwnerEdits,      \* bound on the edits the owner makes meanwhile
  MaxLosses      \* bound on the crashes of the runtime

ASSUME RecoveryAssumption ==
  /\ Files # {} /\ Bulky \subseteq Files /\ NamedFiles \subseteq Files
  /\ Budget \in Nat \ {0} /\ MaxOwnerEdits \in Nat /\ MaxLosses \in Nat

VARIABLES
  risk,          \* risk class of the order, fixed by the plan
  required,      \* how many artifacts it must deliver; more than the files: none observable
  live,          \* the workspace of the owner
  sandbox,       \* the isolated tree, or NoTree
  hashes,        \* the JSON of the checkpoint: what each file was, or NoTree
  copies,        \* the copies beside it
  order,         \* SubagentRun: its status, attempt, whether it names a checkpoint
  observed,      \* paths recorded as artifacts by a reconciliation
  verified,      \* the last verification of the order passed
  stage,         \* where the runtime is with the order
  pending,       \* files still to be copied, to the checkpoint or to the owner
  attempt,       \* the attempt the runtime is at; the journal learns it with the dispatch
  returned,      \* files copied back to the owner
  kept,          \* retainSandbox
  edits, losses

durable == <<live, sandbox, hashes, copies, order, observed, verified>>
recoveryVars == <<risk, required, durable, stage, pending, attempt, returned, kept, edits, losses>>
local == <<pending, attempt, returned, kept>>
rest == <<risk, required, edits, losses>>

Risks == {"read_only", "reversible_write", "irreversible"}
\* A file is absent, as the plan found it, as an attempt left it, or as the
\* owner left it meanwhile.
Contents == {"absent", "base", "work", "own"}
Trees == [Files -> Contents]
NoTree == [f \in Files |-> "no tree"]
Stages == {"idle", "hashing", "copying", "dispatching", "working", "finishing",
           "failing", "settling", "returning", "leaving", "over"}

Isolated == risk = "irreversible"         \* requiresIsolatedWorkspace
WorkTree == IF Isolated THEN sandbox ELSE live
Present(tree) == {f \in Files : tree[f] # "absent"}
\* What cannot be undone has one attempt.
AttemptsAllowed == IF Isolated THEN 1 ELSE Budget
\* A copy larger than the limit is never stored.
Storable == Present(hashes) \ Bulky

RecoveryTypeOK ==
  /\ risk \in Risks /\ required \in 0 .. Cardinality(Files) + 1
  /\ live \in Trees /\ {sandbox, hashes} \subseteq Trees \cup {NoTree} /\ copies \in Trees
  /\ order \in [status : {"none", "running", "failed", "completed"}, attempt : 0 .. Budget]
  /\ attempt \in 0 .. Budget + 1 /\ returned \subseteq Files
  /\ observed \subseteq Files /\ pending \subseteq Files /\ stage \in Stages

RecoveryInit ==
  /\ risk \in Risks /\ required \in 0 .. Cardinality(Files) + 1
  /\ live \in [Files -> {"absent", "base"}]
  /\ sandbox = NoTree /\ hashes = NoTree
  /\ copies = [f \in Files |-> "absent"]
  /\ order = [status |-> "none", attempt |-> 0]
  /\ observed = {} /\ verified = FALSE
  /\ stage = "idle" /\ pending = {} /\ attempt = 0 /\ returned = {} /\ kept = FALSE
  /\ edits = 0 /\ losses = 0

-----------------------------------------------------------------------------
(* The verdict: assessWorkspaceRecovery.  Only the workspace of the owner is *)
(* compared, so the checkpoint of an isolated order belongs to another root. *)

ChangedFiles == {f \in Files : hashes[f] # live[f]}
Delivered == {f \in ChangedFiles : live[f] # "absent"}         \* artifactChanges
Restorable == {f \in Present(hashes) : copies[f] # "absent"}
Restored(tree) == [f \in Files |-> IF f \in Restorable THEN copies[f] ELSE tree[f]]

\* Mutant of Verdict: whose root the checkpoint has is not asked.
RecoveryVerdictAnyRoot ==
  IF hashes = NoTree THEN "blocked"
  ELSE IF ChangedFiles = {} THEN "rerun"
  ELSE IF risk = "read_only" THEN "blocked"
  ELSE IF Cardinality(Delivered) >= required THEN "reconciled"
  ELSE IF Restorable # {} /\ ~Isolated THEN "restored" ELSE "blocked"

\* (The changes are read from the files: no worker of the repository reports its own.)
RecoveryVerdict ==
  IF Isolated \/ hashes = NoTree THEN "blocked"
  ELSE IF ChangedFiles = {} THEN "rerun"
  ELSE IF risk = "read_only" THEN "blocked"
  ELSE IF Cardinality(Delivered) >= required THEN "reconciled"
  ELSE IF Restorable # {} THEN "restored" ELSE "blocked"

\* A fresh attempt is allowed, after the files of the checkpoint are back.
Repeat(n) ==
  /\ RecoveryVerdict \in {"rerun", "restored"}
  /\ live' = IF RecoveryVerdict = "restored" THEN Restored(live) ELSE live
  /\ order' = [order EXCEPT !.status = IF stage = "failing" THEN "failed" ELSE @]
  /\ attempt' = n /\ stage' = "dispatching"
  /\ UNCHANGED <<observed, verified>>

\* Observed artifacts stand in for the work, if they pass its verification.
ReconcileOrder ==
  /\ RecoveryVerdict = "reconciled"
  /\ observed' = observed \cup Delivered
  /\ order' = [order EXCEPT !.status = "completed"]
  /\ verified' \in BOOLEAN
  /\ stage' = "over"
  /\ UNCHANGED <<live, attempt>>

\* A sandbox of an earlier process stays where it is.
Block ==
  /\ RecoveryVerdict = "blocked"
  /\ order' = [order EXCEPT !.status = "failed"]
  /\ stage' = IF stage = "failing" THEN "leaving" ELSE "over"
  /\ UNCHANGED <<live, observed, verified, attempt>>

Judge(n) ==
  /\ Repeat(n) \/ ReconcileOrder \/ Block
  /\ UNCHANGED <<rest, sandbox, hashes, copies, pending, returned, kept>>

-----------------------------------------------------------------------------
(* dispatchSubagentUnlocked.                                                 *)

\* A tree the order may work in: its own copy of the files of the owner, or
\* the state last committed, in place of whatever an earlier dispatch left.
Prepared(tree) ==
  IF Isolated THEN tree \in {live, [f \in Files |-> IF live[f] = "absent" THEN "absent" ELSE "base"]}
  ELSE tree = sandbox

\* The first dispatch begins with a checkpoint.
BeginFresh ==
  /\ stage = "idle" /\ order.status = "none"
  /\ sandbox' \in Trees \cup {NoTree} /\ Prepared(sandbox')
  /\ stage' = "hashing"
  /\ UNCHANGED <<rest, live, hashes, copies, order, observed, verified, local>>

\* Mutant of SaveHashes: the order is dispatched before the copies are made.
SaveHashesOnly ==
  /\ stage = "hashing"
  /\ hashes' = WorkTree /\ pending' = {}
  /\ stage' = "copying"
  /\ UNCHANGED <<rest, live, sandbox, copies, order, observed, verified, attempt, returned, kept>>

\* The JSON is renamed into place first, the copies follow one by one.
SaveHashes ==
  /\ stage = "hashing"
  /\ hashes' = WorkTree /\ pending' = Present(WorkTree) \ Bulky
  /\ stage' = "copying"
  /\ UNCHANGED <<rest, live, sandbox, copies, order, observed, verified, attempt, returned, kept>>

\* A file that is gone by now stays hash-only.
CopyOne ==
  /\ stage = "copying"
  /\ \E f \in pending :
       /\ copies' = IF WorkTree[f] = "absent" THEN copies ELSE [copies EXCEPT ![f] = WorkTree[f]]
       /\ pending' = pending \ {f}
  /\ UNCHANGED <<rest, live, sandbox, hashes, order, observed, verified, stage, attempt, returned, kept>>

RecordDispatch ==
  /\ stage = "copying" /\ pending = {}
  /\ order' = [status |-> "running", attempt |-> 1] /\ attempt' = 1
  /\ stage' = "working"
  /\ UNCHANGED <<rest, live, sandbox, hashes, copies, observed, verified, pending, returned, kept>>

\* What an earlier process left running or failed is judged first.
BeginInterrupted ==
  /\ stage = "idle" /\ order.status \in {"running", "failed"}
  /\ Judge(order.attempt + IF order.status = "failed" THEN 1 ELSE 0)

\* A completed order is verified again, and repeated only if that fails.
BeginCompleted ==
  /\ stage = "idle" /\ order.status = "completed"
  /\ verified' \in {TRUE, verified}
  /\ IF verified' THEN stage' = "over" /\ UNCHANGED attempt
     ELSE stage' = "dispatching" /\ attempt' = order.attempt + 1
  /\ UNCHANGED <<rest, live, sandbox, hashes, copies, order, observed, pending, returned, kept>>

\* subagent.resumed: a new process makes the sandbox anew, a repetition in the
\* same process goes on in the tree it has.
Resume ==
  /\ stage = "dispatching" /\ attempt <= AttemptsAllowed
  /\ sandbox' \in Trees \cup {NoTree} /\ Prepared(sandbox')
  /\ order' = [status |-> "running", attempt |-> attempt]
  /\ stage' = "working"
  /\ UNCHANGED <<rest, live, hashes, copies, observed, verified, local>>

\* The budget is spent.
GiveUp ==
  /\ stage = "dispatching" /\ attempt > AttemptsAllowed
  /\ stage' = "leaving"
  /\ UNCHANGED <<rest, durable, local>>

\* The worker writes and deletes files of its tree.
Work(f, content) ==
  /\ stage = "working" /\ content \in {"work", "absent"} /\ WorkTree[f] # content
  /\ IF Isolated THEN sandbox' = [sandbox EXCEPT ![f] = content] /\ UNCHANGED live
                 ELSE live' = [live EXCEPT ![f] = content] /\ UNCHANGED sandbox
  /\ UNCHANGED <<rest, hashes, copies, order, observed, verified, stage, local>>

\* The worker completes and left evidence; what is verified is its artifacts.
Complete ==
  /\ stage = "working"
  /\ order' = [order EXCEPT !.status = "completed"]
  /\ verified' \in BOOLEAN
  /\ stage' = IF verified' THEN "settling" ELSE "failing"
  /\ UNCHANGED <<rest, live, sandbox, hashes, copies, observed, local>>

Fail ==
  /\ stage = "working" /\ stage' = "failing"
  /\ UNCHANGED <<rest, durable, local>>

\* A failed attempt is judged, and repeated within its budget.
Catch ==
  /\ stage = "failing"
  /\ Judge(order.attempt + 1)

-----------------------------------------------------------------------------
(* settleIsolatedWorkspace: named files go back to the owner, one by one.    *)

Leftover == {f \in Files : sandbox[f] # "absent" /\ sandbox[f] # live[f]}

BeginSettling ==
  /\ stage = "settling"
  /\ pending' = IF Isolated THEN Leftover \cap NamedFiles ELSE {}
  /\ kept' = (Isolated /\ Leftover \ NamedFiles # {})
  /\ stage' = "returning" /\ returned' = {}
  /\ UNCHANGED <<rest, durable, attempt>>

\* A file the owner has, or over 2 MB, is left alone, and the sandbox kept for it.
ReturnOne ==
  /\ stage = "returning"
  /\ \E f \in pending :
       /\ IF live[f] = "absent" /\ f \notin Bulky
          THEN live' = [live EXCEPT ![f] = sandbox[f]] /\ returned' = returned \cup {f} /\ UNCHANGED kept
          ELSE kept' = TRUE /\ UNCHANGED <<live, returned>>
       /\ pending' = pending \ {f}
  /\ UNCHANGED <<rest, sandbox, hashes, copies, order, observed, verified, stage, attempt>>

\* withExecutionWorkspace ends: what is not kept is disposed of.
Dispose ==
  /\ \/ stage = "returning" /\ pending = {} /\ sandbox' = IF kept THEN sandbox ELSE NoTree
     \/ stage = "leaving" /\ sandbox' = NoTree
  /\ stage' = "over"
  /\ UNCHANGED <<rest, live, hashes, copies, order, observed, verified, local>>

-----------------------------------------------------------------------------
\* The owner writes a file of the workspace.
EditFile(f) ==
  /\ edits < MaxOwnerEdits /\ live[f] # "own"
  /\ live' = [live EXCEPT ![f] = "own"] /\ edits' = edits + 1
  /\ UNCHANGED <<risk, required, losses, sandbox, hashes, copies, order, observed, verified, stage, local>>

\* The runtime dies; the files and the journal stay.
Lose ==
  /\ losses < MaxLosses /\ stage \notin {"idle", "over"}
  /\ losses' = losses + 1 /\ stage' = "idle" /\ pending' = {} /\ kept' = FALSE
  /\ UNCHANGED <<risk, required, edits, durable, attempt, returned>>

Proceed ==
  \/ BeginFresh \/ GiveUp \/ BeginInterrupted \/ BeginCompleted
  \/ SaveHashes \/ CopyOne \/ RecordDispatch \/ Resume
  \/ Complete \/ Fail \/ Catch
  \/ BeginSettling \/ ReturnOne \/ Dispose

RecoveryNext ==
  \/ Proceed \/ Lose
  \/ \E f \in Files : EditFile(f) \/ \E c \in Contents : Work(f, c)

RecoverySpec == RecoveryInit /\ [][RecoveryNext]_recoveryVars

-----------------------------------------------------------------------------
\* "A missing baseline is a safety block": a dispatch in the journal has its
\* whole checkpoint, with a copy of every file small enough to be kept, so a
\* crash while the checkpoint is written cannot leave half of one behind it.
CheckpointIsWhole ==
  order.status # "none" => /\ hashes # NoTree
                           /\ edits = 0 => \A f \in Storable : copies[f] = hashes[f]

\* "External and irreversible steps must not be rerun": an isolated order is put
\* to a worker once, whatever its attempt left behind and wherever the runtime
\* died; neither the verdict nor a failed verification gives it a second one.
IsolatedIsNotRepeated ==
  [][(Isolated /\ stage # "working" /\ stage' = "working") => order.status = "none"]_recoveryVars

\* "Named artifacts are offered back, the rest is never merged": neither the
\* worker nor the runtime replaces a file the owner has with one of an
\* isolated order, and only named files arrive.
OwnersTreeIsSafe ==
  [][Isolated => \A f \in Files :
       live'[f] = live[f] \/ live'[f] = "own" \/ (live[f] = "absent" /\ f \in NamedFiles)]_recoveryVars

\* A verified isolated order loses nothing: each file its worker wrote is with
\* the owner or still in the sandbox, also when the runtime died meanwhile.
NothingIsLost ==
  [][(Isolated /\ verified /\ sandbox' = NoTree /\ sandbox # NoTree) =>
       \A f \in Files : sandbox[f] = "work" => f \in returned]_recoveryVars

\* "Reversible work may be rolled back": no worker begins again on a file of
\* the checkpoint that an earlier attempt left behind, if it could be kept.
BeginsClean ==
  [][(stage = "dispatching" /\ stage' = "working" /\ edits = 0 /\ order.status # "completed") =>
       \A f \in Storable : live[f] = hashes[f]]_recoveryVars

\* An order that was begun comes to an end, and stays there, whatever its
\* attempts leave behind and wherever the runtime died.
OrderEnds == (stage # "idle") ~> [](stage = "over")

\* Every dispatch the journal knows of has the whole checkpoint it would be
\* judged by, wherever the runtime died (saveWorkspaceCheckpoint).
RecoveryInv == RecoveryTypeOK /\ CheckpointIsWhole

\* What no step of the runtime, of its worker or of its recovery may do to the
\* files of the owner and to the work of an order (runtime.ts,
\* workspace-evidence.ts, isolated-workspace.ts).
RecoverySteps == IsolatedIsNotRepeated /\ OwnersTreeIsSafe /\ NothingIsLost /\ BeginsClean
=============================================================================

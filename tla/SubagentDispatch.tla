-------------------------- MODULE SubagentDispatch --------------------------
(***************************************************************************)
(* One step of a run whose work is split into work orders: the waves of    *)
(* executeSubagents, the task dispatchSubagent starts for each ready       *)
(* order, the workspace lock they queue for, their attempts, and the guard *)
(* withExecutionGuard keeps while the run executes (src/core/runtime.ts).  *)
(*                                                                         *)
(* The tasks of a wave are awaited together (Promise.all): the first that  *)
(* throws ends the execution of the run and its guard, and the others go   *)
(* on.  A write under the guard is refused once the guard is aborted; a    *)
(* write without a guard is never refused.                                 *)
(*                                                                         *)
(* The events a worker streams are abstracted to the evidence they leave:  *)
(* none, some that does not meet the artifact contract, or all of it.  The *)
(* verdict of the workspace recovery is any the code can return (module    *)
(* WorkspaceRecovery models the decision itself).                          *)
(***************************************************************************)
EXTENDS Naturals, Sequences, FiniteSets, SequencesExt

CONSTANTS
  Orders,         \* work orders of the step
  MaxAttempts,    \* budget.maxAttempts of every order
  HasWorkspace,   \* the runtime was given a workspace path, so it locks
  UnsafeAdapters, \* adapters without retrySafeAfterInterruption are installed
  MaxCrashes      \* bound of the crashes

ASSUME DispatchConstants ==
  /\ MaxAttempts \in Nat \ {0} /\ MaxCrashes \in Nat
  /\ HasWorkspace \in BOOLEAN /\ UnsafeAdapters \in BOOLEAN
  /\ IsFiniteSet(Orders)

VARIABLES
  dependsOn, \* the orders each one depends on, fixed by the plan
  status,    \* status of the run in the journal
  guarded,   \* #executionGuards has an entry for the run
  aborted,   \* the signal of the guard of this execution is aborted
  exec,      \* where executeOwned is
  wave,      \* the orders whose tasks it awaits
  task,      \* per order, where its task is
  attempt,   \* per task, the attempt it is at
  safe,      \* per task, its adapter declares retrySafeAfterInterruption
  heeds,     \* orders whose stream holds the signal of the guard
  sub,       \* per order, status and attempt of its SubagentRun
  evidence,  \* per order, the evidence recorded under it
  verified,  \* orders whose last verification passed
  starts,    \* per order, whether each start of an adapter on it was safe
  lock,      \* the orders queued for the workspace, the holder first
  crashes    \* bound of the crashes

journal == <<status, sub, evidence, verified, starts>>
executor == <<guarded, aborted, exec, wave>>
tasks == <<task, attempt, safe, heeds, lock>>
setting == <<dependsOn, crashes>>
vars == <<journal, executor, tasks, setting>>

Terminal == {"completed", "failed", "cancelled"}
Evidence == {"none", "some", "contract"}
Recoveries == {"none", "rerun", "blocked", "reconciled"}
Safety == IF UnsafeAdapters THEN BOOLEAN ELSE {TRUE}

\* A write of the run is accepted: it has no guard, or a live one.
Writable == ~(guarded /\ aborted)

\* workOrderHasCompletedEvidence.
Complete(o) ==
  sub[o].status = "completed" /\ evidence[o] # "none" /\ o \in verified

\* No order reaches itself through its dependencies.
Acyclic(d) ==
  \A s \in SUBSET Orders : s # {} => \E o \in s : d[o] \cap s = {}

\* The dependencies assertSubagentOrders lets through.
WorkPlans == {d \in [Orders -> SUBSET Orders] : Acyclic(d)}

Idle(o) == task[o] \in {"none", "done", "thrown"}

Init ==
  /\ dependsOn \in WorkPlans
  /\ status = "running" /\ guarded = TRUE /\ aborted = FALSE
  /\ exec = "loop" /\ wave = {}
  /\ task = [o \in Orders |-> "none"]
  /\ attempt = [o \in Orders |-> 0]
  /\ safe = [o \in Orders |-> TRUE]
  /\ heeds = {}
  /\ sub = [o \in Orders |-> [status |-> "none", attempt |-> 0]]
  /\ evidence = [o \in Orders |-> "none"]
  /\ verified = {}
  /\ starts = [o \in Orders |-> <<>>]
  /\ lock = <<>>
  /\ crashes = 0
-----------------------------------------------------------------------------
(* executeOwned and executeSubagents.                                      *)

Outstanding == {o \in Orders : ~Complete(o)}

Ready == {o \in Outstanding : \A d \in dependsOn[o] : Complete(d)}

\* One turn of the loop: the step is over, cannot progress, or every ready
\* order gets a task, which queues for the workspace if there is one.
NextWave ==
  /\ exec = "loop"
  /\ exec' = IF Outstanding = {} THEN "verifying"
             ELSE IF Ready = {} THEN "stepFailed" ELSE "awaiting"
  /\ wave' = Ready
  /\ task' = [o \in Orders |->
       IF o \notin Ready THEN task[o]
       ELSE IF HasWorkspace THEN "queued" ELSE "entered"]
  /\ lock' = IF HasWorkspace THEN lock \o SetToSeq(Ready) ELSE lock
  /\ UNCHANGED <<journal, guarded, aborted, attempt, safe, heeds, setting>>

\* Promise.all resolves with the last task, or rejects with the first one
\* that throws.
WaveSettled ==
  /\ exec = "awaiting"
  /\ \/ (\A o \in wave : task[o] = "done") /\ exec' = "loop"
     \/ (\E o \in wave : task[o] = "thrown") /\ exec' = "stepFailed"
  /\ UNCHANGED <<journal, guarded, aborted, wave, tasks, setting>>

\* The execution is over and withExecutionGuard drops the guard.
Leave ==
  /\ exec' = "stopped" /\ guarded' = FALSE
  /\ UNCHANGED <<aborted, wave, tasks, sub, evidence, verified, starts, setting>>

\* The catch of executeOwned records the failure if it still may.
FailRun ==
  /\ exec = "stepFailed"
  /\ status' = IF Writable THEN "failed" ELSE status
  /\ Leave

\* Mutant of Conclude: the verdict is recorded whatever the guard says.
ConcludeUnguarded ==
  /\ exec = "verifying"
  /\ status' \in {"completed", "failed", "waiting_review"}
  /\ Leave

\* Every order is complete: the run is verified and concluded.
Conclude ==
  /\ exec = "verifying"
  /\ IF Writable THEN status' \in {"completed", "failed", "waiting_review"}
                 ELSE status' = status
  /\ Leave
-----------------------------------------------------------------------------
(* dispatchSubagent: the task of one order.                                *)

Goto(o, where) == task' = [task EXCEPT ![o] = where] /\ UNCHANGED lock

\* Mutant of Settle: the lock is only released by a task that returns.
SettleWithoutFinally(o, how) ==
  /\ task' = [task EXCEPT ![o] = how]
  /\ lock' = IF HasWorkspace /\ how = "done" THEN Tail(lock) ELSE lock

\* The task returns or throws, and releases the workspace either way.
Settle(o, how) ==
  /\ task' = [task EXCEPT ![o] = how]
  /\ lock' = IF HasWorkspace THEN Tail(lock) ELSE lock

SetSub(o, s) == sub' = [sub EXCEPT ![o].status = s]

\* The workspace is free: the first order of the queue has its turn.
Acquire(o) ==
  /\ task[o] = "queued" /\ Head(lock) = o
  /\ Goto(o, "entered")
  /\ UNCHANGED <<journal, executor, attempt, safe, heeds, setting>>

\* Observed artifacts stand in for the work (reconcileWorkspaceRecovery);
\* they meet the contract whenever the code decides to reconcile.
Reconcile(o) ==
  /\ evidence' = [evidence EXCEPT ![o] = "contract"]
  /\ SetSub(o, "completed")
  /\ verified' = verified \cup {o}
  /\ Settle(o, "done")

\* A completed order whose verification is missing or failed is verified
\* again, and attempted again if that fails.
EnterCompleted(o) ==
  /\ task[o] = "entered" /\ sub[o].status = "completed"
  /\ \E s \in Safety :
       IF ~Writable
       THEN Settle(o, "thrown") /\ UNCHANGED <<verified, attempt, safe>>
       ELSE IF evidence[o] = "contract"
       THEN /\ Settle(o, "done")
            /\ verified' = verified \cup {o}
            /\ UNCHANGED <<attempt, safe>>
       ELSE /\ Goto(o, "attempting")
            /\ attempt' = [attempt EXCEPT ![o] = sub[o].attempt + 1]
            /\ safe' = [safe EXCEPT ![o] = s]
            /\ UNCHANGED verified
  /\ UNCHANGED <<status, sub, evidence, starts, executor, heeds, setting>>

\* An order never started gets its first attempt.
EnterFresh(o) ==
  /\ task[o] = "entered" /\ sub[o].status = "none"
  /\ attempt' = [attempt EXCEPT ![o] = 1]
  /\ \E s \in Safety : safe' = [safe EXCEPT ![o] = s]
  /\ Goto(o, "attempting")
  /\ UNCHANGED <<journal, executor, heeds, setting>>

\* An interrupted order is attempted again only if both its adapters are
\* safe to repeat and the recovery of the workspace allows it.
EnterInterrupted(o) ==
  /\ task[o] = "entered" /\ sub[o].status \in {"running", "failed"}
  /\ \E s \in Safety, v \in Recoveries :
       IF ~Last(starts[o]) \/ ~s \/ (v # "none" /\ ~Writable)
       THEN Settle(o, "thrown") /\ UNCHANGED <<journal, attempt, safe>>
       ELSE CASE v = "reconciled" ->
                   Reconcile(o) /\ UNCHANGED <<status, starts, attempt, safe>>
              [] v = "blocked" ->
                   /\ SetSub(o, "failed") /\ Settle(o, "thrown")
                   /\ UNCHANGED <<status, evidence, verified, starts, attempt, safe>>
              [] OTHER ->
                   /\ Goto(o, "attempting")
                   /\ attempt' = [attempt EXCEPT ![o] =
                        sub[o].attempt + (IF sub[o].status = "failed" THEN 1 ELSE 0)]
                   /\ safe' = [safe EXCEPT ![o] = s]
                   /\ UNCHANGED journal
  /\ UNCHANGED <<executor, heeds, setting>>

\* A cancelled order, or one no installed adapter can take.
EnterRefused(o) ==
  /\ task[o] = "entered"
  /\ Settle(o, "thrown")
  /\ UNCHANGED <<journal, executor, attempt, safe, heeds, setting>>

\* The budget of attempts is spent, or the dispatch may not be recorded.
AttemptRefused(o) ==
  /\ task[o] = "attempting"
  /\ attempt[o] > MaxAttempts \/ ~Writable
  /\ Settle(o, "thrown")
  /\ UNCHANGED <<journal, executor, attempt, safe, heeds, setting>>

\* subagent.dispatched or subagent.resumed is recorded and the adapter
\* starts; its stream listens to the guard there is at that moment.
BeginAttempt(o) ==
  /\ task[o] = "attempting"
  /\ attempt[o] <= MaxAttempts /\ Writable
  /\ sub' = [sub EXCEPT ![o] = [status |-> "running", attempt |-> attempt[o]]]
  /\ starts' = [starts EXCEPT ![o] = Append(@, safe[o])]
  /\ heeds' = IF guarded THEN heeds \cup {o} ELSE heeds \ {o}
  /\ Goto(o, "streaming")
  /\ UNCHANGED <<status, evidence, verified, executor, attempt, safe, setting>>

\* The next event of the stream is taken.
Heard(o) == task[o] = "streaming" /\ Writable /\ ~(o \in heeds /\ aborted)

\* The adapter reports evidence.
StreamEvidence(o) ==
  /\ Heard(o)
  /\ \E e \in {"some", "contract"} :
       /\ evidence[o] \notin {e, "contract"}
       /\ evidence' = [evidence EXCEPT ![o] = e]
  /\ UNCHANGED <<status, sub, verified, starts, executor, tasks, setting>>

\* The adapter reports completion and left evidence.
StreamCompleted(o) ==
  /\ Heard(o) /\ evidence[o] # "none"
  /\ SetSub(o, "completed")
  /\ Goto(o, "completed")
  /\ UNCHANGED <<status, evidence, verified, starts, executor, attempt, safe,
                 heeds, setting>>

\* The adapter fails, exceeds its budget, ends without completion or without
\* evidence, or its next event is refused.
StreamFailed(o) ==
  /\ task[o] = "streaming"
  /\ Goto(o, "caught")
  /\ UNCHANGED <<journal, executor, attempt, safe, heeds, setting>>

\* ensureWorkOrderVerified after a completion.
VerifyOrder(o) ==
  /\ task[o] = "completed"
  /\ IF Writable /\ evidence[o] = "contract"
     THEN Settle(o, "done") /\ verified' = verified \cup {o}
     ELSE Goto(o, "caught") /\ UNCHANGED verified
  /\ UNCHANGED <<status, sub, evidence, starts, executor, attempt, safe, heeds,
                 setting>>

\* A failed attempt: given up, reconciled, or tried again with the same or
\* an alternative adapter.
Catch(o) ==
  /\ task[o] = "caught"
  /\ \/ /\ ~Writable
        /\ Settle(o, "thrown")
        /\ UNCHANGED <<journal, attempt, safe>>
     \* not safe to repeat, blocked, corroborated, or the last attempt
     \/ /\ Writable
        /\ SetSub(o, "failed") /\ Settle(o, "thrown")
        /\ UNCHANGED <<status, evidence, verified, starts, attempt, safe>>
     \/ /\ Writable /\ safe[o]
        /\ Reconcile(o)
        /\ UNCHANGED <<status, starts, attempt, safe>>
     \/ /\ Writable /\ safe[o] /\ attempt[o] < MaxAttempts
        /\ SetSub(o, "failed")
        /\ Goto(o, "attempting")
        /\ attempt' = [attempt EXCEPT ![o] = @ + 1]
        /\ \E s \in Safety : safe' = [safe EXCEPT ![o] = s]
        /\ UNCHANGED <<status, evidence, verified, starts>>
  /\ UNCHANGED <<executor, heeds, setting>>

TaskStep(o) ==
  \/ Acquire(o)
  \/ EnterCompleted(o) \/ EnterFresh(o) \/ EnterInterrupted(o) \/ EnterRefused(o)
  \/ AttemptRefused(o) \/ BeginAttempt(o)
  \/ StreamEvidence(o) \/ StreamCompleted(o) \/ StreamFailed(o)
  \/ VerifyOrder(o) \/ Catch(o)
-----------------------------------------------------------------------------
(* Cancellation, a lost claim, a crash and the recovery of the run.        *)

\* cancel of this runtime: the journal ends the run and its running orders,
\* and the controller of the execution, if there is one, is aborted.
Cancel ==
  /\ status \notin Terminal
  /\ status' = "cancelled"
  /\ sub' = [o \in Orders |->
       IF sub[o].status = "running" THEN [sub[o] EXCEPT !.status = "cancelled"]
       ELSE sub[o]]
  /\ aborted' = (aborted \/ guarded)
  /\ UNCHANGED <<evidence, verified, starts, guarded, exec, wave, tasks, setting>>

\* The heartbeat of the consumer is refused.
LoseClaim ==
  /\ guarded /\ ~aborted
  /\ aborted' = TRUE
  /\ UNCHANGED <<journal, guarded, exec, wave, tasks, setting>>

\* The process dies, and every task with it.
Crash ==
  /\ crashes < MaxCrashes /\ status = "running"
  /\ crashes' = crashes + 1
  /\ exec' = "down" /\ guarded' = FALSE /\ aborted' = FALSE /\ wave' = {}
  /\ task' = [o \in Orders |-> "none"] /\ lock' = <<>> /\ heeds' = {}
  /\ UNCHANGED <<journal, attempt, safe, dependsOn>>

\* Mutant of Recover: only the orders still running are looked at.
RecoverRunningOnly ==
  /\ exec = "down" /\ status = "running"
  /\ IF \E o \in Orders : sub[o].status = "running" /\ ~Last(starts[o])
     THEN status' = "failed" /\ exec' = "stopped" /\ UNCHANGED guarded
     ELSE UNCHANGED status /\ exec' = "loop" /\ guarded' = TRUE
  /\ UNCHANGED <<sub, evidence, verified, starts, aborted, wave, tasks, setting>>

\* recoverOrphanedRuns, and the execution of the run it requeues: the run
\* fails if any adapter ever started on it was not safe to repeat.
Recover ==
  /\ exec = "down" /\ status = "running"
  /\ IF \E o \in Orders : \E i \in DOMAIN starts[o] : ~starts[o][i]
     THEN status' = "failed" /\ exec' = "stopped" /\ UNCHANGED guarded
     ELSE UNCHANGED status /\ exec' = "loop" /\ guarded' = TRUE
  /\ UNCHANGED <<sub, evidence, verified, starts, aborted, wave, tasks, setting>>

ExecutorStep == NextWave \/ WaveSettled \/ FailRun \/ Conclude \/ Recover

Next ==
  \/ ExecutorStep
  \/ \E o \in Orders : TaskStep(o)
  \/ Cancel \/ LoseClaim \/ Crash

Spec == Init /\ [][Next]_vars

\* The event loop runs what can run, and every stream ends.
FairSpec ==
  /\ Spec
  /\ WF_vars(ExecutorStep)
  /\ \A o \in Orders : WF_vars(TaskStep(o))
-----------------------------------------------------------------------------
TypeOK ==
  /\ dependsOn \in WorkPlans
  /\ status \in Terminal \cup {"running", "waiting_review"}
  /\ guarded \in BOOLEAN /\ aborted \in BOOLEAN
  /\ exec \in {"loop", "awaiting", "stepFailed", "verifying", "stopped", "down"}
  /\ wave \subseteq Orders /\ heeds \subseteq Orders /\ verified \subseteq Orders
  /\ task \in [Orders -> {"none", "queued", "entered", "attempting", "streaming",
                          "completed", "caught", "done", "thrown"}]
  /\ attempt \in [Orders -> Nat] /\ safe \in [Orders -> BOOLEAN]
  /\ sub \in [Orders -> [status : {"none", "running", "completed", "failed", "cancelled"},
                         attempt : Nat]]
  /\ evidence \in [Orders -> Evidence]
  /\ starts \in [Orders -> Seq(BOOLEAN)]
  /\ lock \in Seq(Orders) /\ crashes \in 0..MaxCrashes

\* An adapter is started on an order only when the work of every order it
\* depends on is complete, verified and stays so (dependenciesAreComplete).
DependenciesFirst ==
  \A o \in Orders : starts[o] # <<>> => \A d \in dependsOn[o] : Complete(d)

\* The step of a plan that was let through always makes progress: its orders
\* are complete or one of them is ready ("cannot make progress" is unreachable).
AlwaysReady == exec = "loop" => Outstanding = {} \/ Ready # {}

\* An order is not started more often than its budget allows, but for the
\* attempt that a crash interrupted and the next process repeats.
AttemptsWithinBudget ==
  \A o \in Orders :
    /\ sub[o].attempt <= MaxAttempts
    /\ Len(starts[o]) <= MaxAttempts + crashes

\* After an adapter that does not vouch for repetition, none is started on
\* the same order again, by this process or by the one that recovers the run.
UnsafeIsTheLast ==
  \A o \in Orders : \A i \in DOMAIN starts[o] : ~starts[o][i] => i = Len(starts[o])

\* A run that passed verification has the verified work of every order.
CompletedHasEveryOrder ==
  status \in {"completed", "waiting_review"} =>
    \A o \in Orders : Complete(o) /\ evidence[o] = "contract"

\* The tasks that share a workspace work in it one at a time, in the order in
\* which they queued for it.
OneInTheWorkspace ==
  HasWorkspace =>
    \A o \in Orders : task[o] # "queued" /\ ~Idle(o) => lock # <<>> /\ Head(lock) = o

\* "Cancellation fences later journal writes": nothing is dispatched for, or
\* recorded under, a cancelled run.
CancellationFences == [][(status = "cancelled") => UNCHANGED journal]_vars

\* Nothing is dispatched for, or recorded under, a run that is over, as long
\* as its execution awaited one task at a time.
NothingAfterTheEnd ==
  [][(status \in Terminal /\ Cardinality(wave) <= 1) => UNCHANGED journal]_vars

\* Whatever fails, every task settles and the workspace is released.
EveryTaskSettles == <>[](lock = <<>> /\ \A o \in Orders : Idle(o))

\* Over crashes, retries, alternative adapters and reconciliations: an order is
\* started after its dependencies, within its budget, alone in the workspace,
\* and never after an adapter that does not vouch for repetition; a plan always
\* has an order that is ready, and a completed run has the verified work of
\* every one (executeSubagents and dispatchSubagent in runtime.ts).
DispatchInv ==
  /\ TypeOK
  /\ DependenciesFirst
  /\ AlwaysReady
  /\ AttemptsWithinBudget
  /\ UnsafeIsTheLast
  /\ CompletedHasEveryOrder
  /\ OneInTheWorkspace
=============================================================================

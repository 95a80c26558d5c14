----------------------------- MODULE RunKernel -----------------------------
(***************************************************************************)
(* The life of one run, from the accepted trigger to its terminal status,  *)
(* under every actor that may touch it: queue consumers (a tick thread and *)
(* an executing thread over one shared runtime), the process that planned  *)
(* it, approvers, rejecters, cancellers and reviewers (one short-lived     *)
(* process each), crashes of the processes and stalls that cost an         *)
(* executor its lease.                                                     *)
(*                                                                         *)
(* The journal is the only shared truth.  Every actor works from a         *)
(* projection of its own, brought up to date by refresh and by the events  *)
(* it writes itself; an event is committed to the journal first and        *)
(* applied to the writer's projection afterwards, which is when an illegal *)
(* transition is noticed.  The store (sqlite-journal.ts) is the one of     *)
(* RunClaims; a lease is abstracted here to live or run out.               *)
(***************************************************************************)
EXTENDS RunStatus, FiniteSets, SequencesExt, FiniteSetsExt

CONSTANTS
  NumSteps,      \* steps of the plan, executed in this order
  NeedsApproval, \* steps the policy stops for the owner's approval
  MayDeny,       \* steps the policy may refuse: it is read on every decision
  External,      \* steps with an external or irreversible effect
  RetrySafe,     \* steps whose adapter declares retrySafeAfterInterruption
  Consumers, Planners, Approvers, Rejecters, Reviewers,
  Proposers,     \* planners that leave the plan to the queue (the Main Agent)
  Nobody,        \* no owner, or an owner whose process is gone
  MayCancel,     \* the owner may cancel the run
  MayNeedReview, \* the verifier may leave criteria to the owner
  MaxCrashes,    \* bound of the process crashes
  MaxStalls      \* bound of the leases lost by a live owner

Steps == 1..NumSteps
Direct == Planners \cup Approvers
Executors == Consumers \cup Direct

ASSUME KernelConstants ==
  /\ NumSteps \in Nat \ {0}
  /\ NeedsApproval \cup MayDeny \cup External \cup RetrySafe \subseteq Steps
  /\ Proposers \subseteq Planners
  /\ MayCancel \in BOOLEAN /\ MayNeedReview \in BOOLEAN
  /\ MaxCrashes \in Nat /\ MaxStalls \in Nat

VARIABLES
  journal,  \* the events of the run, in sequence order
  claim,    \* [owner, live]: the row of run_claims
  view,     \* per actor, the projection its runtime holds
  tick,     \* per consumer, where its tick is
  exec,     \* per executor, [at, step]: where its execution is
  found,    \* per consumer, what its recovery decided to record
  performed,\* per step, how often a worker carried its work out
  aged,     \* planning has outlived its grace period
  faults    \* [crashes, stalls] so far

vars == <<journal, claim, view, tick, exec, found, performed, aged, faults>>

(***************************************************************************)
(* Events and projections.  An approval, a started worker and an evidence  *)
(* carry their step; a status carries the active step, 0 for none.         *)
(***************************************************************************)
Event == [type : {"status"}, status : RunStatuses, step : 0..NumSteps]
         \cup [type : {"approved", "started", "evidence"}, step : Steps]

StatusEvent(s, step) == [type |-> "status", status |-> s, step |-> step]
StepEvent(t, step) == [type |-> t, step |-> step]

\* A projection that met an event its reducer refuses.
Broken == "broken"

EmptyView == [seen |-> 0, status |-> "created", active |-> 0,
              approvals |-> {}, evidence |-> {}]

StepsOf(events, t) ==
  {events[i].step : i \in {k \in DOMAIN events : events[k].type = t}}

\* The position of the last status among the first k events, 0 for none.
LastMark(events, k) ==
  CHOOSE i \in 0..k : /\ \A j \in (i + 1)..k : events[j].type # "status"
                      /\ i = 0 \/ events[i].type = "status"

\* The status of a run that was in v and met the first k events.
StatusAfter(v, events, k) ==
  LET mark == LastMark(events, k) IN IF mark = 0 THEN v.status ELSE events[mark].status

\* The reducer, over a suffix of the journal: every status has to be a legal
\* successor of the one before it; approvals and evidence accumulate.
Reduce(v, events) ==
  LET last  == LastMark(events, Len(events))
      legal == \A k \in DOMAIN events :
                 events[k].type = "status" => MayFollow(StatusAfter(v, events, k - 1), events[k].status)
  IN [seen      |-> v.seen + Len(events),
      status    |-> IF legal THEN StatusAfter(v, events, Len(events)) ELSE Broken,
      active    |-> IF last = 0 THEN v.active ELSE events[last].step,
      approvals |-> v.approvals \cup StepsOf(events, "approved"),
      evidence  |-> v.evidence \cup StepsOf(events, "evidence")]

\* refresh: apply what follows the last applied sequence.
Refreshed(v) == Reduce(v, SubSeq(journal, v.seen + 1, Len(journal)))

\* The replay from zero a new process does (hydrate).
Truth == Refreshed(EmptyView)

CanReplay(v) == v.status # Broken

\* The status the store compares with in a conditional write: the last
\* recorded one, legal or not.
LastStatus == LastMark(journal, Len(journal))
RecordedStatus == journal[LastStatus].status

\* After a write of one's own the last applied sequence is that event's:
\* events of others committed in between are skipped for good.  An event the
\* reducer refuses is committed all the same, and leaves the projection.
Applied(v, e) ==
  LET w == Reduce(v, <<e>>)
  IN IF CanReplay(w) THEN [w EXCEPT !.seen = Len(journal) + 1] ELSE v

\* One committed event, applied to the writer's own projection.
Write(a, e) ==
  /\ journal' = Append(journal, e)
  /\ view' = [view EXCEPT ![a] = Applied(view[a], e)]

Holds(o) == claim.owner = o /\ claim.live

Recovery(c) == <<"recovery", c>>

\* Every process has an identity of its own; so has every recovery.
ASSUME DistinctOwners ==
  /\ Consumers \cap (Planners \cup Approvers \cup Rejecters \cup Reviewers) = {}
  /\ Planners \cap (Approvers \cup Rejecters \cup Reviewers) = {}
  /\ Approvers \cap (Rejecters \cup Reviewers) = {}
  /\ Rejecters \cap Reviewers = {}
  /\ LET actors == Executors \cup Rejecters \cup Reviewers
     IN Nobody \notin actors /\ \A c \in Consumers : Recovery(c) \notin actors \cup {Nobody}

NoFinding == [to |-> "none", base |-> 0]

Started == StepsOf(journal, "started")
-----------------------------------------------------------------------------
\* acceptTrigger has recorded the run, which starts its life in planning.
Init ==
  /\ journal = <<StatusEvent("planning", 0)>>
  /\ claim = [owner |-> Nobody, live |-> FALSE]
  /\ view = [a \in Executors \cup Rejecters \cup Reviewers |->
               IF a \in Planners THEN Truth ELSE EmptyView]
  /\ tick = [c \in Consumers |-> "idle"]
  /\ exec = [x \in Executors \cup Rejecters \cup Reviewers |->
               [at |-> IF x \in Planners THEN "planning" ELSE "idle", step |-> 0]]
  /\ found = [c \in Consumers |-> NoFinding]
  /\ performed = [s \in Steps |-> 0]
  /\ aged = FALSE
  /\ faults = [crashes |-> 0, stalls |-> 0]

At(x, where) == exec[x].at = where
Goto(x, where, step) == exec' = [exec EXCEPT ![x] = [at |-> where, step |-> step]]
\* The process of an actor other than a consumer ends, and its runtime with it.
Ends(x) == Goto(x, "done", 0) /\ view' = [view EXCEPT ![x] = EmptyView]

(***************************************************************************)
(* Planning, by the process that accepted the trigger (runQuery).          *)
(***************************************************************************)
\* attachPlan: refused when the recorded status is no longer planning.
\* runQuery then executes the run itself, the Main Agent leaves it queued.
AttachPlan(p) ==
  /\ At(p, "planning")
  /\ IF RecordedStatus = "planning"
     THEN /\ journal' = Append(journal, StatusEvent("queued", 0))
          /\ IF p \in Proposers
             THEN Ends(p)
             ELSE /\ view' = [view EXCEPT ![p] = Applied(@, StatusEvent("queued", 0))]
                  /\ Goto(p, "granted", 0)
     ELSE Ends(p) /\ UNCHANGED journal
  /\ UNCHANGED <<claim, tick, found, performed, aged, faults>>

\* failRun, when the planner fails or is blocked: also conditional.
AbandonPlan(p) ==
  /\ At(p, "planning")
  /\ journal' = IF RecordedStatus = "planning"
                THEN Append(journal, StatusEvent("failed", 0)) ELSE journal
  /\ Ends(p)
  /\ UNCHANGED <<claim, tick, found, performed, aged, faults>>

\* The grace period of planning passes.
Age ==
  /\ ~aged /\ RecordedStatus = "planning"
  /\ aged' = TRUE
  /\ UNCHANGED <<journal, claim, view, tick, exec, found, performed, faults>>

(***************************************************************************)
(* The owner's decisions, each in a process of its own.                    *)
(***************************************************************************)
\* approveQueryRun: hydrate, and go on only if the run waits for approval.
StartApproval(a) ==
  /\ At(a, "idle")
  /\ LET v == Truth
     IN /\ CanReplay(v)
        /\ v.status = "waiting_approval" /\ v.active # 0
        /\ view' = [view EXCEPT ![a] = v]
        /\ Goto(a, "granting", v.active)
  /\ UNCHANGED <<journal, claim, tick, found, performed, aged, faults>>

\* Mutant of GrantApproval: an unconditional append.
GrantUnconditionally(a) ==
  /\ At(a, "granting")
  /\ Write(a, StepEvent("approved", exec[a].step))
  /\ Goto(a, "granted", 0)
  /\ UNCHANGED <<claim, tick, found, performed, aged, faults>>

\* grantApproval: conditional on the status, not on the step.
GrantApproval(a) ==
  /\ At(a, "granting")
  /\ IF RecordedStatus = view[a].status
     THEN /\ Write(a, StepEvent("approved", exec[a].step))
          /\ Goto(a, "granted", 0)
     ELSE Ends(a) /\ UNCHANGED journal
  /\ UNCHANGED <<claim, tick, found, performed, aged, faults>>

\* rejectQueryRun.
StartRejection(x) ==
  /\ At(x, "idle")
  /\ LET v == Truth
     IN /\ CanReplay(v)
        /\ v.status = "waiting_approval" /\ v.active # 0
        /\ view' = [view EXCEPT ![x] = v]
  /\ Goto(x, "rejecting", 0)
  /\ UNCHANGED <<journal, claim, tick, found, performed, aged, faults>>

\* failRun: conditional on the status, silent about the claim.
Reject(x) ==
  /\ At(x, "rejecting")
  /\ journal' = IF RecordedStatus = view[x].status
                THEN Append(journal, StatusEvent("failed", 0)) ELSE journal
  /\ Ends(x)
  /\ UNCHANGED <<claim, tick, found, performed, aged, faults>>

\* Mutant of Cancel: the claim is not revoked.
CancelKeepsClaim ==
  /\ MayCancel
  /\ RecordedStatus \notin Terminal
  /\ journal' = Append(journal, StatusEvent("cancelled", journal[LastStatus].step))
  /\ UNCHANGED <<claim, view, tick, exec, found, performed, aged, faults>>

\* cancelQueryRun: one transaction that also revokes the claim.
Cancel ==
  /\ MayCancel
  /\ RecordedStatus \notin Terminal
  /\ journal' = Append(journal, StatusEvent("cancelled", journal[LastStatus].step))
  /\ claim' = [claim EXCEPT !.live = FALSE]
  /\ UNCHANGED <<view, tick, exec, found, performed, aged, faults>>

(***************************************************************************)
(* Execution under a claim.  A direct executor (executeClaimingRun) claims *)
(* for itself; a consumer's tick claims for its executing thread.          *)
(***************************************************************************)
ClaimDirect(x) ==
  /\ At(x, "granted")
  /\ IF claim.live
     THEN Ends(x) /\ UNCHANGED claim
     ELSE /\ claim' = [owner |-> x, live |-> TRUE]
          /\ Goto(x, "claimed", 0)
          /\ UNCHANGED view
  /\ UNCHANGED <<journal, tick, found, performed, aged, faults>>

\* A fresh projection under the claim decides whether there is work to do.
RefreshDirect(x) ==
  /\ At(x, "claimed")
  /\ LET v == Refreshed(view[x])
     IN IF v.status \in {"queued", "waiting_approval"}
        THEN /\ view' = [view EXCEPT ![x] = v]
             /\ Goto(x, "deciding", 0)
        ELSE /\ Goto(x, "releasing", 0)
             /\ UNCHANGED view
  /\ UNCHANGED <<journal, claim, tick, found, performed, aged, faults>>

\* Every write of an execution is fenced: without the claim it throws, and
\* the execution ends there.
Fenced(x) ==
  /\ exec[x].at \in {"deciding", "starting", "worked", "verifying"}
  /\ ~Holds(x)
  /\ Goto(x, "releasing", 0)
  /\ UNCHANGED <<journal, claim, view, tick, found, performed, aged, faults>>

\* changeStatus: committed, then refused by the writer's own reducer when
\* its projection does not allow it.
ChangeStatus(x, s, step, next) ==
  /\ Write(x, StatusEvent(s, step))
  /\ IF MayFollow(view[x].status, s) THEN Goto(x, next, step)
     ELSE Goto(x, "releasing", 0)

\* Mutant of Decide: verification follows the first step with evidence.
DecideVerifiesEarly(x) ==
  /\ At(x, "deciding") /\ Holds(x)
  /\ LET v == view[x]
         step == Min(Steps \ v.evidence)
     IN IF v.evidence # {} \/ v.status = "running"
        THEN ChangeStatus(x, "verifying", 0, "verifying")
        ELSE ChangeStatus(x, "running", step, "starting")
  /\ UNCHANGED <<claim, tick, found, performed, aged, faults>>

\* Mutant of Decide: any approval of the run counts for every step.
DecideAnyApproval(x) ==
  /\ At(x, "deciding") /\ Holds(x)
  /\ LET v == view[x]
         remaining == Steps \ v.evidence
         step == Min(remaining)
     IN CASE remaining = {} -> ChangeStatus(x, "verifying", 0, "verifying")
          [] remaining # {} /\ v.status = "queued" /\ step \notin NeedsApproval ->
               ChangeStatus(x, "running", step, "starting")
          [] remaining # {} /\ v.status = "queued" /\ step \in NeedsApproval ->
               ChangeStatus(x, "waiting_approval", step, "releasing")
          [] remaining # {} /\ v.status = "waiting_approval" ->
               ChangeStatus(x, "running", step, "starting")
          [] OTHER -> Goto(x, "starting", step) /\ UNCHANGED <<journal, view>>
  /\ UNCHANGED <<claim, tick, found, performed, aged, faults>>

\* The loop of executeOwned: the next step without evidence, the decision of
\* the policy on it, or verification when no step is left.
Decide(x) ==
  /\ At(x, "deciding") /\ Holds(x)
  /\ LET v == view[x]
         remaining == Steps \ v.evidence
         step == Min(remaining)
     IN \/ /\ remaining = {}
           /\ ChangeStatus(x, "verifying", 0, "verifying")
        \/ /\ remaining # {} /\ step \in MayDeny
           /\ ChangeStatus(x, "failed", step, "releasing")
        \/ /\ remaining # {} /\ step \in NeedsApproval \ v.approvals
           /\ ChangeStatus(x, "waiting_approval", step, "releasing")
        \/ /\ remaining # {}
           /\ step \in NeedsApproval => step \in v.approvals
           /\ IF v.status = "running"
              THEN Goto(x, "starting", step) /\ UNCHANGED <<journal, view>>
              ELSE ChangeStatus(x, "running", step, "starting")
  /\ UNCHANGED <<claim, tick, found, performed, aged, faults>>

\* execution.started is journaled before the adapter runs.
StartWork(x) ==
  /\ At(x, "starting") /\ Holds(x)
  /\ Write(x, StepEvent("started", exec[x].step))
  /\ Goto(x, "working", exec[x].step)
  /\ UNCHANGED <<claim, tick, found, performed, aged, faults>>

\* The worker acts on the world; no fence reaches that far.
Work(x) ==
  /\ At(x, "working")
  /\ performed' = [performed EXCEPT ![exec[x].step] = @ + 1]
  /\ Goto(x, "worked", exec[x].step)
  /\ UNCHANGED <<journal, claim, view, tick, found, aged, faults>>

RecordEvidence(x) ==
  /\ At(x, "worked") /\ Holds(x)
  /\ Write(x, StepEvent("evidence", exec[x].step))
  /\ Goto(x, "deciding", 0)
  /\ UNCHANGED <<claim, tick, found, performed, aged, faults>>

\* The worker fails, before or after it acted, or there is none that can do it.
FailStep(x) ==
  /\ exec[x].at \in {"starting", "working", "worked"} /\ Holds(x)
  /\ ChangeStatus(x, "failed", exec[x].step, "releasing")
  /\ UNCHANGED <<claim, tick, found, performed, aged, faults>>

\* The verdict and the status it entails are one fenced batch.
RecordVerdict(x) ==
  /\ At(x, "verifying") /\ Holds(x)
  /\ \E s \in {"completed", "failed"}
              \cup (IF MayNeedReview THEN {"waiting_review"} ELSE {}) :
       ChangeStatus(x, s, 0, "releasing")
  /\ UNCHANGED <<claim, tick, found, performed, aged, faults>>

\* releaseClaim, whatever the outcome; a direct executor's process ends.
Release(x) ==
  /\ At(x, "releasing")
  /\ claim' = IF claim.owner = x THEN [claim EXCEPT !.live = FALSE] ELSE claim
  /\ IF x \in Consumers THEN Goto(x, "idle", 0) /\ UNCHANGED view ELSE Ends(x)
  /\ UNCHANGED <<journal, tick, found, performed, aged, faults>>

(***************************************************************************)
(* reviewQueryRun: claim, refresh, record the owner's verdict, release.    *)
(***************************************************************************)
ClaimReview(r) ==
  /\ At(r, "idle") /\ ~claim.live
  /\ claim' = [owner |-> r, live |-> TRUE]
  /\ Goto(r, "reviewing", 0)
  /\ UNCHANGED <<journal, view, tick, found, performed, aged, faults>>

\* Mutant of RefreshReview: the status under review is not looked at.
RefreshReviewAnyStatus(r) ==
  /\ At(r, "reviewing")
  /\ view' = [view EXCEPT ![r] = Truth]
  /\ Goto(r, "reviewed", 0)
  /\ UNCHANGED <<journal, claim, tick, found, performed, aged, faults>>

RefreshReview(r) ==
  /\ At(r, "reviewing")
  /\ view' = [view EXCEPT ![r] = Truth]
  /\ Goto(r, IF Truth.status = "waiting_review" THEN "reviewed" ELSE "releasing", 0)
  /\ UNCHANGED <<journal, claim, tick, found, performed, aged, faults>>

RecordReview(r) ==
  /\ At(r, "reviewed")
  /\ IF Holds(r)
     THEN \E s \in {"completed", "failed"} : ChangeStatus(r, s, 0, "releasing")
     ELSE Goto(r, "releasing", 0) /\ UNCHANGED <<journal, view>>
  /\ UNCHANGED <<claim, tick, found, performed, aged, faults>>

(***************************************************************************)
(* The tick of a queue consumer: refresh, recover orphans, dispatch.       *)
(***************************************************************************)
TickAt(c, where) == tick[c] = where
TickTo(c, where) == tick' = [tick EXCEPT ![c] = where]

OrphanedPlanning(v) == v.status = "planning" /\ aged

MayBeOrphaned(v) == v.status \in {"running", "verifying"} \/ OrphanedPlanning(v)

\* Without a candidate for recovery and without a queued run the tick is over.
\* A tick whose refresh throws changes nothing, and the next one tries again.
TickRefresh(c) ==
  /\ TickAt(c, "idle")
  /\ LET v == Refreshed(view[c])
     IN IF CanReplay(v)
        THEN /\ view' = [view EXCEPT ![c] = v]
             /\ TickTo(c, CASE MayBeOrphaned(v) -> "refreshed"
                            [] v.status = "queued" -> "scan"
                            [] OTHER -> "idle")
        ELSE UNCHANGED <<view, tick>>
  /\ UNCHANGED <<journal, claim, exec, found, performed, aged, faults>>

\* Mutant of ClaimOrphan: the liveness of the claim is not probed.
ClaimOrphanUnprobed(c) ==
  /\ TickAt(c, "refreshed")
  /\ claim' = [owner |-> Recovery(c), live |-> TRUE]
  /\ TickTo(c, IF OrphanedPlanning(view[c]) THEN "orphaned plan" ELSE "orphaned run")
  /\ UNCHANGED <<journal, view, exec, found, performed, aged, faults>>

\* recoverOrphanedRuns looks at runs in flight and at stale planning, and
\* takes over those without a live claim under an owner id of its own.
ClaimOrphan(c) ==
  /\ TickAt(c, "refreshed")
  /\ LET v == view[c]
     IN IF MayBeOrphaned(v) /\ ~claim.live
        THEN /\ claim' = [owner |-> Recovery(c), live |-> TRUE]
             /\ TickTo(c, IF OrphanedPlanning(v) THEN "orphaned plan" ELSE "orphaned run")
        ELSE TickTo(c, "scan") /\ UNCHANGED claim
  /\ UNCHANGED <<journal, view, exec, found, performed, aged, faults>>

\* Stale planning: a per-run snapshot, remembered up to its last event.
InspectPlan(c) ==
  /\ TickAt(c, "orphaned plan")
  /\ LET v == Refreshed(view[c])
     IN /\ view' = IF CanReplay(v) THEN [view EXCEPT ![c] = v] ELSE view
        /\ IF CanReplay(v) /\ OrphanedPlanning(Truth)
           THEN /\ found' = [found EXCEPT ![c] = [to |-> "failed", base |-> Len(journal)]]
                /\ TickTo(c, "recording")
           ELSE TickTo(c, "recovered") /\ UNCHANGED found
  /\ UNCHANGED <<journal, claim, exec, performed, aged, faults>>

\* Mutant of InspectRun: an interrupted execution is always put back.
InspectRunRequeues(c) ==
  /\ TickAt(c, "orphaned run")
  /\ LET v == Refreshed(view[c])
     IN /\ view' = IF CanReplay(v) THEN [view EXCEPT ![c] = v] ELSE view
        /\ IF v.status \in {"running", "verifying"}
           THEN /\ found' = [found EXCEPT ![c] = [to |-> "queued", base |-> 0]]
                /\ TickTo(c, "recording")
           ELSE TickTo(c, "recovered") /\ UNCHANGED found
  /\ UNCHANGED <<journal, claim, exec, performed, aged, faults>>

\* An orphaned execution goes back to the queue only when nothing unsafe to
\* repeat has started; it fails otherwise.
InspectRun(c) ==
  /\ TickAt(c, "orphaned run")
  /\ LET v == Refreshed(view[c])
         fails == v.status = "verifying" \/ External # {} \/ ~(Started \subseteq RetrySafe)
     IN /\ view' = IF CanReplay(v) THEN [view EXCEPT ![c] = v] ELSE view
        /\ IF v.status \in {"running", "verifying"}
           THEN /\ found' = [found EXCEPT ![c] =
                     [to |-> IF fails THEN "failed" ELSE "queued", base |-> 0]]
                /\ TickTo(c, "recording")
           ELSE TickTo(c, "recovered") /\ UNCHANGED found
  /\ UNCHANGED <<journal, claim, exec, performed, aged, faults>>

\* appendClaimed, or appendClaimedIfUnchanged for a plan.
RecordRecovery(c) ==
  /\ TickAt(c, "recording")
  /\ IF /\ Holds(Recovery(c))
        /\ found[c].base # 0 => Len(journal) = found[c].base
     THEN Write(c, StatusEvent(found[c].to,
                               IF found[c].base # 0 THEN 0 ELSE view[c].active))
     ELSE UNCHANGED <<journal, view>>
  /\ found' = [found EXCEPT ![c] = NoFinding]
  /\ TickTo(c, "recovered")
  /\ UNCHANGED <<claim, exec, performed, aged, faults>>

\* Mutant of ReleaseOrphan: the recovery keeps its claim.
ReleaseOrphanForgotten(c) ==
  /\ TickAt(c, "recovered")
  /\ TickTo(c, "scan")
  /\ UNCHANGED <<journal, claim, view, exec, found, performed, aged, faults>>

ReleaseOrphan(c) ==
  /\ TickAt(c, "recovered")
  /\ claim' = IF claim.owner = Recovery(c) THEN [claim EXCEPT !.live = FALSE] ELSE claim
  /\ TickTo(c, "scan")
  /\ UNCHANGED <<journal, view, exec, found, performed, aged, faults>>

\* A queued run this process is not executing is claimed; the consumer's own
\* claim does not stand in its way.
ClaimQueued(c) ==
  /\ TickAt(c, "scan")
  /\ IF /\ view[c].status = "queued" /\ At(c, "idle")
        /\ claim.live => claim.owner = c
     THEN claim' = [owner |-> c, live |-> TRUE] /\ TickTo(c, "claimed")
     ELSE TickTo(c, "idle") /\ UNCHANGED claim
  /\ UNCHANGED <<journal, view, exec, found, performed, aged, faults>>

\* Mutant of Dispatch: the reading that led to the claim is trusted.
DispatchStale(c) ==
  /\ TickAt(c, "claimed")
  /\ Goto(c, "deciding", 0) /\ TickTo(c, "idle")
  /\ UNCHANGED <<journal, claim, view, found, performed, aged, faults>>

\* The queued status is read again under the claim before the run is
\* dispatched to the executing thread.
Dispatch(c) ==
  /\ TickAt(c, "claimed")
  /\ LET v == Refreshed(view[c])
     IN /\ view' = IF CanReplay(v) THEN [view EXCEPT ![c] = v] ELSE view
        /\ IF v.status = "queued"
           THEN Goto(c, "deciding", 0) /\ TickTo(c, "idle")
           ELSE TickTo(c, "dropping") /\ UNCHANGED exec
  /\ UNCHANGED <<journal, claim, found, performed, aged, faults>>

Drop(c) ==
  /\ TickAt(c, "dropping")
  /\ claim' = IF claim.owner = c THEN [claim EXCEPT !.live = FALSE] ELSE claim
  /\ TickTo(c, "idle")
  /\ UNCHANGED <<journal, view, exec, found, performed, aged, faults>>

(***************************************************************************)
(* Faults.  A process that dies keeps its row in run_claims until the      *)
(* lease runs out; the process started in its place has another owner id.  *)
(* A live owner loses its lease when it does not renew it in time.         *)
(***************************************************************************)
Orphaned(owners) == IF claim.owner \in owners THEN [claim EXCEPT !.owner = Nobody]
                    ELSE claim

Crash(x) ==
  /\ faults.crashes < MaxCrashes
  /\ x \in Consumers \/ exec[x].at \notin {"idle", "done"}
  /\ faults' = [faults EXCEPT !.crashes = @ + 1]
  /\ Goto(x, IF x \in Consumers THEN "idle" ELSE "done", 0)
  /\ view' = [view EXCEPT ![x] = EmptyView]
  /\ claim' = Orphaned(IF x \in Consumers THEN {x, Recovery(x)} ELSE {x})
  /\ IF x \in Consumers
     THEN /\ TickTo(x, "idle")
          /\ found' = [found EXCEPT ![x] = NoFinding]
     ELSE UNCHANGED <<tick, found>>
  /\ UNCHANGED <<journal, performed, aged>>

Stall ==
  /\ faults.stalls < MaxStalls
  /\ claim.live /\ claim.owner # Nobody
  /\ claim' = [claim EXCEPT !.live = FALSE]
  /\ faults' = [faults EXCEPT !.stalls = @ + 1]
  /\ UNCHANGED <<journal, view, tick, exec, found, performed, aged>>

\* The lease of a dead owner runs out.
Expire ==
  /\ claim.live /\ claim.owner = Nobody
  /\ claim' = [claim EXCEPT !.live = FALSE]
  /\ UNCHANGED <<journal, view, tick, exec, found, performed, aged, faults>>
-----------------------------------------------------------------------------
Tick(c) ==
  \/ TickRefresh(c) \/ ClaimOrphan(c) \/ InspectPlan(c) \/ InspectRun(c)
  \/ RecordRecovery(c) \/ ReleaseOrphan(c) \/ ClaimQueued(c) \/ Dispatch(c)
  \/ Drop(c)

Execute(x) ==
  \/ Fenced(x) \/ Decide(x) \/ StartWork(x) \/ Work(x) \/ RecordEvidence(x)
  \/ FailStep(x) \/ RecordVerdict(x) \/ Release(x)

ExecuteDirect(x) == ClaimDirect(x) \/ RefreshDirect(x) \/ Execute(x)

Plan(p) == AttachPlan(p) \/ AbandonPlan(p)

Review(r) == RefreshReview(r) \/ RecordReview(r) \/ Release(r)

Next ==
  \/ \E c \in Consumers : Tick(c) \/ Execute(c)
  \/ \E x \in Direct : ExecuteDirect(x)
  \/ \E p \in Planners : Plan(p)
  \/ \E a \in Approvers : StartApproval(a) \/ GrantApproval(a)
  \/ \E x \in Rejecters : StartRejection(x) \/ Reject(x)
  \/ \E r \in Reviewers : ClaimReview(r) \/ Review(r)
  \/ Cancel \/ Age
  \/ \E x \in Executors \cup Rejecters \cup Reviewers : Crash(x)
  \/ Stall \/ Expire

\* The daemon's timer ticks for ever, an execution goes on until it ends,
\* leases and grace periods run out.  The owner need not decide anything.
Fairness ==
  /\ \A c \in Consumers : WF_vars(Tick(c)) /\ WF_vars(Execute(c))
  /\ \A x \in Direct : WF_vars(ExecuteDirect(x))
  /\ \A r \in Reviewers : WF_vars(Review(r))
  /\ WF_vars(Age) /\ WF_vars(Expire)

Spec == Init /\ [][Next]_vars
FairSpec == Spec /\ Fairness
-----------------------------------------------------------------------------
Projection == [seen : Nat, status : RunStatuses, active : 0..NumSteps,
               approvals : SUBSET Steps, evidence : SUBSET Steps]

\* Every variable has its type; no actor ever works from a projection its
\* own reducer refused.
TypeOK ==
  /\ journal \in Seq(Event)
  /\ claim.owner \in Executors \cup Reviewers \cup {Nobody}
                     \cup {Recovery(c) : c \in Consumers}
  /\ claim.live \in BOOLEAN
  /\ \A a \in DOMAIN view : view[a] \in Projection
  /\ \A x \in DOMAIN exec :
       /\ exec[x].at \in {"idle", "planning", "granting", "granted", "claimed",
            "deciding", "starting", "working", "worked", "verifying",
            "releasing", "rejecting", "reviewing", "reviewed", "done"}
       /\ exec[x].step \in 0..NumSteps
  /\ \A c \in Consumers :
       tick[c] \in {"idle", "refreshed", "orphaned plan", "orphaned run",
                    "recording", "recovered", "scan", "claimed", "dropping"}
  /\ performed \in [Steps -> Nat]

\* The journal of the run can always be replayed from zero: whoever writes a
\* status, from whatever projection, never records a transition the reducer
\* refuses.  One that did would stop every runtime opened afterwards.
JournalReplayable == CanReplay(Truth)

\* The journal of the run and the projections made of it agree with the state
\* machine: a replay from zero never meets a transition the reducer refuses, and
\* no actor works on from a projection its own reducer refused (run-state.ts,
\* #applyEvent and refresh in runtime.ts).
Consistent == TypeOK /\ JournalReplayable

\* A step that nobody vouches is safe to repeat, or any step of a plan with
\* an external effect, is carried out at most once, whatever crashes and
\* whichever executors take the run over.
UnsafeAtMostOnce ==
  \A s \in Steps : s \notin RetrySafe \/ External # {} => performed[s] <= 1

\* A worker is started on a step that needs the owner's approval only after
\* that approval was recorded.
ApprovalBeforeWork ==
  \A i \in DOMAIN journal :
    journal[i].type = "started" /\ journal[i].step \in NeedsApproval =>
      \E j \in 1..(i - 1) : journal[j] = StepEvent("approved", journal[i].step)

\* A completed run has evidence for every step, recorded before the verdict.
CompletedHasEvidence ==
  \A i \in DOMAIN journal :
    journal[i].type = "status" /\ journal[i].status = "completed" =>
      \A s \in Steps : \E j \in 1..(i - 1) : journal[j] = StepEvent("evidence", s)

\* No two workers carry out the same attempt of the run: a step is started
\* again only when the run went back to the queue in between.
StartedOncePerDispatch ==
  \A i, j \in DOMAIN journal :
    /\ i < j
    /\ journal[i].type = "started" /\ journal[j] = journal[i]
    => \E k \in i..j : /\ journal[k].type = "status"
                       /\ journal[k].status = "queued"

Ended == RecordedStatus \in Terminal

\* After its terminal status nothing more is recorded about a run: no
\* executor, recovery or approval that was under way adds to it.
NothingAfterTheEnd == [][Ended => journal' = journal]_vars

InFlight == {"running", "verifying"}

\* "running implies someone alive owns it" (executeClaimingRun): as long as
\* no process died and no lease was lost, a run in flight is claimed by the
\* executor that works on it, so that recovery touches nobody's work.
RunningIsOwned ==
  /\ faults.crashes = 0 /\ faults.stalls = 0
  /\ RecordedStatus \in InFlight
  => \E x \in Executors : Holds(x) /\ exec[x].at \in
       {"deciding", "starting", "working", "worked", "verifying", "releasing"}

\* With a daemon that keeps ticking, a run that is queued, in flight, or
\* left in planning comes to rest: finished, or waiting for the owner.
ComesToRest ==
  RecordedStatus \in {"planning", "queued"} \cup InFlight
    ~> RecordedStatus \in Terminal \cup {"waiting_approval", "waiting_review"}

\* Whoever approves or rejects does so for good: no worker is started after
\* the owner rejected the approval the run was waiting for.
RejectionIsFinal ==
  \A i \in DOMAIN journal :
    /\ i > 1
    /\ journal[i].type = "status" /\ journal[i].status = "failed"
    /\ \E k \in 1..(i - 1) :
         /\ journal[k].type = "status" /\ journal[k].status = "waiting_approval"
         /\ \A m \in (k + 1)..(i - 1) : journal[m].type # "status"
    => \A j \in (i + 1)..Len(journal) : journal[j].type # "started"

\* Steps started since the run was last queued.
Begun ==
  {journal[i].step : i \in
     {k \in DOMAIN journal :
        /\ journal[k].type = "started"
        /\ \A m \in k..Len(journal) :
             journal[m].type = "status" => journal[m].status # "queued"}}

Contract == INSTANCE RunContract WITH
  status <- Truth.status,
  waitingFor <- IF Truth.status = "waiting_approval" THEN Truth.active ELSE 0,
  approved <- Truth.approvals,
  begun <- Begun,
  done <- Truth.evidence

\* The journal tells one sequential history, that of RunContract, whatever
\* the processes do, die and wake up in the middle of.
ImplementsContract == Contract!Spec
=============================================================================

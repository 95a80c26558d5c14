----------------------------- MODULE RunHistory -----------------------------
(* What is made of the journal of one run after the fact.  The executor writes *)
(* one event after another and may die between any two; the run is taken up    *)
(* again, or failed, by recovery.  From the events alone the program then      *)
(* answers three questions: is this a legal history (core/invariants.ts,      *)
(* asked before a journal is imported), what happened to each attempt and      *)
(* where did the run stop (audit/run-audit.ts), and what is the Main Agent     *)
(* told of it (main-agent/situation-briefing.ts).                              *)
EXTENDS Naturals, Sequences, FiniteSets, SequencesExt, FiniteSetsExt

CONSTANTS Single,         \* steps one agent carries out
          Team,           \* the step given to work orders; {} when there is none
          Orders,         \* its work orders, numbered in the order they are taken up
          Guarded,        \* steps the owner may have to approve
          MaxOrderAttempts,    \* attempts of a work order
          MaxDeaths

None == "none"
NoOrder == 0

ASSUME HistoryAssumption ==
    /\ MaxOrderAttempts \in Nat \ {0} /\ MaxDeaths \in Nat
    /\ Single \cup Team \cup Orders \subseteq Nat \ {NoOrder} /\ IsFiniteSet(Orders)
    /\ \A s, t \in Team : s = t

VARIABLES events,        \* the events of the run
          todo,           \* what the executor is about to write
          at,             \* where it is
          safe,           \* every adapter guarantees that a replay is safe
          external,       \* the steps the owner has to approve
          cause,          \* where the run really stopped
          died

historyVars == <<events, todo, at, safe, external, cause, died>>

Steps == Single \cup Team

Note(type, step, order, word) == [type |-> type, step |-> step, order |-> order, word |-> word]
Status(word) == Note("status", 0, NoOrder, word)

Types(type) == {events[i] : i \in {k \in DOMAIN events : events[k].type = type}}

\* The last of these places in a sequence; 0 when there is none.
LastPlace(places) == Max({0} \cup places)

RunStatus == events[LastPlace({i \in DOMAIN events : events[i].type = "status"})].word
Stopped == RunStatus \in {"completed", "failed", "cancelled"}

\* The reducer's view of a work order: its last event, and its attempts.
OrderTypes == {"dispatched", "resumed", "order completed", "order failed"}
LastOf(order) ==
    LET i == LastPlace({k \in DOMAIN events : events[k].order = order /\ events[k].type \in OrderTypes})
    IN  IF i = 0 THEN None ELSE events[i].type
Attempts(order) ==          \* a failure ends an attempt; a death does not
    1 + Cardinality({k \in DOMAIN events : events[k].order = order /\ events[k].type = "order failed"})

HasEvidence(step) == \E e \in Types("evidence") : e.step = step
OrderDone(order) == LastOf(order) = "order completed"
StepDone(step) == IF step \in Team THEN \A o \in Orders : OrderDone(o) ELSE HasEvidence(step)
NextStep == Min({s \in Steps : ~StepDone(s)})

HistoryInit ==
    /\ events = <<Status("planning")>>
    /\ todo = <<>>
    /\ at = "planning"
    /\ safe \in BOOLEAN
    /\ external \in SUBSET Guarded
    /\ cause = None
    /\ died = 0

-----------------------------------------------------------------------------
(* The executor.  Writes queues the events of an action one by one.            *)
Ready(here) == at = here /\ todo = <<>>
Writes(news, there) == todo' = news /\ at' = there /\ UNCHANGED <<events, safe, external, died>>

WriteNext ==
    /\ todo # <<>>
    /\ events' = Append(events, Head(todo))
    /\ todo' = Tail(todo)
    /\ UNCHANGED <<at, safe, external, cause, died>>

Plan ==                         \* a plan is accepted and queued, or failRun closes the run
    /\ Ready("planning")
    /\ \/ Writes(<<Status("queued")>>, "queued") /\ UNCHANGED cause
       \/ Writes(<<Status("failed")>>, "over") /\ cause' = "planning"

Decide ==
    /\ at \in {"planning", "queued", "deciding"} /\ todo = <<>>
    /\ \E s \in Steps : ~StepDone(s)
    /\ LET s == NextStep
           decided(outcome) == Note("policy", s, NoOrder, outcome)
           begin == IF RunStatus = "running" THEN <<>> ELSE <<Status("running")>>
       IN  \/ Writes(<<decided("denied"), Status("failed")>>, "over") /\ cause' = "policy"
           \/ /\ s \in external /\ Note("approved", s, NoOrder, None) \notin ToSet(events)
              /\ Writes(<<decided("approval_required"), Status("waiting_approval")>>, "waiting_approval")
              /\ UNCHANGED cause
           \/ /\ s \in external => Note("approved", s, NoOrder, None) \in ToSet(events)
              /\ Writes(<<decided("allowed")>> \o begin, IF s \in Team THEN "teaming" ELSE "starting")
              /\ UNCHANGED cause

Approve ==                      \* the owner's process goes on with the run
    /\ Ready("waiting_approval")
    /\ Writes(<<Note("approved", NextStep, NoOrder, None)>>, "deciding")
    /\ UNCHANGED cause

\* rejectQueryRun: failRun writes one status and no failure.  A rejection that races
\* an approval is RunKernel's.
Reject ==
    /\ Ready("waiting_approval")
    /\ events' = Append(events, Status("failed"))
    /\ at' = "over"
    /\ cause' = "rejected"
    /\ UNCHANGED <<todo, safe, external, died>>

StartSingle ==
    /\ Ready("starting")
    /\ Writes(<<Note("started", NextStep, NoOrder, None)>>, "working")
    /\ UNCHANGED cause

Fails(news, step) ==
    /\ Writes(news \o <<Note("failed", step, NoOrder, None), Status("failed")>>, "over")
    /\ cause' = "execution"

EndSingle ==
    /\ Ready("working")
    /\ \/ Writes(<<Note("evidence", NextStep, NoOrder, None)>>, "deciding") /\ UNCHANGED cause
       \/ Fails(<<>>, NextStep)

\* The order at work: the first that is not done.
Order == Min({o \in Orders : ~OrderDone(o)})

\* An order is dispatched once; every later attempt is a resumption.
StartOrder ==
    /\ Ready("teaming")
    /\ LET s == Max(Team) IN
       IF \A o \in Orders : OrderDone(o) THEN Writes(<<>>, "deciding") /\ UNCHANGED cause
       ELSE IF LastOf(Order) # None /\ (~safe \/ Attempts(Order) > MaxOrderAttempts) THEN Fails(<<>>, s)
       ELSE /\ Writes(<<IF LastOf(Order) = None THEN Note("dispatched", s, Order, None)
                       ELSE Note("resumed", 0, Order, None)>>, "ordered")
            /\ UNCHANGED cause

Receipts(order) == {<<Note("evidence", Max(Team), order, None)>>}

\* Whether the promised files are there is WorkspaceRecovery's and Verification's.
EndOrder ==
    /\ Ready("ordered")
    /\ LET s == Max(Team)
           failure == <<Note("order failed", 0, Order, None)>>
       IN  \/ /\ \E seen \in Receipts(Order) : Writes(seen \o <<Note("order completed", 0, Order, None)>>, "teaming")
              /\ UNCHANGED cause
           \/ /\ safe /\ Attempts(Order) < MaxOrderAttempts
              /\ \E seen \in {<<>>} \cup Receipts(Order) : Writes(seen \o failure, "teaming")
              /\ UNCHANGED cause
           \/ ~(safe /\ Attempts(Order) < MaxOrderAttempts) /\ Fails(failure, s)

Verify ==
    /\ Ready("deciding")
    /\ \A s \in Steps : StepDone(s)
    /\ Writes(<<Status("verifying")>>, "verifying")
    /\ UNCHANGED cause

\* The verdict and the status it entails are one batch.
Verdicts == {<<"passed", "completed">>, <<"refuted", "failed">>, <<"open", "waiting_review">>}

Judge(verdicts) ==
    \E v \in verdicts :
      /\ events' = events \o <<Note("verified", 0, NoOrder, v[1]), Status(v[2])>>
      /\ at' = IF v[2] = "waiting_review" THEN v[2] ELSE "over"
      /\ cause' = IF v[2] = "failed" THEN "verification" ELSE cause
      /\ UNCHANGED <<todo, safe, external, died>>

RecordVerdict == Ready("verifying") /\ Judge(Verdicts)
SettleReview == Ready("waiting_review") /\ Judge({v \in Verdicts : v[1] # "open"})

Cancel ==                       \* one batch; the executor's next write is refused
    /\ ~Stopped /\ at # "over"
    /\ events' = Append(events, Status("cancelled"))
    /\ todo' = <<>>
    /\ at' = "over"
    /\ cause' = "cancelled"
    /\ UNCHANGED <<safe, external, died>>

Die ==
    /\ died < MaxDeaths
    /\ ~Stopped /\ RunStatus \in {"running", "verifying"}
    /\ died' = died + 1
    /\ todo' = <<>>
    /\ at' = "dead"
    /\ cause' = None
    /\ UNCHANGED <<events, safe, external>>

\* recoverInterruptedRuns
Recover ==
    /\ at = "dead"
    /\ LET started == Types("started") \cup Types("dispatched")
           lost == RunStatus = "verifying" \/ external # {} \/ (~safe /\ started # {})
       IN  /\ events' = Append(events, Status(IF lost THEN "failed" ELSE "queued"))
           /\ at' = IF lost THEN "over" ELSE "queued"
           /\ cause' = IF lost THEN "interrupted" ELSE cause
    /\ UNCHANGED <<todo, safe, external, died>>

HistoryNext ==
    \/ WriteNext \/ Plan \/ Decide \/ Approve \/ Reject \/ StartSingle \/ EndSingle \/ StartOrder \/ EndOrder
    \/ Verify \/ RecordVerdict \/ SettleReview \/ Cancel \/ Die \/ Recover

HistorySpec == HistoryInit /\ [][HistoryNext]_historyVars

-----------------------------------------------------------------------------
(* core/invariants.ts                                                          *)
Before(i) == {events[k] : k \in 1..(i - 1)}

CompletedUnseen(i) ==           \* evidence-before-completion
    /\ events[i].type = "order completed"
    /\ ~\E e \in Before(i) : e.type = "evidence" /\ e.order = events[i].order

StartedUnapproved(i) ==         \* approval-before-external-execution
    /\ events[i].type \in {"started", "dispatched"}    \* a resumption names no step
    /\ events[i].step \in external
    /\ Note("approved", events[i].step, NoOrder, None) \notin Before(i)

CompletedUnverified(i) ==       \* verification-before-run-completion: the last verdict counts
    /\ events[i] = Status("completed")
    /\ LET verdict == LastPlace({k \in 1..i : events[k].type = "verified"})
       IN  verdict = 0 \/ events[verdict].word # "passed"

Violations == {i \in DOMAIN events : CompletedUnseen(i) \/ StartedUnapproved(i) \/ CompletedUnverified(i)}

-----------------------------------------------------------------------------
(* audit/run-audit.ts                                                          *)
NoAudit == [attempts |-> <<>>, evidence |-> {}, status |-> "created", blame |-> None]

Opened(audit, e) ==
    [audit EXCEPT !.attempts = Append(@, [step |-> e.step, order |-> e.order, outcome |-> "unfinished"])]

\* Mutant: a verdict or a denial does not take the blame from an earlier failure.
BlamedFirst(audit, stage) == IF audit.blame = None THEN [audit EXCEPT !.blame = stage] ELSE audit

Blamed(audit, stage) == [audit EXCEPT !.blame = stage]

\* The latest attempt of the order, or the latest of the step that has no order.
Latest(audit, step, order) ==
    LastPlace({i \in DOMAIN audit.attempts : /\ audit.attempts[i].order = order
                                             /\ order = NoOrder => audit.attempts[i].step = step})

Ended(audit, i, outcome) == IF i = 0 THEN audit ELSE [audit EXCEPT !.attempts[i].outcome = outcome]

\* ensureExecution: a step that failed without a start of its own gets an attempt.
Ensured(audit, step) == IF Latest(audit, step, NoOrder) # 0 THEN audit ELSE Opened(audit, Note("", step, NoOrder, ""))

Project(audit, e) ==
    CASE e.type \in {"started", "dispatched"} -> Opened(audit, e)
      [] e.type = "evidence" -> [audit EXCEPT !.evidence = @ \cup {e.step}]
      [] e.type = "policy" /\ e.word = "denied" -> Blamed(audit, "policy")
      [] e.type = "failed" ->
           LET known == Ensured(audit, e.step)
           IN  Blamed(Ended(known, Latest(known, e.step, NoOrder), "failed"), "execution")
      [] e.type = "order completed" -> Ended(audit, Latest(audit, e.step, e.order), "completed")
      [] e.type = "order failed" -> Blamed(Ended(audit, Latest(audit, e.step, e.order), "failed"), "execution")
      [] e.type = "verified" /\ e.word = "refuted" -> Blamed(audit, "verification")
      [] e.type = "status" ->
           LET moved == [audit EXCEPT !.status = e.word]
           IN  IF e.word = "cancelled" THEN Blamed(moved, "cancelled")
               ELSE IF e.word = "failed" /\ moved.blame = None     \* its reason is put down to no stage
                    THEN Blamed(moved, "unknown") ELSE moved
      [] OTHER -> audit

Projected ==
    LET upTo[n \in 0..Len(events)] == IF n = 0 THEN NoAudit ELSE Project(upTo[n - 1], events[n])
    IN  upTo[Len(events)]

\* What is still open and belongs to a step with evidence is taken for completed.
Swept(audit, a) ==
    IF a.outcome = "unfinished" /\ a.step \in audit.evidence /\ audit.status \notin {"running", "queued"}
    THEN "completed" ELSE a.outcome

Audit ==
    LET known == Projected
        swept(a) == [a EXCEPT !.outcome = Swept(known, a)]
    IN  [known EXCEPT !.attempts = [i \in DOMAIN @ |-> swept(@[i])]]

FailureStage ==
    IF Audit.blame # None THEN Audit.blame ELSE IF Audit.attempts = <<>> THEN "planning" ELSE "unknown"

-----------------------------------------------------------------------------
(* main-agent/situation-briefing.ts: what the Main Agent is told of the run    *)
Final == {"completed", "failed", "cancelled", "waiting_review"}

Tells(e) == e.type = "failed" \/ (e.type = "status" /\ e.word \in Final)

RecentWork ==
    LET i == LastPlace({k \in DOMAIN events : Tells(events[k])})
    IN  IF i = 0 THEN None ELSE IF events[i].type = "failed" THEN "failed" ELSE events[i].word

-----------------------------------------------------------------------------
HistoryTypeOK ==
    /\ at \in {"planning", "queued", "deciding", "starting", "working", "teaming", "ordered", "verifying", "waiting_approval",
               "waiting_review", "dead", "over"}
    /\ safe \in BOOLEAN
    /\ Audit.status \in {"planning", "queued", "running", "waiting_approval", "verifying", "waiting_review", "completed", "failed", "cancelled"}
    /\ FailureStage \in {"planning", "unknown", "policy", "execution", "verification", "cancelled"}

\* The kernel's own histories pass the check that guards an import, wherever the
\* executor died and however often work was resumed.
HistoryIsLegal == Violations = {}

\* A run that stopped by the policy, a failure, a verdict or a cancellation is put
\* down to that, even when earlier attempts had failed and were overcome.  Not one
\* that failed while planning: its reason reads "unknown".  Nor one the owner
\* rejected: its audit names no decision, but "unknown", or the execution when an
\* attempt before the rejection had failed (run-audit.ts, run.status_changed).
AuditNamesTheStage ==
    /\ Stopped /\ cause \notin {None, "planning", "interrupted", "rejected"} => FailureStage = cause
    /\ cause = "rejected" => FailureStage \in {"unknown", "execution"}

\* The audit does not show an order as failed once a later attempt completed it.
CompletedOrdersAreShown ==
    \A o \in Orders : OrderDone(o) => Audit.attempts[Latest(Audit, 0, o)].outcome = "completed"

\* The Main Agent is told of a run that is over, or waits for review, as it stands:
\* not of the review a verdict settled, nor of a failure before the cancellation.
StoppedIsTold == RunStatus \in Final => RecentWork = RunStatus

\* Out of the events alone, wherever the executor died: the history passes the
\* check of an import, the audit puts a stop down to its cause (but for those that
\* leave none: a rejection, a plan that failed) and shows the latest attempt of each
\* order, and the Main Agent is told how the run stands
\* (invariants.ts, run-audit.ts, situation-briefing.ts).
HistoryInv ==
  /\ HistoryTypeOK
  /\ HistoryIsLegal
  /\ AuditNamesTheStage
  /\ CompletedOrdersAreShown
  /\ StoppedIsTold
=============================================================================

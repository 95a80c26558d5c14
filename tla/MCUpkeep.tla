------------------------------ MODULE MCUpkeep ------------------------------
(* What has to come to an end by itself: the passes that keep the memory, the *)
(* commitments and the log of failures up to date, an order and its files, an *)
(* attempt of the native worker, and a turn of the Main Agent.  A behaviour   *)
(* exercises one of them; the others rest in an initial state.                *)
EXTENDS MemoryGovernance, Opportunities, WorkspaceRecovery, NativeWorker, BadCaseLog, MainAgentTurns

VARIABLE focus

all == <<focus, governanceVars, opportunityVars, recoveryVars, workerVars, caseVars, turnVars>>

Still(component, picked) == focus = component \/ picked
AnyOrder == CHOOSE o \in Orders : TRUE

UpkeepInit ==
  /\ focus \in {"governance", "commitments", "opportunities", "recovery", "worker", "log", "turns"}
  /\ GovernanceInit /\ OpportunitiesInit /\ LogInit /\ TurnsInit
  /\ Still("recovery", risk = "read_only" /\ required = 0 /\ live = [f \in Files |-> "absent"])
  /\ RecoveryInit
  /\ Still("worker", workOrder = AnyOrder /\ present = {})
  /\ WorkerInit

\* The runs are alike, so they are planned in one order.  Next to the scanner one
\* run serves a recurring commitment; every kind of commitment, and runs that serve
\* the same one, are the focus on commitments, where goals, which no pass reads,
\* are left out.
RunsInOrder == IsPrefix(planned, SetToSeq(Serving))
BesideTheScanner == RunsInOrder /\ Len(planned) <= 1 /\ DOMAIN State \cap OneOff = {}
WithoutGoals == RunsInOrder /\ DOMAIN State \cap Goals = {}

UpkeepNext ==
  /\ UNCHANGED focus
  /\ \/ /\ focus = "governance" /\ GovernanceNext
        /\ UNCHANGED <<opportunityVars, recoveryVars, workerVars, caseVars, turnVars>>
     \/ /\ focus = "commitments" /\ CommitmentsNext /\ WithoutGoals'
        /\ UNCHANGED <<governanceVars, cardVars, recoveryVars, workerVars, caseVars, turnVars>>
     \/ /\ focus = "opportunities" /\ OpportunitiesNext /\ BesideTheScanner'
        /\ UNCHANGED <<governanceVars, recoveryVars, workerVars, caseVars, turnVars>>
     \/ /\ focus = "recovery" /\ RecoveryNext
        /\ UNCHANGED <<governanceVars, opportunityVars, workerVars, caseVars, turnVars>>
     \/ /\ focus = "worker" /\ WorkerNext
        /\ UNCHANGED <<governanceVars, opportunityVars, recoveryVars, caseVars, turnVars>>
     \/ /\ focus = "log" /\ LogNext
        /\ UNCHANGED <<governanceVars, opportunityVars, recoveryVars, workerVars, turnVars>>
     \/ /\ focus = "turns" /\ TurnsNext
        /\ UNCHANGED <<governanceVars, opportunityVars, recoveryVars, workerVars, caseVars>>

\* Maintenance comes back for as long as the daemon lives; what a runtime, a
\* worker or a server has begun goes on.
UpkeepSpec ==
  /\ UpkeepInit /\ [][UpkeepNext]_all
  /\ WF_governanceVars(focus = "governance" /\ Govern)
  /\ \A p \in Reconcilers : WF_commitmentVars(focus \in {"commitments", "opportunities"} /\ Reconcile(p))
  /\ WF_recoveryVars(focus = "recovery" /\ Proceed)
  /\ WF_workerVars(focus = "worker" /\ WorkerStep)
  /\ WF_caseVars(focus = "log" /\ AppendNew)
  /\ \A p \in Servers : WF_turnVars(focus = "turns" /\ AnswerStep(p))

-----------------------------------------------------------------------------
(* An order whose step names a file of the workspace, and one that may read a *)
(* root beside it.                                                            *)
SomeWithin == {<<"work", "work">>, <<"work", "a">>, <<"a", "a">>, <<"far", "far">>}
SomeOrders == {[scopes |-> {}, named |-> {"a"}], [scopes |-> {Scope("files", "far", "read")}, named |-> {}]}

\* What is kept beside the journal agrees with it after a death at any write:
\* the memory files and their index, the log of failures and its marker.
RecordsInv == GovernanceInv /\ LogInv

\* Rounds of a model stay within what they were begun for: an attempt within its
\* order and deadline, a turn within the one execution it may have.
ModelWorkInv == WorkerInv /\ TurnsInv

\* What was begun comes to an end by itself, over crashes: a journaled decision
\* about a memory takes effect or is handed back, an order and an attempt end, a
\* failure reaches the log, a turn is closed.
UpkeepEnds ==
  /\ RecordedTakesEffect
  /\ OrderEnds
  /\ AttemptEnds
  /\ FailuresAreLogged
  /\ TurnsComeToAnEnd
=============================================================================

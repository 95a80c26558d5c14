----------------------------- MODULE MCServices -----------------------------
(* What surrounds the kernel and shares no state with it: the scheduler, the  *)
(* daily report, the owner's policies, the projections of the journal, the    *)
(* planning and the checks of a run, the corroboration of its failures and    *)
(* what is later made of its history.  A behaviour exercises one of them, so  *)
(* that the states of the instance are the sum, and not the product, of       *)
(* theirs; the others rest in one initial state.                              *)
EXTENDS Schedules, DailyReport, StandingPolicies, ProjectionRefresh,
        Planning, Verification, Corroboration, RunHistory

CONSTANTS report, oldReport, abroad, w1, w2, w3

VARIABLE focus

others == <<schedulesVars, reportVars, policyVars, refreshVars, planningVars, checkVars,
            corroborationVars, historyVars>>
all == <<focus, others>>

Still(component, picked) == focus = component \/ picked

AnySetting == CHOOSE s \in Settings : TRUE
AnyRequest == CHOOSE q \in Requests : q.named = Nobody
AnyPlan == CHOOSE p \in Plans : TRUE

Init ==
  /\ focus \in {"schedules", "report", "policies", "refresh", "planning", "verification",
                "corroboration", "history"}
  /\ SchedulesInit /\ DailyReportInit /\ StandingPoliciesInit /\ RefreshInit
  /\ Still("planning", enabled = AnySetting /\ request = AnyRequest)
  /\ PlanningInit
  /\ Still("verification", checkedPlan = AnyPlan /\ evidence = <<>> /\ files = [f \in Files |-> "good"])
  /\ VerificationInit
  /\ Still("corroboration", worker = CHOOSE w \in Capable : TRUE)
  /\ CorroborationInit
  /\ Still("history", safe = TRUE /\ external = {})
  /\ HistoryInit

Next ==
  /\ UNCHANGED focus
  /\ \/ /\ focus = "schedules" /\ SchedulesNext
        /\ UNCHANGED <<reportVars, policyVars, refreshVars, planningVars, checkVars, corroborationVars, historyVars>>
     \/ /\ focus = "report" /\ DailyReportNext
        /\ UNCHANGED <<schedulesVars, policyVars, refreshVars, planningVars, checkVars, corroborationVars, historyVars>>
     \/ /\ focus = "policies" /\ StandingPoliciesNext
        /\ UNCHANGED <<schedulesVars, reportVars, refreshVars, planningVars, checkVars, corroborationVars, historyVars>>
     \/ /\ focus = "refresh" /\ RefreshNext
        /\ UNCHANGED <<schedulesVars, reportVars, policyVars, planningVars, checkVars, corroborationVars, historyVars>>
     \/ /\ focus = "planning" /\ PlanningNext
        /\ UNCHANGED <<schedulesVars, reportVars, policyVars, refreshVars, checkVars, corroborationVars, historyVars>>
     \/ /\ focus = "verification" /\ VerificationNext
        /\ UNCHANGED <<schedulesVars, reportVars, policyVars, refreshVars, planningVars, corroborationVars, historyVars>>
     \/ /\ focus = "corroboration" /\ CorroborationNext
        /\ UNCHANGED <<schedulesVars, reportVars, policyVars, refreshVars, planningVars, checkVars, historyVars>>
     \/ /\ focus = "history" /\ HistoryNext
        /\ UNCHANGED <<schedulesVars, reportVars, policyVars, refreshVars, planningVars, checkVars, corroborationVars>>

\* A scheduler that runs keeps ticking, and its requests end; every consumer
\* keeps refreshing.
Spec ==
  /\ Init /\ [][Next]_all
  /\ \A d \in Daemons : WF_schedulesVars(focus = "schedules" /\ Tick(d))
  /\ \A w \in Runtimes : WF_refreshVars(focus = "refresh" /\ Refresh(w))

-----------------------------------------------------------------------------
(* Planning: two settings of the owner, what a request may say, and plans of  *)
(* one step, done by one worker or by two work orders.                        *)
SomeWorkers == {Workers, {"draft", "review", "external"}}
SomePhrases == {{}, {"delivery"}, {"research"}, {"research", "long"}, {"external"},
                {"external", "irreversible"}, {"research", "external"}}
FirstUnits == {Unit("a", Nobody, {"filesystem_write"}, r, after) :
                 r \in {"read_only", "reversible_write", "irreversible"}, after \in {{}, {"b"}}}
SecondUnit == Unit("b", "review", {"review"}, "read_only", {"a"})
MixedProposals ==
  {<<StepOf("reversible_write", FALSE, <<u, SecondUnit>>)>> : u \in FirstUnits}
  \cup {<<StepOf("read_only", TRUE, <<Unit("one", w, needs, "read_only", {})>>)>> :
          w \in {"draft", "external"}, needs \in {{"filesystem_write"}, {"external_action"}}}

(* Verification: a promised report, another file whose path ends like it, and *)
(* one outside the workspace.                                                 *)
SomeFiles == {report, oldReport}
SomeNames == {<<report, report>>, <<oldReport, report>>, <<oldReport, oldReport>>}
SomeSteps ==
  {Step("read_only", promised, criteria, test, FALSE) :
     promised \in {{}, {report}}, criteria \in {{"file"}, {"quality"}}, test \in {"none", "named", "mentioned"}}
  \cup {Step("external_side_effect", {report}, {"file"}, "none", diff) : diff \in BOOLEAN}
SomePlans ==
  {<<s>> : s \in SomeSteps}
  \cup {<<Step("read_only", {report}, {"file"}, "none", FALSE), Step("irreversible", {}, {"file"}, test, TRUE)>> :
          test \in {"none", "named"}}
SomeReports ==
  {<<>>}
  \cup {<<Item(1, kind, place)>> : kind \in {"artifact", "receipt", "test"}, place \in SomeFiles \cup {abroad, NoLocator}}
  \cup {<<Item(1, "artifact", first), Item(2, kind, second)>> :
          kind \in {"receipt", "test"}, first \in {oldReport, NoLocator}, second \in {report, abroad}}

TheRanking == <<w1, w2, w3>>

\* The verdict on a run and the verdict on a failure are both earned: nothing
\* passes that no check looked at, nothing ends that two workers did not refuse.
VerdictsInv == VerificationInv /\ CorroborationInv

\* What a process left half done, or has not seen yet, is caught up with: every
\* dispatch gets an outcome, every run is known to every runtime that refreshes.
ServicesCatchUp == DispatchesSettle /\ CreatedIsSeen
=============================================================================

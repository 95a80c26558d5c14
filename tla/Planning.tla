------------------------------ MODULE Planning ------------------------------
(* From a request of the owner to a plan that waits to be executed            *)
(* (application/run-query.ts): the intent read from its words, the worker it  *)
(* is routed to, the plan of the local rules or of a model, the worker of     *)
(* each step, and the contract the kernel holds the plan to.  Words are       *)
(* abstracted to what they match; titles and texts, to their presence.        *)
EXTENDS Naturals, Sequences, FiniteSets, SequencesExt

CONSTANTS
  Settings,       \* the sets of workers the owner may have enabled
  Phrases,        \* the sets of terms the words of a request may match
  Proposals,      \* plans a model may propose
  MaxProposals    \* LlmWorkPlanner maxAttempts

VARIABLES
  enabled,     \* the workers that are enabled, installed and not blocked: one flag here
  request,     \* what the words of the request match
  stage,       \* how far the request is
  routed,      \* the worker the task was routed to, and whether the owner named it
  proposed,    \* plans the model proposed
  plan,        \* the plan, once there is one; its steps name their workers
  run          \* the status of the run

planningVars == <<enabled, request, stage, routed, proposed, plan, run>>

\* The default workers, one of each role, known by the role.
Workers == {"direct", "research", "draft", "review", "external"}
Capability == [direct   |-> {"direct_response"},
               research |-> {"research", "filesystem_read"},
               draft    |-> {"drafting", "filesystem_read", "filesystem_write"},
               review   |-> {"review"},
               external |-> {"external_action"}]
RoleKinds == [direct |-> {"direct", "coding", "planning"}, research |-> {"research"},
              draft |-> {"coding", "planning"}, review |-> {"review"}, external |-> {"operations"}]
CapabilityByKind == [coding |-> "drafting", review |-> "review", research |-> "research",
                     planning |-> "drafting", operations |-> "external_action", direct |-> "direct_response"]
Nobody == "nobody"

Risks == <<"read_only", "reversible_write", "external_side_effect", "irreversible">>
RiskRank(risk) == CHOOSE i \in 1 .. 4 : Risks[i] = risk
External(risk) == RiskRank(risk) >= 3

\* A unit of work: a step of one worker, or a work order of a step with several.
\* A step has its risk, whether it is of one worker, and its units.
Unit(id, worker, needs, risk, after) ==
  [id |-> id, worker |-> worker, needs |-> needs, risk |-> risk, after |-> after, receipt |-> External(risk)]
StepOf(risk, single, units) == [risk |-> risk, single |-> single, units |-> units]
Units(p) == UNION {ToSet(p[i].units) : i \in DOMAIN p}
Ids(step) == {step.units[i].id : i \in DOMAIN step.units}

\* A plan is of such steps, whoever makes it; a step of one worker is one unit.
IsUnit(u) ==
  /\ u = [id |-> u.id, worker |-> u.worker, needs |-> u.needs, risk |-> u.risk, after |-> u.after, receipt |-> u.receipt]
  /\ u.risk \in ToSet(Risks)
IsStep(step) ==
  /\ step = StepOf(step.risk, step.single, step.units)
  /\ step.risk \in ToSet(Risks) /\ step.single \in BOOLEAN
  /\ step.single => DOMAIN step.units = {1}
  /\ \A j \in DOMAIN step.units : IsUnit(step.units[j])

ASSUME PlanningAssumption ==
  /\ MaxProposals \in Nat \ {0} /\ Settings \subseteq SUBSET Workers
  /\ \A p \in Proposals : \A i \in DOMAIN p : IsStep(p[i])

Requests ==
  [kind : DOMAIN CapabilityByKind,
   words : Phrases,
   named : Workers \cup {Nobody}, excluded : {S \in SUBSET Workers : Cardinality(S) <= 1}]

PlanningTypeOK ==
  /\ enabled \in Settings /\ enabled \subseteq Workers
  /\ stage \in {"asked", "routed", "planned", "over"}
  /\ routed.to \in Workers \cup {Nobody} /\ routed.pinned \in BOOLEAN
  /\ proposed \in 0 .. MaxProposals
  /\ run \in {"planning", "queued", "failed"}

PlanningInit ==
  /\ enabled \in Settings
  \* a worker the owner excludes is not the one the owner names
  /\ request \in Requests /\ request.named \notin request.excluded
  /\ stage = "asked" /\ routed = [to |-> Nobody, pinned |-> FALSE]
  /\ proposed = 0 /\ plan = <<>> /\ run = "planning"

-----------------------------------------------------------------------------
(* routeTask                                                                  *)

Covers(worker, needs) == needs \subseteq Capability[worker]

Eligible == {w \in enabled \ request.excluded : Covers(w, {CapabilityByKind[request.kind]})}

\* Those whose role the intent matches, if any; what memory and descriptions
\* say decides among them.
Pool ==
  LET matched == {w \in Eligible : request.kind \in RoleKinds[w]} IN
  IF matched # {} THEN matched ELSE Eligible

\* The named worker or a refusal; for the rest, any of the pool or a refusal.
Route ==
  /\ stage = "asked"
  /\ \/ /\ request.named \in enabled
        /\ routed' = [to |-> request.named, pinned |-> TRUE] /\ stage' = "routed" /\ UNCHANGED run
     \/ /\ request.named = Nobody
        /\ \E w \in Pool : routed' = [to |-> w, pinned |-> FALSE]
        /\ stage' = "routed" /\ UNCHANGED run
     \/ /\ IF request.named = Nobody THEN Eligible = {} ELSE request.named \notin enabled
        /\ run' = "failed" /\ stage' = "over" /\ UNCHANGED routed
  /\ UNCHANGED <<enabled, request, proposed, plan>>

-----------------------------------------------------------------------------
(* buildFallbackPlan                                                          *)

Routable == IF routed.pinned THEN {routed.to} ELSE enabled

Researches == "research" \in request.words
Delivers == "delivery" \in request.words \/ Researches
Acts == "external" \in request.words
Reviews == Researches /\ ("long" \in request.words \/ Acts)

Preparation ==
  (IF Researches /\ "research" \in Routable
   THEN <<Unit("context", "research", {"research", "filesystem_read"}, "read_only", {})>> ELSE <<>>)
  \o (IF Delivers /\ "draft" \in Routable
      THEN <<Unit("draft", "draft", Capability["draft"], "reversible_write", {})>> ELSE <<>>)

Prepared ==
  IF Reviews /\ Preparation # <<>> /\ "review" \in Routable
  THEN Append(Preparation, Unit("review", "review", {"review"}, "read_only",
                                {Preparation[i].id : i \in DOMAIN Preparation}))
  ELSE Preparation

FirstStep ==
  IF Prepared # <<>> THEN StepOf("reversible_write", FALSE, Prepared)
  ELSE StepOf("read_only", TRUE, <<Unit("direct-response", "direct", {"direct_response"}, "read_only", {})>>)

LastStep ==
  LET risk == IF "irreversible" \in request.words THEN "irreversible" ELSE "external_side_effect" IN
  StepOf(risk, TRUE, <<Unit("external-commitment", "external", {"external_action"}, risk, {})>>)

LocalPlan == IF Acts THEN <<FirstStep, LastStep>> ELSE <<FirstStep>>

\* An external action whose worker may not be used ends the planning.
PlanLocally ==
  /\ stage = "routed" /\ proposed = 0
  /\ IF Acts /\ "external" \notin Routable
     THEN run' = "failed" /\ stage' = "over" /\ UNCHANGED plan
     ELSE /\ plan' = LocalPlan
          /\ stage' = "planned" /\ UNCHANGED run
  /\ UNCHANGED <<enabled, request, routed, proposed>>

-----------------------------------------------------------------------------
(* LlmWorkPlanner: decodePlan lets a proposal through or asks for another.    *)

Decodable(p) ==
  /\ Len(p) \in 1 .. 8
  /\ \A i \in DOMAIN p :
       /\ Len(p[i].units) \in 1 .. 8
       /\ Cardinality(Ids(p[i])) = Len(p[i].units)
       /\ \A u \in ToSet(p[i].units) :
            /\ u.needs # {}
            /\ IF u.worker # Nobody THEN u.worker \in Routable /\ Covers(u.worker, u.needs)
               ELSE ~p[i].single /\ \E w \in Routable : Covers(w, u.needs)
            /\ External(u.risk) => p[i].single \/ u.receipt
            /\ u.after \subseteq Ids(p[i]) \ {u.id}
            /\ RiskRank(u.risk) <= RiskRank(p[i].risk)

Propose(p) ==
  /\ stage = "routed" /\ proposed < MaxProposals
  /\ proposed' = proposed + 1
  /\ IF Decodable(p) THEN plan' = p /\ stage' = "planned" /\ UNCHANGED run
     ELSE IF proposed' = MaxProposals THEN run' = "failed" /\ stage' = "over" /\ UNCHANGED plan
     ELSE UNCHANGED <<plan, stage, run>>
  /\ UNCHANGED <<enabled, request, routed>>

-----------------------------------------------------------------------------
(* assignWorkersPerStep                                                       *)

\* The covering worker with the fewest capabilities.
BestFor(needs) ==
  LET covering == {w \in enabled : Covers(w, needs)} IN
  CHOOSE w \in covering : \A v \in covering : Cardinality(Capability[w]) <= Cardinality(Capability[v])

\* The worker the owner named gets every step, and its own capabilities take
\* the place of what the step needs; else the planned worker, the best one, or
\* the routed one, which the kernel will refuse.
Assigned(u) ==
  IF routed.pinned THEN [u EXCEPT !.worker = routed.to, !.needs = Capability[routed.to]]
  ELSE IF u.worker \in enabled /\ Covers(u.worker, u.needs) THEN u
  ELSE IF \E w \in enabled : Covers(w, u.needs) THEN [u EXCEPT !.worker = BestFor(u.needs)]
  ELSE [u EXCEPT !.worker = routed.to]

AssignedPlan ==
  [i \in DOMAIN plan |->
     [plan[i] EXCEPT !.units = [j \in DOMAIN plan[i].units |-> Assigned(plan[i].units[j])]]]

-----------------------------------------------------------------------------
(* attachPlan: assertPlanIsExecutable                                         *)

\* The least risk the capabilities admit.
Floor(needs) ==
  IF "external_action" \in needs THEN 3 ELSE IF "filesystem_write" \in needs THEN 2 ELSE 1

Acyclic(step) ==
  \A S \in (SUBSET ToSet(step.units)) \ {{}} : \E u \in S : \A v \in S : v.id \notin u.after

OrdersOK(step) ==
  /\ Cardinality(Ids(step)) = Len(step.units)
  /\ \A u \in ToSet(step.units) :
       /\ u.needs # {} /\ RiskRank(u.risk) >= Floor(u.needs)
       /\ RiskRank(u.risk) <= RiskRank(step.risk)
       /\ u.after \subseteq Ids(step) \ {u.id}
  /\ Acyclic(step)

\* Mutant of Executable: only the work orders are held to their capabilities.
ExecutableOrders(p) ==
  /\ Len(p) > 0
  /\ \A i \in DOMAIN p : p[i].units # <<>> /\ (p[i].single \/ OrdersOK(p[i]))

Executable(p) ==
  /\ Len(p) > 0
  /\ \A i \in DOMAIN p :
       /\ p[i].units # <<>>
       /\ IF p[i].single THEN p[i].units[1].needs # {} /\ RiskRank(p[i].risk) >= Floor(p[i].units[1].needs)
          ELSE OrdersOK(p[i])
  /\ \A i, j \in DOMAIN p : i # j /\ ~p[i].single /\ ~p[j].single => Ids(p[i]) \cap Ids(p[j]) = {}

\* A plan the kernel refuses leaves the run in planning, where only the
\* recovery of orphaned runs finds it.
Attach ==
  /\ stage = "planned"
  /\ plan' = AssignedPlan
  /\ run' = IF Executable(AssignedPlan) THEN "queued" ELSE "planning"
  /\ stage' = "over"
  /\ UNCHANGED <<enabled, request, routed, proposed>>

PlanningNext == Route \/ PlanLocally \/ (\E p \in Proposals : Propose(p)) \/ Attach

PlanningSpec == PlanningInit /\ [][PlanningNext]_planningVars

-----------------------------------------------------------------------------
\* The rules of the planner and the contract of the kernel are two texts: the
\* plan they make for a task the owner did not pin is one the kernel accepts.
LocalPlansAreAccepted ==
  stage = "over" /\ proposed = 0 /\ plan # <<>> /\ ~routed.pinned => run = "queued"

\* "The owner gets that agent or a refusal, never a silent substitute".
NamedOrRefused ==
  run = "queued" /\ request.named # Nobody => \A u \in Units(plan) : u.worker = request.named

\* What the policy engine gates on is the risk of the step: no unit of a plan
\* that waits to be executed may do more than its step says, whoever proposed
\* it and whatever became of its workers on the way.
GateSeesTheRisk ==
  run = "queued" => \A i \in DOMAIN plan : \A u \in ToSet(plan[i].units) :
                      RiskRank(plan[i].risk) >= Floor(u.needs) /\ RiskRank(plan[i].risk) >= RiskRank(u.risk)

\* Whoever proposed a plan, and whatever became of its workers on the way: the
\* kernel accepts the local rules' plans, a worker the owner named does the work
\* or nobody does, and no unit exceeds the risk the policy engine gates on
\* (run-query.ts, plan-routing.ts, runtime.ts).
PlanningInv ==
  /\ PlanningTypeOK
  /\ LocalPlansAreAccepted
  /\ NamedOrRefused
  /\ GateSeesTheRisk
=============================================================================

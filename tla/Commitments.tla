---------------------------- MODULE Commitments ----------------------------
(* The owner's commitments and the pass that settles them                     *)
(* (state/personal-state-store.ts, state/state-projector.ts and               *)
(* state/commitment-reconciler.ts).  Commitments and goals live in the        *)
(* journal as events that are projected into a state.  A run that was planned *)
(* to serve a commitment and completed, verified and with its files still in  *)
(* place, settles it: a one-off is met, a recurring one advances to its next  *)
(* occurrence; an occurrence that passed without such a run is missed.  A     *)
(* pass works on one reading of the journal, and every run that ends, every   *)
(* maintenance tick and every command starts one.                             *)
EXTENDS Integers, SequencesExt, Options

CONSTANTS
  Recurring,    \* commitments with everyDays (one unit of the clock)
  OneOff,       \* commitments without
  Goals,        \* goals
  Serving,      \* runs that may be planned to serve a commitment
  Reconcilers,  \* processes that run the pass
  MaxToday,     \* bound of the clock
  MaxLost,      \* bound on the artifacts that disappear
  MaxEvents     \* the owner, runs and cards append only below this length

Owed == Recurring \cup OneOff

ASSUME CommitmentsAssumption ==
  /\ IsFiniteSet(Owed) /\ IsFiniteSet(Goals) /\ IsFiniteSet(Serving) /\ MaxToday \in Nat
  /\ Goals \cap Owed = {}

VARIABLES
  events,    \* the state and card events of the journal
  today,     \* the clock
  planned,   \* the runs of the plan.created events, oldest first
  serves,    \* serves[r]: plan.servesCommitmentId
  outcome,   \* outcome[r]: how r ended
  artifact,  \* artifact[r]: whether the files r's evidence names exist
  pass       \* pass[p]: the pass of process p

commitmentVars == <<events, today, planned, serves, outcome, artifact, pass>>

Outcomes == {"open", "failed", "unverified", "verified"}
Finished == {"unverified", "verified"}
StateTypes == {"recorded", "updated"}
NoFields == [x \in {} |-> 0]
Resting == [step |-> "idle", todo |-> {}, seen |-> NoFields, settling |-> {}]

\* The fields of an event that matter here; a field it does not have is not in
\* the domain of `fields`, and so keeps its value when it is applied.
Event(type, id, fields, run) == [type |-> type, id |-> id, fields |-> fields, run |-> run, at |-> today]

\* projectPersonalState, from a base it has events of already.
Applied(state, event) ==
  CASE event.type = "recorded" -> Overlaid([c \in {event.id} |-> event.fields], state)
    [] event.type = "updated" /\ event.id \in DOMAIN state ->
         [state EXCEPT ![event.id] = Overlaid(event.fields, @)]
    [] OTHER -> state
Project(news, base) ==
  LET after[n \in 0 .. Len(news)] == IF n = 0 THEN base ELSE Applied(after[n - 1], news[n])
  IN after[Len(news)]
State == Project(events, NoFields)

HasSpace == Len(events) < MaxEvents

SettledRuns == UNION {events[i].run : i \in DOMAIN events}

CommitmentsTypeOK ==
  /\ \A i \in DOMAIN events : events[i].at \in 0 .. MaxToday
  /\ today \in 0 .. MaxToday
  /\ ToSet(planned) \subseteq Serving
  /\ \A r \in Serving : AtMostOne(serves[r], Owed)
  /\ outcome \in [Serving -> Outcomes]
  /\ artifact \in [Serving -> BOOLEAN]
  /\ \A p \in Reconcilers : pass[p].step \in {"idle", "examine", "settle"}

CommitmentsInit ==
  /\ events = <<>> /\ today = 0
  /\ planned = <<>>
  /\ serves = [r \in Serving |-> {}]
  /\ outcome = [r \in Serving |-> "open"]
  /\ artifact = [r \in Serving |-> TRUE]
  /\ pass = [p \in Reconcilers |-> Resting]

-----------------------------------------------------------------------------
\* recordCommitment and recordGoal: an append; ids are fresh.
RecordCommitment(c) ==
  /\ c \notin DOMAIN State /\ HasSpace
  /\ events' = Append(events, Event("recorded", c, [status |-> "open", due |-> today + 1], {}))
  /\ UNCHANGED <<today, planned, serves, outcome, artifact, pass>>

RecordGoal(g) ==
  /\ g \notin DOMAIN State /\ HasSpace
  /\ events' = Append(events, Event("recorded", g, [status |-> "active"], {}))
  /\ UNCHANGED <<today, planned, serves, outcome, artifact, pass>>

\* propose_plan with servesCommitmentId: the plan of a run names what it is for.
PlanServing(r, c) ==
  /\ c \in DOMAIN State /\ r \notin ToSet(planned)
  /\ planned' = Append(planned, r)
  /\ serves' = [serves EXCEPT ![r] = {c}]
  /\ UNCHANGED <<events, today, outcome, artifact, pass>>

\* A run ends: verified, accepted by the owner without a verification, or failed.
RunEnds(r, how) ==
  /\ r \in ToSet(planned) /\ outcome[r] = "open" /\ how # "open" /\ HasSpace
  /\ outcome' = [outcome EXCEPT ![r] = how]
  /\ events' = Append(events, Event(IF how = "failed" THEN "failed" ELSE "completed", r, NoFields, {}))
  /\ UNCHANGED <<today, planned, serves, artifact, pass>>

ArtifactLost(r) ==
  /\ outcome[r] \in Finished /\ artifact[r]
  /\ Cardinality({x \in Serving : ~artifact[x]}) < MaxLost
  /\ artifact' = [artifact EXCEPT ![r] = FALSE]
  /\ UNCHANGED <<events, today, planned, serves, outcome, pass>>

DayPasses ==
  /\ today < MaxToday
  /\ today' = today + 1
  /\ UNCHANGED <<events, planned, serves, outcome, artifact, pass>>

-----------------------------------------------------------------------------

\* A do-while: one occurrence on at least, and then past now.
NextOccurrence(due, now) == 1 + Max({due, now})

\* The first run, in the order of the plans, that completed for c and is not
\* settled: also one that was not verified, or whose files are gone.
ServingRun(seen, c) ==
  LET done == {i \in DOMAIN seen.planned :
                 /\ serves[seen.planned[i]] = {c} /\ seen.outcome[seen.planned[i]] \in Finished
                 /\ seen.planned[i] \notin seen.settled} IN
  IF done = {} THEN {} ELSE {seen.planned[Min(done)]}

\* One reading of the journal is all a pass knows of it.
BeginPass(p) ==
  /\ pass[p].step = "idle"
  /\ pass' = [pass EXCEPT ![p] =
       [step |-> "examine", todo |-> {c \in DOMAIN State \cap Owed : State[c].status = "open"}, settling |-> {},
        seen |-> [state |-> State, planned |-> planned, outcome |-> outcome,
                  settled |-> SettledRuns, now |-> today]]]
  /\ UNCHANGED <<events, today, planned, serves, outcome, artifact>>

Settlement(c, seen, run) ==
  LET due == seen.state[c].due
      next == NextOccurrence(due, seen.now) IN
  {[id |-> c, run |-> run,
    fields |-> IF c \in Recurring THEN [due |-> next] ELSE [status |-> "met"]]}

\* Mutant of Verdict: what was done before it was due is not looked at.
VerdictWhenDue(c, seen) ==
  LET run == ServingRun(seen, c) IN
  IF seen.state[c].due > seen.now THEN {} ELSE Settlement(c, seen, run)

\* What is done about c: the verified run it found settles it, unless a file of
\* it is gone, and then nothing does; without one, an occurrence that passed is
\* missed.
Verdict(c, seen) ==
  LET run == ServingRun(seen, c) IN
  IF \E r \in run : seen.outcome[r] = "verified"
  THEN IF \A r \in run : artifact[r] THEN Settlement(c, seen, run) ELSE {}
  ELSE IF c \in Recurring /\ seen.state[c].due <= seen.now THEN Settlement(c, seen, {}) ELSE {}

\* Where a pass goes on, with what it read at first.
Proceeds(p, step, todo, settling) ==
  pass' = [pass EXCEPT ![p] = [step |-> step, todo |-> todo, seen |-> @.seen, settling |-> settling]]

Examine(p) ==
  /\ pass[p].step = "examine"
  /\ IF pass[p].todo = {} THEN pass' = [pass EXCEPT ![p] = Resting]
     ELSE \E c \in pass[p].todo :
       LET verdict == Verdict(c, pass[p].seen) IN
       Proceeds(p, IF verdict = {} THEN "examine" ELSE "settle", pass[p].todo \ {c}, verdict)
  /\ UNCHANGED <<events, today, planned, serves, outcome, artifact>>

\* settleCommitment looks only whether the commitment exists.
Settle(p) ==
  /\ pass[p].step = "settle"
  /\ \E s \in pass[p].settling : events' = Append(events, Event("updated", s.id, s.fields, s.run))
  /\ Proceeds(p, "examine", pass[p].todo, {})
  /\ UNCHANGED <<today, planned, serves, outcome, artifact>>

Reconcile(p) == BeginPass(p) \/ Examine(p) \/ Settle(p)

CommitmentsNext ==
  \/ \E c \in Owed : RecordCommitment(c) \/ \E r \in Serving : PlanServing(r, c)
  \/ \E g \in Goals : RecordGoal(g)
  \/ \E r \in Serving : ArtifactLost(r) \/ \E how \in Outcomes : RunEnds(r, how)
  \/ DayPasses
  \/ \E p \in Reconcilers : Reconcile(p)

-----------------------------------------------------------------------------
IsMet(c) == c \in DOMAIN State /\ State[c].status = "met"
Overdue(c) == c \in DOMAIN State /\ State[c].due <= today

\* "A settlement already recorded is never recorded twice": over all passes, a
\* run settles one occurrence of one commitment.
SettledOnce ==
  \A i, j \in DOMAIN events : (i # j /\ events[i].run # {}) => events[i].run # events[j].run

\* What a run settles is what it was planned for, and only when it completed
\* and was verified.
SettledByItsRun ==
  \A i \in DOMAIN events : \A r \in events[i].run :
    serves[r] = {events[i].id} /\ outcome[r] = "verified"

\* An occurrence that a run served is never due again, and none comes back.
DueOnlyAdvances ==
  [][\A c \in DOMAIN State \cap Recurring : (State[c].due <= State[c].due')]_commitmentVars

\* An occurrence that passed is not the last one: the recurrence moves on, met
\* or missed, at least while no run that served it lost its files.
MovesOnWithItsFiles ==
  \A c \in Recurring :
    Overdue(c) ~> (~Overdue(c) \/ \E r \in Serving : serves[r] = {c} /\ ~artifact[r])

\* The reconciler takes the first run of the plans (`.at(0)`) and looks at no other:
\* one that completed for c without a verification, or whose files are gone, stays
\* the first for good, and the runs planned after it settle nothing.
StandsBefore(q, r, c) ==
  /\ serves[q] = {c} /\ q \notin SettledRuns /\ outcome[q] \in Finished
  /\ outcome[q] = "verified" => ~artifact[q]
  /\ \E i, j \in DOMAIN planned : i < j /\ planned[i] = q /\ planned[j] = r

\* What a completed and verified run did, with its files in place, counts: it
\* settles the commitment it was planned for, unless that was met before or a run
\* planned earlier for it stands before it.
ServedIsSettled ==
  \A c \in Owed, r \in Serving :
    (serves[r] = {c} /\ outcome[r] = "verified")
      ~> (r \in SettledRuns \/ IsMet(c) \/ ~artifact[r] \/ \E q \in Serving : StandsBefore(q, r, c))

\* Over all passes a run settles one occurrence of the commitment it was planned
\* for, and only when it completed and was verified (commitment-reconciler.ts).
CommitmentsInv == CommitmentsTypeOK /\ SettledOnce /\ SettledByItsRun

\* Occurrences only advance: none that was served is due again, a verified run
\* settles what it was planned for, and a recurrence that passed moves on.
CommitmentsMoveOn == DueOnlyAdvances /\ MovesOnWithItsFiles /\ ServedIsSettled
=============================================================================

--------------------------- MODULE Opportunities ---------------------------
(* Cards that propose work to the owner (opportunity/opportunity-service.ts,  *)
(* opportunity/opportunity.ts and the routes of companion-server.ts), next to *)
(* the commitments they are about.  A scan reads the journal from the last    *)
(* state event it knows of, keeps its projection of the state in memory, and  *)
(* appends one card after another.  An accepted card becomes a run that       *)
(* serves its commitment, and what that run settles is a state event again.   *)
EXTENDS Commitments

CONSTANTS
  Window,       \* a deadline is near when it is at most this far away (72 hours)
  Quiet,        \* a goal is neglected after this long without a run (two weeks)
  MaxCards,     \* the scan stops at this many cards (12)
  MaxRestarts   \* bound on the restarts of the scanning process

ASSUME OpportunitiesAssumption == MaxCards \in Nat /\ MaxRestarts \in Nat

VARIABLES
  scanner,   \* #state and #stateSequence of the service, and its open scan
  accepting, \* a card whose acceptance is under way, and the run made for it
  restarts   \* restarts of the scanning process

cardVars == <<scanner, accepting, restarts>>
opportunityVars == <<commitmentVars, cardVars>>

NewScanner == [state |-> NoFields, sequence |-> 0, step |-> "idle", cards |-> <<>>]

OpportunitiesInit ==
  /\ CommitmentsInit
  /\ scanner = NewScanner
  /\ accepting = {}
  /\ restarts = 0

CardsOf(type, news) == {news[i].id : i \in {k \in DOMAIN news : news[k].type = type}}
Proposed == CardsOf("proposed", events)
Resolved == CardsOf("resolved", events)
\* list: a card the owner decided is not shown again.
Listed == Proposed \ Resolved

OpportunitiesTypeOK ==
  /\ scanner.sequence \in 0 .. Len(events)
  /\ scanner.step \in {"idle", "recording"}
  /\ Len(scanner.cards) <= MaxCards
  /\ restarts \in 0 .. MaxRestarts

-----------------------------------------------------------------------------
\* The id of a card is derived: a deadline has one per due date, a failure one
\* per event, a neglected goal one.
DeadlineCard(c, due) == [source |-> "deadline", about |-> c, key |-> due]
FailedCard(r, i) == [source |-> "failed_task", about |-> r, key |-> i]
NeglectedCard(g) == [source |-> "neglected_goal", about |-> g, key |-> 0]

\* scanOpportunities: near deadlines whatever became of the commitment, failed
\* runs, and active goals when no run of the events read was recent; the first
\* MaxCards of them.  (No two are of one source about one thing, which is all
\* that dedupeOpportunities would drop; "failed" stands for cancelled, too; that
\* no more than the last sixty events are read is left out.)
Scan(state, news, from) ==
  LET due == {c \in DOMAIN state \cap Owed : state[c].due - today \in 0 .. Window}
      failed == {i \in DOMAIN news : news[i].type = "failed"}
      busy == \E i \in DOMAIN news : news[i].type \in {"failed", "completed"} /\ today - news[i].at < Quiet
      idle == {g \in DOMAIN state \cap Goals : state[g].status = "active" /\ ~busy}
      found == SetToSeq({DeadlineCard(c, state[c].due) : c \in due})
               \o Picked([i \in DOMAIN news |-> FailedCard(news[i].id, from + i)], failed)
               \o SetToSeq({NeglectedCard(g) : g \in idle})
  IN SubSeq(found, 1, Min({MaxCards, Len(found)}))

LastApplied(news, from) ==
  Max({0} \cup {i \in DOMAIN news : news[i].type \in StateTypes}) + from

\* The sequence to read from next: that of the last state event, and the old one
\* when there was none.
AppliedUpTo(news, from) ==
  IF \E i \in DOMAIN news : news[i].type \in StateTypes THEN LastApplied(news, from) ELSE from

\* Mutant of BeginScan: the projection starts from nothing.
BeginScanAfresh ==
  /\ scanner.step = "idle"
  /\ Len(events) <= MaxEvents
  /\ LET news == SubSeq(events, scanner.sequence + 1, Len(events))
         state == Project(news, NoFields) IN
     scanner' = [state |-> state, sequence |-> AppliedUpTo(news, scanner.sequence),
                 step |-> "recording", cards |-> <<>>]
  /\ UNCHANGED <<commitmentVars, accepting, restarts>>

\* scanAndRecord: `existing` are the cards among the events just read.
BeginScan ==
  /\ scanner.step = "idle"
  /\ Len(events) <= MaxEvents
  /\ LET news == SubSeq(events, scanner.sequence + 1, Len(events))
         state == Project(news, scanner.state)
         found == Scan(state, news, scanner.sequence)
         fresh == Picked(found, {i \in DOMAIN found : found[i] \notin CardsOf("proposed", news)}) IN
     scanner' = [state |-> state, sequence |-> AppliedUpTo(news, scanner.sequence),
                 step |-> "recording", cards |-> fresh]
  /\ UNCHANGED <<commitmentVars, accepting, restarts>>

RecordCard ==
  /\ scanner.step = "recording"
  /\ IF scanner.cards = <<>>
     THEN scanner' = [scanner EXCEPT !.step = "idle"] /\ UNCHANGED events
     ELSE /\ events' = Append(events, Event("proposed", Head(scanner.cards), NoFields, {}))
          /\ scanner' = [scanner EXCEPT !.cards = Tail(@)]
  /\ UNCHANGED <<today, planned, serves, outcome, artifact, pass, accepting, restarts>>

\* The process restarts, in the middle of a scan or not.
Restart ==
  /\ restarts < MaxRestarts
  /\ restarts' = restarts + 1
  /\ scanner' = NewScanner
  /\ accepting' = {}
  /\ UNCHANGED commitmentVars

-----------------------------------------------------------------------------
Resolve(card) == HasSpace /\ events' = Append(events, Event("resolved", card, NoFields, {}))

\* The card of a failed task opens the failed run and starts nothing; any other
\* is made a run, which gets a plan that serves the card's commitment, and only
\* then is the card resolved.
Accept(card) ==
  /\ card \in Listed /\ accepting = {}
  /\ IF card.source = "failed_task"
     THEN Resolve(card) /\ UNCHANGED <<planned, serves, accepting>>
     ELSE \E r \in Serving \ ToSet(planned) :
            /\ planned' = Append(planned, r)
            /\ serves' = [serves EXCEPT ![r] = {card.about} \cap Owed]
            /\ accepting' = {[card |-> card, run |-> r]}
            /\ UNCHANGED events
  /\ UNCHANGED <<today, outcome, artifact, pass, scanner, restarts>>

FinishAccept ==
  /\ \E a \in accepting : Resolve(a.card)
  /\ accepting' = {}
  /\ UNCHANGED <<today, planned, serves, outcome, artifact, pass, scanner, restarts>>

Dismiss(card) ==
  /\ card \in Listed
  /\ Resolve(card)
  /\ UNCHANGED <<today, planned, serves, outcome, artifact, pass, scanner, accepting, restarts>>

OpportunitiesNext ==
  \/ CommitmentsNext /\ UNCHANGED cardVars
  \/ BeginScan \/ RecordCard \/ Restart \/ FinishAccept
  \/ \E card \in Listed : Accept(card) \/ Dismiss(card)

OpportunitiesSpec == OpportunitiesInit /\ [][OpportunitiesNext]_opportunityVars

-----------------------------------------------------------------------------
\* What the scan knows of the owner's state, read piece by piece over many
\* scans, is what the whole journal says up to the event it reads from.
ScannedStateIsReplay ==
  scanner.state = Project(SubSeq(events, 1, scanner.sequence), NoFields)

\* A run that failed before a scan is proposed for a follow-up, whatever other
\* events moved the place the scan reads from (as long as the cards are few).
FailuresAreProposed ==
  (scanner.step = "idle") =>
    \A i \in 1 .. scanner.sequence :
      events[i].type = "failed" => FailedCard(events[i].id, i) \in Proposed

\* What the scan knows, read piece by piece and over restarts, is what the
\* journal says; every failure before it is proposed; and what becomes of the
\* cards settles commitments as any run does (opportunity-service.ts).
OpportunitiesInv ==
  /\ CommitmentsInv
  /\ OpportunitiesTypeOK
  /\ ScannedStateIsReplay
  /\ FailuresAreProposed
=============================================================================

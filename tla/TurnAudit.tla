----------------------------- MODULE TurnAudit -----------------------------
(* The two records of one turn of the Main Agent: the events of the journal,   *)
(* from which the audit is projected, and the rows of main-agent-turns.jsonl,  *)
(* which the conversation shows.  Each end of the turn is written to the       *)
(* journal and then to the ledger; the turn itself, a client that reports it   *)
(* interrupted and a daemon that starts all write both.  An append to the      *)
(* journal that fails is logged and forgotten.                                 *)
EXTENDS Naturals, Sequences, SequencesExt

CONSTANTS MaxCalls,       \* tool calls of the turn
          MaxLost,        \* appends that fail
          MaxReports,     \* interruptions reported by the client
          MaxDeaths       \* deaths of the daemon

VARIABLES turnEvents,        \* the turn's events
          rows,           \* the statuses of the turn's rows in the ledger
          calls,          \* context.toolCalls: how each call of the turn ended
          teller,         \* what the turn is doing
          reporter,       \* what the request that marks it interrupted is doing
          lost, reports, deaths

auditVars == <<turnEvents, rows, calls, teller, reporter, lost, reports, deaths>>

Ends == {"completed", "failed", "interrupted"}
Open == "open"

Opened == [kind |-> "opened", status |-> "started", calls |-> <<>>]
Closed(status, made) == [kind |-> "closed", status |-> status, calls |-> made]
\* The event of an interruption names no calls: the projection keeps what it had.
ClosedUnseen == [kind |-> "closed unseen", status |-> "interrupted", calls |-> <<>>]
Noted(kind) == [kind |-> kind, status |-> "none", calls |-> <<>>]

Row == IF rows = <<>> THEN "none" ELSE Last(rows)

\* The last event of some kinds, 0 when there is none.
Latest(kinds) ==
    CHOOSE i \in 0..Len(turnEvents) :
        /\ i = 0 \/ turnEvents[i].kind \in kinds
        /\ \A j \in (i + 1)..Len(turnEvents) : turnEvents[j].kind \notin kinds

\* projectTurnAudits: the latest event that opens or closes the turn decides; an
\* interruption leaves the calls as they were.
Audit ==
    LET turning == Latest({"opened", "closed", "closed unseen"})
        telling == Latest({"opened", "closed"})
    IN  [status |-> IF turning = 0 THEN "none" ELSE turnEvents[turning].status,
         calls |-> IF telling = 0 THEN <<>> ELSE turnEvents[telling].calls]

AuditInit ==
    /\ turnEvents = <<>>
    /\ rows = <<>>
    /\ calls = <<>>
    /\ teller = "idle"
    /\ reporter = "none"
    /\ lost = 0
    /\ reports = 0
    /\ deaths = 0

-----------------------------------------------------------------------------
Says(event) ==
    \/ turnEvents' = Append(turnEvents, event) /\ UNCHANGED lost
    \/ lost < MaxLost /\ lost' = lost + 1 /\ UNCHANGED turnEvents

Enters(status) ==
    \/ rows' = Append(rows, status) /\ UNCHANGED lost
    \/ lost < MaxLost /\ lost' = lost + 1 /\ UNCHANGED rows

Move(here, there) == teller = here /\ teller' = there

\* The query route answers a turn the ledger knows from the ledger.
ModelAsks ==
    /\ Row = "none"
    /\ Move("idle", "opening")
    /\ UNCHANGED <<turnEvents, rows, calls, reporter, lost, reports, deaths>>

OpenInJournal ==
    /\ Move("opening", "entering")
    /\ Says(Opened)
    /\ calls' = <<>>
    /\ UNCHANGED <<rows, reporter, reports, deaths>>

OpenInLedger ==
    /\ Move("entering", "running")
    /\ Enters("started")
    /\ UNCHANGED <<turnEvents, calls, reporter, reports, deaths>>

StartTool ==
    /\ Move("running", "working")
    /\ Len(calls) < MaxCalls
    /\ calls' = Append(calls, Open)
    /\ Says(Noted("tool started"))
    /\ UNCHANGED <<rows, reporter, reports, deaths>>

Done(outcome) == [calls EXCEPT ![Len(calls)] = outcome]

EndTool ==                      \* a tool that fails is told to the model
    /\ Move("working", "running")
    /\ \E outcome \in {"fine", "wrong"} : calls' = Done(outcome)
    /\ Says(Noted("tool ended"))
    /\ UNCHANGED <<rows, reporter, reports, deaths>>

Decide ==                       \* a reply; or an error, no reply, the round limit
    /\ teller = "running"
    /\ teller' \in {"completed", "failed"}
    /\ UNCHANGED <<turnEvents, rows, calls, reporter, lost, reports, deaths>>

\* Mutant: an end that is not a completion is not told to the journal.
FinalWordOfSuccess == IF teller = "completed" THEN Closed(teller, calls) ELSE Noted("nothing")

FinalWord == Closed(teller, calls)

\* Where the turn is when the journal has its end, and the ledger not yet.
RowOf(status) == IF status = "completed" THEN "row completed" ELSE "row failed"

CloseInJournal ==
    /\ teller \in {"completed", "failed"}
    /\ teller' = RowOf(teller)
    /\ Says(FinalWord)
    /\ UNCHANGED <<rows, calls, reporter, reports, deaths>>

CloseInLedger ==
    /\ \E status \in {"completed", "failed"} : teller = RowOf(status) /\ Enters(status)
    /\ teller' = "over"
    /\ UNCHANGED <<turnEvents, calls, reporter, reports, deaths>>

-----------------------------------------------------------------------------
\* A row that is an end is returned as it is; otherwise journal, then ledger.
Report ==
    /\ reports < MaxReports
    /\ teller # "down"
    /\ reporter = "none"
    /\ reports' = reports + 1
    /\ reporter' = IF Row \in Ends THEN "none" ELSE "journal"
    /\ UNCHANGED <<turnEvents, rows, calls, teller, lost, deaths>>

InterruptInJournal ==
    /\ reporter = "journal"
    /\ reporter' = "ledger"
    /\ Says(ClosedUnseen)
    /\ UNCHANGED <<rows, calls, teller, reports, deaths>>

InterruptInLedger ==            \* this append is not excused: the request fails
    /\ reporter = "ledger"
    /\ reporter' = "none"
    /\ Enters("interrupted")
    /\ UNCHANGED <<turnEvents, calls, teller, reports, deaths>>

-----------------------------------------------------------------------------
Die ==
    /\ deaths < MaxDeaths
    /\ teller # "down"
    /\ deaths' = deaths + 1
    /\ teller' = "down"
    /\ reporter' = "none"
    /\ UNCHANGED <<turnEvents, rows, calls, lost, reports>>

\* Only the ledger is looked at for turns whose process is gone.
Start ==
    /\ Move("down", IF Row = "none" THEN "idle" ELSE "over")
    /\ reporter' = IF Row = "started" THEN "journal" ELSE "none"
    /\ UNCHANGED <<turnEvents, rows, calls, lost, reports, deaths>>

AuditNext ==
    \/ ModelAsks \/ OpenInJournal \/ OpenInLedger \/ StartTool \/ EndTool \/ Decide \/ CloseInJournal \/ CloseInLedger
    \/ Report \/ InterruptInJournal \/ InterruptInLedger \/ Die \/ Start

AuditSpec == AuditInit /\ [][AuditNext]_auditVars

-----------------------------------------------------------------------------
TurnAuditTypeOK ==
    /\ Audit.status \in {"none", "started"} \cup Ends
    /\ \A i \in DOMAIN rows : rows[i] \in {"started"} \cup Ends
    /\ \A i \in DOMAIN calls : calls[i] \in {Open, "fine", "wrong"}
    /\ reporter \in {"none", "journal", "ledger"}

\* An end the conversation shows is in the journal, whoever wrote it and wherever
\* the daemon died, as long as no append failed.
EndIsJournaledFirst ==
    lost = 0 /\ Row \in Ends => \E i \in DOMAIN turnEvents : turnEvents[i].kind # "opened" /\ turnEvents[i].status = Row

\* A turn the audit shows as ended by itself shows how every tool call ended, even
\* when the events of single calls were lost.
ClosedTurnShowsItsTools == \A i \in DOMAIN Audit.calls : Audit.calls[i] # Open

\* The two records of a turn agree as far as the order of the writes can make
\* them: an end the conversation shows is in the journal, and a turn the audit
\* shows as over shows how each of its tools ended (turn-audit.ts).
TurnAuditInv == TurnAuditTypeOK /\ EndIsJournaledFirst /\ ClosedTurnShowsItsTools
=============================================================================

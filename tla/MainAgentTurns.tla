--------------------------- MODULE MainAgentTurns ---------------------------
(* One question to the Main Agent: the query route of the companion, the       *)
(* prompt lock file (created first, its process id written after), the ledger  *)
(* of turns (append only; the last row of a turn is its status), the loop of   *)
(* model rounds, an interruption reported by a client, and the daemon that     *)
(* dies and, when it starts, closes the turns of dead processes.               *)
EXTENDS Naturals

CONSTANTS Turns,          \* turn ids the clients use
          Servers,        \* processes (or requests of one) that answer questions
          MaxRounds,      \* model rounds of one turn
          MaxDeaths,      \* deaths of a process
          MaxReports      \* interruptions reported by clients

ASSUME MainAgentAssumption == MaxRounds \in Nat \ {0} /\ MaxDeaths \in Nat /\ MaxReports \in Nat

NoTurn == "no turn"
Gone == "gone"            \* the process of a turn is dead
NoFile == [by |-> Gone, named |-> FALSE]

VARIABLES ledger,         \* the status of each turn, by its last row
          owner,          \* the process its last row names
          promptLock,     \* prompt.lock: who created it, and whether the id is written
          server,         \* where each process is with its question
          reports,        \* turns a client is reporting as interrupted
          executions,     \* how often each turn was put to the model
          deaths, reported

turnVars == <<ledger, owner, promptLock, server, reports, executions, deaths, reported>>

TurnEnds == {"completed", "failed", "interrupted"}
Idle == [at |-> "idle", turn |-> NoTurn, round |-> 0, outcome |-> "none"]
Inside == {"naming", "preparing", "running", "closing", "leaving"}
Steps == {"down", "idle", "opening", "reading", "unlinking", "answered"} \cup Inside
Answers == {"none", "reply", "busy", "over", "broken"}

TurnsInit ==
    /\ ledger = [t \in Turns |-> "none"]
    /\ owner = [t \in Turns |-> Gone]
    /\ promptLock = NoFile
    /\ server = [p \in Servers |-> Idle]
    /\ reports = {}
    /\ executions = [t \in Turns |-> 0]
    /\ deaths = 0
    /\ reported = 0

Step(p, here, there) == server[p].at = here /\ server' = [server EXCEPT ![p].at = there]
Reply(p, outcome) ==
    server' = [server EXCEPT ![p] = [Idle EXCEPT !.at = "answered", !.turn = server[p].turn, !.outcome = outcome]]

-----------------------------------------------------------------------------
(* The query route: a turn id that was used before answers from the ledger.    *)

KnownAnswer(t) ==
    CASE ledger[t] = "completed" -> "reply"
      [] ledger[t] \in {"failed", "interrupted", "started"} -> "over"
      [] OTHER -> "none"

Receive(p, t) ==
    /\ server[p].at = "idle"
    /\ LET answer == KnownAnswer(t) IN
       server' = [server EXCEPT ![p] = [Idle EXCEPT !.at = IF answer = "none" THEN "opening" ELSE "answered",
                                                    !.turn = t, !.outcome = answer]]
    /\ UNCHANGED <<ledger, owner, promptLock, reports, executions, deaths, reported>>

-----------------------------------------------------------------------------
(* prompt.lock.  An empty file, or one whose process is dead, is stale.        *)
OpenLock(p) ==
    /\ server[p].at = "opening"
    /\ IF promptLock = NoFile
       THEN /\ promptLock' = [by |-> p, named |-> FALSE]
            /\ server' = [server EXCEPT ![p].at = "naming"]
       ELSE /\ server' = [server EXCEPT ![p].at = "reading"]
            /\ UNCHANGED promptLock
    /\ UNCHANGED <<ledger, owner, reports, executions, deaths, reported>>

NameLock(p) ==                  \* a lock file that was unlinked is written all the same
    /\ Step(p, "naming", "preparing")
    /\ promptLock' = IF promptLock.by = p THEN [promptLock EXCEPT !.named = TRUE] ELSE promptLock
    /\ UNCHANGED <<ledger, owner, reports, executions, deaths, reported>>

Stale == promptLock.by = Gone \/ ~promptLock.named

ReadLock(p) ==
    /\ server[p].at = "reading"
    /\ IF Stale THEN server' = [server EXCEPT ![p].at = "unlinking"] ELSE Reply(p, "busy")
    /\ UNCHANGED <<ledger, owner, promptLock, reports, executions, deaths, reported>>

UnlinkStale(p) ==
    /\ Step(p, "unlinking", "opening")
    /\ promptLock' = NoFile
    /\ UNCHANGED <<ledger, owner, reports, executions, deaths, reported>>

Leave(p) ==
    /\ server[p].at = "leaving"
    /\ Reply(p, server[p].outcome)
    /\ promptLock' = NoFile
    /\ UNCHANGED <<ledger, owner, reports, executions, deaths, reported>>

-----------------------------------------------------------------------------
(* The turn itself.                                                            *)
BeginTurn(p) ==
    /\ Step(p, "preparing", "running")
    /\ ledger' = [ledger EXCEPT ![server[p].turn] = "started"]
    /\ owner' = [owner EXCEPT ![server[p].turn] = p]
    /\ executions' = [executions EXCEPT ![server[p].turn] = @ + 1]
    /\ UNCHANGED <<promptLock, reports, deaths, reported>>

PrepareFails(p) ==              \* no endpoint, or a prompt that cannot be compiled
    /\ server[p].at = "preparing"
    /\ server' = [server EXCEPT ![p].at = "leaving", ![p].outcome = "broken"]
    /\ UNCHANGED <<ledger, owner, promptLock, reports, executions, deaths, reported>>

MoreRounds(p) == server[p].round + 1 < MaxRounds

CallTools(p) ==                 \* the model asks for tools; their failures go back to it
    /\ server[p].at = "running"
    /\ server' = IF MoreRounds(p)
                 THEN [server EXCEPT ![p].round = @ + 1]
                 ELSE [server EXCEPT ![p].at = "closing", ![p].outcome = "broken"]
    /\ UNCHANGED <<ledger, owner, promptLock, reports, executions, deaths, reported>>

ModelEnds(p) ==                 \* a visible reply, or an error or an empty one
    /\ server[p].at = "running"
    /\ \E outcome \in {"reply", "broken"} :
          server' = [server EXCEPT ![p].at = "closing", ![p].outcome = outcome]
    /\ UNCHANGED <<ledger, owner, promptLock, reports, executions, deaths, reported>>

FinishTurn(p) ==
    /\ Step(p, "closing", "leaving")
    /\ ledger' = [ledger EXCEPT ![server[p].turn] = IF server[p].outcome = "reply" THEN "completed" ELSE "failed"]
    /\ owner' = [owner EXCEPT ![server[p].turn] = p]
    /\ UNCHANGED <<promptLock, reports, executions, deaths, reported>>

Hang(p) ==                      \* the client has read the answer, or has gone
    /\ server[p].at = "answered"
    /\ server' = [server EXCEPT ![p] = Idle]
    /\ UNCHANGED <<ledger, owner, promptLock, reports, executions, deaths, reported>>

-----------------------------------------------------------------------------
(* An interruption reported by a client: the ledger is read, then written.     *)
Report(t) ==
    /\ reported < MaxReports
    /\ reported' = reported + 1
    /\ reports' = IF ledger[t] \in TurnEnds THEN reports ELSE reports \cup {t}
    /\ UNCHANGED <<ledger, owner, promptLock, server, executions, deaths>>

RecordInterrupted(t) ==
    /\ t \in reports
    /\ reports' = reports \ {t}
    /\ ledger' = [ledger EXCEPT ![t] = "interrupted"]
    /\ UNCHANGED <<owner, promptLock, server, executions, deaths, reported>>

-----------------------------------------------------------------------------
\* The lock file stays; empty or not, it is stale from now on.
Die(p) ==
    /\ deaths < MaxDeaths
    /\ server[p].at # "down"
    /\ deaths' = deaths + 1
    /\ server' = [server EXCEPT ![p] = [Idle EXCEPT !.at = "down"]]
    /\ owner' = [t \in Turns |-> IF owner[t] = p THEN Gone ELSE owner[t]]
    /\ promptLock' = IF promptLock.by = p THEN [promptLock EXCEPT !.by = Gone, !.named = TRUE] ELSE promptLock
    /\ UNCHANGED <<ledger, reports, executions, reported>>

\* Mutant: a daemon that starts leaves the turns of dead processes as they are.
LeftAsTheyWere == ledger

Reconciled == [t \in Turns |-> IF ledger[t] = "started" /\ owner[t] = Gone THEN "interrupted" ELSE ledger[t]]

StartDaemon(p) ==
    /\ server[p].at = "down"
    /\ server' = [server EXCEPT ![p] = Idle]
    /\ ledger' = Reconciled
    /\ UNCHANGED <<owner, promptLock, reports, executions, deaths, reported>>

AnswerStep(p) ==
    \/ OpenLock(p) \/ NameLock(p) \/ ReadLock(p) \/ UnlinkStale(p)
    \/ BeginTurn(p) \/ PrepareFails(p) \/ CallTools(p) \/ ModelEnds(p) \/ FinishTurn(p) \/ Leave(p)
    \/ StartDaemon(p)

TurnsNext ==
    \/ \E p \in Servers : AnswerStep(p) \/ Hang(p) \/ Die(p) \/ \E t \in Turns : Receive(p, t)
    \/ \E t \in Turns : Report(t) \/ RecordInterrupted(t)

TurnsSpec == TurnsInit /\ [][TurnsNext]_turnVars

\* The requests of a daemon come one after the other.
OneAtATime == \A p, q \in Servers : p = q

-----------------------------------------------------------------------------
TurnsTypeOK ==
    /\ ledger \in [Turns -> {"none", "started"} \cup TurnEnds] /\ owner \in [Turns -> Servers \cup {Gone}]
    /\ promptLock \in [by : Servers \cup {Gone}, named : BOOLEAN]
    /\ server \in [Servers -> [at : Steps, turn : Turns \cup {NoTurn}, round : 0..MaxRounds, outcome : Answers]]
    /\ reports \subseteq Turns
    /\ executions \in [Turns -> Nat] /\ {deaths, reported} \subseteq Nat

\* A question is put to the model at most once, however often the client asks it
\* again with the same turn id and wherever the daemon dies in between.
TurnRunsOnce == \A t \in Turns : executions[t] <= 1

\* A turn that started comes to an end, even when its daemon dies.
TurnsComeToAnEnd == \A t \in Turns : (ledger[t] = "started") ~> (ledger[t] \in TurnEnds)

\* A turn is put to the model at most once, over retries of the client, stale
\* locks and deaths of the daemon (native-runtime.ts, prompt-lock.ts).
TurnsInv == TurnsTypeOK /\ TurnRunsOnce
=============================================================================

----------------------------- MODULE Companion ------------------------------
(* The life of the daemon: each start of it (a boot) writes its token, starts  *)
(* the queue, sweeps once, listens and publishes its endpoint; closing stops   *)
(* the clocks, waits for what is under way and closes the journal last.  Boots *)
(* share one data directory, and with it the token and the endpoint files that *)
(* the message bridge reads, one after the other, before every call.           *)
EXTENDS Naturals, FiniteSets

CONSTANTS MaxBoots,       \* starts of a daemon on the data directory
          FixedPort,      \* every boot asks for the same port (CLI), or for any (desktop)
          MaxCrashes, MaxSweeps, MaxRequests, MaxAsks

ASSUME CompanionAssumption ==
    /\ MaxBoots \in Nat \ {0} /\ FixedPort \in BOOLEAN
    /\ MaxCrashes \in Nat /\ MaxSweeps \in Nat /\ MaxRequests \in Nat /\ MaxAsks \in Nat

Boots == 1..MaxBoots
NoBoot == 0

VARIABLES at,             \* where each boot is in its life
          sweeping,       \* boots with a maintenance pass under way
          running,        \* boots whose queue executes a run
          handling,       \* boots with a request in its handler
          stranded,       \* of those, the requests whose client hung up
          tokenFile, endpointFile,      \* companion.token and companion-endpoint.json
          listener,       \* boots that hold a port
          ask             \* the call of the bridge: the endpoint and the token it read
VARIABLE spent            \* crashes, sweeps, requests and asks so far

companionVars == <<at, sweeping, running, handling, stranded, tokenFile, endpointFile, listener, ask, spent>>
fileVars == <<tokenFile, endpointFile>>
workVars == <<sweeping, running, handling, stranded>>

Phases == {"unborn", "preparing", "sweeping", "binding", "announcing", "open",
           "failed", "stopping", "draining", "leaving", "unlinking", "closed", "dead"}
NoAsk == [at |-> "none", endpoint |-> NoBoot, token |-> NoBoot]

CompanionInit ==
    /\ at = [b \in Boots |-> "unborn"]
    /\ sweeping = {} /\ running = {} /\ handling = {} /\ stranded = {}
    /\ tokenFile = NoBoot /\ endpointFile = NoBoot
    /\ listener = {}
    /\ ask = NoAsk
    /\ spent = [crashes |-> 0, sweeps |-> 0, requests |-> 0, asks |-> 0]

Go(b, here, there) == at[b] = here /\ at' = [at EXCEPT ![b] = there]
Spend(kind, limit) == spent[kind] < limit /\ spent' = [spent EXCEPT ![kind] = @ + 1]
QueueOn == {"sweeping", "binding", "announcing", "open", "failed"}

-----------------------------------------------------------------------------
(* Start.                                                                      *)
Prepare(b) ==                   \* home, legacy copy, turns of dead processes; the token is written
    /\ Go(b, "unborn", "preparing")
    /\ b > 1 => at[b - 1] # "unborn"
    /\ tokenFile' = b
    /\ UNCHANGED <<endpointFile, listener, ask, spent>> /\ UNCHANGED workVars

Assemble(b) ==                  \* the journal opens, the queue starts, the first pass begins
    /\ Go(b, "preparing", "sweeping")
    /\ sweeping' = sweeping \cup {b}
    /\ UNCHANGED <<running, handling, stranded, listener, ask, spent>> /\ UNCHANGED fileVars

FirstSweepDone(b) ==
    /\ Go(b, "sweeping", "binding")
    /\ sweeping' = sweeping \ {b}
    /\ UNCHANGED <<running, handling, stranded, listener, ask, spent>> /\ UNCHANGED fileVars

\* A port that is taken rejects the start: the process ends once its queue is
\* idle, and what it wrote stays.
Bind(b) ==
    /\ IF FixedPort /\ listener # {}
       THEN Go(b, "binding", "failed") /\ UNCHANGED listener
       ELSE Go(b, "binding", "announcing") /\ listener' = listener \cup {b}
    /\ UNCHANGED <<ask, spent>> /\ UNCHANGED fileVars /\ UNCHANGED workVars

Announce(b) ==
    /\ Go(b, "announcing", "open")
    /\ endpointFile' = b
    /\ UNCHANGED <<tokenFile, listener, ask, spent>> /\ UNCHANGED workVars

-----------------------------------------------------------------------------
(* Work: runs of the queue, passes of the timer (one at a time), requests.     *)
StartRun(b) ==
    /\ at[b] \in QueueOn /\ b \notin running
    /\ running' = running \cup {b}
    /\ UNCHANGED <<at, sweeping, handling, stranded, listener, ask, spent>> /\ UNCHANGED fileVars

EndRun(b) ==
    /\ b \in running
    /\ running' = running \ {b}
    /\ UNCHANGED <<at, sweeping, handling, stranded, listener, ask, spent>> /\ UNCHANGED fileVars

StartMaintenance(b) ==          \* a pass under way is joined, not repeated
    /\ at[b] \in {"announcing", "open"} /\ b \notin sweeping
    /\ Spend("sweeps", MaxSweeps)
    /\ sweeping' = sweeping \cup {b}
    /\ UNCHANGED <<at, running, handling, stranded, listener, ask>> /\ UNCHANGED fileVars

EndMaintenance(b) ==
    /\ b \in sweeping /\ at[b] # "sweeping"
    /\ sweeping' = sweeping \ {b}
    /\ UNCHANGED <<at, running, handling, stranded, listener, ask, spent>> /\ UNCHANGED fileVars

Request(b) ==
    /\ b \in listener /\ b \notin handling
    /\ Spend("requests", MaxRequests)
    /\ handling' = handling \cup {b}
    /\ UNCHANGED <<at, sweeping, running, stranded, listener, ask>> /\ UNCHANGED fileVars

HangUp(b) ==                    \* the client is gone, the handler goes on
    /\ b \in handling \ stranded
    /\ stranded' = stranded \cup {b}
    /\ UNCHANGED <<at, sweeping, running, handling, listener, ask, spent>> /\ UNCHANGED fileVars

Respond(b) ==
    /\ b \in handling
    /\ handling' = handling \ {b} /\ stranded' = stranded \ {b}
    /\ UNCHANGED <<at, sweeping, running, listener, ask, spent>> /\ UNCHANGED fileVars

-----------------------------------------------------------------------------
(* Close: clear the timers and stop listening; wait for the queue; then for    *)
(* the passes; then for the connections; then the endpoint and the journal.    *)
StopListening(b) ==
    /\ Go(b, "open", "stopping")
    /\ listener' = listener \ {b}
    /\ UNCHANGED <<ask, spent>> /\ UNCHANGED fileVars /\ UNCHANGED workVars

QueueStopped(b) ==
    /\ b \notin running
    /\ Go(b, "stopping", "draining")
    /\ UNCHANGED <<listener, ask, spent>> /\ UNCHANGED fileVars /\ UNCHANGED workVars

\* Mutant: the pass under way is not waited for.
DrainedAtOnce(b) == b \notin handling \ stranded

Drained(b) == b \notin sweeping /\ b \notin handling \ stranded

Owned(b) == endpointFile = b

ReadEndpointOnClose(b) ==
    /\ Drained(b)
    /\ Go(b, "draining", IF Owned(b) THEN "unlinking" ELSE "leaving")
    /\ UNCHANGED <<listener, ask, spent>> /\ UNCHANGED fileVars /\ UNCHANGED workVars

UnlinkEndpoint(b) ==
    /\ Go(b, "unlinking", "leaving")
    /\ endpointFile' = NoBoot
    /\ UNCHANGED <<tokenFile, listener, ask, spent>> /\ UNCHANGED workVars

CloseJournal(b) ==
    /\ Go(b, "leaving", "closed")
    /\ UNCHANGED <<listener, ask, spent>> /\ UNCHANGED fileVars /\ UNCHANGED workVars

Exit(b) ==                      \* close has returned, or nothing keeps a failed start alive
    /\ Go(b, "closed", "dead") \/ (Go(b, "failed", "dead") /\ b \notin running)
    /\ handling' = handling \ {b} /\ stranded' = stranded \ {b}
    /\ UNCHANGED <<sweeping, running, listener, ask, spent>> /\ UNCHANGED fileVars

Crash(b) ==
    /\ at[b] \notin {"unborn", "dead"}
    /\ Spend("crashes", MaxCrashes)
    /\ at' = [at EXCEPT ![b] = "dead"]
    /\ sweeping' = sweeping \ {b} /\ running' = running \ {b}
    /\ handling' = handling \ {b} /\ stranded' = stranded \ {b}
    /\ listener' = listener \ {b}
    /\ UNCHANGED <<ask>> /\ UNCHANGED fileVars

-----------------------------------------------------------------------------
(* The bridge reads the endpoint, then the token, then calls.                  *)
ReadEndpoint ==
    /\ ask.at = "none" /\ endpointFile # NoBoot
    /\ Spend("asks", MaxAsks)
    /\ ask' = [NoAsk EXCEPT !.at = "endpoint", !.endpoint = endpointFile]
    /\ UNCHANGED <<at, listener>> /\ UNCHANGED fileVars /\ UNCHANGED workVars

ReadToken ==
    /\ ask.at = "endpoint"
    /\ ask' = [ask EXCEPT !.at = "token", !.token = tokenFile]
    /\ UNCHANGED <<at, listener, spent>> /\ UNCHANGED fileVars /\ UNCHANGED workVars

\* A daemon that is gone is tried again later; an answer of 401 is not.
Answered(endpoint, token) ==
    IF endpoint \notin listener THEN "offline"
    ELSE IF endpoint # token THEN "refused" ELSE "served"

Call ==
    /\ ask.at = "token"
    /\ ask' = [ask EXCEPT !.at = Answered(ask.endpoint, ask.token)]
    /\ UNCHANGED <<at, listener, spent>> /\ UNCHANGED fileVars /\ UNCHANGED workVars

Settle ==
    /\ ask.at \in {"offline", "refused", "served"}
    /\ ask' = NoAsk
    /\ UNCHANGED <<at, listener, spent>> /\ UNCHANGED fileVars /\ UNCHANGED workVars

Bridge == ReadEndpoint \/ ReadToken \/ Call \/ Settle

Life(b) ==
    \/ Prepare(b) \/ Assemble(b) \/ FirstSweepDone(b) \/ Bind(b) \/ Announce(b)
    \/ StartRun(b) \/ EndRun(b) \/ StartMaintenance(b) \/ EndMaintenance(b)
    \/ Request(b) \/ HangUp(b) \/ Respond(b)
    \/ StopListening(b) \/ QueueStopped(b) \/ ReadEndpointOnClose(b) \/ UnlinkEndpoint(b)
    \/ CloseJournal(b) \/ Exit(b) \/ Crash(b)

CompanionNext == Bridge \/ \E b \in Boots : Life(b)

CompanionSpec == CompanionInit /\ [][CompanionNext]_companionVars

-----------------------------------------------------------------------------
\* The phases, files and calls stay among those the code can write.
CompanionTypeOK ==
    /\ at \in [Boots -> Phases]
    /\ sweeping \cup running \cup handling \cup listener \subseteq Boots
    /\ stranded \subseteq handling
    /\ {tokenFile, endpointFile} \subseteq Boots \cup {NoBoot}
    /\ ask \in [at : {"none", "endpoint", "token", "offline", "refused", "served"},
                endpoint : Boots \cup {NoBoot}, token : Boots \cup {NoBoot}]

\* The journal is closed last: neither the queue nor a maintenance pass, nor a
\* request whose client still waits, is under way once a boot has closed it
\* (companion-server.ts close; the order of the awaits is what holds this).
JournalOutlivesWork ==
    \A b \in Boots : at[b] = "closed" => b \notin running \cup sweeping \cup (handling \ stranded)

\* While daemons start, crash and close on one directory, a journal is closed
\* only after the last work of its boot (close in companion-server.ts).
CompanionInv == CompanionTypeOK /\ JournalOutlivesWork
=============================================================================

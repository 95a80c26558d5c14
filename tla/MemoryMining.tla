---------------------------- MODULE MemoryMining ----------------------------
(* Mining of finished runs and of conversations for memory candidates         *)
(* (memory/memory-pipeline.ts, memory/conversation-memory-pipeline.ts and the *)
(* maintenance loop of companion-server.ts).  A job is a run with the outcome *)
(* it is mined for, or a conversation exchange.  The journal knows what was   *)
(* requested and what was mined; every process has a queue of its own, which  *)
(* the daemon rebuilds, and one lock serializes the mining of all of them.    *)
EXTENDS Naturals, Sequences, FiniteSets, SequencesExt

CONSTANTS
  RunJobs,      \* runs, each with an outcome
  TalkJobs,     \* conversation exchanges
  Poison,       \* the jobs whose extraction always fails
  Foreground,        \* a process that executes a run and mines it
  Background,       \* the process of the companion server
  MaxMiningFailures,  \* bound on the other failures of an extraction
  MaxMiningDeaths     \* bound on the deaths of a process

ASSUME MiningConstants ==
  /\ Foreground # Background
  /\ MaxMiningFailures \in Nat /\ MaxMiningDeaths \in Nat

VARIABLES
  requested,  \* the requests in the journal, oldest first
  quoted,     \* the exchanges whose turns are in the journal as evidence
  mined,      \* mined[j]: the batches of candidates published for j
  closed,     \* the exchanges marked memory.conversation.extracted
  queue,      \* queue[p]: #pending of the pipeline of process p
  work,       \* work[p]: where p is and with which job
  due,        \* the exchanges processDue has still to go through
  holder,     \* who holds the extraction lock
  mishaps     \* what was used of the bounds

miningVars == <<requested, quoted, mined, closed, queue, work, due, holder, mishaps>>

MiningJobs == RunJobs \cup TalkJobs
Miners == {Foreground, Background}
NoJob == {}
AtRest == [step |-> "idle", job |-> NoJob]

MiningTypeOK ==
  /\ ToSet(requested) \subseteq MiningJobs /\ Len(requested) = Cardinality(ToSet(requested))
  /\ closed \subseteq quoted /\ quoted \subseteq TalkJobs
  /\ mined \in [MiningJobs -> Nat]
  /\ \A p \in Miners : /\ ToSet(queue[p]) \subseteq MiningJobs
                       /\ work[p].job \subseteq MiningJobs /\ Cardinality(work[p].job) <= 1
                       /\ work[p].step \in {"idle", "drain", "taken", "mining", "sweep", "due", "executed", "dueTaken",
                                            "dueMining", "dueMined"}
  /\ ToSet(due) \subseteq TalkJobs
  /\ holder \subseteq Miners /\ Cardinality(holder) <= 1
  /\ mishaps \in [failures : 0 .. MaxMiningFailures, deaths : 0 .. MaxMiningDeaths]

MiningInit ==
  /\ requested = <<>> /\ due = <<>>
  /\ quoted = {} /\ closed = {}
  /\ mined = [j \in MiningJobs |-> 0]
  /\ queue = [p \in Miners |-> <<>>]
  /\ work = [p \in Miners |-> AtRest]
  /\ holder = {}
  /\ mishaps = [failures |-> 0, deaths |-> 0]

JobOf(p) == CHOOSE j \in work[p].job : TRUE
Goes(p, step, job) == work' = [work EXCEPT ![p] = [step |-> step, job |-> job]]
\* enqueue: a job is in a queue once.
Enqueued(q, j) == IF j \in ToSet(q) THEN q ELSE Append(q, j)
\* What a filter keeps of a queue, in its order.
Kept(s, S) ==
  LET kept[i \in 0 .. Len(s)] ==
        IF i = 0 THEN <<>>
        ELSE IF s[i] \in S THEN Append(kept[i - 1], s[i]) ELSE kept[i - 1]
  IN kept[Len(s)]

-----------------------------------------------------------------------------

\* The verdict of a run carries the request in its batch; the runtime that
\* wrote it enqueues the job.  The daemon also requests the lessons of a run
\* the owner labeled failed (requestFromJournal), unless it did before.
RequestMining(p, j) ==
  /\ j \in RunJobs /\ j \notin ToSet(requested)
  /\ p = Foreground => work[p].step = "idle"
  /\ requested' = Append(requested, j)
  /\ queue' = [queue EXCEPT ![p] = Enqueued(@, j)]
  /\ IF p = Foreground THEN Goes(p, "executed", {j}) ELSE UNCHANGED work
  /\ UNCHANGED <<quoted, mined, closed, due, holder, mishaps>>

\* record: the request is one append, the turns it quotes a second one.
Ask(j) ==
  /\ j \in TalkJobs /\ j \notin ToSet(requested)
  /\ requested' = Append(requested, j)
  /\ UNCHANGED <<quoted, mined, closed, queue, work, due, holder, mishaps>>

Quote(j) ==
  /\ j \in TalkJobs \cap ToSet(requested) /\ j \notin quoted
  /\ quoted' = quoted \cup {j}
  /\ UNCHANGED <<requested, mined, closed, queue, work, due, holder, mishaps>>

-----------------------------------------------------------------------------

\* The maintenance tick of the daemon: rebuild the queue from the journal ...
Rebuild ==
  /\ work[Background].step = "idle"
  /\ LET open == {j \in RunJobs : mined[j] = 0} IN
     queue' = [queue EXCEPT ![Background] = @ \o Kept(requested, open \ ToSet(@))]
  /\ Goes(Background, "drain", NoJob)
  /\ UNCHANGED <<requested, quoted, mined, closed, due, holder, mishaps>>

\* ... process it from its head (processNext) ...
TakeNext ==
  /\ work[Background].step = "drain" /\ queue[Background] # <<>>
  /\ Goes(Background, "taken", {Head(queue[Background])})
  /\ queue' = [queue EXCEPT ![Background] = Tail(@)]
  /\ UNCHANGED <<requested, quoted, mined, closed, due, holder, mishaps>>

\* ... and then the conversations, from one reading of the journal
\* (conversationJobsFromEvents): those with evidence that are not closed.
BeginDue ==
  /\ \/ work[Background].step = "drain" /\ queue[Background] = <<>>
     \/ work[Background].step = "sweep"
  /\ due' = Kept(requested, quoted \ closed)
  /\ Goes(Background, "due", NoJob)
  /\ UNCHANGED <<requested, quoted, mined, closed, queue, holder, mishaps>>

TakeDue ==
  /\ work[Background].step = "due"
  /\ IF due = <<>> THEN Goes(Background, "idle", NoJob) /\ UNCHANGED due
     ELSE Goes(Background, "dueTaken", {Head(due)}) /\ due' = Tail(due)
  /\ UNCHANGED <<requested, quoted, mined, closed, queue, holder, mishaps>>

\* executeClaimingRun mines the run it has just finished: processNext(runId).
TakeRun ==
  /\ work[Foreground].step = "executed"
  /\ Goes(Foreground, "taken", work[Foreground].job)
  /\ queue' = [queue EXCEPT ![Foreground] = Kept(@, MiningJobs \ {JobOf(Foreground)})]
  /\ UNCHANGED <<requested, quoted, mined, closed, due, holder, mishaps>>

-----------------------------------------------------------------------------
Mining(p) == CASE work[p].step = "taken" -> "mining" [] work[p].step = "dueTaken" -> "dueMining"
Served(p) == IF work[p].step \in {"dueTaken", "dueMining"} THEN "dueMined"
             ELSE IF p = Background THEN "drain" ELSE "idle"

\* Mutant of Enter: a job in the queue is taken for a job to do.
EnterUnchecked(p) ==
  /\ work[p].step \in {"taken", "dueTaken"} /\ holder = {}
  /\ Goes(p, Mining(p), work[p].job) /\ holder' = {p}
  /\ UNCHANGED <<requested, quoted, mined, closed, queue, due, mishaps>>

\* processJob under the lock: what another process mined meanwhile is not mined
\* again.
Enter(p) ==
  /\ work[p].step \in {"taken", "dueTaken"} /\ holder = {}
  /\ IF mined[JobOf(p)] > 0
     THEN /\ Goes(p, Served(p), IF Served(p) = "dueMined" THEN work[p].job ELSE NoJob)
          /\ UNCHANGED holder
     ELSE Goes(p, Mining(p), work[p].job) /\ holder' = {p}
  /\ UNCHANGED <<requested, quoted, mined, closed, queue, due, mishaps>>

\* The candidates and their marker are one batch.
Publish(p) ==
  /\ work[p].step \in {"mining", "dueMining"} /\ JobOf(p) \notin Poison
  /\ mined' = [mined EXCEPT ![JobOf(p)] = @ + 1]
  /\ Goes(p, Served(p), IF Served(p) = "dueMined" THEN work[p].job ELSE NoJob)
  /\ holder' = {}
  /\ UNCHANGED <<requested, quoted, closed, queue, due, mishaps>>

\* A job that fails goes to the end of the queue, and the error ends the loop
\* it occurred in: the drain, or processDue and with it the tick.
FailJob(p) ==
  /\ work[p].step \in {"mining", "dueMining"}
  /\ JobOf(p) \in Poison \/ mishaps.failures < MaxMiningFailures
  /\ mishaps' = IF JobOf(p) \in Poison THEN mishaps ELSE [mishaps EXCEPT !.failures = @ + 1]
  /\ queue' = [queue EXCEPT ![p] = Enqueued(@, JobOf(p))]
  /\ Goes(p, IF p = Background /\ work[p].step = "mining" THEN "sweep" ELSE "idle", NoJob)
  /\ holder' = {}
  /\ UNCHANGED <<requested, quoted, mined, closed, due>>

\* processDue closes the exchange, mined by it or by somebody before it.
CloseExchange ==
  /\ work[Background].step = "dueMined"
  /\ closed' = closed \cup work[Background].job
  /\ Goes(Background, "due", NoJob)
  /\ UNCHANGED <<requested, quoted, mined, queue, due, holder, mishaps>>

\* A process dies: its queue and its lock are gone, the journal is not.
MinerDies(p) ==
  /\ mishaps.deaths < MaxMiningDeaths
  /\ mishaps' = [mishaps EXCEPT !.deaths = @ + 1]
  /\ work' = [work EXCEPT ![p] = AtRest]
  /\ queue' = [queue EXCEPT ![p] = <<>>]
  /\ holder' = holder \ {p}
  /\ UNCHANGED <<requested, quoted, mined, closed, due>>

Mine(p) == Enter(p) \/ Publish(p) \/ FailJob(p)
Maintain == Rebuild \/ TakeNext \/ BeginDue \/ TakeDue \/ Mine(Background) \/ CloseExchange

MiningNext ==
  \/ \E j \in MiningJobs : Ask(j) \/ Quote(j) \/ \E p \in Miners : RequestMining(p, j)
  \/ Maintain \/ TakeRun \/ Mine(Foreground)
  \/ \E p \in Miners : MinerDies(p)

MiningSpec == MiningInit /\ [][MiningNext]_miningVars

-----------------------------------------------------------------------------
\* Whatever processes rebuild, retry and die, a job is mined into candidates
\* at most once.
MinedOnce == \A j \in MiningJobs : mined[j] <= 1

\* An exchange is closed only when it was mined.
ClosedWasMined == \A j \in closed : mined[j] = 1

\* A finished run is mined, and so is an exchange whose turns were recorded,
\* even when the job of another run fails every time it is tried: its error
\* must not keep the others from their turn for good.
JobsAreMined ==
  /\ \A j \in RunJobs \ Poison : (j \in ToSet(requested)) ~> (mined[j] > 0)
  /\ \A j \in TalkJobs \ Poison : (j \in quoted) ~> (j \in closed)

\* Whatever processes rebuild, retry and die: a job is mined into candidates at
\* most once, an exchange is closed only when it was, and the queues hold jobs
\* that were requested once (memory-pipeline.ts, conversation-memory-pipeline.ts).
MiningInv == MiningTypeOK /\ MinedOnce /\ ClosedWasMined
=============================================================================

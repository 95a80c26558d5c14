---------------------------- MODULE NativeWorker ----------------------------
(* One attempt of the in-process worker (workers/native-agent-worker.ts) at a *)
(* work order: the conversation of its client with the model                  *)
(* (workers/openai-compatible-client.ts), the gate of every tool call, the    *)
(* deadline, and what the kernel is told.  The model may call what it likes.  *)
EXTENDS Scopes

CONSTANTS
  Places,         \* paths the model may name
  Orders,         \* [scopes, named]: the scopes of the step, the paths its text names
  MaxModelRounds,      \* OpenAiCompatibleClient maxRounds
  MaxCalls,       \* bound of the calls of one reply
  MaxToolCalls    \* the order's budget

ASSUME WorkerAssumption == MaxModelRounds \in Nat /\ MaxCalls \in Nat

VARIABLES
  workOrder,
  present,      \* the files that exist
  rounds,       \* replies of the model
  calls,        \* calls of the last reply still to be made: [tool, place]
  made,         \* the tools run, how often left out: [tool, place, failed]
  counted,      \* calls the client reported to the worker
  produced,     \* evidence: [kind, place]
  missing,      \* named files that could not be read
  aborted,      \* no, deadline, budget: why the attempt's signal fired
  late,         \* tools run since it did
  ending       \* running, completed, failed

workerVars == <<workOrder, present, rounds, calls, made, counted, produced, missing, aborted, late, ending>>

Tools == [read_file |-> "read", list_directory |-> "read", write_file |-> "write"]

WorkerTypeOK ==
  /\ workOrder \in Orders /\ present \subseteq Places
  /\ rounds \in 0 .. MaxModelRounds /\ Len(calls) <= MaxCalls
  /\ \A i \in DOMAIN calls : calls[i].tool \in DOMAIN Tools /\ calls[i].place \in Places
  /\ counted \in Nat /\ missing \subseteq workOrder.named
  /\ aborted \in {"no", "deadline", "budget"} /\ ending \in {"running", "completed", "failed"}

WorkerInit ==
  /\ workOrder \in Orders /\ present \in SUBSET Places
  /\ rounds = 0 /\ calls = <<>> /\ made = {} /\ counted = 0 /\ produced = {} /\ missing = {}
  /\ aborted = "no" /\ late = 0 /\ ending = "running"

-----------------------------------------------------------------------------

\* A reply with calls, when the signal has not fired.
ModelReply(next) ==
  /\ ending = "running" /\ calls = <<>> /\ rounds < MaxModelRounds /\ aborted = "no"
  /\ rounds' = rounds + 1 /\ calls' = next
  /\ UNCHANGED <<workOrder, present, made, counted, produced, missing, aborted, late, ending>>

\* decideTool: a path lies in a granted root.
Admitted(call) == \E root \in Grants(workOrder.scopes).roots : <<root, call.place>> \in Within

Refuse ==
  /\ ending = "running" /\ calls # <<>>
  /\ IF counted >= MaxToolCalls THEN aborted' = "budget"
     ELSE ~Admitted(Head(calls)) /\ UNCHANGED aborted
  /\ calls' = Tail(calls)
  /\ UNCHANGED <<workOrder, present, rounds, made, counted, produced, missing, late, ending>>

\* Mutant of Named: only what the step's own text names, in no round but the first.
NamedAtFirst(place) == place \in workOrder.named /\ rounds = 1

Named(place) == place \in workOrder.named

MayFail(call) ==
  IF call.tool = "write_file" THEN BOOLEAN ELSE {call.tool = "read_file" /\ call.place \notin present}

\* A tool that is run.  The client tells the worker nothing, so nothing is
\* counted.  A directory that cannot be listed is an empty one; whether a write
\* succeeds is the file system's.
RunTool ==
  /\ ending = "running" /\ calls # <<>> /\ counted < MaxToolCalls /\ Admitted(Head(calls))
  /\ LET call == Head(calls) IN \E fails \in MayFail(call) :
        /\ present' = IF call.tool = "write_file" /\ ~fails THEN present \cup {call.place} ELSE present
        /\ produced' = IF fails \/ \E e \in produced : e.place = call.place THEN produced
                       ELSE produced \cup {[kind |-> IF call.tool = "write_file" THEN "artifact" ELSE "observation",
                                            place |-> call.place]}
        /\ missing' = IF fails /\ call.tool = "read_file" /\ Named(call.place) THEN missing \cup {call.place} ELSE missing
        /\ made' = made \cup {[tool |-> call.tool, place |-> call.place, failed |-> fails]}
  /\ calls' = Tail(calls) /\ late' = IF aborted = "no" THEN late ELSE late + 1
  /\ UNCHANGED <<workOrder, rounds, counted, aborted, ending>>

\* The deadline aborts the signal; the request under way, if any, is dropped.
Deadline ==
  /\ ending = "running" /\ aborted = "no" /\ aborted' = "deadline"
  /\ UNCHANGED <<workOrder, present, rounds, calls, made, counted, produced, missing, late, ending>>

\* The end of the loop: an answer without calls, or the limit of its rounds,
\* where nobody looks at the signal.
End ==
  /\ ending = "running" /\ calls = <<>> /\ (aborted = "no" \/ rounds = MaxModelRounds)
  /\ ending' = IF missing # {} THEN "failed" ELSE "completed"
  /\ UNCHANGED <<workOrder, present, rounds, calls, made, counted, produced, missing, aborted, late>>

\* A request that fails, or the signal found fired at the head of a round.
Abort ==
  /\ ending = "running" /\ calls = <<>> /\ rounds < MaxModelRounds /\ ending' = "failed"
  /\ UNCHANGED <<workOrder, present, rounds, calls, made, counted, produced, missing, aborted, late>>

Call == [tool : DOMAIN Tools, place : Places]
WorkerStep == Refuse \/ RunTool \/ End \/ Abort
WorkerNext ==
  \/ WorkerStep \/ Deadline
  \/ \E n \in 1 .. MaxCalls : \E next \in [1 .. n -> Call] : ModelReply(next)

WorkerSpec == WorkerInit /\ [][WorkerNext]_workerVars

-----------------------------------------------------------------------------
\* An attempt that completes read every file its order names that it tried to
\* read: the model is not left to invent what it could not.  Nothing of the kind
\* is asked of a file it failed to write.
NothingInvented ==
  ending = "completed" =>
    \A run \in made : run.failed /\ run.tool = "read_file" => run.place \notin workOrder.named

\* The deadline is looked at between replies: of the tools a model asked for, no
\* more than those of the reply under way are run after it.
DeadlineBoundsWork == late <= MaxCalls

\* Whatever the model answered and calls, the attempt comes to an end.
AttemptEnds == (rounds > 0) ~> (ending # "running")

\* Whatever the model answers and calls: a completed attempt read every file its
\* order names, and work after the deadline is at most one reply's
\* (native-agent-worker.ts, openai-compatible-client.ts).
WorkerInv == WorkerTypeOK /\ NothingInvented /\ DeadlineBoundsWork
=============================================================================

---------------------------- MODULE OwnerThread ----------------------------
(* The one conversation the owner sees, put together on every request from     *)
(* three records that are written by different parts: the ledger of turns (the *)
(* completed ones are also the stored history), the lines about background     *)
(* work that settled, and the clock.  The same ledger gives the next turn its  *)
(* history, cut to a budget.  Turns hold the prompt lock, so the ledger is in  *)
(* the order of time.                                                          *)
EXTENDS Naturals, Sequences, SequencesExt, FiniteSetsExt, Options

CONSTANTS Works,          \* background runs
          Sizes,          \* sizes a turn's question and reply have together
          Budget,         \* historyChars
          HistoryTurns,   \* how many turns the history takes
          SummaryRoom,    \* how many older turns the background note has room for
          Window,         \* messages of the stored history that are shown
          Grace,          \* how long after a turn a stored reply may come
          MaxTurns, MaxClock, MaxThreadCrashes

ASSUME ThreadAssumption ==
    /\ Sizes \subseteq Nat /\ {Budget, HistoryTurns, SummaryRoom, Window, Grace, MaxThreadCrashes} \subseteq Nat
    /\ MaxClock \in Nat \ {0}

VARIABLES turns,          \* the ledger, one record per turn
          minute,
          works,          \* the status of each run
          executor,       \* who executes it: the queue of the daemon, or the request that asked for it
          queueEnds,      \* history: runs that an execution of the queue brought to their end
          telling,        \* executions of the queue that are over and have still to be told of,
                          \* each with the status the queue's projection has
          updates,        \* work-updates.jsonl, by the id run:status
          serverCrashes

executionVars == <<works, executor, queueEnds, telling, updates>>
threadVars == <<turns, minute, executionVars, serverCrashes>>

Settled == {"completed", "failed", "cancelled", "waiting_review"}
NotOver == {"queued", "running", "waiting_approval", "waiting_review"}
Broken == {"failed", "interrupted"}

ThreadInit ==
    /\ turns = <<>>
    /\ minute = 1
    /\ works = [w \in Works |-> "none"]
    /\ executor = [w \in Works |-> "nobody"]
    /\ queueEnds = {}
    /\ telling = {}
    /\ updates = {}
    /\ serverCrashes = 0

Indices == 1..Len(turns)
Ended(i) == IF turns[i].status = "started" THEN minute ELSE turns[i].to

-----------------------------------------------------------------------------
(* readConversation: a completed turn is a question and a reply.               *)
Done == Picked([i \in Indices |-> i], {i \in Indices : turns[i].status = "completed"})

Newest(s, n) == SubSeq(s, IF Len(s) < n THEN 1 ELSE Len(s) - n + 1, Len(s))

Said(i) == [turn |-> i, by |-> "user", at |-> turns[i].from]
Replied(i) == [turn |-> i, by |-> "assistant", at |-> turns[i].to]

Stored ==
    LET entry(k) == IF k % 2 = 1 THEN Said(Done[(k + 1) \div 2]) ELSE Replied(Done[k \div 2])
    IN  Newest([k \in 1..(2 * Len(Done)) |-> entry(k)], Window)

StoredReplies == {m \in ToSet(Stored) : m.by = "assistant"}

HasStoredReply(i) == \E m \in StoredReplies : turns[i].from <= m.at /\ m.at <= Ended(i) + Grace

\* The turns that get a message of their own: a reply, a failure or a turn under way.
Bubbles == {i \in Indices : ~HasStoredReply(i)}

-----------------------------------------------------------------------------
(* summarizeOwnerConversation: the sidebar.                                    *)
LatestTurn == CHOOSE i \in Indices : \A j \in Indices : Ended(j) < Ended(i) \/ (Ended(j) = Ended(i) /\ j <= i)

\* Mutant: a turn that starts in the instant of the last reply counts as before it.
AfterReplyLater(i) == \A m \in StoredReplies : turns[i].from > m.at

AfterReply(i) == \A m \in StoredReplies : turns[i].from >= m.at

ShownAs(status) ==
    CASE status = "completed" -> "completed" [] status = "started" -> "running" [] OTHER -> "failed"

Sidebar ==
    IF turns = <<>> \/ (Stored # <<>> /\ ~AfterReply(LatestTurn)) THEN "completed"
    ELSE ShownAs(turns[LatestTurn].status)

-----------------------------------------------------------------------------
(* buildHistory: what the model is reminded of.                                *)
Remembered == Newest(Done, HistoryTurns)

Size(pairs) ==
    LET upTo[n \in 0..Len(pairs)] == IF n = 0 THEN 0 ELSE upTo[n - 1] + turns[pairs[n]].size
    IN  upTo[Len(pairs)]

KeepBudget == (66 * Budget) \div 100

Fits(n) == n = 1 \/ Size(Newest(Remembered, n)) <= KeepBudget

Verbatim ==
    IF Size(Remembered) <= Budget THEN Remembered
    ELSE Newest(Remembered, Max({0} \cup {n \in 1..Len(Remembered) : Fits(n)}))

\* The older pairs, trimmed, in a note that is cut at its end.
Background ==
    LET older == Len(Remembered) - Len(Verbatim)
    IN  SubSeq(Remembered, 1, Min({older, SummaryRoom}))

-----------------------------------------------------------------------------
Say ==
    /\ Len(turns) < MaxTurns
    /\ \A i \in Indices : turns[i].status # "started"
    /\ \E size \in Sizes :
          turns' = Append(turns, [status |-> "started", from |-> minute, to |-> 0, size |-> size])
    /\ UNCHANGED <<minute, executionVars, serverCrashes>>

End(status) ==                  \* a turn without a visible reply has failed
    /\ \E i \in Indices : /\ turns[i].status = "started"
                          /\ turns' = [turns EXCEPT ![i].status = status, ![i].to = minute]
    /\ UNCHANGED <<minute, executionVars, serverCrashes>>

(* Only an execution of the queue is told of.  A query, a schedule and an      *)
(* approval execute their run themselves, if they get its claim.               *)
CreateRun(w) ==                 \* a turn, a query or a schedule attaches a plan
    /\ works[w] = "none"
    /\ works' = [works EXCEPT ![w] = "queued"]
    /\ UNCHANGED <<turns, minute, executor, queueEnds, telling, updates, serverCrashes>>

Execute(w, who) ==              \* the owner's approval, once granted, is executed where it was waiting
    /\ executor[w] = "nobody"
    /\ works[w] \in (IF who = "queue" THEN {"queued"} ELSE {"queued", "waiting_approval"})
    /\ works' = [works EXCEPT ![w] = "running"]
    /\ executor' = [executor EXCEPT ![w] = who]
    /\ UNCHANGED <<turns, minute, queueEnds, telling, updates, serverCrashes>>

\* The execution returns; onSettled is a hook of the queue alone.
Returned(w, status) ==
    /\ executor' = [executor EXCEPT ![w] = "nobody"]
    /\ telling' = IF executor[w] = "queue" THEN telling \cup {<<w, status>>} ELSE telling

SettleRun(w) ==
    /\ works[w] = "running" /\ executor[w] # "nobody"
    /\ \E status \in (Settled \ {"cancelled"}) \cup {"waiting_approval"} :
          /\ works' = [works EXCEPT ![w] = status]
          /\ queueEnds' = IF executor[w] = "queue" /\ status \in Settled THEN queueEnds \cup {w} ELSE queueEnds
          /\ Returned(w, status)
    /\ UNCHANGED <<turns, minute, updates, serverCrashes>>

GiveUp(w) ==                    \* it lost its claim, by a cancellation or with its lease
    /\ executor[w] # "nobody"
    /\ Returned(w, works[w])
    /\ UNCHANGED <<turns, minute, works, queueEnds, updates, serverCrashes>>

RecoverRun(w) ==                \* nobody executes it any more
    /\ works[w] = "running" /\ executor[w] = "nobody"
    /\ \E status \in {"queued", "failed"} : works' = [works EXCEPT ![w] = status]
    /\ UNCHANGED <<turns, minute, executor, queueEnds, telling, updates, serverCrashes>>

\* What the owner's requests make of a run: cancelled, rejected, reviewed.
ByOwner(status) ==
    (IF status \in NotOver THEN {"cancelled"} ELSE {})
      \cup (CASE status = "waiting_approval" -> {"failed"} [] status = "waiting_review" -> {"completed", "failed"}
              [] OTHER -> {})

OwnerDecides(w) ==
    /\ \E status \in ByOwner(works[w]) : works' = [works EXCEPT ![w] = status]
    /\ UNCHANGED <<turns, minute, executor, queueEnds, telling, updates, serverCrashes>>

\* recordWorkUpdate reads the projection of the queue, which may have moved on.
TellSettled(w) ==
    /\ \E word \in telling :
          /\ word[1] = w
          /\ telling' = telling \ {word}
          /\ \E status \in {word[2], works[w]} :
                updates' = IF status \in Settled THEN updates \cup {<<w, status>>} ELSE updates
    /\ UNCHANGED <<turns, minute, works, executor, queueEnds, serverCrashes>>

\* readWorkUpdates: one line for each run and status.
HasLine(w) == \E status \in Settled : <<w, status>> \in updates

CrashServer ==                        \* the next start interrupts the turn; nothing is told late
    /\ serverCrashes < MaxThreadCrashes
    /\ serverCrashes' = serverCrashes + 1
    /\ turns' = [i \in Indices |-> IF turns[i].status = "started"
                                   THEN [turns[i] EXCEPT !.status = "interrupted", !.to = minute] ELSE turns[i]]
    /\ executor' = [w \in Works |-> "nobody"]
    /\ telling' = {}
    /\ UNCHANGED <<minute, works, queueEnds, updates>>

MinutePasses ==
    /\ minute < MaxClock
    /\ minute' = minute + 1
    /\ UNCHANGED <<turns, executionVars, serverCrashes>>

TurnStep == Say \/ (\E status \in {"completed", "failed"} : End(status)) \/ MinutePasses

WorkStep ==
    \E w \in Works : \/ CreateRun(w) \/ SettleRun(w) \/ GiveUp(w) \/ RecoverRun(w) \/ OwnerDecides(w) \/ TellSettled(w)
                    \/ \E who \in {"queue", "request"} : Execute(w, who)

ThreadNext == TurnStep \/ WorkStep \/ CrashServer

ThreadSpec == ThreadInit /\ [][ThreadNext]_threadVars

-----------------------------------------------------------------------------
WorkIsTyped ==
    /\ works \in [Works -> {"none"} \cup NotOver \cup Settled]
    /\ executor \in [Works -> {"nobody", "queue", "request"}]
    /\ queueEnds \subseteq Works /\ telling \subseteq Works \X (NotOver \cup Settled) /\ updates \subseteq Works \X Settled

ThreadTypeOK ==
    /\ \A i \in Indices : /\ turns[i].status \in {"started", "completed"} \cup Broken
                          /\ turns[i].from \in 1..MaxClock /\ turns[i].to \in 0..MaxClock
    /\ WorkIsTyped
    /\ serverCrashes \in 0..MaxThreadCrashes

\* A reply that is part of the stored history is not shown a second time as the
\* message of its turn.
RepliesShownOnce == \A m \in StoredReplies : m.turn \notin Bubbles

\* The sidebar says of the conversation what became of its latest turn, also when
\* turns follow each other within one tick of the clock.
SidebarTellsTheTurn == turns # <<>> => Sidebar = ShownAs(Last(turns).status)

\* The model always sees its newest completed turn word for word, however long it
\* is, and no turn both word for word and in the note.
NewestIsVerbatim ==
    Remembered # <<>> => Verbatim # <<>> /\ Last(Verbatim) = Last(Remembered)

\* More than one turn is reminded only within the budget.
PromptWithinBudget == Len(Verbatim) <= 1 \/ Size(Verbatim) <= Budget

\* While the daemon lives, a run that an execution of the queue brought to its end
\* has a line once that execution was told of, whatever the owner does with the run
\* meanwhile.  Runs executed by a request have none, nor have those that ended
\* without an execution (rejected, cancelled while they wait, given up by recovery).
QueuedWorkIsTold ==
    serverCrashes = 0 =>
      \A w \in queueEnds : HasLine(w) \/ (\E word \in telling : word[1] = w)

\* A line that tells of an end is true for good, although it may be written after
\* other processes have moved the run on.
LinesStayTrue ==
    \A line \in updates : works[line[1]] = line[2] \/ line[2] = "waiting_review"

\* The owner's thread, put together from records written at different times,
\* shows every reply once and the state of the latest turn, and tells the truth
\* about the work the queue settled; the prompt has the newest turn word for word and keeps to its
\* budget (companion-server.ts, conversation-history.ts).
ThreadInv ==
  /\ ThreadTypeOK
  /\ RepliesShownOnce
  /\ SidebarTellsTheTurn
  /\ NewestIsVerbatim
  /\ PromptWithinBudget
  /\ QueuedWorkIsTold
  /\ LinesStayTrue
=============================================================================

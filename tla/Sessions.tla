------------------------------ MODULE Sessions ------------------------------
(* The conversation list of the companion.  The journal is never rewritten:    *)
(* sessions.json names what the owner removed, a request reads it, computes    *)
(* the next index and writes it back.  A task the Main Agent proposed belongs  *)
(* to the conversation and is removed and restored with it.                     *)
EXTENDS Naturals, Options

CONSTANTS Tasks,          \* runs that may appear in the list
          Visits,         \* requests under way at the same time
          MaxRemovals     \* removals and restorations the owner asks for

Chat == "the conversation"
RunKinds == {"none", "talk", "derived", "own"}     \* what a run is to the list
Index == [gone : SUBSET Tasks, talk : Optional(SUBSET Tasks)]

VARIABLES tasks,          \* the runs the journal holds
          index,          \* sessions.json: the runs removed, and the conversation with its children
          visit,          \* each request: what it does, and the index it read
          wished,         \* runs whose own removal was the owner's last word on them
          removals

sessionVars == <<tasks, index, visit, wished, removals>>

NoVisit == [op |-> "none", on |-> Chat, read |-> [gone |-> {}, talk |-> {}], children |-> {}]

SessionsInit ==
    /\ tasks = [t \in Tasks |-> "none"]
    /\ index = [gone |-> {}, talk |-> {}]
    /\ visit = [v \in Visits |-> NoVisit]
    /\ wished = {}
    /\ removals = 0

-----------------------------------------------------------------------------
(* A run of the list: the Main Agent proposed it (its trigger says so) or      *)
(* not; a plan of one direct_response step is talk and is not listed.          *)
CreateTask(t) ==
    /\ tasks[t] = "none"
    /\ \E kind \in RunKinds \ {"none"} : tasks' = [tasks EXCEPT ![t] = kind]
    /\ UNCHANGED <<index, visit, wished, removals>>

-----------------------------------------------------------------------------
(* Requests: read the index, and for a conversation the view; then write.      *)
DerivedRuns == {t \in Tasks : tasks[t] = "derived"}

Ask(v, op, on) ==
    /\ visit[v] = NoVisit
    /\ removals < MaxRemovals
    /\ on # Chat => tasks[on] # "none"
    /\ visit' = [visit EXCEPT ![v] = [op |-> op, on |-> on, read |-> index,
                                      children |-> IF op = "delete" /\ on = Chat THEN DerivedRuns ELSE {}]]
    /\ removals' = removals + 1
    /\ UNCHANGED <<tasks, index, wished>>

\* Mutant: the conversation is removed and its children are only written down.
WithoutTalkAlone(i, children) ==
    IF i.talk # {} THEN i ELSE [i EXCEPT !.talk = {children}]

WithoutTalk(i, children) ==
    IF i.talk # {} THEN i ELSE [gone |-> i.gone \cup children, talk |-> {children}]

WithTalk(i) == [gone |-> i.gone \ UNION i.talk, talk |-> {}]

SavedIndex(o) ==
    CASE o.op = "delete" /\ o.on = Chat -> WithoutTalk(o.read, o.children)
      [] o.op = "restore" /\ o.on = Chat -> WithTalk(o.read)
      [] o.op = "delete" /\ o.on # Chat -> [o.read EXCEPT !.gone = @ \cup {o.on}]
      [] o.op = "restore" /\ o.on # Chat -> [o.read EXCEPT !.gone = @ \ {o.on}]

Answer(v) ==
    /\ visit[v] # NoVisit
    /\ index' = IF SavedIndex(visit[v]) = visit[v].read THEN index ELSE SavedIndex(visit[v])
    /\ wished' = IF visit[v].on = Chat THEN wished
                 ELSE IF visit[v].op = "delete" THEN wished \cup {visit[v].on}
                 ELSE wished \ {visit[v].on}
    /\ visit' = [visit EXCEPT ![v] = NoVisit]
    /\ UNCHANGED <<tasks, removals>>

StopDaemon ==                   \* what was under way is gone
    /\ visit' = [v \in Visits |-> NoVisit]
    /\ UNCHANGED <<tasks, index, wished, removals>>

SessionsNext ==
    \/ \E t \in Tasks : CreateTask(t)
    \/ \E v \in Visits, op \in {"delete", "restore"}, on \in Tasks \cup {Chat} : Ask(v, op, on)
    \/ \E v \in Visits : Answer(v)
    \/ StopDaemon

SessionsSpec == SessionsInit /\ [][SessionsNext]_sessionVars

-----------------------------------------------------------------------------
(* What the list shows: the runs that are not removed and are no talk.         *)
Listed == {t \in Tasks : tasks[t] \in {"derived", "own"} /\ t \notin index.gone}

\* The file, the runs and the requests hold what the code can write.
SessionsTypeOK ==
    /\ tasks \in [Tasks -> RunKinds]
    /\ index \in Index
    /\ \A v \in Visits : visit[v].read \in Index /\ visit[v].children \subseteq Tasks
    /\ wished \subseteq Tasks

\* A run is hidden because the owner removed it, or because it went with the
\* conversation that is still hidden (session-store.ts deleteConversation and
\* restoreConversation, one request at a time): none is left behind.
HiddenForAReason ==
    index.gone \subseteq wished \cup UNION index.talk

\* The conversation never hides while a task it had then stays in the list:
\* parent and children leave in the same write (session-store.ts).
ChildrenLeaveTogether ==
    [][index.talk = {} /\ index'.talk # {} => Listed' \cap UNION index'.talk = {}]_sessionVars

\* The list hides a run only because the owner removed it, or with the
\* conversation it belongs to that is still removed (session-store.ts).
SessionsInv == SessionsTypeOK /\ HiddenForAReason
=============================================================================

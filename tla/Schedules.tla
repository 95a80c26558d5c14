----------------------------- MODULE Schedules -----------------------------
(***************************************************************************)
(* Recurring requests and their occurrences: schedule-store.ts, one SQLite *)
(* transaction per operation, and the tick of local-scheduler.ts in every  *)
(* daemon that shares the database.                                        *)
(*                                                                         *)
(* Time is a sequence of instants, two to a period.  An interval schedule  *)
(* is due all through a period, a calendar schedule in the second half of  *)
(* it, and the key of either is the period; a cron expression matches the  *)
(* second instant of a period, and its key is that instant.                *)
(*                                                                         *)
(* The owner id of a dispatch is fresh for every dispatch; it is the       *)
(* number of the dispatch of that occurrence here.                         *)
(***************************************************************************)
EXTENDS Integers, FiniteSets

CONSTANTS
  Schedules,
  Daemons,    \* processes with a scheduler
  Pids,       \* process ids, which the system gives out again
  MaxTime,    \* bound of the clock
  MaxFaults,  \* bound of the faults: crashes, requests that fail, writes that are refused
  MaxRetries  \* bound of the retries the owner asks for: none after an occurrence reached it

ASSUME SchedulesConstants ==
  /\ MaxTime \in Nat /\ MaxFaults \in Nat /\ MaxRetries \in Nat

\* Processes that run at the same time have different ids.
ASSUME PidsConstants ==
  /\ "none" \notin Pids
  /\ \E f \in [Daemons -> Pids] : \A d, e \in Daemons : d # e => f[d] # f[e]

Kinds == {"interval", "calendar", "cron"}
Keys == 0..MaxTime
NoKey == -1
Occurrences == Schedules \X Keys

VARIABLES
  now,
  sched,   \* per schedule, [stored, kind, enabled, lastKey, created]
  occ,     \* per occurrence, [status, owner, pid]; status "none" without a row
  early,   \* occurrences claimed as of an instant (created_at) before their schedule was created
  daemon,  \* per daemon, [at, pid, todo, cur, owner]
  instant, \* per daemon, the time at which its tick began, until it has claimed
  begun,   \* per occurrence, how often it was dispatched
  effects, \* per occurrence, how often its request was carried out
  retries, \* per occurrence, how often the owner asked for a retry
  faults   \* how many of them there were

rows == <<sched, occ>>
history == <<begun, effects, retries, faults>>
clocks == <<early, instant>>
schedulesVars == <<now, sched, occ, daemon, begun, effects, retries, faults, clocks>>

NoOne == [owner |-> 0, pid |-> "none"]
Row(s, o) == [status |-> s, owner |-> o.owner, pid |-> o.pid]

dueKey(kind, t) == IF kind = "cron" THEN t ELSE t \div 2

isDue(kind, t) == kind = "interval" \/ t % 2 = 1

\* The instants a key stands for.
KeySpan(kind, k) == {t \in 0..MaxTime : dueKey(kind, t) = k /\ isDue(kind, t)}

\* Process ids are interchangeable: the daemons start with some distinct ones.
FirstPids ==
  CHOOSE f \in [Daemons -> Pids] : \A d, e \in Daemons : d # e => f[d] # f[e]

SchedulesInit ==
  /\ now = 0
  /\ sched = [s \in Schedules |->
       [stored |-> FALSE, kind |-> "cron", enabled |-> FALSE, lastKey |-> NoKey,
        created |-> 0]]
  /\ occ = [o \in Occurrences |-> Row("none", NoOne)]
  /\ daemon = [d \in Daemons |->
       [at |-> "idle", pid |-> FirstPids[d], todo |-> {}, cur |-> <<>>, owner |-> 0]]
  /\ instant = [d \in Daemons |-> 0]
  /\ early = {}
  /\ begun = [o \in Occurrences |-> 0]
  /\ effects = [o \in Occurrences |-> 0]
  /\ retries = [o \in Occurrences |-> 0]
  /\ faults = 0

Up(d) == daemon[d].at # "down"
At(d, where) == daemon[d].at = where
Goto(d, where) == daemon' = [daemon EXCEPT ![d].at = where]
\* d is at a place, with occurrences listed and the one it dispatches.
Becomes(d, where, pid, todo, cur, owner) ==
  daemon' = [daemon EXCEPT ![d] =
    [at |-> where, pid |-> pid, todo |-> todo, cur |-> cur, owner |-> owner]]

\* process.kill(pid, 0), from any daemon.
isProcessAlive(pid) == \E d \in Daemons : Up(d) /\ daemon[d].pid = pid
Fault == faults < MaxFaults /\ faults' = faults + 1
-----------------------------------------------------------------------------
(* The owner.                                                              *)

Inserts(s, kind, key) ==
  /\ ~sched[s].stored
  /\ sched' = [sched EXCEPT ![s] =
       [stored |-> TRUE, kind |-> kind, enabled |-> TRUE, lastKey |-> key, created |-> now]]
  /\ UNCHANGED <<now, occ, daemon, history, clocks>>

\* The period a schedule is created in counts as claimed if it is due in it
\* already (initialLastRunKey); a cron schedule starts unclaimed.
add(s, kind) ==
  Inserts(s, kind, IF kind # "cron" /\ isDue(kind, now) THEN dueKey(kind, now) ELSE NoKey)

setEnabled(s, enabled) ==
  /\ sched[s].stored /\ sched[s].enabled # enabled
  /\ sched' = [sched EXCEPT ![s].enabled = enabled]
  /\ UNCHANGED <<now, occ, daemon, history, clocks>>

\* resolveOccurrence, the decision about an outcome nobody knows.
retryOccurrence(o) ==
  /\ occ[o].status = "unknown" /\ \A p \in Occurrences : retries[p] < MaxRetries
  /\ occ' = [occ EXCEPT ![o].status = "pending"]
  /\ retries' = [retries EXCEPT ![o] = @ + 1]
  /\ UNCHANGED <<now, sched, daemon, begun, effects, faults, clocks>>

dismissOccurrence(o) ==
  /\ occ[o].status = "unknown"
  /\ occ' = [occ EXCEPT ![o].status = "dismissed"]
  /\ UNCHANGED <<now, sched, daemon, history, clocks>>
-----------------------------------------------------------------------------
(* The tick of a scheduler.                                                *)

\* Mutant of ownerAlive: the process of a dispatcher is all that counts.
ownerAliveByPid(d, o) == isProcessAlive(occ[o].pid)

\* The dispatcher of o is at work: of one's own process the active
\* dispatchers are known, of another one only whether it lives.
ownerAlive(d, o) ==
  IF occ[o].pid = daemon[d].pid
  THEN daemon[d].cur = o /\ daemon[d].owner = occ[o].owner
  ELSE isProcessAlive(occ[o].pid)

Abandoned(d) ==
  {o \in Occurrences : occ[o].status = "dispatching" /\ ~ownerAlive(d, o)}

\* Mutant of recoverAbandonedOccurrences: they are put back.
recoverToPending(d) ==
  /\ At(d, "idle")
  /\ occ' = [o \in Occurrences |->
               IF o \in Abandoned(d) THEN Row("pending", NoOne) ELSE occ[o]]
  /\ instant' = [instant EXCEPT ![d] = now]
  /\ Goto(d, "claiming")
  /\ UNCHANGED <<now, sched, early, history>>

\* A tick begins: it takes the time it goes by, and awaits this transaction.
recoverAbandonedOccurrences(d) ==
  /\ At(d, "idle")
  /\ occ' = [o \in Occurrences |->
               IF o \in Abandoned(d) THEN Row("unknown", NoOne) ELSE occ[o]]
  /\ instant' = [instant EXCEPT ![d] = now]
  /\ Goto(d, "claiming")
  /\ UNCHANGED <<now, sched, early, history>>

\* claimDue(now): the key and the pending occurrence together; an occurrence
\* that has a row is left alone (INSERT OR IGNORE).  The clock may have moved on,
\* and other daemons may have claimed later periods, since the tick began.
claimDue(d) ==
  /\ At(d, "claiming")
  /\ LET t == instant[d]
         key(s) == dueKey(sched[s].kind, t)
         due == {s \in Schedules :
                   /\ sched[s].stored /\ sched[s].enabled
                   /\ sched[s].lastKey # key(s) /\ isDue(sched[s].kind, t)
                   /\ occ[<<s, key(s)>>].status = "none"}
         Now(o) == o[1] \in due /\ o[2] = key(o[1])
     IN /\ occ' = [o \in Occurrences |-> IF Now(o) THEN Row("pending", NoOne) ELSE occ[o]]
        /\ early' = early \cup {o \in Occurrences : Now(o) /\ t < sched[o[1]].created}
        /\ sched' = [s \in Schedules |->
                       IF s \in due THEN [sched[s] EXCEPT !.lastKey = key(s)]
                       ELSE sched[s]]
  /\ instant' = [instant EXCEPT ![d] = 0]
  /\ Goto(d, "listing")
  /\ UNCHANGED <<now, history>>

\* d has the occurrences of a list still to go through.
Relist(d, list) ==
  Becomes(d, IF list = {} THEN "idle" ELSE "dispatching", daemon[d].pid, list, daemon[d].cur, daemon[d].owner)

\* The occurrences are listed once and dispatched one after the other.
listOccurrences(d) ==
  /\ At(d, "listing")
  /\ Relist(d, {o \in Occurrences : occ[o].status = "pending"})
  /\ UNCHANGED <<now, rows, history, clocks>>

Dispatches(d, o) ==
  /\ occ' = [occ EXCEPT ![o] =
       Row("dispatching", [owner |-> begun[o] + 1, pid |-> daemon[d].pid])]
  /\ begun' = [begun EXCEPT ![o] = @ + 1]
  /\ Becomes(d, "running", daemon[d].pid, daemon[d].todo \ {o}, o, begun[o] + 1)

\* beginOccurrence: the status and the schedule are read again.
beginOccurrence(d, o) ==
  /\ At(d, "dispatching") /\ o \in daemon[d].todo
  /\ IF occ[o].status = "pending" /\ sched[o[1]].enabled
     THEN Dispatches(d, o)
     ELSE Relist(d, daemon[d].todo \ {o}) /\ UNCHANGED <<occ, begun>>
  /\ UNCHANGED <<now, sched, effects, retries, faults, clocks>>

\* The request is carried out, fails before it did anything, or fails after.
Run(d) ==
  /\ At(d, "running")
  /\ \/ /\ effects' = [effects EXCEPT ![daemon[d].cur] = @ + 1]
        /\ \/ Goto(d, "succeeded") /\ UNCHANGED faults
           \/ Goto(d, "failed") /\ Fault
     \/ UNCHANGED effects /\ Goto(d, "failed") /\ Fault
  /\ UNCHANGED <<now, rows, begun, retries, clocks>>

Forget(d, where) ==
  Becomes(d, where, daemon[d].pid, IF where = "idle" THEN {} ELSE daemon[d].todo, <<>>, 0)

\* finishOccurrence, by the dispatcher that holds the occurrence.  When the
\* first write is refused the catch block records an unknown outcome instead.
finishOccurrence(d) ==
  /\ daemon[d].at \in {"failed", "succeeded"}
  /\ LET o == daemon[d].cur
     IN IF occ[o].status = "dispatching" /\ occ[o].owner = daemon[d].owner
        THEN /\ \/ /\ At(d, "succeeded") /\ UNCHANGED faults
                   /\ occ' = [occ EXCEPT ![o] = Row("dispatched", NoOne)]
                \/ /\ IF At(d, "failed") THEN UNCHANGED faults ELSE Fault
                   /\ occ' = [occ EXCEPT ![o] = Row("unknown", NoOne)]
             /\ Forget(d, IF daemon[d].todo = {} THEN "idle" ELSE "dispatching")
        ELSE Forget(d, "idle") /\ UNCHANGED <<occ, faults>>
  /\ UNCHANGED <<now, sched, begun, effects, retries, clocks>>

\* The database refuses both writes: the tick ends, the row stays as it is.
FinishFails(d) ==
  /\ daemon[d].at \in {"failed", "succeeded"}
  /\ Forget(d, "idle") /\ Fault
  /\ UNCHANGED <<now, rows, begun, effects, retries, clocks>>

Tick(d) ==
  \/ recoverAbandonedOccurrences(d) \/ claimDue(d) \/ listOccurrences(d)
  \/ \E o \in Occurrences : beginOccurrence(d, o)
  \/ Run(d) \/ finishOccurrence(d) \/ FinishFails(d)
-----------------------------------------------------------------------------
Crash(d) ==
  /\ Up(d) /\ Fault
  /\ Becomes(d, "down", daemon[d].pid, {}, <<>>, 0)
  /\ instant' = [instant EXCEPT ![d] = 0]
  /\ UNCHANGED <<now, rows, early, begun, effects, retries>>

\* The system may give the new process the id of any that is gone.
Restart(d) ==
  /\ At(d, "down")
  /\ \E pid \in Pids : ~isProcessAlive(pid) /\ Becomes(d, "idle", pid, {}, <<>>, 0)
  /\ UNCHANGED <<now, rows, history, clocks>>

Advance ==
  /\ now < MaxTime
  /\ now' = now + 1
  /\ UNCHANGED <<rows, daemon, history, clocks>>

SchedulesNext ==
  \/ \E s \in Schedules :
       \/ \E kind \in Kinds : add(s, kind)
       \/ \E b \in BOOLEAN : setEnabled(s, b)
  \/ \E o \in Occurrences : retryOccurrence(o) \/ dismissOccurrence(o)
  \/ \E d \in Daemons : Tick(d) \/ Crash(d) \/ Restart(d)
  \/ Advance

SchedulesSpec == SchedulesInit /\ [][SchedulesNext]_schedulesVars
-----------------------------------------------------------------------------
ScheduleRow ==
  [stored : BOOLEAN, kind : Kinds, enabled : BOOLEAN, lastKey : Keys \cup {NoKey},
   created : 0..MaxTime]
OccurrenceRow ==
  [status : {"none", "pending", "dispatching", "dispatched", "unknown", "dismissed"},
   owner : Nat, pid : Pids \cup {"none"}]
Scheduler ==
  [at : {"idle", "claiming", "listing", "dispatching", "running", "failed", "succeeded", "down"},
   pid : Pids, todo : SUBSET Occurrences, cur : Occurrences \cup {<<>>}, owner : Nat]

SchedulesTypeOK ==
  /\ now \in 0..MaxTime
  /\ sched \in [Schedules -> ScheduleRow]
  /\ occ \in [Occurrences -> OccurrenceRow]
  /\ daemon \in [Daemons -> Scheduler]
  /\ instant \in [Daemons -> 0..MaxTime] /\ early \subseteq Occurrences
  /\ begun \in [Occurrences -> Nat] /\ effects \in [Occurrences -> Nat]
  /\ retries \in [Occurrences -> 0..MaxRetries] /\ faults \in 0..MaxFaults

\* "never a blind retry": whatever crashes, fails or overlaps, an occurrence
\* is carried out once, and once more for every retry the owner asked for.
NoBlindRetry == \A o \in Occurrences : effects[o] <= 1 + retries[o]

\* An occurrence is carried out by one daemon at a time.
OneDispatcher ==
  \A d, e \in Daemons : At(d, "running") /\ At(e, "running") /\ d # e =>
    daemon[d].cur # daemon[e].cur

\* A schedule waits for its first due instant after it was created.  What is
\* claimed for a period that was due by then goes back to a tick that crossed the
\* end of a period: one that was under way when the schedule was created, or one
\* that another tick of a later period overtook.  (A cron schedule may match the
\* minute it is created in.)
WaitsForItsTurn ==
  \A s \in Schedules, k \in Keys :
    LET r == sched[s] IN
    occ[<<s, k>>].status # "none" /\ r.kind # "cron" =>
      \/ \A t \in KeySpan(r.kind, k) : t > r.created
      \/ \E l \in Keys : <<s, l>> \in early \/ (l > k /\ occ[<<s, l>>].status # "none")

\* No dispatch is left without an outcome: a daemon notices the ones whose
\* dispatcher is gone, also when a new process was given its process id.
DispatchesSettle ==
  \A o \in Occurrences :
    occ[o].status = "dispatching" ~> occ[o].status # "dispatching"

\* Over daemons that overlap, die and come back under old process ids: an
\* occurrence has one dispatcher at a time, is carried out once and once more
\* per retry the owner asked for, and none is claimed for a period that was due
\* before its schedule was there, but by ticks that overlap the end of a period
\* (schedule-store.ts, local-scheduler.ts).
SchedulesInv == SchedulesTypeOK /\ NoBlindRetry /\ OneDispatcher /\ WaitsForItsTurn
=============================================================================

--------------------------- MODULE ServicesProofs ---------------------------
(***************************************************************************)
(* Proofs about what surrounds the kernel, for every value of the constants:*)
(*   - Schedules: an occurrence has one dispatcher at a time, is carried out*)
(*     once and once more per retry the owner asked for, and none is for a *)
(*     period that was due when its schedule was created, but by a tick    *)
(*     that had begun before;                                              *)
(*   - DailyReport: a mail that is under way is recorded as such, and the  *)
(*     report of a day is mailed once and once more per retry;             *)
(*   - StandingPolicies: what a store holds in memory was in the file;     *)
(*   - ProjectionRefresh: with one writer every projection is the replay of*)
(*     the journal up to its mark;                                         *)
(*   - Verification and Corroboration: what a run that completes or fails  *)
(*     without its owner rests on;                                         *)
(*   - Planning: the kernel accepts the plans of the local rules, a named   *)
(*     worker does all of the work, and no unit exceeds the risk of its step;*)
(*   - RunHistory: what the events of a run tell after the fact is a legal *)
(*     history, in which a stop is put down to its cause.                  *)
(***************************************************************************)
EXTENDS MCServices, FiniteSetTheorems, SequenceTheorems, WellFoundedInduction, TLAPS

-----------------------------------------------------------------------------
(* Schedules.                                                                *)

USE DEF NoOne, Row, At, Up

LEMMA DueKeyType ==
  ASSUME NEW kind \in Kinds, NEW t \in 0..MaxTime
  PROVE  dueKey(kind, t) \in Keys
  BY SchedulesConstants DEF dueKey, Keys, Kinds

\* The rows that the operations write.
LEMMA ScheduleWrites ==
  ASSUME NEW r \in ScheduleRow, NEW b \in BOOLEAN, NEW k \in Keys
  PROVE  /\ [r EXCEPT !.enabled = b] \in ScheduleRow
         /\ [r EXCEPT !.lastKey = k] \in ScheduleRow
  BY DEF ScheduleRow

LEMMA ScheduleInserts ==
  ASSUME NEW kind \in Kinds, NEW k \in Keys \cup {NoKey}, NEW t \in 0..MaxTime
  PROVE  [stored |-> TRUE, kind |-> kind, enabled |-> TRUE, lastKey |-> k, created |-> t] \in ScheduleRow
  BY DEF ScheduleRow

LEMMA OccurrenceWrites ==
  /\ \A s \in {"none", "pending", "unknown", "dispatched"} : Row(s, NoOne) \in OccurrenceRow
  /\ \A n \in Nat, pid \in Pids : Row("dispatching", [owner |-> n, pid |-> pid]) \in OccurrenceRow
  /\ \A r \in OccurrenceRow, s \in {"pending", "dismissed"} :
       [r EXCEPT !.status = s] \in OccurrenceRow
  BY DEF OccurrenceRow

LEMMA Moves ==
  ASSUME daemon \in [Daemons -> Scheduler], NEW d \in Daemons
  PROVE  /\ \A where \in {"claiming", "listing", "succeeded", "failed"} :
              Goto(d, where) => daemon' \in [Daemons -> Scheduler]
         /\ \A where \in {"idle", "dispatching", "running", "down"}, pid \in Pids,
               rest \in SUBSET Occurrences, cur \in Occurrences \cup {<<>>}, owner \in Nat :
              Becomes(d, where, pid, rest, cur, owner) => daemon' \in [Daemons -> Scheduler]
  BY DEF Goto, Becomes, Scheduler

LEMMA Fields ==
  ASSUME daemon \in [Daemons -> Scheduler], NEW d \in Daemons
  PROVE  /\ daemon[d].pid \in Pids /\ daemon[d].todo \subseteq Occurrences
         /\ daemon[d].cur \in Occurrences \cup {<<>>} /\ daemon[d].owner \in Nat
  BY DEF Scheduler

LEMMA Relists ==
  ASSUME daemon \in [Daemons -> Scheduler], NEW d \in Daemons, NEW list \in SUBSET Occurrences, Relist(d, list)
  PROVE  daemon' \in [Daemons -> Scheduler]
<1> DEFINE where == IF list = {} THEN "idle" ELSE "dispatching"
<1>1. where \in {"idle", "dispatching", "running", "down"} /\ Becomes(d, where, daemon[d].pid, list, daemon[d].cur, daemon[d].owner)
  BY DEF Relist
<1> HIDE DEF where
<1> QED
  BY <1>1, Fields, Moves

LEMMA Forgets ==
  ASSUME NEW d \in Daemons, NEW where \in {"idle", "dispatching"},
         daemon \in [Daemons -> Scheduler], Forget(d, where)
  PROVE  daemon' \in [Daemons -> Scheduler]
<1> DEFINE rest == IF where = "idle" THEN {} ELSE daemon[d].todo
<1>1. rest \in SUBSET Occurrences
  BY Fields
<1>2. Becomes(d, where, daemon[d].pid, rest, <<>>, 0)
  BY DEF Forget
<1> HIDE DEF rest
<1> QED
  BY <1>1, <1>2 DEF Becomes, Scheduler

\* The rows, the daemons and the counters keep their types.
THEOREM ScheduleTyping == SchedulesSpec => []SchedulesTypeOK
<1>1. SchedulesInit => SchedulesTypeOK
  <2> SUFFICES ASSUME SchedulesInit PROVE SchedulesTypeOK
    OBVIOUS
  <2>1. FirstPids \in [Daemons -> Pids]
    BY PidsConstants DEF FirstPids
  <2>2. sched \in [Schedules -> ScheduleRow]
    BY SchedulesConstants DEF SchedulesInit, ScheduleRow, Kinds
  <2>3. occ \in [Occurrences -> OccurrenceRow]
    BY OccurrenceWrites DEF SchedulesInit
  <2>4. daemon \in [Daemons -> Scheduler]
    BY <2>1 DEF SchedulesInit, Scheduler
  <2>5. now \in 0..MaxTime /\ faults \in 0..MaxFaults
    BY SchedulesConstants DEF SchedulesInit
  <2>6. begun \in [Occurrences -> Nat] /\ effects \in [Occurrences -> Nat]
        /\ retries \in [Occurrences -> 0..MaxRetries]
    BY SchedulesConstants DEF SchedulesInit
  <2>7. instant \in [Daemons -> 0..MaxTime] /\ early \subseteq Occurrences
    BY SchedulesConstants DEF SchedulesInit
  <2> QED
    BY <2>2, <2>3, <2>4, <2>5, <2>6, <2>7 DEF SchedulesTypeOK
<1>2. SchedulesTypeOK /\ [SchedulesNext]_schedulesVars => SchedulesTypeOK'
  <2> SUFFICES ASSUME SchedulesTypeOK, [SchedulesNext]_schedulesVars PROVE SchedulesTypeOK'
    OBVIOUS
  <2>0. daemon \in [Daemons -> Scheduler]
    BY DEF SchedulesTypeOK
  <2> USE SchedulesConstants DEF SchedulesTypeOK, rows, history, clocks
  <2>1. ASSUME NEW s \in Schedules, NEW kind \in Kinds, add(s, kind) PROVE SchedulesTypeOK'
    <3>1. dueKey(kind, now) \in Keys
      BY DueKeyType
    <3>2. PICK k \in Keys \cup {NoKey} : Inserts(s, kind, k)
      BY <2>1, <3>1 DEF add
    <3> QED
      BY <3>2, ScheduleInserts DEF Inserts
  <2>2. ASSUME NEW s \in Schedules, NEW b \in BOOLEAN, setEnabled(s, b) PROVE SchedulesTypeOK'
    <3>1. [sched[s] EXCEPT !.enabled = b] \in ScheduleRow
      BY ScheduleWrites DEF Keys
    <3>2. sched' \in [Schedules -> ScheduleRow]
      BY <2>2, <3>1 DEF setEnabled
    <3> QED
      BY <2>2, <3>2 DEF setEnabled
  <2>3. ASSUME NEW o \in Occurrences, retryOccurrence(o) PROVE SchedulesTypeOK'
    <3>1. occ' \in [Occurrences -> OccurrenceRow]
      BY <2>3, OccurrenceWrites DEF retryOccurrence
    <3>2. retries' \in [Occurrences -> 0..MaxRetries]
      BY <2>3 DEF retryOccurrence
    <3> QED
      BY <2>3, <3>1, <3>2 DEF retryOccurrence
  <2>4. ASSUME NEW o \in Occurrences, dismissOccurrence(o) PROVE SchedulesTypeOK'
    BY <2>4, OccurrenceWrites DEF dismissOccurrence
  <2>5. ASSUME NEW d \in Daemons, recoverAbandonedOccurrences(d) PROVE SchedulesTypeOK'
    BY <2>5, OccurrenceWrites, Moves DEF recoverAbandonedOccurrences
  <2>6. ASSUME NEW d \in Daemons, claimDue(d) PROVE SchedulesTypeOK'
    <3>1. \A s \in Schedules : dueKey(sched[s].kind, instant[d]) \in Keys
      BY DueKeyType DEF ScheduleRow
    <3>2. \A s \in Schedules :
            [sched[s] EXCEPT !.lastKey = dueKey(sched[s].kind, instant[d])] \in ScheduleRow
      BY <3>1, ScheduleWrites
    <3>3. sched' \in [Schedules -> ScheduleRow]
      BY <2>6, <3>2 DEF claimDue
    <3>4. occ' \in [Occurrences -> OccurrenceRow]
      BY <2>6, OccurrenceWrites DEF claimDue
    <3>5. daemon' \in [Daemons -> Scheduler]
      <4>1. Goto(d, "listing")
        BY <2>6 DEF claimDue
      <4> QED
        BY <4>1, Moves
    <3>6. early' \subseteq Occurrences /\ instant' \in [Daemons -> 0..MaxTime]
      BY <2>6 DEF claimDue
    <3> QED
      BY <2>6, <3>3, <3>4, <3>5, <3>6 DEF claimDue
  <2>7. ASSUME NEW d \in Daemons, listOccurrences(d) PROVE SchedulesTypeOK'
    <3>1. PICK list \in SUBSET Occurrences : Relist(d, list)
      BY <2>7 DEF listOccurrences
    <3>2. daemon' \in [Daemons -> Scheduler]
      BY <2>0, <3>1, Relists
    <3> QED
      BY <2>7, <3>2 DEF listOccurrences
  <2>8. ASSUME NEW d \in Daemons, NEW o \in Occurrences, beginOccurrence(d, o) PROVE SchedulesTypeOK'
    <3>1. CASE Dispatches(d, o)
      <4>1. daemon' \in [Daemons -> Scheduler]
        <5>1. begun[o] + 1 \in Nat /\ daemon[d].todo \ {o} \in SUBSET Occurrences
          BY Fields
        <5> QED
          BY <3>1, <5>1, Moves, Fields DEF Dispatches
      <4>2. occ' \in [Occurrences -> OccurrenceRow]
        <5>1. Row("dispatching", [owner |-> begun[o] + 1, pid |-> daemon[d].pid]) \in OccurrenceRow
          BY Fields DEF OccurrenceRow
        <5> QED
          BY <3>1, <5>1 DEF Dispatches
      <4> QED
        BY <2>8, <3>1, <4>1, <4>2 DEF beginOccurrence, Dispatches
    <3>2. CASE ~Dispatches(d, o)
      <4>1. daemon' \in [Daemons -> Scheduler]
        <5>1. PICK list \in SUBSET Occurrences : Relist(d, list)
          BY <2>0, <2>8, <3>2, Fields DEF beginOccurrence
        <5> QED
          BY <2>0, <5>1, Relists
      <4> QED
        BY <2>8, <3>2, <4>1 DEF beginOccurrence
    <3> QED
      BY <3>1, <3>2
  <2>9. ASSUME NEW d \in Daemons, Run(d) PROVE SchedulesTypeOK'
    <3>1. daemon' \in [Daemons -> Scheduler]
      BY <2>9, Moves DEF Run
    <3>2. effects' \in [Occurrences -> Nat]
      BY <2>9 DEF Run
    <3> QED
      BY <2>9, <3>1, <3>2 DEF Run, Fault
  <2>10. ASSUME NEW d \in Daemons, finishOccurrence(d) PROVE SchedulesTypeOK'
    <3>1. daemon' \in [Daemons -> Scheduler]
      BY <2>10, Forgets DEF finishOccurrence
    <3>2. occ' \in [Occurrences -> OccurrenceRow]
      <4>1. \/ UNCHANGED occ
            \/ \E s \in {"unknown", "dispatched"} :
                 occ' = [occ EXCEPT ![daemon[d].cur] = Row(s, NoOne)]
        BY <2>10 DEF finishOccurrence
      <4> QED
        BY <4>1, OccurrenceWrites
    <3> QED
      BY <2>10, <3>1, <3>2 DEF finishOccurrence, Fault
  <2>11. ASSUME NEW d \in Daemons, FinishFails(d) PROVE SchedulesTypeOK'
    BY <2>11, Forgets DEF FinishFails, Fault
  <2>12. ASSUME NEW d \in Daemons, Crash(d) PROVE SchedulesTypeOK'
    <3>1. daemon' \in [Daemons -> Scheduler]
      BY <2>12, Moves DEF Crash, Scheduler
    <3>2. faults' \in 0..MaxFaults /\ instant' \in [Daemons -> 0..MaxTime]
      BY <2>12 DEF Crash, Fault
    <3> QED
      BY <2>12, <3>1, <3>2 DEF Crash
  <2>13. ASSUME NEW d \in Daemons, Restart(d) PROVE SchedulesTypeOK'
    <3>1. daemon' \in [Daemons -> Scheduler]
      BY <2>13, Moves DEF Restart
    <3> QED
      BY <2>13, <3>1 DEF Restart
  <2>14. CASE Advance
    BY <2>14 DEF Advance
  <2>15. CASE UNCHANGED schedulesVars
    BY <2>15 DEF schedulesVars
  <2> QED
    BY <2>1, <2>2, <2>3, <2>4, <2>5, <2>6, <2>7, <2>8, <2>9, <2>10, <2>11, <2>12, <2>13,
       <2>14, <2>15 DEF SchedulesNext, Tick
<1> QED
  BY <1>1, <1>2, PTL DEF SchedulesSpec

-----------------------------------------------------------------------------
(* The dispatchers.  A daemon between beginOccurrence and finishOccurrence   *)
(* finds its occurrence dispatching under its own process id: nobody else    *)
(* declares it abandoned, because the process lives and no other living one  *)
(* has its id, and nobody else begins it, because it is not pending.         *)

Busy(d) == daemon[d].at \in {"running", "failed", "succeeded"}

Distinct ==
  \A d, e \in Daemons : Up(d) /\ Up(e) /\ daemon[d].pid = daemon[e].pid => d = e

Held ==
  \A d \in Daemons : Busy(d) =>
    /\ daemon[d].cur \in Occurrences
    /\ occ[daemon[d].cur].status = "dispatching"
    /\ occ[daemon[d].cur].pid = daemon[d].pid

\* What is dispatched is one dispatch ahead of the retries the owner asked
\* for, and what is carried out is never ahead of what was dispatched.
Counted ==
  \A o \in Occurrences :
    /\ begun[o] <= 1 + retries[o]
    /\ occ[o].status \in {"none", "pending"} => begun[o] <= retries[o]
    /\ effects[o] <= begun[o]
    /\ \A d \in Daemons : At(d, "running") /\ daemon[d].cur = o => effects[o] < begun[o]

Dispatchers == Distinct /\ Held /\ Counted

\* A busy daemon is the only one at its occurrence.
LEMMA Alone ==
  ASSUME Distinct, Held, NEW d \in Daemons, NEW e \in Daemons, Busy(d), Busy(e),
         daemon[d].cur = daemon[e].cur
  PROVE  d = e
  BY DEF Distinct, Held, Busy

\* Steps that touch neither a daemon nor the status of an occurrence.
LEMMA Quiet ==
  ASSUME Dispatchers, UNCHANGED <<occ, daemon, begun, effects, retries>>
  PROVE  Dispatchers'
  BY DEF Dispatchers, Distinct, Held, Counted, Busy

\* What d writes of itself when it becomes another.
LEMMA Becoming ==
  ASSUME SchedulesTypeOK, NEW d \in Daemons, NEW where, NEW pid, NEW rest, NEW cur, NEW owner,
         Becomes(d, where, pid, rest, cur, owner)
  PROVE  /\ daemon'[d].at = where /\ daemon'[d].pid = pid /\ daemon'[d].cur = cur
         /\ \A e \in Daemons \ {d} : daemon'[e] = daemon[e]
  BY DEF Becomes, SchedulesTypeOK

LEMMA Going ==
  ASSUME SchedulesTypeOK, NEW d \in Daemons, NEW where, Goto(d, where)
  PROVE  /\ daemon'[d].at = where /\ daemon'[d].pid = daemon[d].pid
         /\ daemon'[d].cur = daemon[d].cur
         /\ \A e \in Daemons \ {d} : daemon'[e] = daemon[e]
  BY DEF Goto, SchedulesTypeOK, Scheduler

\* The pass of a daemon leaves alone what a living daemon is busy with.
LEMMA Recovering ==
  ASSUME SchedulesTypeOK, Dispatchers, NEW d \in Daemons, recoverAbandonedOccurrences(d)
  PROVE  Dispatchers'
<1>1. \A e \in Daemons : Busy(e) => daemon[e].cur \notin Abandoned(d)
  <2> SUFFICES ASSUME NEW e \in Daemons, Busy(e) PROVE daemon[e].cur \notin Abandoned(d)
    OBVIOUS
  <2>1. e # d /\ Up(d) /\ Up(e)
    BY DEF recoverAbandonedOccurrences, Busy
  <2>2. occ[daemon[e].cur].pid = daemon[e].pid /\ daemon[e].pid # daemon[d].pid
    BY <2>1 DEF Dispatchers, Held, Distinct
  <2> QED
    BY <2>1, <2>2 DEF Abandoned, ownerAlive, isProcessAlive
<1>2. \A o \in Occurrences :
        occ'[o] = IF o \in Abandoned(d) THEN Row("unknown", NoOne) ELSE occ[o]
  BY DEF recoverAbandonedOccurrences
<1>3. /\ daemon'[d].at = "claiming" /\ daemon'[d].pid = daemon[d].pid /\ At(d, "idle")
      /\ \A e \in Daemons \ {d} : daemon'[e] = daemon[e]
      /\ UNCHANGED <<begun, effects, retries>>
  BY Going DEF recoverAbandonedOccurrences, history
<1>4. Distinct'
  BY <1>3 DEF Dispatchers, Distinct
<1>5. Held'
  BY <1>1, <1>2, <1>3 DEF Dispatchers, Held, Busy
<1>6. Counted'
  BY <1>2, <1>3 DEF Dispatchers, Counted
<1> QED
  BY <1>4, <1>5, <1>6 DEF Dispatchers

\* The owner decides about an outcome nobody knows, hence about an occurrence
\* no daemon is busy with.
LEMMA Resolving ==
  ASSUME SchedulesTypeOK, Dispatchers, NEW o \in Occurrences,
         retryOccurrence(o) \/ dismissOccurrence(o)
  PROVE  Dispatchers'
<1>1. \A d \in Daemons : Busy(d) => daemon[d].cur # o
  BY DEF retryOccurrence, dismissOccurrence, Dispatchers, Held
<1>2. /\ \A p \in Occurrences \ {o} : occ'[p] = occ[p] /\ retries'[p] = retries[p]
      /\ UNCHANGED <<daemon, begun, effects>>
  BY DEF retryOccurrence, dismissOccurrence, history, SchedulesTypeOK
<1>3. /\ occ[o].status = "unknown"
      /\ \/ occ'[o].status = "pending" /\ retries'[o] = retries[o] + 1
         \/ occ'[o].status = "dismissed" /\ retries'[o] = retries[o]
  BY DEF retryOccurrence, dismissOccurrence, history, SchedulesTypeOK, OccurrenceRow
<1>4. begun[o] \in Nat /\ effects[o] \in Nat /\ retries[o] \in Nat
  BY SchedulesConstants DEF SchedulesTypeOK
<1>5. Distinct'
  BY <1>2 DEF Dispatchers, Distinct
<1>6. Held'
  BY <1>1, <1>2 DEF Dispatchers, Held, Busy
<1>7. Counted'
  <2> SUFFICES ASSUME NEW p \in Occurrences
               PROVE  /\ begun'[p] <= 1 + retries'[p]
                      /\ occ'[p].status \in {"none", "pending"} => begun'[p] <= retries'[p]
                      /\ effects'[p] <= begun'[p]
                      /\ \A d \in Daemons :
                           daemon'[d].at = "running" /\ daemon'[d].cur = p => effects'[p] < begun'[p]
    BY DEF Counted
  <2>1. CASE p # o
    BY <2>1, <1>2 DEF Dispatchers, Counted
  <2>2. CASE p = o
    BY <2>2, <1>2, <1>3, <1>4 DEF Dispatchers, Counted
  <2> QED
    BY <2>1, <2>2
<1> QED
  BY <1>5, <1>6, <1>7 DEF Dispatchers

\* Only an occurrence without a row becomes pending.
LEMMA Claiming ==
  ASSUME SchedulesTypeOK, Dispatchers, NEW d \in Daemons, claimDue(d)
  PROVE  Dispatchers'
<1>1. \A o \in Occurrences : occ'[o] = occ[o] \/ (occ[o].status = "none" /\ occ'[o] = Row("pending", NoOne))
  <2> SUFFICES ASSUME NEW o \in Occurrences, occ'[o] # occ[o]
               PROVE  occ[o].status = "none" /\ occ'[o] = Row("pending", NoOne)
    OBVIOUS
  <2> DEFINE key(s) == dueKey(sched[s].kind, instant[d])
  <2>1. /\ occ[<<o[1], key(o[1])>>].status = "none" /\ o[2] = key(o[1])
        /\ occ'[o] = Row("pending", NoOne)
    BY DEF claimDue
  <2>2. o = <<o[1], o[2]>>
    BY DEF Occurrences
  <2> QED
    BY <2>1, <2>2
<1>2. /\ daemon'[d].at = "listing" /\ daemon'[d].pid = daemon[d].pid /\ At(d, "claiming")
      /\ \A e \in Daemons \ {d} : daemon'[e] = daemon[e]
      /\ UNCHANGED <<begun, effects, retries>>
  BY Going DEF claimDue, history
<1>3. Distinct'
  BY <1>2 DEF Dispatchers, Distinct
<1>4. Held'
  BY <1>1, <1>2 DEF Dispatchers, Held, Busy
<1>5. Counted'
  BY <1>1, <1>2 DEF Dispatchers, Counted
<1> QED
  BY <1>3, <1>4, <1>5 DEF Dispatchers

\* A daemon moves on without an occurrence, and no row changes.
LEMMA Resting ==
  ASSUME SchedulesTypeOK, Dispatchers, NEW d \in Daemons,
         UNCHANGED <<occ, begun, effects, retries>>,
         \A e \in Daemons \ {d} : daemon'[e] = daemon[e],
         daemon'[d].at \in {"idle", "dispatching", "down"},
         daemon'[d].at # "down" => \/ Up(d) /\ daemon'[d].pid = daemon[d].pid
                                  \/ ~isProcessAlive(daemon'[d].pid)
  PROVE  Dispatchers'
<1>1. Distinct'
  BY DEF Dispatchers, Distinct, isProcessAlive
<1>2. Held'
  BY DEF Dispatchers, Held, Busy
<1>3. Counted'
  BY DEF Dispatchers, Counted
<1> QED
  BY <1>1, <1>2, <1>3 DEF Dispatchers

\* A pending occurrence is dispatched: the one that may be ahead.
LEMMA Dispatching ==
  ASSUME SchedulesTypeOK, Dispatchers, NEW d \in Daemons, NEW o \in Occurrences,
         At(d, "dispatching"), occ[o].status = "pending", Dispatches(d, o),
         UNCHANGED <<effects, retries>>
  PROVE  Dispatchers'
<1>1. \A e \in Daemons : Busy(e) => e # d /\ daemon[e].cur # o
  BY DEF Dispatchers, Held, Busy
<1>2. /\ daemon'[d].at = "running" /\ daemon'[d].pid = daemon[d].pid /\ daemon'[d].cur = o
      /\ \A e \in Daemons \ {d} : daemon'[e] = daemon[e]
  <2>1. Becomes(d, "running", daemon[d].pid, daemon[d].todo \ {o}, o, begun[o] + 1)
    BY DEF Dispatches
  <2> QED
    BY <2>1, Becoming
<1>3. /\ occ'[o].status = "dispatching" /\ occ'[o].pid = daemon[d].pid
      /\ \A p \in Occurrences \ {o} : occ'[p] = occ[p]
  BY DEF Dispatches, SchedulesTypeOK
<1>4. begun'[o] = begun[o] + 1 /\ \A p \in Occurrences \ {o} : begun'[p] = begun[p]
  BY DEF Dispatches, SchedulesTypeOK
<1>5. begun[o] \in Nat /\ effects[o] \in Nat /\ retries[o] \in Nat
  BY SchedulesConstants DEF SchedulesTypeOK
<1>6. Distinct'
  BY <1>2 DEF Dispatchers, Distinct
<1>7. Held'
  BY <1>1, <1>2, <1>3 DEF Dispatchers, Held, Busy
<1>8. Counted'
  <2> SUFFICES ASSUME NEW p \in Occurrences
               PROVE  /\ begun'[p] <= 1 + retries'[p]
                      /\ occ'[p].status \in {"none", "pending"} => begun'[p] <= retries'[p]
                      /\ effects'[p] <= begun'[p]
                      /\ \A e \in Daemons :
                           daemon'[e].at = "running" /\ daemon'[e].cur = p => effects'[p] < begun'[p]
    BY DEF Counted
  <2>1. CASE p # o
    BY <2>1, <1>2, <1>3, <1>4 DEF Dispatchers, Counted
  <2>2. CASE p = o
    BY <2>2, <1>3, <1>4, <1>5 DEF Dispatchers, Counted
  <2> QED
    BY <2>1, <2>2
<1> QED
  BY <1>6, <1>7, <1>8 DEF Dispatchers

\* The request is carried out at most once per dispatch: nobody else is busy
\* with its occurrence, and d is running no more.
LEMMA Running ==
  ASSUME SchedulesTypeOK, Dispatchers, NEW d \in Daemons, Run(d)
  PROVE  Dispatchers'
<1> DEFINE o == daemon[d].cur
<1>1. Busy(d) /\ At(d, "running") /\ o \in Occurrences
  BY DEF Run, Busy, Dispatchers, Held
<1>2. /\ daemon'[d].at \in {"failed", "succeeded"} /\ daemon'[d].pid = daemon[d].pid
      /\ daemon'[d].cur = o
      /\ \A e \in Daemons \ {d} : daemon'[e] = daemon[e]
  BY Going DEF Run
<1>3. \A e \in Daemons \ {d} : Busy(e) => daemon[e].cur # o
  BY <1>1, Alone DEF Dispatchers
<1>4. UNCHANGED <<occ, begun, retries>>
  BY DEF Run, rows
<1>5. /\ effects'[o] \in {effects[o], effects[o] + 1}
      /\ \A p \in Occurrences \ {o} : effects'[p] = effects[p]
  BY <1>1 DEF Run, SchedulesTypeOK
<1>6. begun[o] \in Nat /\ effects[o] \in Nat /\ effects[o] < begun[o]
  BY <1>1 DEF SchedulesTypeOK, Dispatchers, Counted
<1>7. Distinct'
  BY <1>2 DEF Dispatchers, Distinct, Run
<1>8. Held'
  BY <1>1, <1>2, <1>4 DEF Dispatchers, Held, Busy
<1>9. Counted'
  <2> SUFFICES ASSUME NEW p \in Occurrences
               PROVE  /\ begun'[p] <= 1 + retries'[p]
                      /\ occ'[p].status \in {"none", "pending"} => begun'[p] <= retries'[p]
                      /\ effects'[p] <= begun'[p]
                      /\ \A e \in Daemons :
                           daemon'[e].at = "running" /\ daemon'[e].cur = p => effects'[p] < begun'[p]
    BY DEF Counted
  <2>1. CASE p # o
    BY <2>1, <1>2, <1>4, <1>5 DEF Dispatchers, Counted
  <2>2. CASE p = o
    BY <2>2, <1>2, <1>3, <1>4, <1>5, <1>6 DEF Dispatchers, Counted, Busy
  <2> QED
    BY <2>1, <2>2
<1> QED
  BY <1>7, <1>8, <1>9 DEF Dispatchers

\* The outcome is recorded: the occurrence of d is nobody else's.
LEMMA Finishing ==
  ASSUME SchedulesTypeOK, Dispatchers, NEW d \in Daemons, finishOccurrence(d)
  PROVE  Dispatchers'
<1> DEFINE o == daemon[d].cur
<1>1. Busy(d) /\ o \in Occurrences
  BY DEF finishOccurrence, Busy, Dispatchers, Held
<1>2. /\ daemon'[d].at \in {"idle", "dispatching"} /\ daemon'[d].pid = daemon[d].pid
      /\ \A e \in Daemons \ {d} : daemon'[e] = daemon[e]
  <2>1. PICK where \in {"idle", "dispatching"} : Forget(d, where)
    BY DEF finishOccurrence
  <2> QED
    BY <2>1, Becoming DEF Forget
<1>3. \A e \in Daemons \ {d} : Busy(e) => daemon[e].cur # o
  BY <1>1, Alone DEF Dispatchers
<1>4. UNCHANGED <<begun, effects, retries>>
  BY DEF finishOccurrence, history
<1>5. \/ UNCHANGED occ
      \/ \E s \in {"unknown", "dispatched"} : occ' = [occ EXCEPT ![o] = Row(s, NoOne)]
  BY DEF finishOccurrence
<1>6. /\ occ'[o] = occ[o] \/ occ'[o].status \in {"unknown", "dispatched"}
      /\ \A p \in Occurrences \ {o} : occ'[p] = occ[p]
  BY <1>1, <1>5 DEF SchedulesTypeOK
<1>7. Distinct'
  BY <1>1, <1>2 DEF Dispatchers, Distinct, Busy
<1>8. Held'
  BY <1>2, <1>3, <1>6 DEF Dispatchers, Held, Busy
<1>9. Counted'
  BY <1>2, <1>4, <1>6 DEF Dispatchers, Counted
<1> QED
  BY <1>7, <1>8, <1>9 DEF Dispatchers

LEMMA DispatchersHold == SchedulesSpec => []Dispatchers
<1>1. SchedulesInit => Dispatchers
  <2> SUFFICES ASSUME SchedulesInit PROVE Dispatchers
    OBVIOUS
  <2>1. \A d, e \in Daemons : d # e => FirstPids[d] # FirstPids[e]
    BY PidsConstants DEF FirstPids
  <2> QED
    BY <2>1 DEF SchedulesInit, Dispatchers, Distinct, Held, Counted, Busy
<1>2. SchedulesTypeOK /\ Dispatchers /\ [SchedulesNext]_schedulesVars => Dispatchers'
  <2> SUFFICES ASSUME SchedulesTypeOK, Dispatchers, [SchedulesNext]_schedulesVars PROVE Dispatchers'
    OBVIOUS
  <2>1. ASSUME NEW s \in Schedules, NEW kind \in Kinds, add(s, kind) PROVE Dispatchers'
    BY <2>1, Quiet DEF add, Inserts, history
  <2>2. ASSUME NEW s \in Schedules, NEW b \in BOOLEAN, setEnabled(s, b) PROVE Dispatchers'
    BY <2>2, Quiet DEF setEnabled, history
  <2>3. ASSUME NEW o \in Occurrences, retryOccurrence(o) \/ dismissOccurrence(o) PROVE Dispatchers'
    BY <2>3, Resolving
  <2>4. ASSUME NEW d \in Daemons, recoverAbandonedOccurrences(d) PROVE Dispatchers'
    BY <2>4, Recovering
  <2>5. ASSUME NEW d \in Daemons, claimDue(d) PROVE Dispatchers'
    BY <2>5, Claiming
  <2>6. ASSUME NEW d \in Daemons, listOccurrences(d) PROVE Dispatchers'
    <3>1. PICK list \in SUBSET Occurrences : Relist(d, list)
      BY <2>6 DEF listOccurrences
    <3>2. /\ daemon'[d].at \in {"idle", "dispatching"} /\ daemon'[d].pid = daemon[d].pid
          /\ \A e \in Daemons \ {d} : daemon'[e] = daemon[e]
      BY <3>1, Becoming DEF Relist
    <3> QED
      BY <2>6, <3>2, Resting DEF listOccurrences, rows, history
  <2>7. ASSUME NEW d \in Daemons, NEW o \in Occurrences, beginOccurrence(d, o) PROVE Dispatchers'
    <3>1. CASE occ[o].status = "pending" /\ sched[o[1]].enabled
      BY <2>7, <3>1, Dispatching DEF beginOccurrence
    <3>2. CASE ~(occ[o].status = "pending" /\ sched[o[1]].enabled)
      <4>1. PICK list \in SUBSET Occurrences : Relist(d, list)
        BY <2>7, <3>2, Fields DEF beginOccurrence, SchedulesTypeOK
      <4>2. /\ daemon'[d].at \in {"idle", "dispatching"} /\ daemon'[d].pid = daemon[d].pid
            /\ \A e \in Daemons \ {d} : daemon'[e] = daemon[e]
        BY <4>1, Becoming DEF Relist
      <4> QED
        BY <2>7, <3>2, <4>2, Resting DEF beginOccurrence
    <3> QED
      BY <3>1, <3>2
  <2>8. ASSUME NEW d \in Daemons, Run(d) PROVE Dispatchers'
    BY <2>8, Running
  <2>9. ASSUME NEW d \in Daemons, finishOccurrence(d) PROVE Dispatchers'
    BY <2>9, Finishing
  <2>10. ASSUME NEW d \in Daemons, FinishFails(d) PROVE Dispatchers'
    <3>1. /\ daemon'[d].at = "idle" /\ daemon'[d].pid = daemon[d].pid
          /\ \A e \in Daemons \ {d} : daemon'[e] = daemon[e]
      BY <2>10, Becoming DEF FinishFails, Forget
    <3> QED
      BY <2>10, <3>1, Resting DEF FinishFails, rows, history
  <2>11. ASSUME NEW d \in Daemons, Crash(d) PROVE Dispatchers'
    <3>1. /\ daemon'[d].at = "down"
          /\ \A e \in Daemons \ {d} : daemon'[e] = daemon[e]
      BY <2>11, Becoming DEF Crash
    <3> QED
      BY <2>11, <3>1, Resting DEF Crash, rows
  <2>12. ASSUME NEW d \in Daemons, Restart(d) PROVE Dispatchers'
    <3>1. PICK pid \in Pids : ~isProcessAlive(pid) /\ Becomes(d, "idle", pid, {}, <<>>, 0)
      BY <2>12 DEF Restart
    <3>2. /\ daemon'[d].at = "idle" /\ daemon'[d].pid = pid
          /\ \A e \in Daemons \ {d} : daemon'[e] = daemon[e]
      BY <3>1, Becoming
    <3> QED
      BY <2>12, <3>1, <3>2, Resting DEF Restart, rows, history
  <2>13. CASE Advance \/ UNCHANGED schedulesVars
    BY <2>13, Quiet DEF Advance, schedulesVars, rows, history
  <2> QED
    BY <2>1, <2>2, <2>3, <2>4, <2>5, <2>6, <2>7, <2>8, <2>9, <2>10, <2>11, <2>12, <2>13
       DEF SchedulesNext, Tick
<1> QED
  BY <1>1, <1>2, ScheduleTyping, PTL DEF SchedulesSpec

\* "never a blind retry" (schedule-store.ts, recoverAbandonedOccurrences): an
\* occurrence is carried out at most once, and once more for every retry the
\* owner asked for, whatever crashes, fails, overlaps or reuses a process id.
THEOREM BlindRetries == SchedulesSpec => []NoBlindRetry
<1>1. SchedulesTypeOK /\ Dispatchers => NoBlindRetry
  <2> SUFFICES ASSUME SchedulesTypeOK, Dispatchers, NEW o \in Occurrences
               PROVE  effects[o] <= 1 + retries[o]
    BY DEF NoBlindRetry
  <2>1. begun[o] \in Nat /\ effects[o] \in Nat /\ retries[o] \in Nat
    BY SchedulesConstants DEF SchedulesTypeOK
  <2> QED
    BY <2>1 DEF Dispatchers, Counted
<1> QED
  BY <1>1, ScheduleTyping, DispatchersHold, PTL

\* beginOccurrence reads the row again: an occurrence is carried out by one
\* daemon at a time.
THEOREM Dispatched == SchedulesSpec => []OneDispatcher
<1>1. Dispatchers => OneDispatcher
  BY Alone DEF Dispatchers, OneDispatcher, Busy
<1> QED
  BY <1>1, DispatchersHold, PTL

\* The last key of a schedule.  It is the one the schedule began with, or that of
\* a row; and unless a tick older than the schedule claimed a period it is not
\* behind the one the schedule was created in, if that was due by then.
Strayed(s) == \E l \in Keys : <<s, l>> \in early
Overtaken(s, k) == \E l \in Keys : l > k /\ occ[<<s, l>>].status # "none"
Reached(s) ==
  LET r == sched[s] IN
  r.stored /\ r.kind # "cron" =>
    /\ r.lastKey \in Keys => r.lastKey = r.created \div 2 \/ occ[<<s, r.lastKey>>].status # "none"
    /\ isDue(r.kind, r.created) => Strayed(s) \/ (r.lastKey \in Keys /\ r.lastKey >= r.created \div 2)
Awaited(s, k) ==
  LET r == sched[s] IN
  r.stored /\ (r.kind # "cron" =>
                 (\A t \in KeySpan(r.kind, k) : t > r.created) \/ Strayed(s) \/ Overtaken(s, k))
Waiting ==
  /\ \A s \in Schedules : Reached(s)
  /\ \A s \in Schedules, k \in Keys : occ[<<s, k>>].status # "none" => Awaited(s, k)

LEMMA Halves == \A a, b \in Nat : a \div 2 \in Nat /\ b \div 2 \in Nat /\ (a <= b => a \div 2 <= b \div 2)
  OBVIOUS

\* A period that is due and not claimed yet lies after the creation, or the tick
\* that goes by it is older than the schedule, or a later period was claimed.
LEMMA ClaimsLater ==
  ASSUME SchedulesTypeOK, NEW s \in Schedules, NEW n \in 0..MaxTime, Reached(s),
         sched[s].stored, sched[s].kind # "cron", sched[s].lastKey # dueKey(sched[s].kind, n), isDue(sched[s].kind, n),
         n >= sched[s].created, ~Strayed(s), ~Overtaken(s, dueKey(sched[s].kind, n))
  PROVE  \A t \in KeySpan(sched[s].kind, dueKey(sched[s].kind, n)) : t > sched[s].created
<1> DEFINE r == sched[s]
<1>1. /\ r.created \in 0..MaxTime /\ r.kind \in {"interval", "calendar"}
      /\ r.lastKey \in Keys \cup {NoKey}
  BY DEF SchedulesTypeOK, ScheduleRow, Kinds
<1>2. dueKey(r.kind, n) = n \div 2 /\ r.lastKey # n \div 2 /\ n \in Nat /\ r.created \in Nat /\ Keys \subseteq Nat
  BY <1>1, SchedulesConstants DEF dueKey, Keys
<1> SUFFICES ASSUME NEW t \in 0..MaxTime, t \div 2 = n \div 2, isDue(r.kind, t)
             PROVE  t > r.created
  BY <1>1, <1>2 DEF KeySpan, dueKey
<1>3. CASE isDue(r.kind, r.created)
  <2>1. /\ r.lastKey \in Keys /\ r.lastKey >= r.created \div 2
        /\ r.lastKey = r.created \div 2 \/ occ[<<s, r.lastKey>>].status # "none"
    BY <1>3 DEF Reached
  <2>2. r.created \div 2 <= n \div 2
    BY <1>2, Halves
  <2>3. CASE r.lastKey = r.created \div 2
    <3>1. r.created \div 2 < n \div 2
      BY <1>2, <2>2, <2>3
    <3> QED
      BY <1>1, <3>1, SchedulesConstants
  <2>4. CASE r.lastKey # r.created \div 2
    <3>1. ~(r.lastKey > n \div 2)
      <4>1. ~Overtaken(s, n \div 2)
        BY <1>2
      <4>2. \A l \in Keys : l > n \div 2 => occ[<<s, l>>].status = "none"
        BY <4>1 DEF Overtaken
      <4>3. r.lastKey \in Keys /\ occ[<<s, r.lastKey>>].status # "none"
        BY <2>1, <2>4
      <4> HIDE DEF r
      <4> QED
        BY <4>2, <4>3
    <3>2. r.created \div 2 < n \div 2
      <4> DEFINE a == r.created \div 2
                 b == n \div 2
      <4>1. a \in Nat /\ b \in Nat /\ r.lastKey \in Nat
        <5>1. r.lastKey \in Nat /\ r.created \in Nat /\ n \in Nat
          BY <1>2, <2>1
        <5> HIDE DEF r
        <5> QED
          BY <5>1, Halves
      <4>2. r.lastKey # b /\ r.lastKey # a /\ r.lastKey >= a /\ ~(r.lastKey > b)
        BY <1>2, <2>1, <2>4, <3>1
      <4> HIDE DEF a, b, r
      <4> QED
        BY <4>1, <4>2 DEF a, b
    <3> QED
      BY <1>1, <3>2, SchedulesConstants
  <2> QED
    BY <2>3, <2>4
<1>4. CASE ~isDue(r.kind, r.created)
  <2>1. r.created % 2 = 0 /\ t % 2 = 1 /\ r.created <= n
    BY <1>1, <1>4, SchedulesConstants DEF isDue
  <2> QED
    BY <1>1, <2>1, SchedulesConstants
<1> QED
  BY <1>3, <1>4

\* Steps that move no key, remove no row and add none.
LEMMA NothingClaimed ==
  ASSUME Waiting, UNCHANGED <<sched, early>>,
         \A o \in Occurrences : occ'[o].status # "none" <=> occ[o].status # "none"
  PROVE  Waiting'
<1>1. \A s \in Schedules, k \in Keys : occ'[<<s, k>>].status # "none" <=> occ[<<s, k>>].status # "none"
  BY DEF Occurrences
<1>2. ASSUME NEW s \in Schedules PROVE Reached(s)'
  <2>1. Reached(s)
    BY DEF Waiting
  <2> QED
    BY <1>1, <2>1 DEF Reached, Strayed
<1>3. ASSUME NEW s \in Schedules, NEW k \in Keys, occ'[<<s, k>>].status # "none" PROVE Awaited(s, k)'
  <2>1. Awaited(s, k)
    BY <1>1, <1>3 DEF Waiting
  <2> QED
    BY <1>1, <2>1 DEF Awaited, Strayed, Overtaken
<1> QED
  BY <1>2, <1>3 DEF Waiting

LEMMA WaitingStep ==
  ASSUME SchedulesTypeOK, Waiting, [SchedulesNext]_schedulesVars
  PROVE  Waiting'
<1> USE DEF SchedulesTypeOK
<1>1. ASSUME NEW s \in Schedules, NEW kind \in Kinds, add(s, kind) PROVE Waiting'
  <2>1. /\ \A k \in Keys : occ[<<s, k>>].status = "none"
        /\ ~sched[s].stored
    BY <1>1 DEF Waiting, Awaited, add, Inserts
  <2> DEFINE k == IF kind # "cron" /\ isDue(kind, now) THEN dueKey(kind, now) ELSE NoKey
             row == [stored |-> TRUE, kind |-> kind, enabled |-> TRUE, lastKey |-> k, created |-> now]
  <2>2. kind # "cron" => /\ k \in Keys => k = now \div 2
                         /\ isDue(kind, now) => k \in Keys /\ k = now \div 2 /\ now \div 2 >= now \div 2
    <3>1. now \in Nat /\ now \div 2 \in Nat /\ now \div 2 \in Keys /\ NoKey \notin Keys
      BY SchedulesConstants DEF NoKey, Keys
    <3>2. kind # "cron" => k = IF isDue(kind, now) THEN now \div 2 ELSE NoKey
      BY DEF dueKey
    <3> HIDE DEF k
    <3> QED
      BY <3>1, <3>2
  <2>3. /\ sched'[s] = row /\ UNCHANGED <<now, occ, early>>
        /\ \A z \in Schedules \ {s} : sched'[z] = sched[z]
    BY <1>1 DEF add, Inserts, clocks
  <2>4. row.kind = kind /\ row.lastKey = k /\ row.created = now /\ row.stored
    OBVIOUS
  <2> HIDE DEF row, k
  <2>5. Reached(s)'
    BY <2>2, <2>3, <2>4 DEF Reached
  <2>6. ASSUME NEW z \in Schedules \ {s} PROVE Reached(z)'
    <3>1. Reached(z)
      BY DEF Waiting
    <3> QED
      BY <2>3, <3>1 DEF Reached, Strayed
  <2>7. ASSUME NEW z \in Schedules, NEW l \in Keys, occ'[<<z, l>>].status # "none" PROVE Awaited(z, l)'
    <3>1. z # s /\ Awaited(z, l)
      BY <2>1, <2>3, <2>7 DEF Waiting
    <3> QED
      BY <2>3, <3>1 DEF Awaited, Strayed, Overtaken
  <2> QED
    BY <2>5, <2>6, <2>7 DEF Waiting
<1>2. ASSUME NEW s \in Schedules, NEW b \in BOOLEAN, setEnabled(s, b) PROVE Waiting'
  <2>1. \A z \in Schedules :
          /\ sched'[z].stored = sched[z].stored /\ sched'[z].kind = sched[z].kind
          /\ sched'[z].lastKey = sched[z].lastKey /\ sched'[z].created = sched[z].created
    BY <1>2 DEF setEnabled, ScheduleRow
  <2>2. UNCHANGED <<occ, early>>
    BY <1>2 DEF setEnabled, clocks
  <2>3. ASSUME NEW z \in Schedules PROVE Reached(z)'
    <3>1. Reached(z)
      BY DEF Waiting
    <3> QED
      BY <2>1, <2>2, <3>1 DEF Reached, Strayed
  <2>4. ASSUME NEW z \in Schedules, NEW k \in Keys, occ'[<<z, k>>].status # "none" PROVE Awaited(z, k)'
    <3>1. Awaited(z, k)
      BY <2>2, <2>4 DEF Waiting
    <3> QED
      BY <2>1, <2>2, <3>1 DEF Awaited, Strayed, Overtaken
  <2> QED
    BY <2>3, <2>4 DEF Waiting
<1>3. ASSUME NEW d \in Daemons, claimDue(d) PROVE Waiting'
  <2> DEFINE t == instant[d]
             key(s) == dueKey(sched[s].kind, t)
             Due(s) == /\ sched[s].stored /\ sched[s].enabled
                       /\ sched[s].lastKey # key(s) /\ isDue(sched[s].kind, t)
                       /\ occ[<<s, key(s)>>].status = "none"
  <2>0. t \in 0..MaxTime /\ \A s \in Schedules : key(s) \in Keys /\ sched[s] \in ScheduleRow
    BY DueKeyType DEF ScheduleRow
  <2>1. /\ \A s \in Schedules :
             sched'[s] = IF Due(s) THEN [sched[s] EXCEPT !.lastKey = key(s)] ELSE sched[s]
        /\ \A s \in Schedules, k \in Keys :
             /\ occ'[<<s, k>>].status # "none" <=> occ[<<s, k>>].status # "none" \/ (Due(s) /\ k = key(s))
             /\ <<s, k>> \in early' <=> <<s, k>> \in early \/ (Due(s) /\ k = key(s) /\ t < sched[s].created)
    BY <1>3 DEF claimDue, Occurrences
  <2>2. \A s \in Schedules :
          /\ sched'[s].stored = sched[s].stored /\ sched'[s].kind = sched[s].kind
          /\ sched'[s].created = sched[s].created
          /\ sched'[s].lastKey = IF Due(s) THEN key(s) ELSE sched[s].lastKey
    BY <2>1 DEF ScheduleRow
  <2> HIDE DEF t, key, Due
  <2>3. ASSUME NEW s \in Schedules PROVE Reached(s)'
    <3>1. Reached(s)
      BY DEF Waiting
    <3>2. Strayed(s) => Strayed(s)'
      BY <2>1 DEF Strayed
    <3>3. CASE Due(s) /\ sched[s].kind # "cron"
      <4>1. sched'[s].lastKey = key(s) /\ key(s) \in Keys /\ occ'[<<s, key(s)>>].status # "none"
        BY <2>0, <2>1, <2>2, <3>3
      <4>2. t < sched[s].created => Strayed(s)'
        BY <2>0, <2>1, <3>3 DEF Strayed
      <4>3. t >= sched[s].created => key(s) >= sched[s].created \div 2
        <5>1. key(s) = t \div 2 /\ t \in Nat /\ sched[s].created \in Nat
          BY <2>0, <3>3, SchedulesConstants DEF key, dueKey, ScheduleRow
        <5> QED
          BY <5>1, Halves
      <4>4. t < sched[s].created \/ t >= sched[s].created
        BY <2>0, SchedulesConstants DEF ScheduleRow
      <4> QED
        BY <2>2, <4>1, <4>2, <4>3, <4>4 DEF Reached
    <3>4. CASE ~Due(s) \/ sched[s].kind = "cron"
      <4>1. \A k \in Keys : occ[<<s, k>>].status # "none" => occ'[<<s, k>>].status # "none"
        BY <2>1
      <4> QED
        BY <2>2, <3>1, <3>2, <3>4, <4>1 DEF Reached
    <3> QED
      BY <3>3, <3>4
  <2>4. ASSUME NEW s \in Schedules, NEW k \in Keys, occ'[<<s, k>>].status # "none" PROVE Awaited(s, k)'
    <3>1. (Strayed(s) => Strayed(s)') /\ (Overtaken(s, k) => Overtaken(s, k)')
      BY <2>1 DEF Strayed, Overtaken
    <3>2. CASE occ[<<s, k>>].status # "none"
      <4>1. Awaited(s, k)
        BY <3>2 DEF Waiting
      <4> QED
        BY <2>2, <3>1, <4>1 DEF Awaited
    <3>3. CASE Due(s) /\ k = key(s)
      <4>1. Reached(s) /\ sched[s].stored /\ sched[s].lastKey # key(s) /\ isDue(sched[s].kind, t)
        BY <3>3 DEF Waiting, Due
      <4>2. CASE sched[s].kind = "cron"
        BY <2>2, <4>1, <4>2 DEF Awaited
      <4>3. CASE t < sched[s].created
        <5>1. Strayed(s)'
          BY <2>1, <3>3, <4>3 DEF Strayed
        <5> QED
          BY <2>2, <4>1, <5>1 DEF Awaited
      <4>4. CASE sched[s].kind # "cron" /\ ~(t < sched[s].created)
        <5>1. t >= sched[s].created
          BY <2>0, <4>4, SchedulesConstants DEF ScheduleRow
        <5>2. CASE Strayed(s) \/ Overtaken(s, k)
          BY <2>2, <3>1, <4>1, <5>2 DEF Awaited
        <5>3. CASE ~Strayed(s) /\ ~Overtaken(s, k)
          <6>1. \A u \in KeySpan(sched[s].kind, k) : u > sched[s].created
            BY <2>0, <3>3, <4>1, <4>4, <5>1, <5>3, ClaimsLater DEF key
          <6> QED
            BY <2>2, <4>1, <6>1 DEF Awaited
        <5> QED
          BY <5>2, <5>3
      <4> QED
        BY <4>2, <4>3, <4>4
    <3> QED
      BY <2>1, <2>4, <3>2, <3>3
  <2> QED
    BY <2>3, <2>4 DEF Waiting
<1>5. ASSUME NEW o \in Occurrences, retryOccurrence(o) \/ dismissOccurrence(o) PROVE Waiting'
  <2>1. UNCHANGED <<sched, early>>
    BY <1>5 DEF retryOccurrence, dismissOccurrence, clocks
  <2>2. \E mark \in {"pending", "dismissed"} :
          occ' = [occ EXCEPT ![o].status = mark] /\ occ[o].status = "unknown"
    BY <1>5 DEF retryOccurrence, dismissOccurrence
  <2>3. \A p \in Occurrences : occ'[p].status # "none" <=> occ[p].status # "none"
    BY <2>2 DEF OccurrenceRow
  <2> QED
    BY <2>1, <2>3, NothingClaimed
<1>6. ASSUME NEW d \in Daemons, recoverAbandonedOccurrences(d) PROVE Waiting'
  BY <1>6, NothingClaimed DEF recoverAbandonedOccurrences, Abandoned
<1>7. ASSUME NEW d \in Daemons, NEW o \in Occurrences, beginOccurrence(d, o) PROVE Waiting'
  BY <1>7, NothingClaimed DEF beginOccurrence, Dispatches, clocks
<1>8. ASSUME NEW d \in Daemons, finishOccurrence(d) PROVE Waiting'
  <2>1. UNCHANGED <<sched, early>>
    BY <1>8 DEF finishOccurrence, clocks
  <2>2. \/ UNCHANGED occ
        \/ \E s \in {"unknown", "dispatched"} :
             /\ occ' = [occ EXCEPT ![daemon[d].cur] = Row(s, NoOne)] /\ occ[daemon[d].cur].status = "dispatching"
    BY <1>8 DEF finishOccurrence
  <2>3. \A o \in Occurrences : occ'[o].status # "none" <=> occ[o].status # "none"
    BY <2>2
  <2> QED
    BY <2>1, <2>3, NothingClaimed
<1>9. ASSUME UNCHANGED <<sched, occ, early>> PROVE Waiting'
  BY <1>9, NothingClaimed
<1> QED
  BY <1>1, <1>2, <1>3, <1>5, <1>6, <1>7, <1>8, <1>9
     DEF SchedulesNext, Tick, listOccurrences, Run, FinishFails, Crash, Restart, Advance, schedulesVars, rows, clocks

\* initialLastRunKey and claimDue (schedule-store.ts), called by ticks that take
\* their time at their beginning (local-scheduler.ts): what is claimed for a period
\* that was due already when its schedule was created goes back to a tick older
\* than the schedule, or to one that a tick of a later period overtook.
THEOREM WaitsItsTurn == SchedulesSpec => []WaitsForItsTurn
<1>1. SchedulesInit => Waiting
  BY DEF SchedulesInit, Waiting, Reached, Occurrences
<1>2. Waiting => WaitsForItsTurn
  <2> SUFFICES ASSUME Waiting, NEW s \in Schedules, NEW k \in Keys,
                      occ[<<s, k>>].status # "none", sched[s].kind # "cron"
               PROVE  \/ \A t \in KeySpan(sched[s].kind, k) : t > sched[s].created
                      \/ \E l \in Keys : <<s, l>> \in early \/ (l > k /\ occ[<<s, l>>].status # "none")
    BY DEF WaitsForItsTurn
  <2>1. Awaited(s, k)
    BY DEF Waiting
  <2> QED
    BY <2>1 DEF Awaited, Strayed, Overtaken
<1> QED
  BY <1>1, <1>2, WaitingStep, ScheduleTyping, PTL DEF SchedulesSpec

\* What a recurring request relies on (schedule-store.ts, local-scheduler.ts).
THEOREM SchedulesHold == SchedulesSpec => []SchedulesInv
  BY ScheduleTyping, BlindRetries, Dispatched, WaitsItsTurn, PTL DEF SchedulesInv

HIDE DEF NoOne, Row, At, Up

-----------------------------------------------------------------------------
(* DailyReport.                                                              *)

USE DEF Is

LEMMA IdleIsTyped ==
  ASSUME NEW c \in 0..MaxSequence
  PROVE  Idle(c) \in ReportRunner
<1>1. {} \in SUBSET (1..MaxSequence)
  OBVIOUS
<1> QED
  BY <1>1 DEF Idle, ReportRunner

LEMMA GoesIsTyped ==
  ASSUME runner \in [Runners -> ReportRunner], NEW p \in Runners,
         NEW where \in {"sending", "failed", "succeeded"}, Goes(p, where)
  PROVE  runner' \in [Runners -> ReportRunner]
<1>1. [runner[p] EXCEPT !.at = where] \in ReportRunner
  BY DEF ReportRunner
<1>2. runner' = [runner EXCEPT ![p] = [runner[p] EXCEPT !.at = where]]
  BY DEF Goes
<1> QED
  BY <1>1, <1>2

\* The record of the deliveries, the runners and the counters keep their types.
THEOREM ReportTyping == DailyReportSpec => []DailyReportTypeOK
<1>1. DailyReportInit => DailyReportTypeOK
  <2> SUFFICES ASSUME DailyReportInit PROVE DailyReportTypeOK
    OBVIOUS
  <2>1. runner \in [Runners -> ReportRunner]
    BY DailyReportConstants DEF DailyReportInit, Idle, ReportRunner
  <2> QED
    BY <2>1, DailyReportConstants DEF DailyReportInit, DailyReportTypeOK, Days
<1>2. DailyReportTypeOK /\ [DailyReportNext]_reportVars => DailyReportTypeOK'
  <2> SUFFICES ASSUME DailyReportTypeOK, [DailyReportNext]_reportVars PROVE DailyReportTypeOK'
    OBVIOUS
  <2> USE DailyReportConstants DEF DailyReportTypeOK, reportHistory
  <2>1. CASE Journal
    <3>1. sequence' \in 0..MaxSequence
      BY <2>1 DEF Journal
    <3> QED
      BY <2>1, <3>1 DEF Journal
  <2>2. CASE Midnight
    <3>1. today' \in Days
      BY <2>2 DEF Midnight, Days
    <3> QED
      BY <2>2, <3>1 DEF Midnight
  <2>3. CASE unknownDeliveries
    BY <2>3 DEF unknownDeliveries
  <2>4. ASSUME NEW y \in Days, resolveDelivery(y) PROVE DailyReportTypeOK'
    BY <2>4 DEF resolveDelivery
  <2>5. ASSUME NEW p \in Runners, maybeSend(p) PROVE DailyReportTypeOK'
    <3>1. runner[p] \in ReportRunner
      OBVIOUS
    <3>2. [runner[p] EXCEPT !.at = "waiting", !.day = today] \in ReportRunner
      BY <3>1 DEF ReportRunner
    <3>3. runner' = [runner EXCEPT ![p] = [runner[p] EXCEPT !.at = "waiting", !.day = today]]
      BY <2>5 DEF maybeSend
    <3> QED
      BY <2>5, <3>2, <3>3 DEF maybeSend
  <2>6. ASSUME NEW p \in Runners, enter(p) PROVE DailyReportTypeOK'
    <3>1. runner[p].covered \in 0..MaxSequence
      BY DEF ReportRunner
    <3>0. Idle(runner[p].covered) \in ReportRunner
      BY <3>1, IdleIsTyped
    <3>2. runner' \in [Runners -> ReportRunner]
      <4>1. CASE Dispatch(p)
        BY <4>1, GoesIsTyped DEF Dispatch
      <4>2. CASE runner' = [runner EXCEPT ![p] = Idle(runner[p].covered)]
        BY <4>2, <3>0
      <4> QED
        BY <2>6, <4>1, <4>2 DEF enter
    <3>3. delivery' \in [Days -> {"none", "ready", "dispatching", "unknown", "sent", "dismissed"}]
      BY <2>6 DEF enter, Dispatch
    <3> QED
      BY <2>6, <3>2, <3>3 DEF enter, Dispatch
  <2>7. ASSUME NEW p \in Runners, readSince(p) PROVE DailyReportTypeOK'
    <3>1. (runner[p].covered + 1)..sequence \in SUBSET (1..MaxSequence)
      BY DEF ReportRunner
    <3>2. runner' \in [Runners -> ReportRunner]
      BY <2>7, <3>1 DEF readSince, ReportRunner
    <3> QED
      BY <2>7, <3>2 DEF readSince
  <2>8. ASSUME NEW p \in Runners, sendEmail(p) PROVE DailyReportTypeOK'
    <3>1. runner' \in [Runners -> ReportRunner]
      BY <2>8, GoesIsTyped DEF sendEmail
    <3>2. mails' \in [Days -> Nat]
      BY <2>8 DEF sendEmail
    <3>3. mailed' \subseteq 1..MaxSequence
      BY <2>8 DEF sendEmail, ReportRunner
    <3> QED
      BY <2>8, <3>1, <3>2, <3>3 DEF sendEmail
  <2>9. ASSUME NEW p \in Runners, settle(p) PROVE DailyReportTypeOK'
    <3>1. runner[p].covered \in 0..MaxSequence
      BY DEF ReportRunner
    <3>0. Idle(runner[p].covered) \in ReportRunner
      BY <3>1, IdleIsTyped
    <3>2. runner' \in [Runners -> ReportRunner]
      BY <2>9, <3>0 DEF settle
    <3>3. delivery' \in [Days -> {"none", "ready", "dispatching", "unknown", "sent", "dismissed"}]
      BY <2>9 DEF settle
    <3> QED
      BY <2>9, <3>2, <3>3 DEF settle
  <2>10. ASSUME NEW p \in Runners, Stop(p) PROVE DailyReportTypeOK'
    <3>1. Idle(0) \in ReportRunner
      BY IdleIsTyped
    <3>2. runner' \in [Runners -> ReportRunner]
      BY <2>10, <3>1 DEF Stop
    <3>3. lock' \in Runners \cup {"free"} /\ stops' \in 0..MaxStops
      BY <2>10 DEF Stop
    <3> QED
      BY <2>10, <3>2, <3>3 DEF Stop
  <2>11. CASE UNCHANGED reportVars
    BY <2>11 DEF reportVars
  <2> QED
    BY <2>1, <2>2, <2>3, <2>4, <2>5, <2>6, <2>7, <2>8, <2>9, <2>10, <2>11 DEF DailyReportNext
<1> QED
  BY <1>1, <1>2, PTL DEF DailyReportSpec

-----------------------------------------------------------------------------
(* The lock.  Whoever is sending holds it, and the delivery of its day says  *)
(* dispatching, because nobody else writes a delivery meanwhile.             *)

UnderWay(p) == runner[p].at \in {"sending", "mailing", "failed", "succeeded"}

Locked ==
  \A p \in Runners : UnderWay(p) =>
    lock = p /\ runner[p].day \in Days /\ delivery[runner[p].day] = "dispatching"

\* The day of a process that waits was read from the calendar.
Dated == \A p \in Runners : Is(p, "waiting") => runner[p].day \in Days

\* A mail that may still leave is one behind what the owner allowed.
Numbered ==
  \A y \in Days :
    /\ mails[y] <= 1 + resends[y]
    /\ delivery[y] \in {"none", "ready"} => mails[y] <= resends[y]
    /\ \A p \in Runners : runner[p].at \in {"sending", "mailing"} /\ runner[p].day = y =>
         mails[y] <= resends[y]

Deliveries == Locked /\ Dated /\ Numbered

\* Nobody sends while the lock is free.
LEMMA FreeLock ==
  ASSUME Locked, lock = "free"
  PROVE  \A p \in Runners : ~UnderWay(p)
  BY DailyReportConstants DEF Locked

LEMMA DeliveriesHold == DailyReportSpec => []Deliveries
<1>1. DailyReportInit => Deliveries
  BY DEF DailyReportInit, Deliveries, Locked, Dated, Numbered, UnderWay, Idle
<1>2. DailyReportTypeOK /\ Deliveries /\ [DailyReportNext]_reportVars => Deliveries'
  <2> SUFFICES ASSUME DailyReportTypeOK, Deliveries, [DailyReportNext]_reportVars PROVE Deliveries'
    OBVIOUS
  <2>n. \A y \in Days : mails[y] \in Nat /\ resends[y] \in Nat
    BY DailyReportConstants DEF DailyReportTypeOK
  <2>1. CASE Journal \/ Midnight \/ UNCHANGED reportVars
    BY <2>1 DEF Journal, Midnight, reportVars, reportHistory, Deliveries, Locked, Dated, Numbered, UnderWay
  <2>2. CASE unknownDeliveries
    <3>1. \A p \in Runners : ~UnderWay(p)
      BY <2>2, FreeLock DEF unknownDeliveries, Deliveries
    <3>2. /\ \A y \in Days : delivery'[y] \in {"none", "ready"} => delivery'[y] = delivery[y]
          /\ UNCHANGED <<runner, mails, resends>>
      BY <2>2 DEF unknownDeliveries, reportHistory
    <3> QED
      BY <3>1, <3>2 DEF Deliveries, Locked, Dated, Numbered, UnderWay
  <2>3. ASSUME NEW y \in Days, resolveDelivery(y) PROVE Deliveries'
    <3>1. \A p \in Runners : ~UnderWay(p)
      BY <2>3, FreeLock DEF resolveDelivery, Deliveries
    <3>2. /\ \A z \in Days \ {y} : delivery'[z] = delivery[z] /\ resends'[z] = resends[z]
          /\ UNCHANGED <<runner, mails>>
      BY <2>3 DEF resolveDelivery, DailyReportTypeOK
    <3>3. \/ delivery'[y] = "ready" /\ resends'[y] = resends[y] + 1
          \/ delivery'[y] = "dismissed" /\ resends'[y] = resends[y]
      BY <2>3 DEF resolveDelivery, DailyReportTypeOK
    <3>4. Locked' /\ Dated'
      BY <3>1, <3>2 DEF Deliveries, Locked, Dated, UnderWay
    <3>5. Numbered'
      <4> SUFFICES ASSUME NEW z \in Days
                   PROVE  /\ mails'[z] <= 1 + resends'[z]
                          /\ delivery'[z] \in {"none", "ready"} => mails'[z] <= resends'[z]
                          /\ \A p \in Runners : ~UnderWay(p)'
        BY DEF Numbered, UnderWay
      <4>1. \A p \in Runners : ~UnderWay(p)'
        BY <3>1, <3>2 DEF UnderWay
      <4>2. CASE z # y
        BY <4>1, <4>2, <3>2 DEF Deliveries, Numbered
      <4>3. CASE z = y
        BY <4>1, <4>3, <3>2, <3>3, <2>n DEF Deliveries, Numbered
      <4> QED
        BY <4>2, <4>3
    <3> QED
      BY <3>4, <3>5 DEF Deliveries
  <2>4. ASSUME NEW p \in Runners, maybeSend(p) PROVE Deliveries'
    <3>1. /\ runner'[p].at = "waiting" /\ runner'[p].day = today
          /\ \A q \in Runners \ {p} : runner'[q] = runner[q]
      BY <2>4 DEF maybeSend, DailyReportTypeOK, ReportRunner
    <3>2. UNCHANGED <<delivery, lock, mails, resends>> /\ today \in Days
      BY <2>4 DEF maybeSend, reportHistory, DailyReportTypeOK
    <3> QED
      BY <3>1, <3>2 DEF Deliveries, Locked, Dated, Numbered, UnderWay
  <2>5. ASSUME NEW p \in Runners, enter(p) PROVE Deliveries'
    <3> DEFINE y == runner[p].day
    <3>0. y \in Days /\ \A q \in Runners : ~UnderWay(q)
      BY <2>5, FreeLock DEF enter, Deliveries, Dated
    <3>1. CASE delivery[y] \in {"none", "ready"}
      <4>1. Dispatch(p)
        BY <2>5, <3>1 DEF enter
      <4>2. /\ runner'[p].at = "sending" /\ runner'[p].day = y /\ lock' = p
            /\ \A q \in Runners \ {p} : runner'[q] = runner[q]
            /\ UNCHANGED <<mails, resends>>
        BY <4>1 DEF Dispatch, Goes, reportHistory, DailyReportTypeOK, ReportRunner
      <4>3. delivery'[y] = "dispatching" /\ \A z \in Days \ {y} : delivery'[z] = delivery[z]
        BY <4>1, <3>0 DEF Dispatch, DailyReportTypeOK
      <4>4. mails[y] <= resends[y]
        BY <3>0, <3>1 DEF Deliveries, Numbered
      <4> QED
        BY <3>0, <4>2, <4>3, <4>4 DEF Deliveries, Locked, Dated, Numbered, UnderWay
    <3>2. CASE delivery[y] \notin {"none", "ready"}
      <4>1. /\ runner'[p].at = "idle"
            /\ \A q \in Runners \ {p} : runner'[q] = runner[q]
            /\ UNCHANGED <<mails, resends>>
        BY <2>5, <3>2 DEF enter, Idle, reportHistory, DailyReportTypeOK, ReportRunner
      <4>2. \A z \in Days : delivery'[z] \in {"none", "ready"} => delivery'[z] = delivery[z]
        BY <2>5, <3>2, <3>0 DEF enter, DailyReportTypeOK
      <4> QED
        BY <3>0, <4>1, <4>2 DEF Deliveries, Locked, Dated, Numbered, UnderWay
    <3> QED
      BY <3>1, <3>2
  <2>6. ASSUME NEW p \in Runners, readSince(p) PROVE Deliveries'
    <3>1. /\ Is(p, "sending") /\ runner'[p].at = "mailing" /\ runner'[p].day = runner[p].day
          /\ \A q \in Runners \ {p} : runner'[q] = runner[q]
          /\ UNCHANGED <<delivery, lock, mails, resends>>
      BY <2>6 DEF readSince, reportHistory, DailyReportTypeOK
    <3> QED
      BY <3>1 DEF Deliveries, Locked, Dated, Numbered, UnderWay
  <2>7. ASSUME NEW p \in Runners, sendEmail(p) PROVE Deliveries'
    <3> DEFINE y == runner[p].day
    <3>1. /\ Is(p, "mailing") /\ lock = p /\ y \in Days /\ mails[y] <= resends[y]
          /\ \A q \in Runners \ {p} : ~UnderWay(q)
      BY <2>7 DEF sendEmail, Deliveries, Locked, Numbered, UnderWay
    <3>2. /\ runner'[p].at \in {"failed", "succeeded"} /\ runner'[p].day = y
          /\ \A q \in Runners \ {p} : runner'[q] = runner[q]
          /\ UNCHANGED <<delivery, lock, resends>>
      BY <2>7 DEF sendEmail, Goes, DailyReportTypeOK, ReportRunner
    <3>3. /\ mails'[y] \in {mails[y], mails[y] + 1}
          /\ \A z \in Days \ {y} : mails'[z] = mails[z]
      BY <2>7, <3>1 DEF sendEmail, DailyReportTypeOK
    <3>4. delivery[y] = "dispatching"
      BY <3>1 DEF Deliveries, Locked, UnderWay
    <3> QED
      BY <3>1, <3>2, <3>3, <3>4, <2>n DEF Deliveries, Locked, Dated, Numbered, UnderWay
  <2>8. ASSUME NEW p \in Runners, settle(p) PROVE Deliveries'
    <3> DEFINE y == runner[p].day
    <3>1. y \in Days /\ \A q \in Runners \ {p} : ~UnderWay(q)
      BY <2>8 DEF settle, Deliveries, Locked, UnderWay
    <3>2. /\ runner'[p].at = "idle"
          /\ \A q \in Runners \ {p} : runner'[q] = runner[q]
          /\ UNCHANGED <<mails, resends>>
      BY <2>8 DEF settle, Idle, reportHistory, DailyReportTypeOK, ReportRunner
    <3>3. /\ delivery'[y] \notin {"none", "ready"}
          /\ \A z \in Days \ {y} : delivery'[z] = delivery[z]
      BY <2>8, <3>1 DEF settle, DailyReportTypeOK
    <3> QED
      BY <3>1, <3>2, <3>3 DEF Deliveries, Locked, Dated, Numbered, UnderWay
  <2>9. ASSUME NEW p \in Runners, Stop(p) PROVE Deliveries'
    <3>1. /\ runner'[p].at = "idle"
          /\ \A q \in Runners \ {p} : runner'[q] = runner[q]
          /\ UNCHANGED <<delivery, mails, resends>>
      BY <2>9 DEF Stop, Idle, DailyReportTypeOK, ReportRunner
    <3>2. \A q \in Runners \ {p} : lock = q => lock' = q
      BY <2>9 DEF Stop
    <3> QED
      BY <3>1, <3>2 DEF Deliveries, Locked, Dated, Numbered, UnderWay
  <2> QED
    BY <2>1, <2>2, <2>3, <2>4, <2>5, <2>6, <2>7, <2>8, <2>9 DEF DailyReportNext
<1> QED
  BY <1>1, <1>2, ReportTyping, PTL DEF DailyReportSpec

\* "another process must not send the same report without an owner decision"
\* (daily-report-runner.ts, maybeSend): the mails of a day are at most one, and
\* one more for every retry the owner asked for.
THEOREM BlindResends == DailyReportSpec => []NoBlindResend
<1>1. Deliveries => NoBlindResend
  BY DEF Deliveries, Numbered, NoBlindResend
<1> QED
  BY <1>1, DeliveriesHold, PTL

\* unknownDeliveries and resolveDelivery wait for the lock: no delivery is
\* declared unknown, hence none is retried, while its mail is under way.
THEOREM UnderWayIsKnown == DailyReportSpec => []UnderWayIsDispatching
<1>1. Deliveries => UnderWayIsDispatching
  BY DEF Deliveries, Locked, UnderWay, UnderWayIsDispatching
<1> QED
  BY <1>1, DeliveriesHold, PTL

\* What the owner relies on when a report is late, doubtful or sent again
\* (daily-report-runner.ts).
THEOREM ReportsHold == DailyReportSpec => []DailyReportInv
  BY ReportTyping, BlindResends, UnderWayIsKnown, PTL DEF DailyReportInv

HIDE DEF Is

-----------------------------------------------------------------------------
(* StandingPolicies.                                                         *)

StoreRecords ==
  [at : {"closed", "read", "open", "adopting"}, config : AuthorityConfig,
   mtime : Nat \cup {-1}, writes : Seq(AuthorityConfig)]

\* A store judges by what was on the disk; while it adopts a write, so was that.
Backed(s) ==
  /\ store[s].config \in onDisk
  /\ store[s].at = "adopting" => store[s].writes # <<>> /\ Head(store[s].writes) \in onDisk

PolicyTyped ==
  /\ file \in [content : AuthorityConfig, stamp : Nat]
  /\ store \in [Stores -> StoreRecords]
  /\ onDisk \subseteq AuthorityConfig
  /\ asked \in 0..MaxChanges /\ reloads \in 0..MaxReloads

PolicyIInv ==
  /\ PolicyTyped /\ file.content \in onDisk /\ EmptyAuthority \in onDisk
  /\ \A s \in Stores : Backed(s)

LEMMA EmptyIsTyped == EmptyAuthority \in AuthorityConfig /\ Closed \in StoreRecords
<1>1. EmptyAuthority \in AuthorityConfig
  BY DEF EmptyAuthority, AuthorityConfig
<1>2. <<>> \in Seq(AuthorityConfig)
  OBVIOUS
<1> QED
  BY <1>1, <1>2 DEF Closed, StoreRecords

LEMMA LevelIsTyped ==
  ASSUME NEW c \in AuthorityConfig, NEW level \in BOOLEAN
  PROVE  [c EXCEPT !.auto = level] \in AuthorityConfig
  BY DEF AuthorityConfig

LEMMA PolicyIsTyped ==
  ASSUME NEW c \in AuthorityConfig, NEW p \in Policies, NEW state \in {"absent", "active", "revoked"}
  PROVE  [c EXCEPT !.policies[p] = state] \in AuthorityConfig
<1>1. c.policies \in [Policies -> {"absent", "active", "revoked"}] /\ c.auto \in BOOLEAN
  BY DEF AuthorityConfig
<1>2. [c.policies EXCEPT ![p] = state] \in [Policies -> {"absent", "active", "revoked"}]
  BY <1>1
<1>3. [c EXCEPT !.policies[p] = state] = [auto |-> c.auto, policies |-> [c.policies EXCEPT ![p] = state]]
  BY DEF AuthorityConfig
<1> QED
  BY <1>1, <1>2, <1>3 DEF AuthorityConfig

LEMMA InStore ==
  ASSUME NEW r \in StoreRecords
  PROVE  /\ r.at \in {"closed", "read", "open", "adopting"} /\ r.config \in AuthorityConfig
         /\ r.mtime \in Nat \cup {-1} /\ r.writes \in Seq(AuthorityConfig)
  BY DEF StoreRecords

\* One store is replaced by a record whose view, and what it adopts, was on the
\* disk, where everything that was stays.
LEMMA StoreMoves ==
  ASSUME PolicyIInv, NEW s \in Stores, NEW r \in StoreRecords, store' = [store EXCEPT ![s] = r],
         onDisk \subseteq onDisk', r.config \in onDisk',
         r.at = "adopting" => r.writes # <<>> /\ Head(r.writes) \in onDisk'
  PROVE  store' \in [Stores -> StoreRecords] /\ \A t \in Stores : Backed(t)'
<1>1. store \in [Stores -> StoreRecords]
  BY DEF PolicyIInv, PolicyTyped
<1>2. store'[s] = r /\ \A t \in Stores \ {s} : store'[t] = store[t]
  BY <1>1
<1>3. \A t \in Stores : Backed(t)'
  BY <1>2 DEF PolicyIInv, Backed
<1> QED
  BY <1>1, <1>3

\* A change is queued; the head of the queue stays what it was.
LEMMA ChangeQueued ==
  ASSUME PolicyIInv, NEW s \in Stores, NEW next \in AuthorityConfig, Changes(s, next)
  PROVE  PolicyIInv'
<1> DEFINE r == [store[s] EXCEPT !.writes = Append(@, next)]
<1>1. store[s] \in StoreRecords
  BY DEF PolicyIInv, PolicyTyped
<1>2. store[s].writes \in Seq(AuthorityConfig)
  BY <1>1, InStore
<1>3. Append(store[s].writes, next) \in Seq(AuthorityConfig)
  BY <1>2
<1>4. /\ r \in StoreRecords /\ r.config = store[s].config /\ r.at = store[s].at
      /\ r.writes = Append(store[s].writes, next)
  BY <1>1, <1>3 DEF StoreRecords
<1>5. store' = [store EXCEPT ![s] = r] /\ UNCHANGED <<file, onDisk, reloads>>
  BY DEF Changes, PolicyIInv, PolicyTyped
<1>6. asked' \in 0..MaxChanges
  BY StandingPoliciesConstants DEF Changes, PolicyIInv, PolicyTyped
<1>7. r.at = "adopting" => r.writes # <<>> /\ Head(r.writes) \in onDisk'
  <2> SUFFICES ASSUME r.at = "adopting" PROVE r.writes # <<>> /\ Head(r.writes) \in onDisk'
    OBVIOUS
  <2>1. store[s].writes # <<>> /\ Head(store[s].writes) \in onDisk
    BY <1>4 DEF PolicyIInv, Backed
  <2>2. Head(Append(store[s].writes, next)) = Head(store[s].writes) /\ Append(store[s].writes, next) # <<>>
    BY <1>2, <2>1
  <2> QED
    BY <1>4, <1>5, <2>1, <2>2
<1>8. r.config \in onDisk'
  BY <1>4, <1>5 DEF PolicyIInv, Backed
<1> HIDE DEF r
<1>9. store' \in [Stores -> StoreRecords] /\ \A t \in Stores : Backed(t)'
  BY <1>4, <1>5, <1>7, <1>8, StoreMoves
<1> QED
  BY <1>5, <1>6, <1>9 DEF PolicyIInv, PolicyTyped

LEMMA PoliciesAreInductive ==
  ASSUME PolicyIInv, [StandingPoliciesNext]_policyVars
  PROVE  PolicyIInv'
<1>0. file.content \in AuthorityConfig /\ file.stamp \in Nat /\ store \in [Stores -> StoreRecords]
  BY DEF PolicyIInv, PolicyTyped
<1>d. "daemon" \in Stores /\ "cli" \in Stores
  BY DEF Stores
<1>1. CASE snapshot
  <2> DEFINE r == [store["daemon"] EXCEPT !.config = file.content, !.mtime = file.stamp]
  <2>1. store["daemon"] \in StoreRecords
    BY <1>0, <1>d
  <2>2. /\ r \in StoreRecords /\ r.config = file.content /\ r.at = store["daemon"].at
        /\ r.writes = store["daemon"].writes
    BY <1>0, <2>1 DEF StoreRecords
  <2>3. store' = [store EXCEPT !["daemon"] = r] /\ UNCHANGED <<file, onDisk, asked, reloads>>
    BY <1>1, <1>0, <1>d DEF snapshot
  <2> HIDE DEF r
  <2>4. store' \in [Stores -> StoreRecords] /\ \A t \in Stores : Backed(t)'
    BY <1>d, <2>2, <2>3, StoreMoves DEF PolicyIInv, Backed
  <2> QED
    BY <2>3, <2>4 DEF PolicyIInv, PolicyTyped
<1>2. CASE reload
  <2>1. store' = [store EXCEPT !["daemon"] = Closed] /\ UNCHANGED <<file, onDisk, asked>>
    BY <1>2 DEF reload
  <2>2. Closed \in StoreRecords /\ Closed.config = EmptyAuthority /\ Closed.at = "closed"
    BY EmptyIsTyped DEF Closed
  <2>3. store' \in [Stores -> StoreRecords] /\ \A t \in Stores : Backed(t)'
    BY <1>d, <2>1, <2>2, StoreMoves DEF PolicyIInv
  <2>4. reloads' \in 0..MaxReloads
    BY <1>2, StandingPoliciesConstants DEF reload, PolicyIInv, PolicyTyped
  <2> QED
    BY <2>1, <2>3, <2>4 DEF PolicyIInv, PolicyTyped
<1>3. ASSUME NEW s \in Stores, readPolicies(s) PROVE PolicyIInv'
  <2> DEFINE r == [store[s] EXCEPT !.at = "read", !.config = file.content]
  <2>1. store[s] \in StoreRecords
    BY <1>0
  <2>2. r \in StoreRecords /\ r.config = file.content /\ r.at = "read"
    BY <1>0, <2>1 DEF StoreRecords
  <2>3. store' = [store EXCEPT ![s] = r] /\ UNCHANGED <<file, onDisk, asked, reloads>>
    BY <1>3, <1>0 DEF readPolicies
  <2> HIDE DEF r
  <2>4. store' \in [Stores -> StoreRecords] /\ \A t \in Stores : Backed(t)'
    BY <2>2, <2>3, StoreMoves DEF PolicyIInv
  <2> QED
    BY <2>3, <2>4 DEF PolicyIInv, PolicyTyped
<1>4. ASSUME NEW s \in Stores, statPolicies(s) PROVE PolicyIInv'
  <2> DEFINE r == [store[s] EXCEPT !.at = "open", !.mtime = file.stamp]
  <2>1. store[s] \in StoreRecords
    BY <1>0
  <2>2. r \in StoreRecords /\ r.config = store[s].config /\ r.at = "open"
    BY <1>0, <2>1 DEF StoreRecords
  <2>3. store' = [store EXCEPT ![s] = r] /\ UNCHANGED <<file, onDisk, asked, reloads>>
    BY <1>4, <1>0 DEF statPolicies
  <2> HIDE DEF r
  <2>4. store' \in [Stores -> StoreRecords] /\ \A t \in Stores : Backed(t)'
    BY <2>2, <2>3, StoreMoves DEF PolicyIInv, Backed
  <2> QED
    BY <2>3, <2>4 DEF PolicyIInv, PolicyTyped
<1>5. ASSUME NEW s \in Stores, setDomainLevel(s) PROVE PolicyIInv'
  <2>1. PICK level \in BOOLEAN : Changes(s, [store[s].config EXCEPT !.auto = level])
    BY <1>5 DEF setDomainLevel
  <2>2. [store[s].config EXCEPT !.auto = level] \in AuthorityConfig
    BY <1>0, InStore, LevelIsTyped
  <2> QED
    BY <2>1, <2>2, ChangeQueued
<1>6. ASSUME NEW s \in Stores, NEW p \in Policies, addPolicy(s, p) \/ revokePolicy(s, p) PROVE PolicyIInv'
  <2>1. PICK state \in {"active", "revoked"} : Changes(s, [store[s].config EXCEPT !.policies[p] = state])
    BY <1>6 DEF addPolicy, revokePolicy
  <2>2. [store[s].config EXCEPT !.policies[p] = state] \in AuthorityConfig
    BY <1>0, InStore, PolicyIsTyped
  <2> QED
    BY <2>1, <2>2, ChangeQueued
<1>7. ASSUME NEW s \in Stores, persist(s) PROVE PolicyIInv'
  <2>1. store[s] \in StoreRecords /\ store[s].writes \in Seq(AuthorityConfig) /\ store[s].writes # <<>>
    BY <1>7, <1>0, InStore DEF persist
  <2>2. Head(store[s].writes) \in AuthorityConfig /\ Tail(store[s].writes) \in Seq(AuthorityConfig)
    BY <2>1
  <2>3. CASE Replaces(s) /\ store' = [store EXCEPT ![s].at = "adopting"]
    <3> DEFINE r == [store[s] EXCEPT !.at = "adopting"]
    <3>1. r \in StoreRecords /\ r.config = store[s].config /\ r.writes = store[s].writes
      BY <2>1 DEF StoreRecords
    <3>2. store' = [store EXCEPT ![s] = r] /\ UNCHANGED <<asked, reloads>>
      BY <1>7, <1>0, <2>3 DEF persist
    <3>3. /\ file' = [content |-> Head(store[s].writes), stamp |-> file.stamp + 1]
          /\ onDisk' = onDisk \cup {Head(store[s].writes)}
      BY <2>3 DEF Replaces
    <3> HIDE DEF r
    <3>4. store' \in [Stores -> StoreRecords] /\ \A t \in Stores : Backed(t)'
      BY <2>1, <3>1, <3>2, <3>3, StoreMoves DEF PolicyIInv, Backed
    <3> QED
      BY <1>0, <2>2, <3>2, <3>3, <3>4 DEF PolicyIInv, PolicyTyped
  <2>4. CASE Refused(s) /\ UNCHANGED <<file, onDisk>>
    <3>1. CASE s = "cli"
      <4>1. store' = [store EXCEPT ![s] = Closed]
        BY <2>4, <3>1 DEF Refused
      <4>2. Closed \in StoreRecords /\ Closed.config = EmptyAuthority /\ Closed.at = "closed"
        BY EmptyIsTyped DEF Closed
      <4>3. store' \in [Stores -> StoreRecords] /\ \A t \in Stores : Backed(t)'
        BY <2>4, <4>1, <4>2, StoreMoves DEF PolicyIInv
      <4> QED
        BY <1>7, <2>4, <4>3 DEF PolicyIInv, PolicyTyped, persist
    <3>2. CASE s # "cli"
      <4> DEFINE r == [store[s] EXCEPT !.writes = Tail(@)]
      <4>1. r \in StoreRecords /\ r.config = store[s].config /\ r.at = store[s].at
        BY <2>1, <2>2 DEF StoreRecords
      <4>2. store' = [store EXCEPT ![s] = r] /\ store[s].at = "open"
        <5>1. store' = [store EXCEPT ![s].writes = Tail(@)]
          BY <2>4, <3>2 DEF Refused
        <5> QED
          BY <1>7, <1>0, <5>1 DEF persist
      <4> HIDE DEF r
      <4>3. store' \in [Stores -> StoreRecords] /\ \A t \in Stores : Backed(t)'
        BY <2>4, <4>1, <4>2, StoreMoves DEF PolicyIInv, Backed
      <4> QED
        BY <1>7, <2>4, <4>3 DEF PolicyIInv, PolicyTyped, persist
    <3> QED
      BY <3>1, <3>2
  <2> QED
    BY <1>7, <2>3, <2>4 DEF persist
<1>8. ASSUME NEW s \in Stores, adopt(s) PROVE PolicyIInv'
  <2>1. /\ store[s] \in StoreRecords /\ store[s].writes \in Seq(AuthorityConfig) /\ store[s].writes # <<>>
        /\ Head(store[s].writes) \in onDisk
    BY <1>8, <1>0, InStore DEF adopt, PolicyIInv, Backed
  <2>2. Head(store[s].writes) \in AuthorityConfig /\ Tail(store[s].writes) \in Seq(AuthorityConfig)
    BY <2>1
  <2>3. UNCHANGED <<file, onDisk, asked, reloads>>
    BY <1>8 DEF adopt
  <2>4. CASE s = "cli"
    <3>1. store' = [store EXCEPT ![s] = Closed]
      BY <1>8, <2>4 DEF adopt
    <3>2. Closed \in StoreRecords /\ Closed.config = EmptyAuthority /\ Closed.at = "closed"
      BY EmptyIsTyped DEF Closed
    <3>3. store' \in [Stores -> StoreRecords] /\ \A t \in Stores : Backed(t)'
      BY <2>3, <3>1, <3>2, StoreMoves DEF PolicyIInv
    <3> QED
      BY <2>3, <3>3 DEF PolicyIInv, PolicyTyped
  <2>5. CASE s # "cli"
    <3> DEFINE r == [at |-> "open", config |-> Head(store[s].writes), mtime |-> file.stamp,
                     writes |-> Tail(store[s].writes)]
    <3>1. r \in StoreRecords /\ r.config = Head(store[s].writes) /\ r.at = "open"
      BY <1>0, <2>2 DEF StoreRecords
    <3>2. store' = [store EXCEPT ![s] = r]
      BY <1>8, <1>0, <2>5 DEF adopt
    <3> HIDE DEF r
    <3>3. store' \in [Stores -> StoreRecords] /\ \A t \in Stores : Backed(t)'
      BY <2>1, <2>3, <3>1, <3>2, StoreMoves
    <3> QED
      BY <2>3, <3>3 DEF PolicyIInv, PolicyTyped
  <2> QED
    BY <2>4, <2>5
<1>9. CASE UNCHANGED policyVars
  BY <1>9 DEF policyVars, PolicyIInv, PolicyTyped, Backed
<1> QED
  BY <1>1, <1>2, <1>3, <1>4, <1>5, <1>6, <1>7, <1>8, <1>9 DEF StandingPoliciesNext

\* Two processes that replace the owner's file without a lock, writes that are
\* refused and restarts: a step is judged by a configuration that is or was on
\* the disk (standing-policy-store.ts).
THEOREM PoliciesHold == StandingPoliciesSpec => []StandingPoliciesInv
<1>1. StandingPoliciesInit => PolicyIInv
  <2> SUFFICES ASSUME StandingPoliciesInit PROVE PolicyIInv
    OBVIOUS
  <2>1. \A s \in Stores : store[s] = Closed /\ Backed(s)
    BY DEF StandingPoliciesInit, Backed, Closed
  <2>2. PolicyTyped
    BY EmptyIsTyped, StandingPoliciesConstants DEF StandingPoliciesInit, PolicyTyped
  <2> QED
    BY <2>1, <2>2 DEF StandingPoliciesInit, PolicyIInv
<1>2. PolicyIInv /\ [StandingPoliciesNext]_policyVars => PolicyIInv'
  BY PoliciesAreInductive
<1>3. PolicyIInv => StandingPoliciesInv
  <2> SUFFICES ASSUME PolicyIInv PROVE StandingPoliciesInv
    OBVIOUS
  <2>1. ASSUME NEW s \in Stores
        PROVE  /\ store[s].at \in {"closed", "read", "open", "adopting"}
               /\ store[s].config \in AuthorityConfig /\ store[s].mtime \in Nat \cup {-1}
               /\ \A i \in DOMAIN store[s].writes : store[s].writes[i] \in AuthorityConfig
    <3>1. store[s] \in StoreRecords
      BY DEF PolicyIInv, PolicyTyped
    <3>2. /\ store[s].at \in {"closed", "read", "open", "adopting"} /\ store[s].config \in AuthorityConfig
          /\ store[s].mtime \in Nat \cup {-1} /\ store[s].writes \in Seq(AuthorityConfig)
      BY <3>1, InStore
    <3> QED
      BY <3>2
  <2>2. ViewWasOnDisk
    BY DEF PolicyIInv, Backed, ViewWasOnDisk
  <2> QED
    BY <2>1, <2>2 DEF PolicyIInv, PolicyTyped, StandingPoliciesTypeOK, StandingPoliciesInv
<1> QED
  BY <1>1, <1>2, <1>3, PTL DEF StandingPoliciesSpec

-----------------------------------------------------------------------------
(* ProjectionRefresh, for a journal with one writer.                         *)

\* Only one runtime writes: the daemon that consumes the queue.  With two, the
\* run refresh_two_writers shows a projection that lost an event.
SoleWriter == \A u, v \in Writers : u = v

JournalEvents == [run : Runs, rank : Int]

\* RankAfter, of a journal that is given.
RankIn(j, p, a, n, r) ==
  LET window == {i \in (a + 1)..n : j[i].run = r}
  IN IF window = {} THEN p[r] ELSE j[Max(window)].rank
ReplayedIn(j, n) == [r \in Runs |-> RankIn(j, Nothing, 0, n, r)]
AcceptsIn(j, p, a, i) ==
  \/ j[i].rank = 0
  \/ /\ RankIn(j, p, a, i - 1, j[i].run) # Unknown
     /\ j[i].rank = RankIn(j, p, a, i - 1, j[i].run) + 1

\* The whole journal replays, every projection is a replay up to its mark, and
\* the writer's mark is at the end.
RefreshIInv ==
  /\ journal \in Seq(JournalEvents)
  /\ applied \in [Runtimes -> Nat] /\ proj \in [Runtimes -> [Runs -> Int]]
  /\ \A i \in 1..Len(journal) : AcceptsIn(journal, Nothing, 0, i)
  /\ \A w \in Runtimes : applied[w] \in 0..Len(journal) /\ proj[w] = ReplayedIn(journal, applied[w])
  /\ \A w \in Writers : applied[w] = Len(journal)

LEMMA LeastNumber ==
  ASSUME NEW S, S \subseteq Nat, S # {}
  PROVE  \E x \in S : \A y \in S : x <= y
<1> DEFINE R == OpToRel(<, Nat)
<1>1. IsWellFoundedOn(R, Nat)
  BY NatLessThanWellFounded
<1>2. \A x, y \in Nat : y < x => <<y, x>> \in R
  BY DEF OpToRel
<1> HIDE DEF R
<1>3. PICK x \in S : \A y \in S : ~ (<<y, x>> \in R)
  BY <1>1, WFMin
<1>4. ASSUME NEW y \in S PROVE x <= y
  <2>1. x \in Nat /\ y \in Nat
    OBVIOUS
  <2>2. ~(y < x)
    BY <1>2, <1>3, <2>1
  <2> QED
    BY <2>1, <2>2
<1> QED
  BY <1>4

\* A set of numbers up to a bound has a maximum.
LEMMA MaxIs ==
  ASSUME NEW n \in Nat, NEW S, S \subseteq 0..n, S # {}
  PROVE  Max(S) \in S /\ \A y \in S : y <= Max(S)
<1> DEFINE T == {n - y : y \in S}
<1>0. \A y \in S : y \in Nat /\ n - y \in Nat
  <2> SUFFICES ASSUME NEW y \in S PROVE y \in Nat /\ n - y \in Nat
    OBVIOUS
  <2>1. y \in 0..n
    OBVIOUS
  <2> QED
    BY <2>1
<1>1. T \subseteq Nat /\ T # {}
  BY <1>0
<1>2. PICK x \in T : \A y \in T : x <= y
  BY <1>1, LeastNumber
<1>3. PICK m \in S : x = n - m
  OBVIOUS
<1>4. ASSUME NEW y \in S PROVE m >= y
  <2>1. n - y \in T
    OBVIOUS
  <2> HIDE DEF T
  <2>2. n - m <= n - y
    BY <1>2, <1>3, <2>1
  <2>3. m \in Nat /\ y \in Nat
    BY <1>0
  <2> QED
    BY <2>2, <2>3
<1>5. \E z \in S : \A y \in S : z >= y
  BY <1>4
<1>6. Max(S) \in S /\ \A y \in S : Max(S) >= y
  BY <1>5 DEF Max
<1>7. ASSUME NEW y \in S PROVE y <= Max(S)
  <2>1. Max(S) \in Nat /\ y \in Nat /\ Max(S) >= y
    BY <1>0, <1>6
  <2> QED
    BY <2>1
<1> QED
  BY <1>6, <1>7

LEMMA MaxIsUnique ==
  ASSUME NEW n \in Nat, NEW S, S \subseteq 0..n, NEW m \in S, \A y \in S : y <= m
  PROVE  Max(S) = m
<1>1. Max(S) \in S /\ m <= Max(S)
  BY MaxIs
<1>2. Max(S) \in 0..n /\ m \in 0..n /\ Max(S) <= m
  BY <1>1
<1> QED
  BY <1>1, <1>2

\* To replay to m and then to n is to replay to n.
LEMMA ReplayInTwo ==
  ASSUME NEW j, NEW p, NEW a \in Nat, NEW m \in Nat, NEW n \in Nat, a <= m, m <= n, NEW r \in Runs
  PROVE  RankIn(j, [q \in Runs |-> RankIn(j, p, a, m, q)], m, n, r) = RankIn(j, p, a, n, r)
<1> DEFINE late == {i \in (m + 1)..n : j[i].run = r}
           sooner == {i \in (a + 1)..m : j[i].run = r}
           both == {i \in (a + 1)..n : j[i].run = r}
           middle == [q \in Runs |-> RankIn(j, p, a, m, q)]
<1>1. late \subseteq both /\ both \subseteq 0..n /\ \A i \in both \ late : i <= m
  OBVIOUS
<1>2. CASE late = {}
  <2>1. both = sooner
    BY <1>2
  <2>2. RankIn(j, middle, m, n, r) = middle[r]
    BY <1>2 DEF RankIn
  <2>3. middle[r] = RankIn(j, p, a, m, r)
    OBVIOUS
  <2> HIDE DEF middle
  <2>4. RankIn(j, p, a, m, r) = RankIn(j, p, a, n, r)
    BY <2>1 DEF RankIn
  <2> QED
    BY <2>2, <2>3, <2>4 DEF middle
<1>3. CASE late # {}
  <2>1. \A i \in late : i > m /\ i \in Nat
    OBVIOUS
  <2>2. late \subseteq 0..n
    BY <1>1
  <2>3. RankIn(j, middle, m, n, r) = j[Max(late)].rank
    BY <1>3 DEF RankIn
  <2>4. RankIn(j, p, a, n, r) = j[Max(both)].rank
    BY <1>1, <1>3 DEF RankIn
  <2> HIDE DEF late, both
  <2>5. Max(late) \in late /\ \A y \in late : y <= Max(late)
    BY <1>3, <2>2, MaxIs
  <2>6. \A y \in both : y <= Max(late)
    <3> SUFFICES ASSUME NEW y \in both PROVE y <= Max(late)
      OBVIOUS
    <3>1. CASE y \in late
      BY <2>5, <3>1
    <3>2. CASE y \notin late
      <4>1. y <= m /\ y \in 0..n
        BY <1>1, <3>2
      <4>2. Max(late) > m /\ Max(late) \in Nat
        BY <2>1, <2>5
      <4> QED
        BY <4>1, <4>2
    <3> QED
      BY <3>1, <3>2
  <2>7. Max(both) = Max(late)
    BY <1>1, <2>5, <2>6, MaxIsUnique
  <2> QED
    BY <2>3, <2>4, <2>7
<1> QED
  BY <1>2, <1>3

\* What is written later does not change a replay that ends before it.
LEMMA ReplayIsStable ==
  ASSUME NEW j \in Seq(JournalEvents), NEW e \in JournalEvents, NEW p, NEW n \in 0..Len(j), NEW r
  PROVE  RankIn(Append(j, e), p, 0, n, r) = RankIn(j, p, 0, n, r)
<1> DEFINE k == Append(j, e)
           window == {i \in (0 + 1)..n : j[i].run = r}
<1>1. n \in Nat /\ \A i \in (0 + 1)..n : k[i] = j[i]
  OBVIOUS
<1> HIDE DEF k
<1>2. {i \in (0 + 1)..n : k[i].run = r} = window
  BY <1>1
<1>3. CASE window = {}
  BY <1>2, <1>3 DEF RankIn, k
<1>4. CASE window # {}
  <2>1. RankIn(k, p, 0, n, r) = k[Max(window)].rank
    BY <1>2, <1>4 DEF RankIn
  <2>2. RankIn(j, p, 0, n, r) = j[Max(window)].rank
    BY <1>4 DEF RankIn
  <2>3. window \subseteq 0..n /\ window \subseteq (0 + 1)..n
    BY <1>1
  <2> HIDE DEF window
  <2>4. Max(window) \in (0 + 1)..n
    BY <1>1, <1>4, <2>3, MaxIs
  <2> QED
    BY <1>1, <2>1, <2>2, <2>4 DEF k
<1> QED
  BY <1>3, <1>4

\* The last event of a run is its rank.
LEMMA ReplayOfTheLast ==
  ASSUME NEW j \in Seq(JournalEvents), NEW e \in JournalEvents, NEW p, NEW r
  PROVE  RankIn(Append(j, e), p, 0, Len(j) + 1, r)
         = IF e.run = r THEN e.rank ELSE RankIn(j, p, 0, Len(j), r)
<1> DEFINE k == Append(j, e)
           n == Len(j)
           window == {i \in (0 + 1)..(n + 1) : k[i].run = r}
           before == {i \in (0 + 1)..n : k[i].run = r}
<1>1. n \in Nat /\ k[n + 1] = e
  OBVIOUS
<1>2. RankIn(k, p, 0, n, r) = RankIn(j, p, 0, n, r)
  BY ReplayIsStable
<1> HIDE DEF k
<1>3. CASE e.run = r
  <2>1. n + 1 \in window /\ window \subseteq 0..(n + 1) /\ \A y \in window : y <= n + 1
    BY <1>1, <1>3
  <2>2. RankIn(k, p, 0, n + 1, r) = k[Max(window)].rank
    BY <2>1 DEF RankIn
  <2> HIDE DEF window, n
  <2>3. n + 1 \in Nat
    BY <1>1
  <2>4. Max(window) = n + 1
    BY <2>1, <2>3, MaxIsUnique
  <2> QED
    BY <1>1, <1>3, <2>2, <2>4 DEF n, k
<1>4. CASE e.run # r
  <2>1. window = before
    BY <1>1, <1>4
  <2>2. RankIn(k, p, 0, n + 1, r) = RankIn(k, p, 0, n, r)
    BY <2>1 DEF RankIn
  <2> QED
    BY <1>2, <1>4, <2>2 DEF k
<1> QED
  BY <1>3, <1>4

LEMMA RankIsTyped ==
  ASSUME NEW j \in Seq(JournalEvents), NEW n \in 0..Len(j), NEW r \in Runs
  PROVE  RankIn(j, Nothing, 0, n, r) \in Int
<1> DEFINE window == {i \in (0 + 1)..n : j[i].run = r}
<1>1. CASE window = {}
  BY <1>1 DEF RankIn, Nothing, Unknown
<1>2. CASE window # {}
  <2>1. RankIn(j, Nothing, 0, n, r) = j[Max(window)].rank
    BY <1>2 DEF RankIn
  <2>2. n \in Nat /\ window \subseteq 0..n /\ window \subseteq 1..Len(j)
    OBVIOUS
  <2> HIDE DEF window
  <2>3. Max(window) \in 1..Len(j)
    BY <1>2, <2>2, MaxIs
  <2>4. j[Max(window)] \in JournalEvents
    BY <2>3
  <2> QED
    BY <2>1, <2>4 DEF JournalEvents
<1> QED
  BY <1>1, <1>2

LEMMA TheseAreThose ==
  /\ \A p, a, n, r : RankAfter(p, a, n, r) = RankIn(journal, p, a, n, r)
  /\ \A p, a, i : Accepts(p, a, i) <=> AcceptsIn(journal, p, a, i)
  /\ \A n : Replayed(n) = ReplayedIn(journal, n)
  BY DEF RankAfter, RankIn, Accepts, AcceptsIn, Replayed, ReplayedIn

\* What the whole replay accepts, a replay that starts at a mark accepts too.
LEMMA AcceptedFromTheMark ==
  ASSUME RefreshIInv, NEW w \in Runtimes, NEW i \in (applied[w] + 1)..Len(journal)
  PROVE  Accepts(proj[w], applied[w], i)
<1> DEFINE a == applied[w]
           its == journal[i].run
<1>1. a \in Nat /\ i \in 1..Len(journal) /\ i - 1 \in Nat /\ a <= i - 1 /\ 0 \in Nat /\ 0 <= a
  BY DEF RefreshIInv
<1>2. journal[i] \in JournalEvents
  BY <1>1 DEF RefreshIInv
<1>3. its \in Runs
  BY <1>2 DEF JournalEvents
<1>4. proj[w] = [q \in Runs |-> RankIn(journal, Nothing, 0, a, q)]
  BY DEF RefreshIInv, ReplayedIn
<1> HIDE DEF a, its
<1>5. RankIn(journal, proj[w], a, i - 1, its) = RankIn(journal, Nothing, 0, i - 1, its)
  BY <1>1, <1>3, <1>4, ReplayInTwo
<1>6. AcceptsIn(journal, Nothing, 0, i)
  BY <1>1 DEF RefreshIInv
<1>7. AcceptsIn(journal, proj[w], a, i)
  BY <1>5, <1>6 DEF AcceptsIn, its
<1> QED
  BY <1>7, TheseAreThose DEF a

\* A refresh applies everything.
LEMMA AllIsReplayed ==
  ASSUME RefreshIInv, NEW w \in Runtimes
  PROVE  ReplayedTo(proj[w], applied[w]) = Len(journal)
<1> DEFINE a == applied[w]
           S == {n \in a..Len(journal) : \A i \in (a + 1)..n : Accepts(proj[w], a, i)}
<1>1. Len(journal) \in Nat /\ a \in 0..Len(journal)
  BY DEF RefreshIInv
<1>2. \A i \in (a + 1)..Len(journal) : Accepts(proj[w], a, i)
  BY AcceptedFromTheMark
<1>3. ReplayedTo(proj[w], a) = Max(S)
  BY DEF ReplayedTo
<1> DEFINE Good(n) == \A i \in (a + 1)..n : Accepts(proj[w], a, i)
<1>4. S = {n \in a..Len(journal) : Good(n)} /\ Good(Len(journal))
  BY <1>2
<1> HIDE DEF Good, S, a
<1>5. Len(journal) \in S /\ S \subseteq 0..Len(journal) /\ \A y \in S : y <= Len(journal)
  BY <1>1, <1>4
<1>6. Max(S) = Len(journal)
  BY <1>1, <1>5, MaxIsUnique
<1> QED
  BY <1>3, <1>6 DEF a

\* An event of the writer's own, accepted on top of the journal.
LEMMA RecordingKeepsUp ==
  ASSUME RefreshIInv, SoleWriter, NEW w \in Writers, NEW r \in Runs, NEW k \in Int, Record(w, r, k),
         k = 0 \/ (Current(r) # Unknown /\ k = Current(r) + 1)
  PROVE  RefreshIInv'
<1> DEFINE e == Event(r, k)
           n == Len(journal)
<1>1. w \in Runtimes
  BY RefreshConstants
<1>2. journal \in Seq(JournalEvents) /\ e \in JournalEvents /\ n \in Nat /\ e.run = r /\ e.rank = k
  BY DEF RefreshIInv, Event, JournalEvents
<1>3. journal' = Append(journal, e) /\ proj' = [proj EXCEPT ![w][r] = k]
      /\ applied' = [applied EXCEPT ![w] = n + 1]
  BY DEF Record
<1>4. applied \in [Runtimes -> Nat] /\ proj \in [Runtimes -> [Runs -> Int]]
  BY DEF RefreshIInv
<1> HIDE DEF e, n
<1>5. /\ journal' \in Seq(JournalEvents) /\ Len(journal') = n + 1
      /\ journal'[n + 1] = e /\ \A i \in 1..n : journal'[i] = journal[i]
  BY <1>2, <1>3 DEF n
<1>6. applied' \in [Runtimes -> Nat] /\ proj' \in [Runtimes -> [Runs -> Int]]
  <2>1. proj[w] \in [Runs -> Int] /\ [proj[w] EXCEPT ![r] = k] \in [Runs -> Int]
    BY <1>1, <1>4
  <2>2. proj' = [proj EXCEPT ![w] = [proj[w] EXCEPT ![r] = k]]
    BY <1>3
  <2>3. n + 1 \in Nat
    BY <1>2
  <2>4. applied' \in [Runtimes -> Nat]
    BY <1>3, <1>4, <2>3
  <2>5. proj' \in [Runtimes -> [Runs -> Int]]
    BY <1>4, <2>1, <2>2
  <2> QED
    BY <2>4, <2>5
<1>7. ASSUME NEW i \in 1..Len(journal') PROVE AcceptsIn(journal', Nothing, 0, i)
  <2>1. CASE i \in 1..n
    <3>1. i - 1 \in 0..Len(journal) /\ journal'[i] = journal[i]
      BY <1>2, <1>5, <2>1 DEF n
    <3>2. RankIn(journal', Nothing, 0, i - 1, journal[i].run) = RankIn(journal, Nothing, 0, i - 1, journal[i].run)
      BY <1>2, <1>3, <3>1, ReplayIsStable
    <3>3. AcceptsIn(journal, Nothing, 0, i)
      BY <2>1 DEF RefreshIInv, n
    <3> QED
      BY <3>1, <3>2, <3>3 DEF AcceptsIn
  <2>2. CASE i = n + 1
    <3>1. journal'[i].run = r /\ journal'[i].rank = k /\ i - 1 = n /\ n \in 0..Len(journal)
      BY <1>2, <1>5, <2>2 DEF n
    <3>2. RankIn(journal', Nothing, 0, n, r) = Current(r)
      <4>1. RankIn(journal', Nothing, 0, n, r) = RankIn(journal, Nothing, 0, n, r)
        BY <1>2, <1>3, <3>1, ReplayIsStable
      <4> QED
        BY <4>1, TheseAreThose DEF Current, n
    <3> QED
      BY <3>1, <3>2 DEF AcceptsIn
  <2> QED
    BY <1>2, <1>5, <2>1, <2>2
<1>8. ASSUME NEW u \in Runtimes
      PROVE  applied'[u] \in 0..Len(journal') /\ proj'[u] = ReplayedIn(journal', applied'[u])
  <2>1. CASE u = w
    <3>1. applied[w] = n /\ proj[w] = ReplayedIn(journal, n)
      BY <1>1 DEF RefreshIInv, n
    <3>2. applied'[u] = n + 1 /\ proj'[u] = [proj[w] EXCEPT ![r] = k]
      <4>1. applied'[w] = n + 1
        BY <1>1, <1>3, <1>4
      <4>2. proj' = [proj EXCEPT ![w] = [proj[w] EXCEPT ![r] = k]]
        BY <1>3
      <4>3. proj'[w] = [proj[w] EXCEPT ![r] = k]
        BY <1>1, <1>4, <4>2
      <4> QED
        BY <2>1, <4>1, <4>3
    <3>3. ASSUME NEW q \in Runs PROVE proj'[u][q] = RankIn(journal', Nothing, 0, n + 1, q)
      <4>1. RankIn(journal', Nothing, 0, n + 1, q) = IF e.run = q THEN e.rank ELSE RankIn(journal, Nothing, 0, n, q)
        <5>1. RankIn(Append(journal, e), Nothing, 0, Len(journal) + 1, q)
              = IF e.run = q THEN e.rank ELSE RankIn(journal, Nothing, 0, Len(journal), q)
          <6>1. journal \in Seq(JournalEvents) /\ e \in JournalEvents
            BY <1>2
          <6>2. \A p, x : RankIn(Append(journal, e), p, 0, Len(journal) + 1, x)
                         = IF e.run = x THEN e.rank ELSE RankIn(journal, p, 0, Len(journal), x)
            BY <6>1, ReplayOfTheLast
          <6> QED
            BY <6>2
        <5> QED
          BY <1>3, <5>1 DEF n
      <4>2. proj[w][q] = RankIn(journal, Nothing, 0, n, q)
        BY <3>1 DEF ReplayedIn
      <4>3. proj'[u][q] = IF q = r THEN k ELSE proj[w][q]
        BY <1>1, <1>4, <3>2
      <4> QED
        BY <1>2, <4>1, <4>2, <4>3
    <3>4. proj'[u] = [q \in Runs |-> proj'[u][q]]
      BY <1>6
    <3>5. proj'[u] = ReplayedIn(journal', n + 1)
      BY <3>3, <3>4 DEF ReplayedIn
    <3> QED
      BY <1>2, <1>5, <3>2, <3>5
  <2>2. CASE u # w
    <3>1. applied'[u] = applied[u] /\ proj'[u] = proj[u] /\ applied[u] \in 0..Len(journal)
      BY <1>3, <1>4, <2>2 DEF RefreshIInv
    <3>2. \A q \in Runs : RankIn(journal', Nothing, 0, applied[u], q) = RankIn(journal, Nothing, 0, applied[u], q)
      BY <1>2, <1>3, <3>1, ReplayIsStable
    <3>3. ReplayedIn(journal', applied[u]) = ReplayedIn(journal, applied[u])
      BY <3>2 DEF ReplayedIn
    <3>4. proj[u] = ReplayedIn(journal, applied[u])
      BY DEF RefreshIInv
    <3> QED
      BY <1>2, <1>5, <3>1, <3>3, <3>4 DEF n
  <2> QED
    BY <2>1, <2>2
<1>9. \A u \in Writers : applied'[u] = Len(journal')
  BY <1>1, <1>3, <1>4, <1>5 DEF SoleWriter
<1> QED
  BY <1>5, <1>6, <1>7, <1>8, <1>9 DEF RefreshIInv

\* A projection that is replaced by the replay of the whole journal.
LEMMA CatchingUp ==
  ASSUME RefreshIInv, NEW w \in Runtimes, journal' = journal,
         proj' = [proj EXCEPT ![w] = ReplayedIn(journal, Len(journal))],
         applied' = [applied EXCEPT ![w] = Len(journal)]
  PROVE  RefreshIInv'
<1>1. applied \in [Runtimes -> Nat] /\ proj \in [Runtimes -> [Runs -> Int]] /\ Len(journal) \in Nat
      /\ journal \in Seq(JournalEvents) /\ Len(journal) \in 0..Len(journal)
  BY DEF RefreshIInv
<1>2. ReplayedIn(journal, Len(journal)) \in [Runs -> Int]
  BY <1>1, RankIsTyped DEF ReplayedIn
<1>3. applied' \in [Runtimes -> Nat] /\ proj' \in [Runtimes -> [Runs -> Int]]
  BY <1>1, <1>2
<1>4. ASSUME NEW u \in Runtimes
      PROVE  applied'[u] \in 0..Len(journal') /\ proj'[u] = ReplayedIn(journal', applied'[u])
  <2>1. CASE u = w
    BY <1>1, <2>1
  <2>2. CASE u # w
    BY <1>1, <2>2 DEF RefreshIInv
  <2> QED
    BY <2>1, <2>2
<1>5. \A u \in Writers : applied'[u] = Len(journal')
  <2>1. Writers \subseteq Runtimes
    BY RefreshConstants
  <2> QED
    BY <1>1, <2>1 DEF RefreshIInv
<1> QED
  BY <1>1, <1>3, <1>4, <1>5 DEF RefreshIInv

LEMMA RefreshIsInductive ==
  ASSUME RefreshIInv, SoleWriter, [RefreshNext]_refreshVars
  PROVE  RefreshIInv'
<1>1. ASSUME NEW w \in Writers, NEW r \in Runs, CreateRun(w, r) PROVE RefreshIInv'
  BY <1>1, RecordingKeepsUp DEF CreateRun
<1>2. ASSUME NEW w \in Writers, NEW r \in Runs, ChangeStatus(w, r) PROVE RefreshIInv'
  <2>1. w \in Runtimes
    BY RefreshConstants
  <2>2. proj[w][r] \in Int
    BY <2>1 DEF RefreshIInv
  <2>3. proj[w][r] + 1 \in Int
    BY <2>2
  <2> QED
    BY <1>2, <2>3, RecordingKeepsUp DEF ChangeStatus
<1>3. ASSUME NEW w \in Runtimes, Refresh(w) PROVE RefreshIInv'
  <2> DEFINE n == Len(journal)
             caught == [r \in Runs |-> RankAfter(proj[w], applied[w], n, r)]
  <2>1. journal' = journal /\ proj' = [proj EXCEPT ![w] = caught] /\ applied' = [applied EXCEPT ![w] = n]
    BY <1>3, AllIsReplayed DEF Refresh
  <2>2. applied[w] \in Nat /\ n \in Nat /\ applied[w] <= n /\ 0 \in Nat /\ 0 <= applied[w]
        /\ proj[w] = [q \in Runs |-> RankIn(journal, Nothing, 0, applied[w], q)]
    BY DEF RefreshIInv, ReplayedIn
  <2>3. \A r \in Runs : RankIn(journal, proj[w], applied[w], n, r) = RankIn(journal, Nothing, 0, n, r)
    BY <2>2, ReplayInTwo
  <2>4. caught = ReplayedIn(journal, n)
    BY <2>3, TheseAreThose DEF ReplayedIn
  <2> HIDE DEF caught
  <2> QED
    BY <2>1, <2>4, CatchingUp
<1>4. ASSUME NEW w \in Runtimes, Rehydrate(w) PROVE RefreshIInv'
  <2>1. journal' = journal /\ applied' = [applied EXCEPT ![w] = Len(journal)]
        /\ proj' = [proj EXCEPT ![w] = ReplayedIn(journal, Len(journal))]
    BY <1>4, TheseAreThose DEF Rehydrate
  <2> QED
    BY <2>1, CatchingUp
<1>5. CASE UNCHANGED refreshVars
  BY <1>5 DEF refreshVars, RefreshIInv
<1> QED
  BY <1>1, <1>2, <1>3, <1>4, <1>5 DEF RefreshNext

\* While one runtime writes, the incremental projection of every other one is a
\* replay of the journal up to its mark, and no refresh is refused an event,
\* whenever they refresh and restart (refresh and hydrate in runtime.ts).
THEOREM ProjectionsKeepUp ==
  ASSUME SoleWriter
  PROVE  RefreshSpec => []RefreshInv
<1>1. RefreshInit => RefreshIInv
  <2> SUFFICES ASSUME RefreshInit PROVE RefreshIInv
    OBVIOUS
  <2>1. journal = <<>> /\ journal \in Seq(JournalEvents) /\ Len(journal) = 0
    BY DEF RefreshInit
  <2>2. Nothing \in [Runs -> Int]
    BY DEF Nothing, Unknown
  <2>3. applied \in [Runtimes -> Nat] /\ proj \in [Runtimes -> [Runs -> Int]]
    BY <2>2 DEF RefreshInit
  <2>4. ReplayedIn(journal, 0) = Nothing
    <3>1. \A r \in Runs : RankIn(journal, Nothing, 0, 0, r) = Nothing[r]
      BY DEF RankIn
    <3>2. Nothing = [r \in Runs |-> Nothing[r]]
      BY DEF Nothing
    <3> QED
      BY <3>1, <3>2 DEF ReplayedIn
  <2>5. \A w \in Runtimes : applied[w] = 0 /\ proj[w] = Nothing
    BY DEF RefreshInit
  <2>6. \A w \in Writers : w \in Runtimes
    BY RefreshConstants
  <2> QED
    BY <2>1, <2>3, <2>4, <2>5, <2>6 DEF RefreshIInv
<1>2. RefreshIInv /\ [RefreshNext]_refreshVars => RefreshIInv'
  BY RefreshIsInductive
<1>3. RefreshIInv => RefreshInv
  BY TheseAreThose, AllIsReplayed DEF RefreshIInv, RefreshInv, ProjectionIsReplay, RefreshGoesThrough
<1> QED
  BY <1>1, <1>2, <1>3, PTL DEF RefreshSpec

-----------------------------------------------------------------------------
(* Verification.                                                             *)

\* What the verdicts on a plan's text and on its evidence rest on does not change
\* while the files do: a run without a remark has every static condition met.
CheckResults == [failed : BOOLEAN, needsReview : BOOLEAN]
Spotless(n) == Len(results) >= n /\ ~results[n].failed /\ ~results[n].needsReview

CriteriaChecked ==
  \A s \in DOMAIN checkedPlan :
    /\ "quality" \notin checkedPlan[s].criteria
    /\ checkedPlan[s].criteria # {} => checkedPlan[s].promised # {}
    /\ ActsOutside(checkedPlan[s].risk) =>
         \E e \in ToSet(evidence) : e.step = s /\ e.kind = "receipt" /\ e.locator # NoLocator
TestsChecked == \A s \in DOMAIN checkedPlan : checkedPlan[s].test = "none"

VerificationIInv ==
  /\ VerificationTypeOK /\ results \in Seq(CheckResults) /\ NothingOutsideDecides
  /\ Spotless(1) => CriteriaChecked
  /\ Spotless(2) => TestsChecked
  /\ reviewed => status \in {"completed", "failed"}
  /\ status = "waiting_review" \/ reviewed => \A i \in DOMAIN results : ~results[i].failed
  /\ status = "completed" /\ ~reviewed => Spotless(1) /\ Spotless(2)

LEMMA VerificationBegins == VerificationInit => VerificationIInv
<1> SUFFICES ASSUME VerificationInit PROVE VerificationIInv
  OBVIOUS
<1>1. results \in Seq(CheckResults) /\ Len(results) = 0 /\ DOMAIN results = {}
  BY DEF VerificationInit
<1>2. VerificationTypeOK
  <2>1. \A i \in DOMAIN evidence : evidence[i].locator \in Locators
    BY VerificationAssumption DEF VerificationInit
  <2>2. Len(results) <= 3
    BY <1>1
  <2>3. fileEdits \in 0 .. MaxFileEdits
    BY VerificationAssumption DEF VerificationInit
  <2> QED BY <2>1, <2>2, <2>3 DEF VerificationInit, VerificationTypeOK
<1> QED BY <1>1, <1>2 DEF VerificationInit, VerificationIInv, NothingOutsideDecides, Spotless

\* What the verifiers open is in the workspace, or is what Resolved turned down.
LEMMA FirstIsWanted == ASSUME NEW wanted, NEW e \in FirstOf(wanted) PROVE e \in wanted
  BY DEF FirstOf

LEMMA OpensInside == EvidenceOpens \subseteq Files /\ PluginOpens \subseteq Files
<1>1. \A s, f : Found(s, f) \subseteq Files
  <2> SUFFICES ASSUME NEW s, NEW f, NEW place \in Found(s, f) PROVE place \in Files
    OBVIOUS
  <2>1. CASE Naming(s, f) # {}
    <3>1. PICK e \in FirstOf(Naming(s, f)) : place = e.locator
      BY <2>1 DEF Found
    <3>2. e \in Naming(s, f)
      BY <3>1, FirstIsWanted
    <3> QED BY <3>1, <3>2 DEF Naming, Resolved
  <2>2. CASE Naming(s, f) = {}
    BY <2>2 DEF Found, Resolved
  <2> QED BY <2>1, <2>2
<1>2. EvidenceOpens \subseteq Files
  BY <1>1 DEF EvidenceOpens
<1>3. PluginOpens \subseteq Files
  BY DEF PluginOpens, Resolved
<1> QED BY <1>2, <1>3

LEMMA VerdictType == ASSUME NEW f \in BOOLEAN, NEW u \in BOOLEAN
                     PROVE  /\ Verdict(f, u) \in CheckResults /\ Verdict(f, u).failed = f
                            /\ Verdict(f, u).needsReview = (u /\ ~f)
  BY DEF Verdict, CheckResults

LEMMA VerdictsRest ==
  /\ EvidenceVerdict \in CheckResults /\ TestVerdict \in CheckResults /\ DiffVerdict \in CheckResults
  /\ ~EvidenceVerdict.failed /\ ~EvidenceVerdict.needsReview => CriteriaChecked
  /\ ~TestVerdict.failed /\ ~TestVerdict.needsReview => TestsChecked
<1>1. EvidenceVerdict \in CheckResults /\ (~EvidenceVerdict.failed /\ ~EvidenceVerdict.needsReview => CriteriaChecked)
  <2> DEFINE Failed(s) ==
               \/ OfStep(s) = {}
               \/ ActsOutside(checkedPlan[s].risk)
                  /\ ~\E e \in OfStep(s) : e.kind = "receipt" /\ e.locator # NoLocator
               \/ \E f \in checkedPlan[s].promised : ~\E p \in Found(s, f) : Readable(p) = "good"
             Unverified(s) ==
               IF checkedPlan[s].promised = {} THEN checkedPlan[s].criteria # {} ELSE "quality" \in checkedPlan[s].criteria
             fails == \E s \in DOMAIN checkedPlan : Failed(s)
             open == \E s \in DOMAIN checkedPlan : Unverified(s)
  <2>1. EvidenceVerdict = Verdict(fails, open)
    BY DEF EvidenceVerdict
  <2>2. fails \in BOOLEAN /\ open \in BOOLEAN
    OBVIOUS
  <2>3. ~fails /\ ~open => CriteriaChecked
    <3> SUFFICES ASSUME ~fails, ~open, NEW s \in DOMAIN checkedPlan
                 PROVE  /\ "quality" \notin checkedPlan[s].criteria
                        /\ checkedPlan[s].criteria # {} => checkedPlan[s].promised # {}
                        /\ ActsOutside(checkedPlan[s].risk) =>
                             \E e \in ToSet(evidence) : e.step = s /\ e.kind = "receipt" /\ e.locator # NoLocator
      BY DEF CriteriaChecked
    <3>1. ~Failed(s) /\ ~Unverified(s)
      OBVIOUS
    <3> QED BY <3>1 DEF OfStep
  <2> HIDE DEF fails, open
  <2> QED BY <2>1, <2>2, <2>3, VerdictType
<1>2. TestVerdict \in CheckResults /\ (~TestVerdict.failed /\ ~TestVerdict.needsReview => TestsChecked)
  <2> DEFINE fails == \E s \in DOMAIN checkedPlan : TestFailed(s)
             open == \E s \in DOMAIN checkedPlan : checkedPlan[s].test # "none"
  <2>1. TestVerdict = Verdict(fails, open) /\ fails \in BOOLEAN /\ open \in BOOLEAN
    BY DEF TestVerdict
  <2>2. ~open => TestsChecked
    BY DEF TestsChecked
  <2> HIDE DEF fails, open
  <2> QED BY <2>1, <2>2, VerdictType
<1>3. DiffVerdict \in CheckResults
  <2> DEFINE Failed(s) ==
               /\ checkedPlan[s].diff
               /\ \/ DiffItem(s) = {}
                  \/ \E e \in DiffItem(s) : ~Resolved(e.locator) \/ Readable(e.locator) # "good"
             fails == \E s \in DOMAIN checkedPlan : Failed(s)
  <2>1. DiffVerdict = Verdict(fails, FALSE) /\ fails \in BOOLEAN
    BY DEF DiffVerdict
  <2> HIDE DEF fails
  <2> QED BY <2>1, VerdictType
<1> QED BY <1>1, <1>2, <1>3

LEMMA VerificationGoesOn == VerificationIInv /\ [VerificationNext]_checkVars => VerificationIInv'
<1> SUFFICES ASSUME VerificationIInv, [VerificationNext]_checkVars PROVE VerificationIInv'
  OBVIOUS
<1>T. VerificationTypeOK /\ results \in Seq(CheckResults)
  BY DEF VerificationIInv
<1>N. Len(results) \in Nat
  BY <1>T
<1>0. CASE UNCHANGED checkVars
  BY <1>0 DEF checkVars, VerificationIInv, VerificationTypeOK, NothingOutsideDecides, Spotless, CriteriaChecked, TestsChecked
<1>1. CASE Check
  <2>1. /\ status = "verifying" /\ Len(results) < 3 /\ UNCHANGED <<checkedPlan, evidence, files, status, reviewed, fileEdits>>
        /\ results' = Append(results, <<EvidenceVerdict, TestVerdict, DiffVerdict>>[Len(results) + 1])
        /\ opened' = opened \cup (IF results = <<>> THEN EvidenceOpens ELSE PluginOpens)
    BY <1>1 DEF Check
  <2>0. Len(results) = 0 \/ Len(results) = 1 \/ Len(results) = 2
    <3>1. \A n \in Nat : n < 3 => n = 0 \/ n = 1 \/ n = 2
      OBVIOUS
    <3>2. Len(results) < 3
      BY <1>1 DEF Check
    <3> QED BY <1>N, <3>1, <3>2
  <2>2. PICK v \in CheckResults :
          /\ results' = Append(results, v)
          /\ Len(results) = 0 /\ ~v.failed /\ ~v.needsReview => CriteriaChecked
          /\ Len(results) = 1 /\ ~v.failed /\ ~v.needsReview => TestsChecked
    <3>1. CASE Len(results) = 0
      <4>1. results' = Append(results, EvidenceVerdict)
        BY <2>1, <3>1
      <4> QED BY <3>1, <4>1, VerdictsRest
    <3>2. CASE Len(results) = 1
      <4>1. results' = Append(results, TestVerdict)
        BY <2>1, <3>2
      <4> QED BY <3>2, <4>1, VerdictsRest
    <3>3. CASE Len(results) = 2
      <4>1. results' = Append(results, DiffVerdict)
        BY <2>1, <3>3
      <4> QED BY <3>3, <4>1, VerdictsRest
    <3> QED BY <2>0, <3>1, <3>2, <3>3
  <2>3. /\ results' \in Seq(CheckResults) /\ Len(results') = Len(results) + 1 /\ Len(results') <= 3
        /\ results'[Len(results) + 1] = v /\ \A i \in 1 .. Len(results) : results'[i] = results[i]
    BY <2>1, <2>2, <1>T
  <2>4. opened' \subseteq Files \cup {Outside} /\ Outside \notin opened'
    BY <2>1, OpensInside, VerificationAssumption DEF VerificationIInv, VerificationTypeOK, NothingOutsideDecides
  <2>5. VerificationTypeOK'
    BY <2>1, <2>3, <2>4, <1>T DEF VerificationTypeOK
  <2>6. CriteriaChecked' <=> CriteriaChecked
    BY <2>1 DEF CriteriaChecked
  <2>7. TestsChecked' <=> TestsChecked
    BY <2>1 DEF TestsChecked
  <2>8. Spotless(1)' => CriteriaChecked
    <3>1. CASE Len(results) = 0
      BY <3>1, <2>2, <2>3 DEF Spotless
    <3>2. CASE Len(results) >= 1
      BY <3>2, <2>3, <1>T DEF Spotless, VerificationIInv
    <3> QED BY <3>1, <3>2, <1>N
  <2>9. Spotless(2)' => TestsChecked
    <3>1. CASE Len(results) = 1
      BY <3>1, <2>2, <2>3 DEF Spotless
    <3>2. CASE Len(results) = 2
      BY <3>2, <2>3, <1>T DEF Spotless, VerificationIInv
    <3>3. CASE Len(results) = 0
      BY <3>3, <2>3 DEF Spotless
    <3> QED BY <2>0, <3>1, <3>2, <3>3
  <2>10. ~reviewed
    BY <2>1 DEF VerificationIInv
  <2> QED BY <2>1, <2>3, <2>4, <2>5, <2>6, <2>7, <2>8, <2>9, <2>10 DEF VerificationIInv, NothingOutsideDecides
<1>2. CASE Conclude
  <2>1. /\ status = "verifying" /\ Len(results) = 3 /\ status' = Outcome
        /\ UNCHANGED <<checkedPlan, evidence, files, results, opened, reviewed, fileEdits>>
    BY <1>2 DEF Conclude
  <2>2. ~reviewed
    BY <2>1 DEF VerificationIInv
  <2>3. \A i \in DOMAIN results : results[i] \in ToSet(results)
    BY DEF ToSet
  <2>4. /\ status' \in {"waiting_review", "completed", "failed"}
        /\ status' # "failed" => \A i \in DOMAIN results : ~results[i].failed
        /\ status' = "completed" => \A i \in DOMAIN results : ~results[i].needsReview
    BY <2>1, <2>3 DEF Outcome
  <2>5. status' = "completed" => Spotless(1) /\ Spotless(2)
    BY <2>1, <2>4, <1>T DEF Spotless
  <2> QED BY <2>1, <2>2, <2>4, <2>5
          DEF VerificationIInv, VerificationTypeOK, NothingOutsideDecides, Spotless, CriteriaChecked, TestsChecked
<1>3. ASSUME NEW decision, Review(decision) PROVE VerificationIInv'
  BY <1>3 DEF Review, VerificationIInv, VerificationTypeOK, NothingOutsideDecides, Spotless, CriteriaChecked, TestsChecked
<1>4. ASSUME NEW f \in Files, NEW c \in {"absent", "good"}, ChangeFile(f, c) PROVE VerificationIInv'
  <2>1. files' \in [Files -> Contents]
    BY <1>4, <1>T DEF ChangeFile, VerificationTypeOK, Contents
  <2>2. fileEdits' \in 0 .. MaxFileEdits
    BY <1>4, <1>T, VerificationAssumption DEF ChangeFile, VerificationTypeOK
  <2> QED BY <1>4, <2>1, <2>2
          DEF ChangeFile, VerificationIInv, VerificationTypeOK, NothingOutsideDecides, Spotless, CriteriaChecked, TestsChecked
<1> QED BY <1>0, <1>1, <1>2, <1>3, <1>4 DEF VerificationNext

\* For any plan, any evidence and any files that change between one verifier and
\* the next: a run completes without its owner only when everything was checked,
\* what was refuted is not put to the owner, and nothing outside the workspace
\* decides (verification.ts, verifier-plugins.ts).
THEOREM VerificationHolds == VerificationSpec => []VerificationInv
<1>1. VerificationIInv => VerificationInv
  BY DEF VerificationIInv, VerificationInv, CompletedWasChecked, RefutedIsNotReviewed, CriteriaChecked, TestsChecked
<1> QED BY <1>1, VerificationBegins, VerificationGoesOn, PTL DEF VerificationSpec

-----------------------------------------------------------------------------
(* Corroboration.                                                            *)

Wording == [provider : Capable, category : Categories, words : SUBSET Words]
Reporters(rs) == {rs[k].provider : k \in DOMAIN rs}

\* While the order runs, who reported was given up on, and is sent again only when
\* all that could be sent were given up on.
CorroborationIInv ==
  /\ CorroborationTypeOK /\ reports \in Seq(Wording)
  /\ orderStatus = "running" =>
       /\ Len(reports) + 1 <= attempt /\ Reporters(reports) \subseteq tried
       /\ worker \in tried => Capable \subseteq tried
  /\ WallNeedsTwo /\ OthersAreAskedFirst

LEMMA CorroborationBegins == CorroborationInit => CorroborationIInv
<1> SUFFICES ASSUME CorroborationInit PROVE CorroborationIInv
  OBVIOUS
<1>1. reports \in Seq(Wording) /\ Len(reports) = 0 /\ DOMAIN reports = {} /\ attempt = 1 /\ 1 \in 1 .. MaxAttempts
  BY CorroborationAssumption DEF CorroborationInit
<1>2. tried = {} /\ Reporters(reports) = {} /\ worker \in Capable /\ orderStatus = "running"
  BY <1>1 DEF CorroborationInit, Reporters
<1> QED BY <1>1, <1>2 DEF CorroborationIInv, CorroborationTypeOK, WallNeedsTwo, OthersAreAskedFirst

\* Two reports that agree are of different workers: each is its worker's first.
LEMMA TwoAgree ==
  ASSUME NEW rs \in Seq(Wording), Corroborated(rs)
  PROVE  \E i, j \in DOMAIN rs : rs[i].provider # rs[j].provider /\ rs[i].category = rs[j].category
<1>1. PICK pair \in SUBSET Independent(rs) : Cardinality(pair) = 2 /\ \A a, b \in pair : a.category = b.category
  BY DEF Corroborated, Agreeing
<1>2. pair # {}
  <2>1. Cardinality({}) = 0
    BY FS_EmptySet
  <2> QED BY <1>1, <2>1
<1>3. PICK a \in pair : TRUE
  BY <1>2
<1>4. pair # {a}
  <2>1. Cardinality({a}) = 1
    BY FS_Singleton
  <2> QED BY <1>1, <2>1
<1>5. PICK b \in pair : b # a
  BY <1>3, <1>4
<1>6. PICK i \in DOMAIN rs : a = rs[i] /\ \A k \in 1 .. i - 1 : rs[k].provider # rs[i].provider
  BY <1>1, <1>3 DEF Independent
<1>7. PICK j \in DOMAIN rs : b = rs[j] /\ \A k \in 1 .. j - 1 : rs[k].provider # rs[j].provider
  BY <1>1, <1>5 DEF Independent
<1>8. i \in Nat /\ j \in Nat /\ i >= 1 /\ j >= 1 /\ i # j
  BY <1>5, <1>6, <1>7
<1>9. rs[i].provider # rs[j].provider
  <2>1. CASE i < j
    <3>1. i \in 1 .. j - 1
      BY <1>8, <2>1
    <3> QED BY <1>7, <3>1
  <2>2. CASE j < i
    <3>1. j \in 1 .. i - 1
      BY <1>8, <2>2
    <3> QED BY <1>6, <3>1
  <2> QED BY <1>8, <2>1, <2>2
<1> QED BY <1>1, <1>3, <1>5, <1>6, <1>7, <1>9

\* What becomes of the order, once the failed worker is the only one that may be new among the reports.
LEMMA GoingOn ==
  ASSUME CorroborationIInv, orderStatus = "running", GoOn, reports' \in Seq(Wording), Len(reports') <= attempt,
         Reporters(reports') \subseteq tried \cup {worker},
         \A i, j \in DOMAIN reports' :
           i < j /\ reports'[i].provider = reports'[j].provider => Capable \subseteq tried \cup {worker}
  PROVE  CorroborationIInv'
<1>T. /\ worker \in Capable /\ tried \subseteq ToSet(Ranking) /\ attempt \in 1 .. MaxAttempts
      /\ (worker \in tried => Capable \subseteq tried)
  BY DEF CorroborationIInv, CorroborationTypeOK
<1>4. Len(reports') \in Nat
  OBVIOUS
<1>8. Capable \subseteq ToSet(Ranking) /\ MaxAttempts \in Nat
  BY CorroborationAssumption
<1>9. CASE Corroborated(reports')
  <2>1. orderStatus' = "escalated" /\ UNCHANGED <<worker, tried, attempt>>
    BY <1>9 DEF GoOn
  <2>2. WallNeedsTwo'
    BY <1>9, TwoAgree DEF WallNeedsTwo
  <2>3. CorroborationTypeOK' /\ OthersAreAskedFirst'
    BY <1>T, <1>4, <2>1 DEF CorroborationTypeOK, OthersAreAskedFirst
  <2> QED BY <2>1, <2>2, <2>3 DEF CorroborationIInv
<1>10. CASE ~Corroborated(reports') /\ BudgetSpent
  <2>1. orderStatus' = "exhausted" /\ UNCHANGED <<worker, tried, attempt>>
    BY <1>10 DEF GoOn
  <2>2. CorroborationTypeOK' /\ OthersAreAskedFirst'
    BY <1>T, <1>4, <2>1 DEF CorroborationTypeOK, OthersAreAskedFirst
  <2> QED BY <2>1, <2>2 DEF CorroborationIInv, WallNeedsTwo
<1>11. CASE ~Corroborated(reports') /\ ~BudgetSpent
  <2>1. /\ tried' = tried \cup {worker} /\ attempt' = attempt + 1 /\ orderStatus' = "running"
        /\ IF Left = {} THEN worker' = worker ELSE worker' \in NextWorker
    BY <1>11 DEF GoOn
  <2>2. attempt' \in 1 .. MaxAttempts /\ Len(reports') + 1 <= attempt'
    BY <1>T, <1>4, <1>8, <1>11, <2>1 DEF BudgetSpent
  <2>3. worker' \in Capable /\ (worker' \in tried' => Capable \subseteq tried')
    BY <1>T, <2>1 DEF Left, NextWorker
  <2>4. CorroborationTypeOK'
    BY <1>T, <1>4, <1>8, <2>1, <2>2, <2>3 DEF CorroborationTypeOK
  <2>5. OthersAreAskedFirst'
    BY <2>1 DEF OthersAreAskedFirst
  <2> QED BY <2>1, <2>2, <2>3, <2>4, <2>5 DEF CorroborationIInv, WallNeedsTwo
<1> QED BY <1>9, <1>10, <1>11

LEMMA Failing == ASSUME CorroborationIInv, NEW c \in Categories, NEW ws \in SUBSET Words, FailAttempt(c, ws)
                 PROVE  CorroborationIInv'
<1>T. /\ worker \in Capable /\ tried \subseteq ToSet(Ranking) /\ attempt \in 1 .. MaxAttempts
      /\ reports \in Seq(Wording) /\ Len(reports) \in Nat
  BY DEF CorroborationIInv, CorroborationTypeOK
<1> DEFINE r == Report(worker, c, ws)
           n == Len(reports) + 1
<1>1. r \in Wording /\ r.provider = worker
  BY <1>T DEF Report, Wording
<1>2. orderStatus = "running" /\ reports' = Append(reports, r)
  BY DEF FailAttempt
<1>3. n <= attempt /\ Reporters(reports) \subseteq tried /\ (worker \in tried => Capable \subseteq tried)
  BY <1>2 DEF CorroborationIInv
<1> HIDE DEF r
<1>4. /\ reports' \in Seq(Wording) /\ Len(reports') = n /\ DOMAIN reports' = 1 .. n /\ DOMAIN reports = 1 .. Len(reports)
      /\ reports'[n] = r /\ \A i \in 1 .. Len(reports) : reports'[i] = reports[i]
  BY <1>1, <1>2, <1>T
<1>5. \A i \in 1 .. n : i = n \/ i \in 1 .. Len(reports)
  BY <1>T
<1>6. Reporters(reports') \subseteq tried \cup {worker}
  BY <1>1, <1>3, <1>4, <1>5 DEF Reporters
<1>7. ASSUME NEW i \in DOMAIN reports', NEW j \in DOMAIN reports', i < j, reports'[i].provider = reports'[j].provider
      PROVE  Capable \subseteq tried \cup {worker}
  <2>1. i \in 1 .. Len(reports) /\ i \in 1 .. n /\ j \in 1 .. n
    BY <1>4, <1>7, <1>T
  <2>2. CASE j \in 1 .. Len(reports)
    <3>1. reports[i].provider = reports[j].provider
      BY <1>4, <1>7, <2>1, <2>2
    <3> QED
      BY <1>4, <1>7, <2>1, <2>2, <3>1 DEF CorroborationIInv, OthersAreAskedFirst
  <2>3. CASE j = n
    <3>1. reports[i].provider = worker
      BY <1>1, <1>4, <1>7, <2>1, <2>3
    <3>2. worker \in tried
      BY <1>3, <1>4, <2>1, <3>1 DEF Reporters
    <3> QED BY <1>3, <3>2
  <2> QED BY <1>5, <2>1, <2>2, <2>3
<1>8. GoOn
  BY DEF FailAttempt
<1> QED BY <1>2, <1>3, <1>4, <1>6, <1>7, <1>8, GoingOn

LEMMA FailingUnreported == ASSUME CorroborationIInv, FailUnreported PROVE CorroborationIInv'
<1>1. orderStatus = "running" /\ reports' = reports /\ GoOn
  BY DEF FailUnreported
<1>2. /\ reports \in Seq(Wording) /\ Len(reports) <= attempt /\ Reporters(reports) \subseteq tried
      /\ \A i, j \in DOMAIN reports : i < j /\ reports[i].provider = reports[j].provider => Capable \subseteq tried \cup {worker}
  BY <1>1 DEF CorroborationIInv, CorroborationTypeOK, OthersAreAskedFirst
<1>3. Reporters(reports') \subseteq tried \cup {worker}
  BY <1>1, <1>2 DEF Reporters
<1> QED BY <1>1, <1>2, <1>3, GoingOn

LEMMA CorroborationGoesOn == CorroborationIInv /\ [CorroborationNext]_corroborationVars => CorroborationIInv'
<1> SUFFICES ASSUME CorroborationIInv, [CorroborationNext]_corroborationVars PROVE CorroborationIInv'
  OBVIOUS
<1>1. CASE UNCHANGED corroborationVars
  BY <1>1 DEF corroborationVars, CorroborationIInv, CorroborationTypeOK, WallNeedsTwo, OthersAreAskedFirst, Reporters
<1>2. CASE Succeed
  BY <1>2 DEF Succeed, CorroborationIInv, CorroborationTypeOK, WallNeedsTwo, OthersAreAskedFirst
<1>3. ASSUME NEW c \in Categories, NEW ws \in SUBSET Words, FailAttempt(c, ws) PROVE CorroborationIInv'
  BY <1>3, Failing
<1>4. CASE FailUnreported
  BY <1>4, FailingUnreported
<1> QED BY <1>1, <1>2, <1>3, <1>4 DEF CorroborationNext

\* However many workers there are and however often they may fail: an order is
\* given up as hopeless only when two of them failed alike, and none is asked
\* twice before every other one was (failure-analysis.ts, runtime.ts).
THEOREM CorroborationHolds == CorroborationSpec => []CorroborationInv
<1>1. CorroborationIInv => CorroborationInv
  BY DEF CorroborationIInv, CorroborationInv
<1> QED BY <1>1, CorroborationBegins, CorroborationGoesOn, PTL DEF CorroborationSpec

\* What becomes of a run rests on what was checked and on what workers reported,
\* of which neither touches the other's state.
THEOREM VerdictsHold == VerificationSpec /\ CorroborationSpec => []VerdictsInv
  BY VerificationHolds, CorroborationHolds, PTL DEF VerdictsInv

-----------------------------------------------------------------------------
(* Planning.                                                                 *)

AnyRisk == {"read_only", "reversible_write", "external_side_effect", "irreversible"}

LEMMA Ranks ==
  /\ ToSet(Risks) = AnyRisk
  /\ RiskRank("read_only") = 1 /\ RiskRank("reversible_write") = 2
  /\ RiskRank("external_side_effect") = 3 /\ RiskRank("irreversible") = 4
<1>1. DOMAIN Risks = 1 .. 4 /\ Len(Risks) = 4
  BY DEF Risks
<1>2. \A i \in 1 .. 4 : i = 1 \/ i = 2 \/ i = 3 \/ i = 4
  OBVIOUS
<1>3. Risks[1] = "read_only" /\ Risks[2] = "reversible_write" /\ Risks[3] = "external_side_effect" /\ Risks[4] = "irreversible"
  BY DEF Risks
<1>4. ToSet(Risks) = AnyRisk
  <2>1. 1 \in 1 .. 4 /\ 2 \in 1 .. 4 /\ 3 \in 1 .. 4 /\ 4 \in 1 .. 4
    OBVIOUS
  <2> QED BY <1>1, <1>2, <1>3, <2>1 DEF ToSet, AnyRisk
<1>5. ASSUME NEW n \in 1 .. 4 PROVE RiskRank(Risks[n]) = n
  <2>1. \A i \in 1 .. 4 : Risks[i] = Risks[n] => i = n
    BY <1>2, <1>3
  <2>2. (CHOOSE i \in 1 .. 4 : Risks[i] = Risks[n]) \in {i \in 1 .. 4 : Risks[i] = Risks[n]}
    OBVIOUS
  <2> QED BY <2>1, <2>2 DEF RiskRank
<1>6. RiskRank(Risks[1]) = 1 /\ RiskRank(Risks[2]) = 2 /\ RiskRank(Risks[3]) = 3 /\ RiskRank(Risks[4]) = 4
  <2>1. 1 \in 1 .. 4 /\ 2 \in 1 .. 4 /\ 3 \in 1 .. 4 /\ 4 \in 1 .. 4
    OBVIOUS
  <2> QED BY <1>5, <2>1
<1> QED BY <1>3, <1>4, <1>6

LEMMA RankIsNumber == \A risk \in ToSet(Risks) : RiskRank(risk) \in Nat
  BY Ranks DEF AnyRisk

LEMMA FloorIsNumber == \A needs : Floor(needs) \in Nat
  BY DEF Floor

\* What the owner's words ask for is kept from the routing to the plan; no unit of
\* a plan exceeds the risk of its step, from the moment it is proposed.
RisksNest(p) == \A i \in DOMAIN p : \A j \in DOMAIN p[i].units : RiskRank(p[i].units[j].risk) <= RiskRank(p[i].risk)
AllSteps(p) == \A i \in DOMAIN p : IsStep(p[i])
IntentKept == request.named # Nobody => routed.pinned /\ routed.to = request.named

PlanningIInv ==
  /\ PlanningTypeOK /\ routed = [to |-> routed.to, pinned |-> routed.pinned]
  /\ stage # "over" => run = "planning"
  /\ stage \in {"asked", "routed"} => plan = <<>>
  /\ stage \in {"routed", "planned"} => IntentKept
  /\ stage = "planned" => AllSteps(plan) /\ RisksNest(plan) /\ (proposed = 0 => plan = LocalPlan)
  /\ LocalPlansAreAccepted /\ NamedOrRefused /\ GateSeesTheRisk

LEMMA PlanningBegins == PlanningInit => PlanningIInv
<1> SUFFICES ASSUME PlanningInit PROVE PlanningIInv
  OBVIOUS
<1>1. 0 \in 0 .. MaxProposals /\ enabled \subseteq Workers
  BY PlanningAssumption DEF PlanningInit
<1> QED BY <1>1 DEF PlanningInit, PlanningIInv, PlanningTypeOK, LocalPlansAreAccepted, NamedOrRefused, GateSeesTheRisk

\* A unit that is given a worker stays a unit of the same risk.
LEMMA AssignedUnit ==
  ASSUME NEW u, IsUnit(u)
  PROVE  /\ Assigned(u).risk = u.risk /\ (routed.pinned => Assigned(u).worker = routed.to)
<1>1. PICK id, w, needs, risk, after, receipt :
        u = [id |-> id, worker |-> w, needs |-> needs, risk |-> risk, after |-> after, receipt |-> receipt]
  BY DEF IsUnit
<1>2. \A x : [u EXCEPT !.worker = x].risk = u.risk /\ [u EXCEPT !.worker = x].worker = x
  BY <1>1
<1>3. \A x, y : [u EXCEPT !.worker = x, !.needs = y].risk = u.risk /\ [u EXCEPT !.worker = x, !.needs = y].worker = x
  BY <1>1
<1> QED BY <1>2, <1>3 DEF Assigned

\* The plan after the assignment, step by step and unit by unit.
LEMMA AssignedSteps ==
  ASSUME AllSteps(plan), NEW i \in DOMAIN plan
  PROVE  /\ DOMAIN AssignedPlan = DOMAIN plan
         /\ AssignedPlan[i].risk = plan[i].risk /\ AssignedPlan[i].single = plan[i].single
         /\ AssignedPlan[i].units = [j \in DOMAIN plan[i].units |-> Assigned(plan[i].units[j])]
<1>1. PICK risk, single, units : plan[i] = [risk |-> risk, single |-> single, units |-> units]
  BY DEF AllSteps, IsStep, StepOf
<1>2. \A x : /\ [plan[i] EXCEPT !.units = x].risk = plan[i].risk
             /\ [plan[i] EXCEPT !.units = x].single = plan[i].single /\ [plan[i] EXCEPT !.units = x].units = x
  BY <1>1
<1>3. AssignedPlan[i] = [plan[i] EXCEPT !.units = [j \in DOMAIN plan[i].units |-> Assigned(plan[i].units[j])]]
  BY DEF AssignedPlan
<1> QED BY <1>2, <1>3 DEF AssignedPlan

\* What is attached to a run does what its steps say, and at the owner's word.
LEMMA AttachedIsSafe ==
  ASSUME AllSteps(plan), RisksNest(plan), IntentKept, Executable(AssignedPlan)
  PROVE  /\ request.named # Nobody => \A u \in Units(AssignedPlan) : u.worker = request.named
         /\ \A i \in DOMAIN AssignedPlan : \A u \in ToSet(AssignedPlan[i].units) :
              /\ RiskRank(AssignedPlan[i].risk) >= Floor(u.needs)
              /\ RiskRank(AssignedPlan[i].risk) >= RiskRank(u.risk)
<1>1. ASSUME NEW i \in DOMAIN AssignedPlan, NEW u \in ToSet(AssignedPlan[i].units)
      PROVE  /\ routed.pinned => u.worker = routed.to
             /\ RiskRank(AssignedPlan[i].risk) >= Floor(u.needs)
             /\ RiskRank(AssignedPlan[i].risk) >= RiskRank(u.risk)
  <2>1. i \in DOMAIN plan
    BY DEF AssignedPlan
  <2>2. /\ AssignedPlan[i].risk = plan[i].risk /\ AssignedPlan[i].single = plan[i].single
        /\ AssignedPlan[i].units = [j \in DOMAIN plan[i].units |-> Assigned(plan[i].units[j])]
    BY <2>1, AssignedSteps
  <2>3. PICK j \in DOMAIN plan[i].units : u = Assigned(plan[i].units[j]) /\ u = AssignedPlan[i].units[j]
    BY <2>2 DEF ToSet
  <2>4. IsUnit(plan[i].units[j]) /\ IsStep(plan[i])
    BY <2>1 DEF AllSteps, IsStep
  <2>5. u.risk = plan[i].units[j].risk /\ (routed.pinned => u.worker = routed.to)
    BY <2>3, <2>4, AssignedUnit
  <2>6. RiskRank(u.risk) \in Nat /\ RiskRank(plan[i].risk) \in Nat /\ Floor(u.needs) \in Nat
    BY <2>4, <2>5, RankIsNumber, FloorIsNumber DEF IsUnit, IsStep
  <2>7. RiskRank(u.risk) <= RiskRank(plan[i].risk)
    BY <2>1, <2>5 DEF RisksNest
  <2>8. RiskRank(plan[i].risk) >= Floor(u.needs)
    <3>1. CASE plan[i].single
      <4>1. j = 1
        BY <2>4, <3>1 DEF IsStep
      <4> QED BY <2>2, <2>3, <3>1, <4>1 DEF Executable
    <3>2. CASE ~plan[i].single
      <4>1. OrdersOK(AssignedPlan[i])
        BY <2>2, <3>2 DEF Executable
      <4>2. RiskRank(u.risk) >= Floor(u.needs)
        BY <4>1 DEF OrdersOK
      <4> QED BY <2>6, <2>7, <4>2
    <3> QED BY <3>1, <3>2
  <2> QED BY <2>2, <2>5, <2>6, <2>7, <2>8
<1>2. \A u \in Units(AssignedPlan) : \E i \in DOMAIN AssignedPlan : u \in ToSet(AssignedPlan[i].units)
  BY DEF Units
<1> QED BY <1>1, <1>2 DEF IntentKept
\* Short sequences put together.
LEMMA TwoOf == ASSUME NEW a, NEW b PROVE <<a>> \o <<b>> = <<a, b>> /\ Append(<<a>>, b) = <<a, b>>
<1> DEFINE T == {a, b}
<1>1. <<a>> \in Seq(T) /\ <<b>> \in Seq(T) /\ Len(<<a>>) = 1 /\ Len(<<b>>) = 1
  OBVIOUS
<1>2. ASSUME NEW s \in Seq(T), Len(s) = 2, s[1] = a, s[2] = b PROVE s = <<a, b>>
  <2>1. s = <<s[1], s[2]>>
    BY <1>2
  <2> QED BY <2>1, <1>2
<1> HIDE DEF T
<1>3. <<a>> \o <<b>> \in Seq(T) /\ Len(<<a>> \o <<b>>) = 2
  BY <1>1
<1>4. (<<a>> \o <<b>>)[1] = a /\ (<<a>> \o <<b>>)[2] = b
  BY <1>1
<1>5. b \in T
  BY DEF T
<1>6. Append(<<a>>, b) \in Seq(T) /\ Len(Append(<<a>>, b)) = 2
  BY <1>1, <1>5
<1>7. Append(<<a>>, b)[1] = a /\ Append(<<a>>, b)[2] = b
  BY <1>1, <1>5
<1>8. <<a>> \o <<b>> = <<a, b>>
  BY <1>2, <1>3, <1>4
<1>9. Append(<<a>>, b) = <<a, b>>
  BY <1>2, <1>6, <1>7
<1> QED BY <1>8, <1>9
LEMMA ThreeOf == ASSUME NEW a, NEW b, NEW c PROVE Append(<<a, b>>, c) = <<a, b, c>>
<1> DEFINE T == {a, b, c}
<1>1. <<a, b>> \in Seq(T) /\ Len(<<a, b>>) = 2 /\ c \in T /\ <<a, b>>[1] = a /\ <<a, b>>[2] = b
  OBVIOUS
<1>2. ASSUME NEW s \in Seq(T), Len(s) = 3, s[1] = a, s[2] = b, s[3] = c PROVE s = <<a, b, c>>
  <2>1. s = <<s[1], s[2], s[3]>>
    BY <1>2
  <2> QED BY <2>1, <1>2
<1> HIDE DEF T
<1>6. Append(<<a, b>>, c) \in Seq(T) /\ Len(Append(<<a, b>>, c)) = 3
  BY <1>1
<1>7. Append(<<a, b>>, c)[1] = a /\ Append(<<a, b>>, c)[2] = b /\ Append(<<a, b>>, c)[3] = c
  BY <1>1
<1> QED BY <1>2, <1>6, <1>7
LEMMA NoneOf == ASSUME NEW a PROVE /\ <<>> \o <<a>> = <<a>> /\ <<a>> \o <<>> = <<a>> /\ <<>> \o <<>> = <<>>
<1> DEFINE T == {a}
<1>1. <<a>> \in Seq(T) /\ <<>> \in Seq(T)
  OBVIOUS
<1> HIDE DEF T
<1>2. \A s \in Seq(T) : <<>> \o s = s /\ s \o <<>> = s
  OBVIOUS
<1> QED BY <1>1, <1>2

\* The units the local rules know.
Reading == Unit("context", "research", {"research", "filesystem_read"}, "read_only", {})
Drafting == Unit("draft", "draft", Capability["draft"], "reversible_write", {})
Reviewing(after) == Unit("review", "review", {"review"}, "read_only", after)

PreparedCases(s) ==
  \/ s = <<Reading>> \/ s = <<Drafting>> \/ s = <<Reading, Drafting>>
  \/ s = <<Reading, Reviewing({"context"})>> \/ s = <<Drafting, Reviewing({"draft"})>>
  \/ s = <<Reading, Drafting, Reviewing({"context", "draft"})>>

Usable(u) == u \in {Reading, Drafting} \cup {Reviewing(after) : after \in SUBSET {"context", "draft"}} /\ u.worker \in Routable

LEMMA KnownUnits ==
  /\ Reading.id = "context" /\ Reading.worker = "research" /\ Reading.after = {}
  /\ Drafting.id = "draft" /\ Drafting.worker = "draft" /\ Drafting.after = {}
  /\ \A after : Reviewing(after).id = "review" /\ Reviewing(after).worker = "review" /\ Reviewing(after).after = after
  BY DEF Reading, Drafting, Reviewing, Unit

LEMMA PreparedShape ==
  Prepared # <<>> => PreparedCases(Prepared) /\ \A j \in DOMAIN Prepared : Usable(Prepared[j])
<1> SUFFICES ASSUME Prepared # <<>>
             PROVE  PreparedCases(Prepared) /\ \A j \in DOMAIN Prepared : Usable(Prepared[j])
  OBVIOUS
<1> DEFINE reads == Researches /\ "research" \in Routable
           drafts == Delivers /\ "draft" \in Routable
           reviews == Reviews /\ "review" \in Routable
<1>1. Preparation = (IF reads THEN <<Reading>> ELSE <<>>) \o (IF drafts THEN <<Drafting>> ELSE <<>>)
  BY DEF Preparation, Reading, Drafting
<1>2. Prepared = IF reviews /\ Preparation # <<>>
                 THEN Append(Preparation, Reviewing({Preparation[i].id : i \in DOMAIN Preparation})) ELSE Preparation
  BY DEF Prepared, Reviewing
<1>3. (reads => "research" \in Routable) /\ (drafts => "draft" \in Routable) /\ (reviews => "review" \in Routable)
  OBVIOUS
<1> HIDE DEF reads, drafts, reviews
<1>4. CASE reads /\ drafts
  <2>1. Preparation = <<Reading, Drafting>>
    BY <1>1, <1>4, TwoOf
  <2>2. {Preparation[i].id : i \in DOMAIN Preparation} = {"context", "draft"}
    <3>1. DOMAIN Preparation = {1, 2} /\ Preparation[1] = Reading /\ Preparation[2] = Drafting
      BY <2>1
    <3> QED BY <3>1, KnownUnits
  <2>3. CASE reviews
    <3>1. Prepared = <<Reading, Drafting, Reviewing({"context", "draft"})>>
      BY <1>2, <2>1, <2>2, <2>3, ThreeOf
    <3>2. \A j \in DOMAIN Prepared : Prepared[j] \in {Reading, Drafting, Reviewing({"context", "draft"})}
      <4>1. /\ DOMAIN Prepared = {1, 2, 3} /\ Prepared[1] = Reading /\ Prepared[2] = Drafting
            /\ Prepared[3] = Reviewing({"context", "draft"})
        BY <3>1
      <4> QED BY <4>1
    <3> QED BY <1>3, <1>4, <2>3, <3>1, <3>2, KnownUnits DEF PreparedCases, Usable
  <2>4. CASE ~reviews
    <3>1. Prepared = <<Reading, Drafting>>
      BY <1>2, <2>1, <2>4
    <3>2. \A j \in DOMAIN Prepared : Prepared[j] \in {Reading, Drafting}
      BY <3>1
    <3> QED BY <1>3, <1>4, <3>1, <3>2, KnownUnits DEF PreparedCases, Usable
  <2> QED BY <2>3, <2>4
<1>5. CASE reads /\ ~drafts
  <2>1. Preparation = <<Reading>>
    BY <1>1, <1>5, NoneOf
  <2>2. {Preparation[i].id : i \in DOMAIN Preparation} = {"context"}
    BY <2>1, KnownUnits
  <2>3. CASE reviews
    <3>1. Prepared = <<Reading, Reviewing({"context"})>>
      BY <1>2, <2>1, <2>2, <2>3, TwoOf
    <3>2. \A j \in DOMAIN Prepared : Prepared[j] \in {Reading, Reviewing({"context"})}
      BY <3>1
    <3> QED BY <1>3, <1>5, <2>3, <3>1, <3>2, KnownUnits DEF PreparedCases, Usable
  <2>4. CASE ~reviews
    <3>1. Prepared = <<Reading>>
      BY <1>2, <2>1, <2>4
    <3>2. \A j \in DOMAIN Prepared : Prepared[j] = Reading
      BY <3>1
    <3> QED BY <1>3, <1>5, <3>1, <3>2, KnownUnits DEF PreparedCases, Usable
  <2> QED BY <2>3, <2>4
<1>6. CASE ~reads /\ drafts
  <2>1. Preparation = <<Drafting>>
    BY <1>1, <1>6, NoneOf
  <2>2. {Preparation[i].id : i \in DOMAIN Preparation} = {"draft"}
    BY <2>1, KnownUnits
  <2>3. CASE reviews
    <3>1. Prepared = <<Drafting, Reviewing({"draft"})>>
      BY <1>2, <2>1, <2>2, <2>3, TwoOf
    <3>2. \A j \in DOMAIN Prepared : Prepared[j] \in {Drafting, Reviewing({"draft"})}
      BY <3>1
    <3> QED BY <1>3, <1>6, <2>3, <3>1, <3>2, KnownUnits DEF PreparedCases, Usable
  <2>4. CASE ~reviews
    <3>1. Prepared = <<Drafting>>
      BY <1>2, <2>1, <2>4
    <3>2. \A j \in DOMAIN Prepared : Prepared[j] = Drafting
      BY <3>1
    <3> QED BY <1>3, <1>6, <3>1, <3>2, KnownUnits DEF PreparedCases, Usable
  <2> QED BY <2>3, <2>4
<1>7. CASE ~reads /\ ~drafts
  <2>1. Preparation = <<>>
    BY <1>1, <1>7, NoneOf
  <2> QED BY <1>2, <2>1
<1> QED BY <1>4, <1>5, <1>6, <1>7

\* Work orders of distinct names of which at most the last waits for others.
Harmless(u) == u.needs # {} /\ RiskRank(u.risk) >= Floor(u.needs) /\ RiskRank(u.risk) <= 2

LEMMA OneOrder ==
  ASSUME NEW a, Harmless(a), a.after = {}
  PROVE  OrdersOK(StepOf("reversible_write", FALSE, <<a>>))
<1> DEFINE step == StepOf("reversible_write", FALSE, <<a>>)
<1>1. step.risk = "reversible_write" /\ step.units = <<a>> /\ ToSet(step.units) = {a} /\ Ids(step) = {a.id}
  BY DEF StepOf, ToSet, Ids
<1>2. Cardinality(Ids(step)) = Len(step.units)
  BY <1>1, FS_Singleton
<1> HIDE DEF step
<1>3. Acyclic(step)
  BY <1>1 DEF Acyclic
<1>4. RiskRank(step.risk) = 2
  BY <1>1, Ranks
<1>5. \A u \in ToSet(step.units) :
        /\ u.needs # {} /\ RiskRank(u.risk) >= Floor(u.needs)
        /\ RiskRank(u.risk) <= RiskRank(step.risk) /\ u.after \subseteq Ids(step) \ {u.id}
  BY <1>1, <1>4 DEF Harmless
<1>6. OrdersOK(step)
  BY <1>2, <1>3, <1>5 DEF OrdersOK
<1> QED BY <1>6 DEF step

LEMMA TwoOrders ==
  ASSUME NEW a, NEW b, Harmless(a), Harmless(b), a.id # b.id, a.after = {}, b.after \subseteq {a.id}
  PROVE  OrdersOK(StepOf("reversible_write", FALSE, <<a, b>>))
<1> DEFINE step == StepOf("reversible_write", FALSE, <<a, b>>)
<1>1. step.risk = "reversible_write" /\ step.units = <<a, b>>
  BY DEF StepOf
<1>2. DOMAIN step.units = {1, 2} /\ Len(step.units) = 2 /\ step.units[1] = a /\ step.units[2] = b
  <2>1. DOMAIN <<a, b>> = 1 .. 2 /\ 1 .. 2 = {1, 2} /\ Len(<<a, b>>) = 2 /\ <<a, b>>[1] = a /\ <<a, b>>[2] = b
    OBVIOUS
  <2> HIDE DEF step
  <2> QED BY <1>1, <2>1
<1>3. ToSet(step.units) = {a, b} /\ Ids(step) = {a.id, b.id}
  BY <1>2 DEF ToSet, Ids
<1>4. Cardinality({a.id, b.id}) = 2
  <2>1. IsFiniteSet({a.id}) /\ Cardinality({a.id}) = 1 /\ {a.id, b.id} = {a.id} \cup {b.id}
    BY FS_Singleton
  <2>2. Cardinality({a.id} \cup {b.id}) = IF b.id \in {a.id} THEN Cardinality({a.id}) ELSE Cardinality({a.id}) + 1
    BY <2>1, FS_AddElement
  <2> QED BY <2>1, <2>2
<1> HIDE DEF step
<1>5. Acyclic(step)
  <2> SUFFICES ASSUME NEW S \in SUBSET {a, b}, S # {} PROVE \E u \in S : \A v \in S : v.id \notin u.after
    BY <1>3 DEF Acyclic
  <2>1. CASE a \in S
    BY <2>1
  <2>2. CASE a \notin S
    BY <2>2
  <2> QED BY <2>1, <2>2
<1>6. RiskRank(step.risk) = 2
  BY <1>1, Ranks
<1>7. \A u \in ToSet(step.units) :
        /\ u.needs # {} /\ RiskRank(u.risk) >= Floor(u.needs)
        /\ RiskRank(u.risk) <= RiskRank(step.risk) /\ u.after \subseteq Ids(step) \ {u.id}
  BY <1>3, <1>6 DEF Harmless
<1>8. OrdersOK(step)
  BY <1>2, <1>3, <1>4, <1>5, <1>7 DEF OrdersOK
<1> QED BY <1>8 DEF step

LEMMA ThreeOrders ==
  ASSUME NEW a, NEW b, NEW c, Harmless(a), Harmless(b), Harmless(c),
         a.id # b.id, a.id # c.id, b.id # c.id, a.after = {}, b.after = {}, c.after \subseteq {a.id, b.id}
  PROVE  OrdersOK(StepOf("reversible_write", FALSE, <<a, b, c>>))
<1> DEFINE step == StepOf("reversible_write", FALSE, <<a, b, c>>)
<1>1. step.risk = "reversible_write" /\ step.units = <<a, b, c>>
  BY DEF StepOf
<1>2. /\ DOMAIN step.units = {1, 2, 3} /\ Len(step.units) = 3
      /\ step.units[1] = a /\ step.units[2] = b /\ step.units[3] = c
  <2>1. /\ DOMAIN <<a, b, c>> = 1 .. 3 /\ 1 .. 3 = {1, 2, 3} /\ Len(<<a, b, c>>) = 3
        /\ <<a, b, c>>[1] = a /\ <<a, b, c>>[2] = b /\ <<a, b, c>>[3] = c
    OBVIOUS
  <2> HIDE DEF step
  <2> QED BY <1>1, <2>1
<1>3. ToSet(step.units) = {a, b, c} /\ Ids(step) = {a.id, b.id, c.id}
  BY <1>2 DEF ToSet, Ids
<1>4. Cardinality({a.id, b.id, c.id}) = 3
  <2>1. IsFiniteSet({a.id}) /\ Cardinality({a.id}) = 1
    BY FS_Singleton
  <2>2. /\ IsFiniteSet({a.id} \cup {b.id})
        /\ Cardinality({a.id} \cup {b.id}) = IF b.id \in {a.id} THEN Cardinality({a.id}) ELSE Cardinality({a.id}) + 1
    BY <2>1, FS_AddElement
  <2>3. Cardinality({a.id} \cup {b.id}) = 2
    BY <2>1, <2>2
  <2>4. Cardinality(({a.id} \cup {b.id}) \cup {c.id}) =
          IF c.id \in {a.id} \cup {b.id} THEN Cardinality({a.id} \cup {b.id}) ELSE Cardinality({a.id} \cup {b.id}) + 1
    BY <2>2, FS_AddElement
  <2>5. ({a.id} \cup {b.id}) \cup {c.id} = {a.id, b.id, c.id} /\ c.id \notin {a.id} \cup {b.id}
    OBVIOUS
  <2> QED BY <2>3, <2>4, <2>5
<1> HIDE DEF step
<1>5. Acyclic(step)
  <2> SUFFICES ASSUME NEW S \in SUBSET {a, b, c}, S # {} PROVE \E u \in S : \A v \in S : v.id \notin u.after
    BY <1>3 DEF Acyclic
  <2>1. CASE a \in S
    BY <2>1
  <2>2. CASE b \in S
    BY <2>2
  <2>3. CASE a \notin S /\ b \notin S
    BY <2>3
  <2> QED BY <2>1, <2>2, <2>3
<1>6. RiskRank(step.risk) = 2
  BY <1>1, Ranks
<1>7. \A u \in ToSet(step.units) :
        /\ u.needs # {} /\ RiskRank(u.risk) >= Floor(u.needs)
        /\ RiskRank(u.risk) <= RiskRank(step.risk) /\ u.after \subseteq Ids(step) \ {u.id}
  BY <1>3, <1>6 DEF Harmless
<1>8. OrdersOK(step)
  BY <1>2, <1>3, <1>4, <1>5, <1>7 DEF OrdersOK
<1> QED BY <1>8 DEF step

LEMMA UnitsAreHarmless ==
  /\ Harmless(Reading) /\ Harmless(Drafting) /\ \A after : Harmless(Reviewing(after))
  /\ IsUnit(Reading) /\ IsUnit(Drafting) /\ \A after : IsUnit(Reviewing(after))
<1>1. /\ Reading.risk = "read_only" /\ Reading.needs = {"research", "filesystem_read"}
      /\ Drafting.risk = "reversible_write" /\ Drafting.needs = Capability["draft"]
      /\ \A after : Reviewing(after).risk = "read_only" /\ Reviewing(after).needs = {"review"}
  BY DEF Reading, Drafting, Reviewing, Unit
<1>2. "external_action" \notin Capability["draft"] /\ "filesystem_write" \in Capability["draft"]
  BY DEF Capability
<1>3. Harmless(Reading) /\ Harmless(Drafting) /\ \A after : Harmless(Reviewing(after))
  BY <1>1, <1>2, Ranks DEF Harmless, Floor
<1>4. IsUnit(Reading) /\ IsUnit(Drafting) /\ \A after : IsUnit(Reviewing(after))
  BY Ranks DEF IsUnit, Reading, Drafting, Reviewing, Unit, AnyRisk
<1> QED BY <1>3, <1>4

\* What the local rules gave to a worker that is enabled stays with it.
LEMMA UsableStays ==
  ASSUME ~routed.pinned, NEW u, Usable(u)
  PROVE  Assigned(u) = u
<1>1. Routable = enabled
  BY DEF Routable
<1>2. /\ Covers("research", Reading.needs) /\ Covers("draft", Drafting.needs)
      /\ \A after : Covers("review", Reviewing(after).needs)
  BY DEF Covers, Reading, Drafting, Reviewing, Unit, Capability
<1>3. Covers(u.worker, u.needs)
  BY <1>2, KnownUnits DEF Usable
<1>4. u.worker \in enabled
  BY <1>1 DEF Usable
<1> QED BY <1>3, <1>4 DEF Assigned

\* Work orders prepared by the local rules are accepted.
LEMMA PreparedIsOK == Prepared # <<>> => OrdersOK(StepOf("reversible_write", FALSE, Prepared))
<1> SUFFICES ASSUME Prepared # <<>> PROVE OrdersOK(StepOf("reversible_write", FALSE, Prepared))
  OBVIOUS
<1>1. PreparedCases(Prepared)
  BY PreparedShape
<1>2. /\ Reading.id = "context" /\ Drafting.id = "draft" /\ Reading.after = {} /\ Drafting.after = {}
      /\ \A after : Reviewing(after).id = "review" /\ Reviewing(after).after = after
  BY KnownUnits
<1>3. Harmless(Reading) /\ Harmless(Drafting) /\ \A after : Harmless(Reviewing(after))
  BY UnitsAreHarmless
<1>4. CASE Prepared = <<Reading>> \/ Prepared = <<Drafting>>
  <2>1. OrdersOK(StepOf("reversible_write", FALSE, <<Reading>>)) /\ OrdersOK(StepOf("reversible_write", FALSE, <<Drafting>>))
    BY <1>2, <1>3, OneOrder
  <2> QED BY <1>4, <2>1
<1>5. CASE Prepared = <<Reading, Drafting>>
  <2>1. OrdersOK(StepOf("reversible_write", FALSE, <<Reading, Drafting>>))
    BY <1>2, <1>3, TwoOrders
  <2> QED BY <1>5, <2>1
<1>6. CASE Prepared = <<Reading, Reviewing({"context"})>>
  <2>1. OrdersOK(StepOf("reversible_write", FALSE, <<Reading, Reviewing({"context"})>>))
    BY <1>2, <1>3, TwoOrders
  <2> QED BY <1>6, <2>1
<1>7. CASE Prepared = <<Drafting, Reviewing({"draft"})>>
  <2>1. OrdersOK(StepOf("reversible_write", FALSE, <<Drafting, Reviewing({"draft"})>>))
    BY <1>2, <1>3, TwoOrders
  <2> QED BY <1>7, <2>1
<1>8. CASE Prepared = <<Reading, Drafting, Reviewing({"context", "draft"})>>
  <2>1. OrdersOK(StepOf("reversible_write", FALSE, <<Reading, Drafting, Reviewing({"context", "draft"})>>))
    BY <1>2, <1>3, ThreeOrders
  <2> QED BY <1>8, <2>1
<1> QED BY <1>1, <1>4, <1>5, <1>6, <1>7, <1>8 DEF PreparedCases

\* The two kinds of steps of a plan of the local rules, before the assignment.
Singly(step, risk, needs) ==
  /\ step.single = TRUE /\ step.risk = risk /\ DOMAIN step.units = {1} /\ step.units # <<>>
  /\ step.units[1].needs = needs /\ step.units[1].risk = risk
Jointly(step) == step = StepOf("reversible_write", FALSE, Prepared) /\ Prepared # <<>>

LEMMA LocalSteps ==
  /\ Jointly(FirstStep) \/ Singly(FirstStep, "read_only", {"direct_response"})
  /\ Singly(LastStep, "irreversible", {"external_action"}) \/ Singly(LastStep, "external_side_effect", {"external_action"})
  /\ IsStep(FirstStep) /\ IsStep(LastStep)
<1>1. \A u : DOMAIN <<u>> = {1} /\ <<u>>[1] = u /\ <<u>> # <<>>
  <2>1. \A u : DOMAIN <<u>> = 1 .. 1 /\ 1 .. 1 = {1} /\ Len(<<u>>) = 1 /\ Len(<<>>) = 0
    OBVIOUS
  <2> QED BY <2>1
<1>2. ASSUME NEW id, NEW w, NEW needs, NEW risk \in AnyRisk
      PROVE  /\ Singly(StepOf(risk, TRUE, <<Unit(id, w, needs, risk, {})>>), risk, needs)
             /\ IsStep(StepOf(risk, TRUE, <<Unit(id, w, needs, risk, {})>>))
  <2> DEFINE u == Unit(id, w, needs, risk, {})
             step == StepOf(risk, TRUE, <<u>>)
  <2>1. u.needs = needs /\ u.risk = risk /\ IsUnit(u)
    BY <1>2, Ranks DEF Unit, IsUnit
  <2>2. step.risk = risk /\ step.single = TRUE /\ step.units = <<u>> /\ step = StepOf(step.risk, step.single, step.units)
    BY DEF StepOf
  <2> HIDE DEF u, step
  <2>3. Singly(step, risk, needs)
    BY <1>1, <2>1, <2>2 DEF Singly
  <2>4. IsStep(step)
    BY <1>1, <1>2, <2>1, <2>2, Ranks DEF IsStep
  <2> QED BY <2>3, <2>4 DEF u, step
<1>3. /\ Singly(LastStep, "irreversible", {"external_action"}) \/ Singly(LastStep, "external_side_effect", {"external_action"})
      /\ IsStep(LastStep)
  BY <1>2 DEF LastStep, AnyRisk
<1>4. CASE Prepared # <<>>
  <2>1. FirstStep = StepOf("reversible_write", FALSE, Prepared)
    BY <1>4 DEF FirstStep
  <2>2. \A j \in DOMAIN Prepared : IsUnit(Prepared[j])
    BY <1>4, PreparedShape, UnitsAreHarmless DEF Usable
  <2>3. IsStep(StepOf("reversible_write", FALSE, Prepared))
    BY <2>2, Ranks DEF IsStep, StepOf, AnyRisk
  <2> QED BY <1>3, <1>4, <2>1, <2>3 DEF Jointly
<1>5. CASE Prepared = <<>>
  <2>1. FirstStep = StepOf("read_only", TRUE, <<Unit("direct-response", "direct", {"direct_response"}, "read_only", {})>>)
    BY <1>5 DEF FirstStep
  <2> QED BY <1>2, <1>3, <2>1 DEF AnyRisk
<1> QED BY <1>4, <1>5

LEMMA LocalShape ==
  /\ DOMAIN LocalPlan \in {{1}, {1, 2}} /\ LocalPlan[1] = FirstStep
  /\ 2 \in DOMAIN LocalPlan => LocalPlan[2] = LastStep
  /\ AllSteps(LocalPlan) /\ RisksNest(LocalPlan)
<1>1. /\ DOMAIN LocalPlan \in {{1}, {1, 2}} /\ LocalPlan[1] = FirstStep
      /\ 2 \in DOMAIN LocalPlan => LocalPlan[2] = LastStep
  <2>1. \A s, t : /\ DOMAIN <<s, t>> = 1 .. 2 /\ 1 .. 2 = {1, 2} /\ <<s, t>>[1] = s /\ <<s, t>>[2] = t
                  /\ DOMAIN <<s>> = 1 .. 1 /\ 1 .. 1 = {1} /\ <<s>>[1] = s
    OBVIOUS
  <2> QED BY <2>1 DEF LocalPlan
<1>2. AllSteps(LocalPlan)
  BY <1>1, LocalSteps DEF AllSteps
<1>3. \A step, risk, needs : Singly(step, risk, needs) /\ risk \in AnyRisk
          => \A j \in DOMAIN step.units : RiskRank(step.units[j].risk) <= RiskRank(step.risk)
  BY RankIsNumber, Ranks DEF Singly
<1>4. Jointly(FirstStep) => \A j \in DOMAIN FirstStep.units : RiskRank(FirstStep.units[j].risk) <= RiskRank(FirstStep.risk)
  <2> SUFFICES ASSUME Jointly(FirstStep)
               PROVE  \A j \in DOMAIN FirstStep.units : RiskRank(FirstStep.units[j].risk) <= RiskRank(FirstStep.risk)
    OBVIOUS
  <2>1. FirstStep.units = Prepared /\ FirstStep.risk = "reversible_write"
    BY DEF Jointly, StepOf
  <2>2. \A j \in DOMAIN Prepared : RiskRank(Prepared[j].risk) <= 2
    BY PreparedShape, UnitsAreHarmless DEF Jointly, Usable, Harmless
  <2> QED BY <2>1, <2>2, Ranks
<1>5. RisksNest(LocalPlan)
  <2>1. \A j \in DOMAIN FirstStep.units : RiskRank(FirstStep.units[j].risk) <= RiskRank(FirstStep.risk)
    BY <1>3, <1>4, LocalSteps DEF AnyRisk
  <2>2. \A j \in DOMAIN LastStep.units : RiskRank(LastStep.units[j].risk) <= RiskRank(LastStep.risk)
    BY <1>3, LocalSteps DEF AnyRisk
  <2> QED BY <1>1, <2>1, <2>2 DEF RisksNest
<1> QED BY <1>1, <1>2, <1>5

\* The kernel accepts the plan of the local rules, when the owner pinned nobody.
LEMMA LocalIsExecutable ==
  ASSUME plan = LocalPlan, ~routed.pinned
  PROVE  Executable(AssignedPlan)
<1>1. AllSteps(plan) /\ DOMAIN plan \in {{1}, {1, 2}} /\ plan[1] = FirstStep /\ (2 \in DOMAIN plan => plan[2] = LastStep)
  BY LocalShape
<1>2. DOMAIN AssignedPlan = DOMAIN plan
  BY DEF AssignedPlan
<1>3. Len(AssignedPlan) > 0
  <2>1. 1 .. 1 = {1} /\ 1 .. 2 = {1, 2}
    OBVIOUS
  <2>2. PICK n \in {1, 2} : DOMAIN AssignedPlan = 1 .. n
    BY <1>1, <1>2, <2>1
  <2>3. Len(AssignedPlan) = n
    <3>1. \A m \in Nat : 1 .. m = 1 .. n => m = n
      OBVIOUS
    <3>2. AssignedPlan \in [1 .. n -> {AssignedPlan[i] : i \in 1 .. n}]
      BY <2>2 DEF AssignedPlan
    <3>3. AssignedPlan \in Seq({AssignedPlan[i] : i \in 1 .. n})
      BY <3>2
    <3> QED BY <2>2, <3>1, <3>3
  <2> QED BY <2>3
\* a step of one worker keeps its capabilities, whoever does it
<1>5. ASSUME NEW i \in DOMAIN plan, NEW risk, NEW needs, Singly(plan[i], risk, needs)
      PROVE  /\ AssignedPlan[i].single /\ AssignedPlan[i].units # <<>>
             /\ AssignedPlan[i].risk = risk /\ AssignedPlan[i].units[1].needs = needs
  <2>1. /\ AssignedPlan[i].risk = plan[i].risk /\ AssignedPlan[i].single = plan[i].single
        /\ AssignedPlan[i].units = [j \in DOMAIN plan[i].units |-> Assigned(plan[i].units[j])]
    BY <1>1, AssignedSteps
  <2>2. DOMAIN AssignedPlan[i].units = {1} /\ AssignedPlan[i].units[1] = Assigned(plan[i].units[1])
    BY <1>5, <2>1 DEF Singly
  <2>3. IsUnit(plan[i].units[1])
    BY <1>1, <1>5 DEF AllSteps, IsStep, Singly
  <2>4. Assigned(plan[i].units[1]).needs = plan[i].units[1].needs
    <3>1. PICK id, w, n, r, after, receipt :
            plan[i].units[1] = [id |-> id, worker |-> w, needs |-> n, risk |-> r, after |-> after, receipt |-> receipt]
      BY <2>3 DEF IsUnit
    <3>2. \A x : [plan[i].units[1] EXCEPT !.worker = x].needs = plan[i].units[1].needs
      BY <3>1
    <3> QED BY <3>2 DEF Assigned
  <2>5. AssignedPlan[i].units # <<>>
    <3>1. DOMAIN <<>> = {}
      OBVIOUS
    <3> QED BY <2>2, <3>1
  <2> QED BY <1>5, <2>1, <2>2, <2>4, <2>5 DEF Singly
<1>6. Singly(plan[1], "read_only", {"direct_response"})
        => AssignedPlan[1].single /\ AssignedPlan[1].units # <<>> /\ AssignedPlan[1].units[1].needs # {}
           /\ RiskRank(AssignedPlan[1].risk) >= Floor(AssignedPlan[1].units[1].needs)
  <2> SUFFICES ASSUME Singly(plan[1], "read_only", {"direct_response"})
               PROVE  AssignedPlan[1].single /\ AssignedPlan[1].units # <<>> /\ AssignedPlan[1].units[1].needs # {}
                      /\ RiskRank(AssignedPlan[1].risk) >= Floor(AssignedPlan[1].units[1].needs)
    OBVIOUS
  <2>1. /\ AssignedPlan[1].single /\ AssignedPlan[1].units # <<>>
        /\ AssignedPlan[1].risk = "read_only" /\ AssignedPlan[1].units[1].needs = {"direct_response"}
    BY <1>1, <1>5
  <2>2. Floor({"direct_response"}) = 1
    BY DEF Floor
  <2>3. RiskRank(AssignedPlan[1].risk) >= Floor(AssignedPlan[1].units[1].needs)
    BY <2>1, <2>2, Ranks
  <2>4. AssignedPlan[1].units[1].needs # {}
    BY <2>1
  <2> QED BY <2>1, <2>3, <2>4
<1>7. 2 \in DOMAIN plan
        => AssignedPlan[2].single /\ AssignedPlan[2].units # <<>> /\ AssignedPlan[2].units[1].needs # {}
           /\ RiskRank(AssignedPlan[2].risk) >= Floor(AssignedPlan[2].units[1].needs)
  <2> SUFFICES ASSUME 2 \in DOMAIN plan
               PROVE  AssignedPlan[2].single /\ AssignedPlan[2].units # <<>> /\ AssignedPlan[2].units[1].needs # {}
                      /\ RiskRank(AssignedPlan[2].risk) >= Floor(AssignedPlan[2].units[1].needs)
    OBVIOUS
  <2>1. PICK risk \in {"irreversible", "external_side_effect"} : Singly(plan[2], risk, {"external_action"})
    BY <1>1, LocalSteps
  <2>2. /\ AssignedPlan[2].single /\ AssignedPlan[2].units # <<>>
        /\ AssignedPlan[2].risk = risk /\ AssignedPlan[2].units[1].needs = {"external_action"}
    BY <1>5, <2>1
  <2>3. Floor({"external_action"}) = 3
    BY DEF Floor
  <2>4. RiskRank(AssignedPlan[2].risk) >= Floor(AssignedPlan[2].units[1].needs)
    BY <2>2, <2>3, Ranks
  <2>5. AssignedPlan[2].units[1].needs # {}
    BY <2>2
  <2> QED BY <2>2, <2>4, <2>5
<1>8. Jointly(plan[1]) => ~AssignedPlan[1].single /\ AssignedPlan[1].units # <<>> /\ OrdersOK(AssignedPlan[1])
  <2> SUFFICES ASSUME Jointly(plan[1])
               PROVE  ~AssignedPlan[1].single /\ AssignedPlan[1].units # <<>> /\ OrdersOK(AssignedPlan[1])
    OBVIOUS
  <2>1. plan[1].units = Prepared /\ plan[1].single = FALSE /\ plan[1] = StepOf("reversible_write", FALSE, Prepared) /\ Prepared # <<>>
    BY DEF Jointly, StepOf
  <2>2. \A j \in DOMAIN plan[1].units : Assigned(plan[1].units[j]) = plan[1].units[j]
    BY <2>1, PreparedShape, UsableStays
  <2>3. [j \in DOMAIN plan[1].units |-> Assigned(plan[1].units[j])] = plan[1].units
    <3>1. plan[1].units = [j \in DOMAIN plan[1].units |-> plan[1].units[j]]
      <4>1. \A s, t, u : /\ <<s>> = [j \in DOMAIN <<s>> |-> <<s>>[j]]
                         /\ <<s, t>> = [j \in DOMAIN <<s, t>> |-> <<s, t>>[j]]
                         /\ <<s, t, u>> = [j \in DOMAIN <<s, t, u>> |-> <<s, t, u>>[j]]
        OBVIOUS
      <4> QED BY <2>1, <4>1, PreparedShape DEF PreparedCases
    <3> QED BY <2>2, <3>1
  <2>4. AssignedPlan[1] = [plan[1] EXCEPT !.units = [j \in DOMAIN plan[1].units |-> Assigned(plan[1].units[j])]]
    BY <1>1 DEF AssignedPlan
  <2>5. AssignedPlan[1] = [plan[1] EXCEPT !.units = Prepared]
    <3>1. AssignedPlan[1] = [plan[1] EXCEPT !.units = plan[1].units]
      BY <2>3, <2>4
    <3> QED BY <2>1, <3>1
  <2>6. AssignedPlan[1] = StepOf("reversible_write", FALSE, Prepared)
    BY <2>1, <2>5 DEF StepOf
  <2>7. AssignedPlan[1].single = FALSE /\ AssignedPlan[1].units = Prepared
    BY <2>6 DEF StepOf
  <2> QED BY <2>1, <2>6, <2>7, PreparedIsOK
<1>9. \A i \in DOMAIN AssignedPlan :
        /\ AssignedPlan[i].units # <<>>
        /\ IF AssignedPlan[i].single
           THEN AssignedPlan[i].units[1].needs # {} /\ RiskRank(AssignedPlan[i].risk) >= Floor(AssignedPlan[i].units[1].needs)
           ELSE OrdersOK(AssignedPlan[i])
  BY <1>1, <1>2, <1>6, <1>7, <1>8, LocalSteps
<1>10. \A i, j \in DOMAIN AssignedPlan :
         i # j /\ ~AssignedPlan[i].single /\ ~AssignedPlan[j].single => Ids(AssignedPlan[i]) \cap Ids(AssignedPlan[j]) = {}
  BY <1>1, <1>2, <1>7
<1> QED BY <1>3, <1>9, <1>10 DEF Executable

LEMMA PlanningGoesOn == PlanningIInv /\ [PlanningNext]_planningVars => PlanningIInv'
<1> SUFFICES ASSUME PlanningIInv, [PlanningNext]_planningVars PROVE PlanningIInv'
  OBVIOUS
<1>0. /\ enabled \in Settings /\ enabled \subseteq Workers /\ MaxProposals \in Nat /\ proposed \in 0 .. MaxProposals
      /\ routed.to \in Workers \cup {Nobody} /\ routed.pinned \in BOOLEAN
      /\ stage \in {"asked", "routed", "planned", "over"} /\ run \in {"planning", "queued", "failed"}
  BY PlanningAssumption DEF PlanningIInv, PlanningTypeOK
<1>1. CASE Route
  <2>1. /\ enabled' = enabled /\ request' = request /\ proposed' = proposed /\ plan' = plan /\ stage = "asked"
        /\ plan = <<>> /\ run = "planning"
    BY <1>1 DEF Route, PlanningIInv
  <2>2. CASE request.named \in enabled /\ routed' = [to |-> request.named, pinned |-> TRUE] /\ stage' = "routed" /\ run' = run
    <3>1. routed'.to = request.named /\ routed'.pinned = TRUE /\ routed' = [to |-> routed'.to, pinned |-> routed'.pinned]
      BY <2>2
    <3>2. PlanningTypeOK'
      BY <1>0, <2>1, <2>2, <3>1 DEF PlanningTypeOK
    <3>3. IntentKept'
      BY <2>1, <3>1 DEF IntentKept
    <3> QED BY <2>1, <2>2, <3>1, <3>2, <3>3 DEF PlanningIInv, LocalPlansAreAccepted, NamedOrRefused, GateSeesTheRisk
  <2>3. CASE request.named = Nobody /\ (\E w \in Pool : routed' = [to |-> w, pinned |-> FALSE]) /\ stage' = "routed" /\ run' = run
    <3>1. PICK w \in Pool : routed' = [to |-> w, pinned |-> FALSE]
      BY <2>3
    <3>2. w \in Workers
      BY <1>0 DEF Pool, Eligible
    <3>3. routed'.to = w /\ routed'.pinned = FALSE /\ routed' = [to |-> routed'.to, pinned |-> routed'.pinned]
      BY <3>1
    <3>4. PlanningTypeOK'
      BY <1>0, <2>1, <2>3, <3>2, <3>3 DEF PlanningTypeOK
    <3>5. IntentKept'
      BY <2>1, <2>3 DEF IntentKept
    <3> QED BY <2>1, <2>3, <3>3, <3>4, <3>5 DEF PlanningIInv, LocalPlansAreAccepted, NamedOrRefused, GateSeesTheRisk
  <2>4. CASE run' = "failed" /\ stage' = "over" /\ routed' = routed
    <3>1. PlanningTypeOK'
      BY <1>0, <2>1, <2>4 DEF PlanningTypeOK
    <3> QED BY <2>1, <2>4, <3>1 DEF PlanningIInv, LocalPlansAreAccepted, NamedOrRefused, GateSeesTheRisk
  <2> QED BY <1>1, <2>2, <2>3, <2>4 DEF Route
<1>2. CASE PlanLocally
  <2>1. /\ enabled' = enabled /\ request' = request /\ proposed' = proposed /\ routed' = routed
        /\ proposed = 0 /\ plan = <<>> /\ run = "planning" /\ IntentKept
    BY <1>2 DEF PlanLocally, PlanningIInv
  <2>2. IntentKept' /\ LocalPlan' = LocalPlan
    BY <2>1 DEF IntentKept, LocalPlan, FirstStep, LastStep, Prepared, Preparation, Reviews, Delivers, Researches, Acts, Routable
  <2>3. CASE run' = "failed" /\ stage' = "over" /\ plan' = plan
    <3>1. PlanningTypeOK'
      BY <1>0, <2>1, <2>3 DEF PlanningTypeOK
    <3> QED BY <2>1, <2>3, <3>1 DEF PlanningIInv, LocalPlansAreAccepted, NamedOrRefused, GateSeesTheRisk
  <2>4. CASE plan' = LocalPlan /\ stage' = "planned" /\ run' = run
    <3>1. PlanningTypeOK'
      BY <1>0, <2>1, <2>4 DEF PlanningTypeOK
    <3>2. AllSteps(plan') /\ RisksNest(plan')
      BY <2>4, LocalShape
    <3> QED BY <2>1, <2>2, <2>4, <3>1, <3>2 DEF PlanningIInv, LocalPlansAreAccepted, NamedOrRefused, GateSeesTheRisk
  <2> QED BY <1>2, <2>3, <2>4 DEF PlanLocally
<1>3. ASSUME NEW p \in Proposals, Propose(p) PROVE PlanningIInv'
  <2>1. /\ enabled' = enabled /\ request' = request /\ routed' = routed /\ proposed' = proposed + 1 /\ proposed < MaxProposals
        /\ plan = <<>> /\ run = "planning" /\ stage = "routed" /\ IntentKept
    BY <1>3 DEF Propose, PlanningIInv
  <2>2. proposed' \in 0 .. MaxProposals /\ proposed' # 0
    BY <1>0, <2>1
  <2>3. IntentKept'
    BY <2>1 DEF IntentKept
  <2>4. CASE Decodable(p) /\ plan' = p /\ stage' = "planned" /\ run' = run
    <3>1. PlanningTypeOK'
      BY <1>0, <2>1, <2>2, <2>4 DEF PlanningTypeOK
    <3>2. AllSteps(p)
      BY PlanningAssumption DEF AllSteps
    <3>3. RisksNest(p)
      BY <2>4 DEF RisksNest, Decodable, ToSet
    <3> QED BY <2>1, <2>2, <2>3, <2>4, <3>1, <3>2, <3>3
            DEF PlanningIInv, LocalPlansAreAccepted, NamedOrRefused, GateSeesTheRisk
  <2>5. CASE run' = "failed" /\ stage' = "over" /\ plan' = plan
    <3>1. PlanningTypeOK'
      BY <1>0, <2>1, <2>2, <2>5 DEF PlanningTypeOK
    <3> QED BY <2>1, <2>5, <3>1 DEF PlanningIInv, LocalPlansAreAccepted, NamedOrRefused, GateSeesTheRisk
  <2>6. CASE plan' = plan /\ stage' = stage /\ run' = run
    <3>1. PlanningTypeOK'
      BY <1>0, <2>1, <2>2, <2>6 DEF PlanningTypeOK
    <3> QED BY <2>1, <2>3, <2>6, <3>1 DEF PlanningIInv, LocalPlansAreAccepted, NamedOrRefused, GateSeesTheRisk
  <2> QED BY <1>3, <2>4, <2>5, <2>6 DEF Propose
<1>4. CASE Attach
  <2>1. /\ enabled' = enabled /\ request' = request /\ routed' = routed /\ proposed' = proposed
        /\ stage = "planned" /\ stage' = "over" /\ plan' = AssignedPlan
        /\ run' = IF Executable(AssignedPlan) THEN "queued" ELSE "planning"
    BY <1>4 DEF Attach
  <2>2. AllSteps(plan) /\ RisksNest(plan) /\ IntentKept /\ (proposed = 0 => plan = LocalPlan)
    BY <2>1 DEF PlanningIInv
  <2>3. PlanningTypeOK'
    BY <1>0, <2>1 DEF PlanningTypeOK
  <2>4. LocalPlansAreAccepted'
    BY <2>1, <2>2, LocalIsExecutable DEF LocalPlansAreAccepted
  <2>5. NamedOrRefused' /\ GateSeesTheRisk'
    <3> SUFFICES ASSUME Executable(AssignedPlan) PROVE NamedOrRefused' /\ GateSeesTheRisk'
      BY <2>1 DEF NamedOrRefused, GateSeesTheRisk
    <3>1. /\ request.named # Nobody => \A u \in Units(plan') : u.worker = request.named
          /\ \A i \in DOMAIN plan' : \A u \in ToSet(plan'[i].units) :
               RiskRank(plan'[i].risk) >= Floor(u.needs) /\ RiskRank(plan'[i].risk) >= RiskRank(u.risk)
      BY <2>1, <2>2, AttachedIsSafe
    <3>2. NamedOrRefused'
      BY <2>1, <3>1 DEF NamedOrRefused
    <3>3. GateSeesTheRisk'
      BY <2>1, <3>1 DEF GateSeesTheRisk
    <3> QED BY <3>2, <3>3
  <2> QED BY <2>1, <2>3, <2>4, <2>5 DEF PlanningIInv
<1>5. CASE UNCHANGED planningVars
  <2>1. /\ enabled' = enabled /\ request' = request /\ stage' = stage /\ routed' = routed
        /\ proposed' = proposed /\ plan' = plan /\ run' = run
    BY <1>5 DEF planningVars
  <2>2. PlanningTypeOK'
    BY <1>0, <2>1 DEF PlanningTypeOK
  <2>3. LocalPlan' = LocalPlan
    BY <2>1 DEF LocalPlan, FirstStep, LastStep, Prepared, Preparation, Reviews, Delivers, Researches, Acts, Routable
  <2>4. LocalPlansAreAccepted' /\ NamedOrRefused' /\ GateSeesTheRisk'
    BY <2>1 DEF PlanningIInv, LocalPlansAreAccepted, NamedOrRefused, GateSeesTheRisk
  <2> QED BY <2>1, <2>2, <2>3, <2>4 DEF PlanningIInv, IntentKept
<1> QED BY <1>1, <1>2, <1>3, <1>4, <1>5 DEF PlanningNext

\* The plan of the local rules is accepted, a worker the owner named does all of
\* the work or none of it is planned, and no unit of a plan that waits to be
\* executed exceeds the risk its step is gated on - whatever a model proposes.
THEOREM PlanningHolds == PlanningSpec => []PlanningInv
<1>1. PlanningIInv => PlanningInv
  BY DEF PlanningIInv, PlanningInv
<1> QED BY <1>1, PlanningBegins, PlanningGoesOn, PTL DEF PlanningSpec

-----------------------------------------------------------------------------
(* RunHistory.                                                               *)

StatusWords == {"planning", "queued", "running", "waiting_approval", "verifying", "waiting_review", "completed", "failed",
                "cancelled"}
Notes == [type : {"status", "policy", "approved", "started", "failed", "evidence", "dispatched", "resumed",
                  "order completed", "order failed", "verified"},
          step : Steps \cup {0}, order : Orders \cup {NoOrder},
          word : StatusWords \cup {None, "denied", "approval_required", "allowed", "passed", "refuted", "open"}]
Causes == {None, "planning", "policy", "execution", "verification", "cancelled", "interrupted", "rejected"}
AuditAttempt == [step : Steps \cup {0}, order : Orders \cup {NoOrder}, outcome : {"unfinished", "failed", "completed"}]
AuditType == [attempts : Seq(AuditAttempt), evidence : SUBSET (Steps \cup {0}), status : StatusWords \cup {"created"},
              blame : {None, "policy", "execution", "verification", "cancelled", "unknown"}]

IsApproved(step) == Note("approved", step, NoOrder, None) \in ToSet(events)

SoundHistory ==
  /\ events \in Seq(Notes) /\ todo \in Seq(Notes)
  /\ at \in {"planning", "queued", "deciding", "starting", "working", "teaming", "ordered", "verifying", "waiting_approval",
             "waiting_review", "dead", "over"}
  /\ safe \in BOOLEAN /\ cause \in Causes
  /\ events # <<>> /\ events[1].type = "status" /\ RunStatus \in StatusWords

\* What is about to be written at a place, after the notes before it, is legal after the history h.
LastIn(h, o) ==
  LET i == LastPlace({k \in DOMAIN h : h[k].order = o /\ h[k].type \in OrderTypes})
  IN  IF i = 0 THEN None ELSE h[i].type

IsPending(e, before, h, ext, here) ==
  /\ e.type # "verified"
  /\ e.type = "status" => e.word \in {"queued", "running", "failed", "waiting_approval", "verifying"}
  /\ (e.type = "status" /\ e.word = "failed") \/ e.type = "failed" => here = "over"
  /\ e.type = "policy" /\ e.word = "denied" => here = "over"
  /\ e.type \in {"started", "dispatched"} /\ e.step \in ext => Note("approved", e.step, NoOrder, None) \in ToSet(h)
  /\ e.type = "started" => e.order = NoOrder
  /\ e.type \in OrderTypes => e.order \in Orders
  /\ e.type \in OrderTypes \ {"dispatched"} => LastIn(h, e.order) # None
  /\ e.type = "order completed" => \E n \in ToSet(h) \cup before : n.type = "evidence" /\ n.order = e.order

ArePending(q, h, ext, here) ==
  \A i \in 1..Len(q) : /\ IsPending(q[i], {q[k] : k \in 1..(i - 1)}, h, ext, here)
                       /\ (q[i].type = "status") => (i = Len(q))

PendingIsLegal == ArePending(todo, events, external, at)

\* Nothing but a verdict, or the owner, is still to be recorded of a run that is told as over.
OpenWhileWriting ==
  /\ at \in {"waiting_review", "dead"} => todo = <<>>
  /\ (at = "over" /\ todo = <<>>) \/ at = "waiting_review" \/ RunStatus \notin Final

\* The note before the closing status says where the run stopped.
Blames(e, part) ==
  \/ part = "execution" /\ e.type = "failed"
  \/ part = "policy" /\ e.type = "policy" /\ e.word = "denied"

StoppedForCause ==
  /\ cause # None => at = "over"
  /\ cause \notin {None, "planning", "interrupted", "rejected"} =>
       /\ Len(todo) <= 1 => Projected.blame = cause
       /\ Len(todo) > 1 => Blames(todo[Len(todo) - 1], cause)
       /\ todo # <<>> => todo[Len(todo)].type = "status"

\* A step is begun with the approval it needs; the order at work was dispatched.
WorkIsAllowed ==
  /\ at \in {"waiting_approval", "starting", "working"} =>
       /\ \A i \in 1..Len(todo) : todo[i].type \in {"policy", "status", "started"}
       /\ \E s \in Steps : ~StepDone(s)
  /\ at = "starting" /\ NextStep \in external => IsApproved(NextStep)
  /\ at \in {"teaming", "ordered"} => Team # {} /\ (Max(Team) \in external => IsApproved(Max(Team)))
  /\ at = "ordered" =>
       /\ \E o \in Orders : ~OrderDone(o)
       /\ \/ todo = <<>> /\ LastOf(Order) # None
          \/ Len(todo) = 1 /\ todo[1].order = Order /\ todo[1].type \in {"dispatched", "resumed"}

\* An order that was dispatched has an attempt, the last one of a completed order is completed.
AttemptsAreKnown ==
  /\ Projected \in AuditType
  /\ Projected.status = RunStatus
  /\ \A o \in Orders : LastOf(o) # None => Latest(Projected, 0, o) # 0
  /\ \A o \in Orders : OrderDone(o) => Projected.attempts[Latest(Projected, 0, o)].outcome = "completed"

HistoryIInv ==
  /\ SoundHistory /\ PendingIsLegal /\ OpenWhileWriting /\ StoppedForCause /\ WorkIsAllowed /\ AttemptsAreKnown
  /\ HistoryIsLegal
  /\ StoppedIsTold

LEMMA LastPlaceIs ==
  ASSUME NEW n \in Nat, NEW S, S \subseteq 1..n
  PROVE  /\ LastPlace(S) \in 0..n /\ \A y \in S : y <= LastPlace(S)
         /\ S # {} => LastPlace(S) \in S
         /\ S = {} => LastPlace(S) = 0
<1> DEFINE T == {0} \cup S
<1>1. T \subseteq 0..n /\ T # {} /\ 0 \in T
  OBVIOUS
<1>2. LastPlace(S) = Max(T)
  BY DEF LastPlace
<1> HIDE DEF T
<1>3. Max(T) \in T /\ \A y \in T : y <= Max(T)
  BY <1>1, MaxIs
<1>4. LastPlace(S) \in {0} \cup S /\ \A y \in S : y <= LastPlace(S)
  BY <1>2, <1>3 DEF T
<1>5. ASSUME NEW y \in S PROVE y \in 1..n /\ y <= LastPlace(S)
  BY <1>4
<1>6. LastPlace(S) \in 0..n
  <2>1. S \subseteq 0..n
    OBVIOUS
  <2>2. 0 \in 0..n
    OBVIOUS
  <2> QED
    BY <1>4, <2>1, <2>2, Zenon
<1>7. S # {} => LastPlace(S) # 0
  <2>1. \A y \in S : LastPlace(S) # 0
    <3> SUFFICES ASSUME NEW y \in S PROVE LastPlace(S) # 0
      OBVIOUS
    <3>1. y \in 1..n /\ y <= LastPlace(S)
      BY <1>5
    <3>2. ~(y <= 0)
      BY <3>1
    <3> QED
      BY <3>1, <3>2
  <2> QED
    BY <2>1
<1> QED
  BY <1>4, <1>6, <1>7

LEMMA LastPlaceNew ==
  ASSUME NEW n \in Nat, NEW S, S \subseteq 1..n
  PROVE  LastPlace(S \cup {n + 1}) = n + 1
<1> DEFINE T == S \cup {n + 1}
           p == LastPlace(T)
<1>1. T \subseteq 1..(n + 1) /\ n + 1 \in T /\ n + 1 \in Nat
  OBVIOUS
<1> HIDE DEF T
<1>2. p \in 0..(n + 1) /\ n + 1 <= p
  BY <1>1, LastPlaceIs
<1>3. p = n + 1
  BY <1>2
<1> QED
  BY <1>3 DEF T

\* One note more.
IsMore(t, h, e) ==
  /\ h \in Seq(Notes) /\ t \in Seq(Notes) /\ e \in Notes
  /\ Len(h) \in Nat /\ Len(t) = Len(h) + 1 /\ t[Len(t)] = e
  /\ \A i \in 1..Len(h) : t[i] = h[i]
  /\ DOMAIN t = 1..(Len(h) + 1) /\ DOMAIN h = 1..Len(h)

LEMMA MoreIs ==
  ASSUME NEW h \in Seq(Notes), NEW e \in Notes
  PROVE  IsMore(Append(h, e), h, e)
  BY DEF IsMore

\* What a condition on notes says of a place is what it says of the note.
PlacesOf(h, kept) == {i \in DOMAIN h : h[i] \in kept}

LEMMA PlacesMore ==
  ASSUME NEW t, NEW h, NEW e, IsMore(t, h, e), NEW kept
  PROVE  /\ PlacesOf(h, kept) \subseteq 1..Len(h)
         /\ PlacesOf(t, kept) = IF e \in kept THEN PlacesOf(h, kept) \cup {Len(h) + 1} ELSE PlacesOf(h, kept)
<1>1. \A i \in 1..(Len(h) + 1) : i \in 1..Len(h) \/ i = Len(h) + 1
  BY DEF IsMore
<1>2. \A i \in 1..Len(h) : i \in 1..(Len(h) + 1) /\ i # Len(h) + 1
  BY DEF IsMore
<1>3. Len(h) + 1 \in 1..(Len(h) + 1)
  BY DEF IsMore
<1> QED
  BY <1>1, <1>2, <1>3 DEF PlacesOf, IsMore

\* The last note of a kind, or one of no type.
NoNote == Note(None, 0, NoOrder, None)
LastNote(h, kept) ==
  LET i == LastPlace(PlacesOf(h, kept)) IN IF i = 0 THEN NoNote ELSE h[i]

LEMMA LastNoteMore ==
  ASSUME NEW t, NEW h, NEW e, IsMore(t, h, e), NEW kept
  PROVE  LastNote(t, kept) = IF e \in kept THEN e ELSE LastNote(h, kept)
<1> DEFINE S == PlacesOf(h, kept)
           T == PlacesOf(t, kept)
<1>1. S \subseteq 1..Len(h) /\ Len(h) \in Nat
  BY PlacesMore DEF IsMore
<1>2. CASE e \in kept
  <2>1. T = S \cup {Len(h) + 1}
    BY <1>2, PlacesMore
  <2> HIDE DEF S, T
  <2>2. LastPlace(T) = Len(h) + 1
    BY <1>1, <2>1, LastPlaceNew
  <2>5. Len(h) + 1 # 0
    BY <1>1
  <2>3. t[Len(h) + 1] = e
    BY DEF IsMore
  <2> QED
    BY <1>2, <2>2, <2>3, <2>5 DEF LastNote, S, T
<1>3. CASE e \notin kept
  <2>1. T = S
    BY <1>3, PlacesMore
  <2>2. LastPlace(S) \in 0..Len(h)
    BY <1>1, LastPlaceIs
  <2>3. LastPlace(S) # 0 => t[LastPlace(S)] = h[LastPlace(S)]
    <3>1. LastPlace(S) # 0 => LastPlace(S) \in 1..Len(h)
      BY <2>2, <1>1
    <3> HIDE DEF S, T
    <3> QED
      BY <3>1 DEF IsMore
  <2> QED
    BY <1>3, <2>1, <2>3 DEF LastNote
<1> QED
  BY <1>2, <1>3

\* It is one of its kind, and there is one when there is any of the kind.
LEMMA LastNoteIs ==
  ASSUME NEW h \in Seq(Notes), NEW kept
  PROVE  /\ LastNote(h, kept) = NoNote \/ (LastNote(h, kept) \in kept /\ LastNote(h, kept) \in ToSet(h))
         /\ ToSet(h) \cap kept # {} => LastNote(h, kept) \in kept
<1> DEFINE S == PlacesOf(h, kept)
<1>1. S \subseteq 1..Len(h) /\ Len(h) \in Nat /\ DOMAIN h = 1..Len(h)
  BY DEF PlacesOf
<1>2. S # {} => LastPlace(S) \in S
  BY <1>1, LastPlaceIs
<1>3. S = {} => LastPlace(S) = 0
  BY <1>1, LastPlaceIs
<1>4. ToSet(h) \cap kept # {} => S # {}
  BY DEF PlacesOf, ToSet
<1>5. LastPlace(S) # 0 => LastPlace(S) \in DOMAIN h /\ h[LastPlace(S)] \in kept
  BY <1>2, <1>3 DEF PlacesOf
<1>6. S # {} => LastPlace(S) # 0
  BY <1>1, <1>2
<1> QED
  BY <1>4, <1>5, <1>6 DEF LastNote, ToSet

\* The status, the last word on an order and on the run, and what is seen, after one more note.
StatusNotes == {e \in Notes : e.type = "status"}
OrderNotes(o) == {e \in Notes : e.order = o /\ e.type \in OrderTypes}
TellingNotes == {e \in Notes : Tells(e)}

SoundHistories == {h \in Seq(Notes) : h # <<>> /\ h[1].type = "status"}
Word(e) == IF e.type = "failed" THEN "failed" ELSE e.word

LEMMA PlacesAre ==
  ASSUME NEW h \in Seq(Notes), NEW K, NEW P, P \subseteq DOMAIN h,
         \A i \in DOMAIN h : i \in P <=> h[i] \in K
  PROVE  P = PlacesOf(h, K)
  BY DEF PlacesOf

\* The definitions of the model, of any history.
StatusIn(h) == h[LastPlace({i \in DOMAIN h : h[i].type = "status"})].word
ToldIn(h) ==
  LET i == LastPlace({k \in DOMAIN h : Tells(h[k])})
  IN  IF i = 0 THEN None ELSE IF h[i].type = "failed" THEN "failed" ELSE h[i].word

LEMMA LastInIs ==
  ASSUME NEW h \in Seq(Notes), NEW o
  PROVE  LastIn(h, o) = LastNote(h, OrderNotes(o)).type
<1> DEFINE P == {k \in DOMAIN h : h[k].order = o /\ h[k].type \in OrderTypes}
<1>1. \A i \in DOMAIN h : h[i] \in Notes
  OBVIOUS
<1>2. P = PlacesOf(h, OrderNotes(o))
  BY <1>1 DEF PlacesOf, OrderNotes
<1>3. NoNote.type = None
  BY DEF NoNote, Note
<1> QED
  BY <1>2, <1>3 DEF LastIn, LastNote

LEMMA ToldInIs ==
  ASSUME NEW h \in Seq(Notes)
  PROVE  ToldIn(h) = Word(LastNote(h, TellingNotes))
<1> DEFINE P == {k \in DOMAIN h : Tells(h[k])}
<1>1. \A i \in DOMAIN h : h[i] \in Notes
  OBVIOUS
<1>2. P = PlacesOf(h, TellingNotes)
  BY <1>1 DEF PlacesOf, TellingNotes
<1>3. Word(NoNote) = None
  BY DEF NoNote, Note, Word, None
<1>4. ToldIn(h) = IF LastPlace(P) = 0 THEN None ELSE Word(h[LastPlace(P)])
  BY DEF ToldIn, Word
<1>5. LastNote(h, TellingNotes) = IF LastPlace(P) = 0 THEN NoNote ELSE h[LastPlace(P)]
  BY <1>2 DEF LastNote
<1> HIDE DEF P
<1> QED
  BY <1>3, <1>4, <1>5

LEMMA StatusInIs ==
  ASSUME NEW h \in SoundHistories
  PROVE  StatusIn(h) = LastNote(h, StatusNotes).word /\ LastNote(h, StatusNotes) \in StatusNotes
<1> DEFINE P == {i \in DOMAIN h : h[i].type = "status"}
<1>0. h \in Seq(Notes) /\ 1 \in DOMAIN h /\ h[1].type = "status"
  BY DEF SoundHistories
<1>1. \A i \in DOMAIN h : h[i] \in Notes
  BY <1>0
<1>2. P = PlacesOf(h, StatusNotes)
  BY <1>1 DEF PlacesOf, StatusNotes
<1>3. LastPlace(P) # 0 /\ LastPlace(P) \in P
  <2>1. 1 \in P /\ P \subseteq 1..Len(h) /\ Len(h) \in Nat
    BY <1>0
  <2>2. 0 \notin P
    BY <2>1
  <2> HIDE DEF P
  <2>3. LastPlace(P) \in P
    BY <2>1, LastPlaceIs
  <2> QED
    BY <2>2, <2>3
<1>4. LastNote(h, StatusNotes) = h[LastPlace(P)]
  BY <1>2, <1>3 DEF LastNote
<1>5. h[LastPlace(P)] \in StatusNotes
  BY <1>1, <1>3 DEF StatusNotes
<1> QED
  BY <1>4, <1>5 DEF StatusIn

LEMMA SeenMore ==
  ASSUME NEW t, NEW h, NEW e, IsMore(t, h, e)
  PROVE  ToSet(t) = ToSet(h) \cup {e}
<1>1. \A i \in 1..(Len(h) + 1) : i \in 1..Len(h) \/ i = Len(h) + 1
  BY DEF IsMore
<1>2. \A i \in 1..Len(h) : i \in 1..(Len(h) + 1)
  BY DEF IsMore
<1>3. Len(h) + 1 \in 1..(Len(h) + 1)
  BY DEF IsMore
<1> QED
  BY <1>1, <1>2, <1>3 DEF ToSet, IsMore

LEMMA SoundMore ==
  ASSUME NEW t, NEW h \in SoundHistories, NEW e, IsMore(t, h, e)
  PROVE  t \in SoundHistories
<1>1. 1 \in 1..Len(h) /\ h \in Seq(Notes)
  BY DEF SoundHistories
<1>2. t[1] = h[1] /\ t \in Seq(Notes) /\ Len(t) # 0
  BY <1>1 DEF IsMore
<1> QED
  BY <1>2 DEF SoundHistories

\* What one more note makes of the last words.
LEMMA WordsMore ==
  ASSUME NEW h \in SoundHistories, NEW t, NEW e \in Notes, IsMore(t, h, e)
  PROVE  /\ t \in SoundHistories
         /\ StatusIn(t) = IF e.type = "status" THEN e.word ELSE StatusIn(h)
         /\ ToldIn(t) = IF Tells(e) THEN Word(e) ELSE ToldIn(h)
         /\ \A o : LastIn(t, o) = IF e.order = o /\ e.type \in OrderTypes THEN e.type ELSE LastIn(h, o)
         /\ ToSet(t) = ToSet(h) \cup {e}
<1>1. t \in SoundHistories /\ t \in Seq(Notes) /\ h \in Seq(Notes)
  BY SoundMore DEF SoundHistories
<1>2. ToSet(t) = ToSet(h) \cup {e}
  BY SeenMore
<1>3. \A kept : LastNote(t, kept) = IF e \in kept THEN e ELSE LastNote(h, kept)
  BY LastNoteMore
<1>4. StatusIn(t) = IF e.type = "status" THEN e.word ELSE StatusIn(h)
  <2>1. StatusIn(h) = LastNote(h, StatusNotes).word /\ StatusIn(t) = LastNote(t, StatusNotes).word
    BY <1>1, StatusInIs
  <2>2. e \in StatusNotes <=> e.type = "status"
    BY DEF StatusNotes
  <2> QED
    BY <1>3, <2>1, <2>2
<1>5. ToldIn(t) = IF Tells(e) THEN Word(e) ELSE ToldIn(h)
  <2>1. ToldIn(h) = Word(LastNote(h, TellingNotes)) /\ ToldIn(t) = Word(LastNote(t, TellingNotes))
    BY <1>1, ToldInIs
  <2>2. e \in TellingNotes <=> Tells(e)
    BY DEF TellingNotes
  <2> QED
    BY <1>3, <2>1, <2>2
<1>6. ASSUME NEW o
      PROVE  LastIn(t, o) = IF e.order = o /\ e.type \in OrderTypes THEN e.type ELSE LastIn(h, o)
  <2>1. LastIn(h, o) = LastNote(h, OrderNotes(o)).type /\ LastIn(t, o) = LastNote(t, OrderNotes(o)).type
    BY <1>1, LastInIs
  <2>2. e \in OrderNotes(o) <=> e.order = o /\ e.type \in OrderTypes
    BY DEF OrderNotes
  <2> QED
    BY <1>3, <2>1, <2>2
<1> QED
  BY <1>1, <1>2, <1>4, <1>5, <1>6

\* The audit, of any history: the values it goes through on the first n notes.
IsAudit(f, h, n) == f = [i \in 0 .. n |-> IF i = 0 THEN NoAudit ELSE Project(f[i - 1], h[i])]

AuditIn(h) ==
  LET upTo[n \in 0 .. Len(h)] == IF n = 0 THEN NoAudit ELSE Project(upTo[n - 1], h[n])
  IN  upTo[Len(h)]

LEMMA AuditExists ==
  ASSUME NEW h, NEW n \in Nat
  PROVE  \E f : IsAudit(f, h, n)
<1> DEFINE Good(m) == \E f : IsAudit(f, h, m)
           Bad == {m \in 0..n : ~ Good(m)}
<1> HIDE DEF Good
<1>2. Bad = {}
  <2> SUFFICES ASSUME Bad # {} PROVE FALSE
    OBVIOUS
  <2>1. Bad \subseteq Nat
    OBVIOUS
  <2>2. PICK m \in Bad : \A y \in Bad : m <= y
    BY <2>1, LeastNumber
  <2>3. CASE m = 0
    <3> DEFINE g == [i \in 0..0 |-> NoAudit]
    <3>1. g = [i \in 0..0 |-> IF i = 0 THEN NoAudit ELSE Project(g[i - 1], h[i])]
      <4>1. \A i \in 0..0 : i = 0
        OBVIOUS
      <4> QED
        BY <4>1
    <3>2. IsAudit(g, h, 0)
      BY <3>1 DEF IsAudit
    <3> QED
      BY <2>2, <2>3, <3>2 DEF Good
  <2>4. CASE m # 0
    <3>1. m - 1 \in 0..n /\ m \in Nat /\ ~(m <= m - 1)
      BY <2>2, <2>4
    <3>2. PICK f : IsAudit(f, h, m - 1)
      <4>1. Good(m - 1)
        BY <2>2, <3>1
      <4> QED
        BY <4>1 DEF Good
    <3> DEFINE next == Project(f[m - 1], h[m])
               g == [i \in 0..m |-> IF i = m THEN next ELSE f[i]]
    <3> HIDE DEF next
    <3>3. ASSUME NEW i \in 0..m
          PROVE  g[i] = IF i = 0 THEN NoAudit ELSE Project(g[i - 1], h[i])
      <4>1. CASE i = m
        <5>1. g[i] = next /\ g[i - 1] = f[m - 1]
          BY <4>1, <2>4, <3>1
        <5> QED
          BY <5>1, <4>1, <2>4 DEF next
      <4>2. CASE i # m
        <5>1. i \in 0..(m - 1) /\ (i # 0 => i - 1 \in 0..(m - 1) /\ i - 1 # m /\ i - 1 \in 0..m)
          BY <4>2, <3>1
        <5>2. g[i] = f[i] /\ (i # 0 => g[i - 1] = f[i - 1])
          BY <4>2, <5>1
        <5>3. f[i] = IF i = 0 THEN NoAudit ELSE Project(f[i - 1], h[i])
          BY <3>2, <5>1 DEF IsAudit
        <5> QED
          BY <5>2, <5>3
      <4> QED
        BY <4>1, <4>2
    <3>4. g = [i \in 0..m |-> g[i]]
      OBVIOUS
    <3> HIDE DEF g
    <3>5. IsAudit(g, h, m)
      BY <3>3, <3>4 DEF IsAudit
    <3> QED
      BY <2>2, <3>5 DEF Good
  <2> QED
    BY <2>3, <2>4
<1>1. n \in 0..n
  OBVIOUS
<1>3. Good(n)
  BY <1>1, <1>2
<1> QED
  BY <1>3 DEF Good

\* Two projections agree as far as what they project does.
LEMMA AuditsAgree ==
  ASSUME NEW n \in Nat, NEW m \in 0 .. n, NEW f, NEW g, NEW s, NEW t,
         IsAudit(f, s, n), IsAudit(g, t, m),
         \A i \in 1 .. m : s[i] = t[i]
  PROVE  \A i \in 0 .. m : f[i] = g[i]
<1> DEFINE Off == {i \in 0 .. m : f[i] # g[i]}
<1> SUFFICES ASSUME Off # {} PROVE FALSE
  OBVIOUS
<1>1. Off \subseteq Nat
  OBVIOUS
<1>2. PICK k \in Off : \A y \in Off : k <= y
  BY <1>1, LeastNumber
<1>3. k \in 0 .. m /\ k \in 0 .. n /\ m \in Nat
  OBVIOUS
<1>4. f[k] = IF k = 0 THEN NoAudit ELSE Project(f[k - 1], s[k])
  BY <1>3 DEF IsAudit
<1>5. g[k] = IF k = 0 THEN NoAudit ELSE Project(g[k - 1], t[k])
  BY <1>3 DEF IsAudit
<1>6. k # 0
  BY <1>4, <1>5
<1>7. k - 1 \in 0 .. m /\ k \in 1 .. m /\ ~(k <= k - 1)
  BY <1>3, <1>6
<1>8. f[k - 1] = g[k - 1] /\ s[k] = t[k]
  BY <1>2, <1>7
<1>9. f[k] = g[k]
  BY <1>4, <1>5, <1>6, <1>8
<1> QED
  BY <1>9

LEMMA AuditInIs ==
  ASSUME NEW h, Len(h) \in Nat
  PROVE  \E f : IsAudit(f, h, Len(h)) /\ AuditIn(h) = f[Len(h)]
<1>1. \E f : IsAudit(f, h, Len(h))
  BY AuditExists
<1> QED
  BY <1>1 DEF IsAudit, AuditIn

\* One note more is projected on what the notes before it made.
LEMMA AuditMore ==
  ASSUME NEW t, NEW h, NEW e, IsMore(t, h, e)
  PROVE  AuditIn(t) = Project(AuditIn(h), e)
<1> DEFINE n == Len(h)
<1>1. n \in Nat /\ Len(t) = n + 1 /\ t[n + 1] = e /\ \A i \in 1 .. n : t[i] = h[i]
  BY DEF IsMore
<1> HIDE DEF n
<1>2. n + 1 \in Nat /\ n \in 0 .. n + 1 /\ n \in 0 .. n
  BY <1>1
<1>3. PICK f : IsAudit(f, t, n + 1) /\ AuditIn(t) = f[n + 1]
  BY <1>1, <1>2, AuditInIs
<1>4. PICK g : IsAudit(g, h, n) /\ AuditIn(h) = g[n]
  BY <1>1, AuditInIs DEF n
<1>5. f[n] = g[n]
  BY <1>1, <1>2, <1>3, <1>4, AuditsAgree
<1>6. f[n + 1] = Project(f[n], t[n + 1])
  <2>1. n + 1 \in 0 .. n + 1 /\ n + 1 # 0 /\ (n + 1) - 1 = n
    BY <1>1
  <2> QED
    BY <1>3, <2>1 DEF IsAudit
<1> QED
  BY <1>1, <1>3, <1>4, <1>5, <1>6

\* The place of the last attempt of an order in an audit.
OrderPlace(a, o) == LastPlace({i \in DOMAIN a.attempts : a.attempts[i].order = o})

\* Two audits that show the same of every order.
OrdersAlike(b, a) ==
  \A o \in Orders : /\ OrderPlace(b, o) = OrderPlace(a, o)
                    /\ OrderPlace(a, o) # 0 =>
                         b.attempts[OrderPlace(a, o)].outcome = a.attempts[OrderPlace(a, o)].outcome

LEMMA OrdersAreNumbers == NoOrder \notin Orders /\ 0 \notin Orders
  BY HistoryAssumption DEF NoOrder

LEMMA AuditFields ==
  ASSUME NEW a \in AuditType
  PROVE  /\ a.attempts \in Seq(AuditAttempt) /\ Len(a.attempts) \in Nat /\ DOMAIN a.attempts = 1..Len(a.attempts)
         /\ \A i \in 1..Len(a.attempts) : a.attempts[i] \in AuditAttempt
  BY DEF AuditType

LEMMA OrderPlaceIs ==
  ASSUME NEW a \in AuditType, NEW o
  PROVE  /\ OrderPlace(a, o) \in 0..Len(a.attempts)
         /\ OrderPlace(a, o) # 0 => OrderPlace(a, o) \in DOMAIN a.attempts /\ a.attempts[OrderPlace(a, o)].order = o
<1> DEFINE S == {i \in DOMAIN a.attempts : a.attempts[i].order = o}
           n == Len(a.attempts)
<1>1. n \in Nat /\ S \subseteq 1..n
  BY AuditFields
<1>2. LastPlace(S) \in 0..n /\ (S # {} => LastPlace(S) \in S) /\ (S = {} => LastPlace(S) = 0)
  <2> HIDE DEF S, n
  <2> QED
    BY <1>1, LastPlaceIs
<1>3. LastPlace(S) # 0 => LastPlace(S) \in S
  BY <1>2
<1> QED
  BY <1>2, <1>3 DEF OrderPlace

LEMMA LatestPlace ==
  ASSUME NEW a \in AuditType, NEW s, NEW o
  PROVE  /\ Latest(a, s, o) \in 0..Len(a.attempts)
         /\ Latest(a, s, o) # 0 =>
              Latest(a, s, o) \in DOMAIN a.attempts /\ a.attempts[Latest(a, s, o)].order = o
         /\ o # NoOrder => Latest(a, s, o) = OrderPlace(a, o)
<1> DEFINE S == {i \in DOMAIN a.attempts : /\ a.attempts[i].order = o
                                           /\ o = NoOrder => a.attempts[i].step = s}
           n == Len(a.attempts)
<1>1. n \in Nat /\ S \subseteq 1..n
  BY AuditFields
<1>2. LastPlace(S) \in 0..n /\ (S # {} => LastPlace(S) \in S) /\ (S = {} => LastPlace(S) = 0)
  <2> HIDE DEF S, n
  <2> QED
    BY <1>1, LastPlaceIs
<1>3. LastPlace(S) # 0 => LastPlace(S) \in S
  BY <1>2
<1>4. o # NoOrder => S = {i \in DOMAIN a.attempts : a.attempts[i].order = o}
  OBVIOUS
<1>5. Latest(a, s, o) = LastPlace(S)
  BY DEF Latest
<1> QED
  BY <1>2, <1>3, <1>4, <1>5 DEF OrderPlace

\* A part takes the blame, the status moves, evidence is seen: the attempts stay.
LEMMA AttemptsStay ==
  ASSUME NEW a, NEW b, b.attempts = a.attempts
  PROVE  OrdersAlike(b, a)
  BY DEF OrdersAlike, OrderPlace

LEMMA AttemptOpened ==
  ASSUME NEW a \in AuditType, NEW e, e.step \in Steps \cup {0}, e.order \in Orders \cup {NoOrder}
  PROVE  /\ Opened(a, e) \in AuditType
         /\ Opened(a, e).status = a.status /\ Opened(a, e).blame = a.blame
         /\ Len(Opened(a, e).attempts) = Len(a.attempts) + 1
         /\ Opened(a, e).attempts[Len(a.attempts) + 1].order = e.order
         /\ \A i \in 1..Len(a.attempts) : Opened(a, e).attempts[i] = a.attempts[i]
<1> DEFINE new == [step |-> e.step, order |-> e.order, outcome |-> "unfinished"]
           b == Opened(a, e)
<1>1. new \in AuditAttempt /\ new.order = e.order
  BY DEF AuditAttempt
<1> HIDE DEF new
<1>2. b = [a EXCEPT !.attempts = Append(a.attempts, new)]
  BY DEF Opened, new
<1>3. b.attempts = Append(a.attempts, new) /\ b.status = a.status /\ b.blame = a.blame /\ b.evidence = a.evidence
  BY <1>2 DEF AuditType
<1>4. b \in AuditType
  <2>1. Append(a.attempts, new) \in Seq(AuditAttempt)
    BY <1>1, AuditFields
  <2> QED
    BY <1>2, <2>1 DEF AuditType
<1> QED
  BY <1>1, <1>3, <1>4, AuditFields

\* The places of an order after an attempt was opened.
LEMMA OpenedPlaces ==
  ASSUME NEW a \in AuditType, NEW b \in AuditType, NEW q, NEW o, Len(b.attempts) = Len(a.attempts) + 1,
         b.attempts[Len(a.attempts) + 1].order = q,
         \A i \in 1..Len(a.attempts) : b.attempts[i] = a.attempts[i]
  PROVE  OrderPlace(b, o) = IF q = o THEN Len(a.attempts) + 1 ELSE OrderPlace(a, o)
<1> DEFINE n == Len(a.attempts)
           S == {i \in DOMAIN a.attempts : a.attempts[i].order = o}
           T == {i \in DOMAIN b.attempts : b.attempts[i].order = o}
<1>1. n \in Nat /\ DOMAIN a.attempts = 1..n /\ DOMAIN b.attempts = 1..(n + 1) /\ S \subseteq 1..n
  BY AuditFields
<1>2. \A i \in 1..(n + 1) : i \in 1..n \/ i = n + 1
  BY <1>1
<1>3. n + 1 \in 1..(n + 1) /\ \A i \in 1..n : i \in 1..(n + 1) /\ i # n + 1
  BY <1>1
<1>4. T = IF q = o THEN S \cup {n + 1} ELSE S
  BY <1>1, <1>2, <1>3
<1>5. OrderPlace(a, o) = LastPlace(S) /\ OrderPlace(b, o) = LastPlace(T)
  BY DEF OrderPlace
<1> HIDE DEF S, T, n
<1>6. LastPlace(S \cup {n + 1}) = n + 1
  BY <1>1, LastPlaceNew
<1> QED
  BY <1>4, <1>5, <1>6 DEF n

LEMMA OpenedElsewhere ==
  ASSUME NEW a \in AuditType, NEW e, e.step \in Steps \cup {0}, e.order = NoOrder
  PROVE  OrdersAlike(Opened(a, e), a)
<1> DEFINE b == Opened(a, e)
<1>1. /\ b \in AuditType /\ Len(b.attempts) = Len(a.attempts) + 1
      /\ b.attempts[Len(a.attempts) + 1].order = NoOrder
      /\ \A i \in 1..Len(a.attempts) : b.attempts[i] = a.attempts[i]
  BY AttemptOpened
<1> HIDE DEF b
<1>2. ASSUME NEW o \in Orders
      PROVE  /\ OrderPlace(b, o) = OrderPlace(a, o)
             /\ OrderPlace(a, o) # 0 => b.attempts[OrderPlace(a, o)].outcome = a.attempts[OrderPlace(a, o)].outcome
  <2>1. OrderPlace(b, o) = OrderPlace(a, o)
    BY <1>1, OpenedPlaces, OrdersAreNumbers
  <2>2. OrderPlace(a, o) # 0 => OrderPlace(a, o) \in 1..Len(a.attempts)
    BY OrderPlaceIs, AuditFields
  <2> QED
    BY <1>1, <2>1, <2>2
<1> QED
  BY <1>2 DEF OrdersAlike, b

\* An attempt comes to its end, or there is none.
LEMMA AttemptEnded ==
  ASSUME NEW a \in AuditType, NEW i \in 0..Len(a.attempts), NEW end \in {"failed", "completed"}
  PROVE  /\ Ended(a, i, end) \in AuditType
         /\ Ended(a, i, end).status = a.status /\ Ended(a, i, end).blame = a.blame
         /\ \A o : OrderPlace(Ended(a, i, end), o) = OrderPlace(a, o)
         /\ \A k \in DOMAIN a.attempts :
              Ended(a, i, end).attempts[k].outcome = IF k = i THEN end ELSE a.attempts[k].outcome
<1> DEFINE b == Ended(a, i, end)
<1>1. DOMAIN a.attempts = 1..Len(a.attempts) /\ Len(a.attempts) \in Nat
      /\ \A k \in DOMAIN a.attempts : a.attempts[k] \in AuditAttempt
  BY AuditFields
<1>2. CASE i = 0
  <2>1. b = a
    BY <1>2 DEF Ended
  <2>2. \A k \in DOMAIN a.attempts : k # i
    BY <1>1, <1>2
  <2> QED
    BY <2>1, <2>2
<1>3. CASE i # 0
  <2> DEFINE s == [a.attempts EXCEPT ![i].outcome = end]
  <2>1. b = [a EXCEPT !.attempts = s]
    BY <1>3 DEF Ended
  <2>2. /\ s \in Seq(AuditAttempt) /\ DOMAIN s = DOMAIN a.attempts
        /\ \A k \in DOMAIN a.attempts : /\ s[k].order = a.attempts[k].order
                                        /\ s[k].outcome = IF k = i THEN end ELSE a.attempts[k].outcome
    <3>1. i \in DOMAIN a.attempts
      BY <1>1, <1>3
    <3>2. \A k \in DOMAIN a.attempts : s[k] = IF k = i THEN [a.attempts[i] EXCEPT !.outcome = end] ELSE a.attempts[k]
      BY <3>1
    <3>3. [a.attempts[i] EXCEPT !.outcome = end] \in AuditAttempt
      BY <1>1, <3>1 DEF AuditAttempt
    <3>4. DOMAIN s = 1..Len(a.attempts) /\ \A k \in 1..Len(a.attempts) : s[k] \in AuditAttempt
      BY <1>1, <3>2, <3>3
    <3>5. s \in [1..Len(a.attempts) -> AuditAttempt]
      BY <3>4
    <3>6. [a.attempts[i] EXCEPT !.outcome = end].order = a.attempts[i].order
          /\ [a.attempts[i] EXCEPT !.outcome = end].outcome = end
      BY <1>1, <3>1 DEF AuditAttempt
    <3> HIDE DEF s
    <3>7. s \in Seq(AuditAttempt)
      BY <1>1, <3>5
    <3> QED
      BY <1>1, <3>2, <3>4, <3>6, <3>7
  <2> HIDE DEF s
  <2>3. b.attempts = s /\ b.status = a.status /\ b.blame = a.blame
    BY <2>1 DEF AuditType
  <2>4. b \in AuditType
    BY <2>1, <2>2 DEF AuditType
  <2>5. ASSUME NEW o PROVE OrderPlace(b, o) = OrderPlace(a, o)
    BY <2>2, <2>3 DEF OrderPlace
  <2> QED
    BY <2>2, <2>3, <2>4, <2>5
<1> QED
  BY <1>2, <1>3

\* What one note does to the attempts of the orders.
OrdersMove(b, a, e) ==
  \A o \in Orders :
    /\ OrderPlace(a, o) # 0 \/ (e.type = "dispatched" /\ e.order = o) => OrderPlace(b, o) # 0
    /\ e.order # o \/ e.type \notin {"started", "dispatched", "order completed", "order failed"} =>
         /\ OrderPlace(b, o) = OrderPlace(a, o)
         /\ OrderPlace(a, o) # 0 => b.attempts[OrderPlace(a, o)].outcome = a.attempts[OrderPlace(a, o)].outcome
    /\ e.type = "order completed" /\ e.order = o /\ OrderPlace(a, o) # 0 =>
         b.attempts[OrderPlace(b, o)].outcome = "completed"

\* A note that puts the stop down to nobody but the execution.
Unaccusing(e) ==
  /\ ~(e.type = "policy" /\ e.word = "denied")
  /\ e.type # "verified"
  /\ ~(e.type = "status" /\ e.word \in {"failed", "cancelled"})

\* Whom one note blames.
BlameMoves(b, a, e) ==
  /\ e.type = "failed" => b.blame = "execution"
  /\ e.type = "policy" /\ e.word = "denied" => b.blame = "policy"
  /\ e.type = "verified" /\ e.word = "refuted" => b.blame = "verification"
  /\ e.type = "status" /\ e.word = "cancelled" => b.blame = "cancelled"
  /\ e.type = "status" /\ e.word # "cancelled" /\ a.blame # None => b.blame = a.blame
  /\ e.type = "status" /\ e.word = "failed" /\ a.blame = None => b.blame = "unknown"
  /\ Unaccusing(e) => b.blame \in {a.blame, "execution"}

Moved(b, a, e) ==
  /\ b \in AuditType /\ b.status = (IF e.type = "status" THEN e.word ELSE a.status)
  /\ OrdersMove(b, a, e) /\ BlameMoves(b, a, e)

LEMMA AlikeMove ==
  ASSUME NEW a, NEW b, NEW e, OrdersAlike(b, a), e.type \notin {"dispatched", "order completed"}
  PROVE  OrdersMove(b, a, e)
  BY DEF OrdersAlike, OrdersMove

LEMMA BlamedIs ==
  ASSUME NEW a \in AuditType, NEW part \in {"policy", "execution", "verification", "cancelled", "unknown"}
  PROVE  /\ Blamed(a, part) \in AuditType /\ Blamed(a, part).blame = part
         /\ Blamed(a, part).status = a.status /\ Blamed(a, part).attempts = a.attempts
  BY DEF Blamed, AuditType

LEMMA StatusMoves ==
  ASSUME NEW a \in AuditType, NEW e \in Notes, e.type = "status", e.word \in StatusWords
  PROVE  Moved(Project(a, e), a, e)
<1> DEFINE moved == [a EXCEPT !.status = e.word]
           b == Project(a, e)
<1>1. moved \in AuditType /\ moved.status = e.word /\ moved.blame = a.blame /\ moved.attempts = a.attempts
  BY DEF AuditType
<1>2. b = IF e.word = "cancelled" THEN Blamed(moved, "cancelled")
          ELSE IF e.word = "failed" /\ moved.blame = None THEN Blamed(moved, "unknown") ELSE moved
  BY DEF Project
<1> HIDE DEF moved, b
<1>3. b \in AuditType /\ b.status = e.word /\ b.attempts = a.attempts
  BY <1>1, <1>2, BlamedIs
<1>4. BlameMoves(b, a, e)
  BY <1>1, <1>2, BlamedIs DEF BlameMoves, Unaccusing
<1>5. OrdersMove(b, a, e)
  BY <1>3, AttemptsStay, AlikeMove
<1> QED
  BY <1>3, <1>4, <1>5 DEF Moved, b

LEMMA StartMoves ==
  ASSUME NEW a \in AuditType, NEW e \in Notes, e.type \in {"started", "dispatched"}
  PROVE  Moved(Project(a, e), a, e)
<1> DEFINE b == Opened(a, e)
           n == Len(a.attempts)
<1>1. Project(a, e) = b
  BY DEF Project
<1>2. e.step \in Steps \cup {0} /\ e.order \in Orders \cup {NoOrder}
  BY DEF Notes
<1>3. /\ b \in AuditType /\ b.status = a.status /\ b.blame = a.blame /\ Len(b.attempts) = n + 1
      /\ b.attempts[n + 1].order = e.order /\ \A i \in 1..n : b.attempts[i] = a.attempts[i]
  BY <1>2, AttemptOpened
<1>4. n \in Nat /\ n + 1 # 0
  BY AuditFields
<1>5. \A o : OrderPlace(b, o) = IF e.order = o THEN n + 1 ELSE OrderPlace(a, o)
  <2> HIDE DEF b
  <2> QED
    BY <1>3, OpenedPlaces
<1> HIDE DEF b
<1>6. \A o : OrderPlace(a, o) # 0 => OrderPlace(a, o) \in 1..n
  BY OrderPlaceIs, AuditFields
<1> HIDE DEF n
<1>7. OrdersMove(b, a, e)
  BY <1>3, <1>4, <1>5, <1>6 DEF OrdersMove
<1>8. BlameMoves(b, a, e)
  BY <1>3 DEF BlameMoves
<1> QED
  BY <1>1, <1>3, <1>7, <1>8 DEF Moved

\* The last attempt of an order came to its end, the other orders are as they were.
EndedAt(b, a, q, end) ==
  /\ b \in AuditType /\ b.status = a.status /\ b.blame \in {a.blame, "execution"}
  /\ \A o : OrderPlace(b, o) = OrderPlace(a, o)
  /\ \A o : OrderPlace(a, o) # 0 =>
       b.attempts[OrderPlace(a, o)].outcome = IF o = q THEN end ELSE a.attempts[OrderPlace(a, o)].outcome

LEMMA OrderEnded ==
  ASSUME NEW a \in AuditType, NEW s, NEW q \in Orders, NEW end \in {"failed", "completed"}
  PROVE  EndedAt(Ended(a, Latest(a, s, q), end), a, q, end)
<1> DEFINE i == Latest(a, s, q)
           c == Ended(a, i, end)
<1>1. q # NoOrder
  BY OrdersAreNumbers
<1>2. i \in 0..Len(a.attempts) /\ i = OrderPlace(a, q)
  BY <1>1, LatestPlace
<1> HIDE DEF i
<1>4. /\ c \in AuditType /\ c.status = a.status /\ c.blame = a.blame
      /\ \A o : OrderPlace(c, o) = OrderPlace(a, o)
      /\ \A k \in DOMAIN a.attempts : c.attempts[k].outcome = IF k = i THEN end ELSE a.attempts[k].outcome
  BY <1>2, AttemptEnded
<1> HIDE DEF c
<1>5. \A o : OrderPlace(a, o) # 0 => OrderPlace(a, o) \in DOMAIN a.attempts /\ a.attempts[OrderPlace(a, o)].order = o
  BY OrderPlaceIs
<1>6. ASSUME NEW o, OrderPlace(a, o) # 0
      PROVE  c.attempts[OrderPlace(a, o)].outcome = IF o = q THEN end ELSE a.attempts[OrderPlace(a, o)].outcome
  <2>1. (OrderPlace(a, o) = i) <=> (o = q)
    BY <1>2, <1>5, <1>6
  <2> QED
    BY <1>4, <1>5, <1>6, <2>1
<1>7. EndedAt(c, a, q, end)
  BY <1>4, <1>6 DEF EndedAt
<1> QED
  BY <1>7 DEF c, i

LEMMA EndedMoves ==
  ASSUME NEW a, NEW b, NEW e, NEW q, q = e.order, NEW end, EndedAt(b, a, q, end),
         e.type \in {"order completed", "order failed"}, e.type = "order completed" => end = "completed"
  PROVE  OrdersMove(b, a, e)
<1> SUFFICES ASSUME NEW o \in Orders
             PROVE  /\ OrderPlace(b, o) = OrderPlace(a, o)
                    /\ q # o /\ OrderPlace(a, o) # 0 =>
                         b.attempts[OrderPlace(a, o)].outcome = a.attempts[OrderPlace(a, o)].outcome
                    /\ e.type = "order completed" /\ q = o /\ OrderPlace(a, o) # 0 =>
                         b.attempts[OrderPlace(a, o)].outcome = "completed"
  BY DEF OrdersMove
<1> QED
  BY DEF EndedAt

LEMMA EndedBlamed ==
  ASSUME NEW a, NEW c, NEW b, NEW q, NEW end, EndedAt(c, a, q, end), b = Blamed(c, "execution")
  PROVE  EndedAt(b, a, q, end)
<1>1. c \in AuditType /\ c.status = a.status
  BY DEF EndedAt
<1>2. b \in AuditType /\ b.status = a.status /\ b.attempts = c.attempts /\ b.blame = "execution"
  BY <1>1, BlamedIs
<1>3. ASSUME NEW o PROVE OrderPlace(b, o) = OrderPlace(c, o)
  BY <1>2 DEF OrderPlace
<1> QED
  BY <1>2, <1>3 DEF EndedAt

LEMMA OrderMoves ==
  ASSUME NEW a \in AuditType, NEW e \in Notes, e.type \in {"order completed", "order failed"}, e.order \in Orders
  PROVE  Moved(Project(a, e), a, e)
<1> DEFINE c(end) == Ended(a, Latest(a, e.step, e.order), end)
           b == Project(a, e)
<1>1. \A end \in {"failed", "completed"} : EndedAt(c(end), a, e.order, end)
  BY OrderEnded
<1>2. (e.type = "order completed" => b = c("completed")) /\ (e.type = "order failed" => b = Blamed(c("failed"), "execution"))
  <2>1. ASSUME e.type = "order completed" PROVE b = c("completed")
    BY <2>1 DEF Project
  <2>2. ASSUME e.type = "order failed" PROVE b = Blamed(c("failed"), "execution")
    BY <2>2 DEF Project
  <2> QED
    BY <2>1, <2>2
<1> HIDE DEF b, c
<1>3. \E end : EndedAt(b, a, e.order, end) /\ (e.type = "order completed" => end = "completed")
  BY <1>1, <1>2, EndedBlamed
<1>4. OrdersMove(b, a, e)
  BY <1>3, EndedMoves
<1>5. b \in AuditType /\ b.status = a.status /\ b.blame \in {a.blame, "execution"}
  BY <1>3 DEF EndedAt
<1>6. BlameMoves(b, a, e)
  BY <1>5 DEF BlameMoves
<1>7. e.type # "status"
  OBVIOUS
<1> QED
  BY <1>4, <1>5, <1>6, <1>7 DEF Moved, b

LEMMA FailureMoves ==
  ASSUME NEW a \in AuditType, NEW e \in Notes, e.type = "failed"
  PROVE  Moved(Project(a, e), a, e)
<1> DEFINE first == Note("", e.step, NoOrder, "")
           known == Ensured(a, e.step)
           i == Latest(known, e.step, NoOrder)
           c == Ended(known, i, "failed")
           b == Project(a, e)
<1>1. b = Blamed(c, "execution")
  BY DEF Project
<1>2. e.step \in Steps \cup {0}
  BY DEF Notes
<1>3. first.step = e.step /\ first.order = NoOrder
  BY DEF Note
<1>4. known = a \/ known = Opened(a, first)
  BY DEF Ensured
<1> HIDE DEF first, known
<1>5. known \in AuditType /\ known.status = a.status /\ known.blame = a.blame /\ OrdersAlike(known, a)
  <2>1. CASE known = a
    BY <2>1, AttemptsStay
  <2>2. CASE known = Opened(a, first)
    BY <1>2, <1>3, <2>2, AttemptOpened, OpenedElsewhere
  <2> QED
    BY <1>4, <2>1, <2>2
<1>6. i \in 0..Len(known.attempts) /\ (i # 0 => known.attempts[i].order = NoOrder)
  BY <1>5, LatestPlace
<1> HIDE DEF i
<1>7. /\ c \in AuditType /\ c.status = a.status
      /\ \A o : OrderPlace(c, o) = OrderPlace(known, o)
      /\ \A k \in DOMAIN known.attempts : c.attempts[k].outcome = IF k = i THEN "failed" ELSE known.attempts[k].outcome
  BY <1>5, <1>6, AttemptEnded
<1> HIDE DEF c, b
<1>8. b \in AuditType /\ b.status = a.status /\ b.blame = "execution" /\ b.attempts = c.attempts
  <2>1. c \in AuditType /\ c.status = a.status
    BY <1>7
  <2>2. Blamed(c, "execution") \in AuditType /\ Blamed(c, "execution").status = c.status
        /\ Blamed(c, "execution").attempts = c.attempts /\ Blamed(c, "execution").blame = "execution"
    BY <2>1, BlamedIs
  <2> QED
    BY <1>1, <2>1, <2>2
<1>9. ASSUME NEW o PROVE OrderPlace(b, o) = OrderPlace(known, o)
  <2>1. OrderPlace(b, o) = OrderPlace(c, o)
    BY <1>8 DEF OrderPlace
  <2> QED
    BY <1>7, <2>1
<1>10. OrdersAlike(b, a)
  <2> SUFFICES ASSUME NEW o \in Orders
               PROVE  /\ OrderPlace(b, o) = OrderPlace(a, o)
                      /\ OrderPlace(a, o) # 0 =>
                           b.attempts[OrderPlace(a, o)].outcome = a.attempts[OrderPlace(a, o)].outcome
    BY DEF OrdersAlike
  <2>1. OrderPlace(known, o) = OrderPlace(a, o)
        /\ (OrderPlace(a, o) # 0 => known.attempts[OrderPlace(a, o)].outcome = a.attempts[OrderPlace(a, o)].outcome)
    BY <1>5 DEF OrdersAlike
  <2>2. OrderPlace(known, o) # 0 =>
          OrderPlace(known, o) \in DOMAIN known.attempts /\ known.attempts[OrderPlace(known, o)].order = o
    BY <1>5, OrderPlaceIs
  <2>3. OrderPlace(known, o) # 0 => OrderPlace(known, o) # i
    BY <1>6, <2>2, OrdersAreNumbers
  <2> QED
    BY <1>7, <1>8, <1>9, <2>1, <2>2, <2>3
<1>11. OrdersMove(b, a, e)
  BY <1>10, AlikeMove
<1>12. BlameMoves(b, a, e)
  BY <1>8 DEF BlameMoves
<1> QED
  BY <1>8, <1>11, <1>12 DEF Moved, b

LEMMA ProjectMoves ==
  ASSUME NEW a \in AuditType, NEW e \in Notes, e.type = "status" => e.word \in StatusWords,
         e.type \in OrderTypes => e.order \in Orders
  PROVE  Moved(Project(a, e), a, e)
<1> DEFINE b == Project(a, e)
<1>1. CASE e.type = "status"
  BY <1>1, StatusMoves
<1>2. CASE e.type \in {"started", "dispatched"}
  BY <1>2, StartMoves
<1>3. CASE e.type \in {"order completed", "order failed"}
  BY <1>3, OrderMoves DEF OrderTypes
<1>4. CASE e.type = "failed"
  BY <1>4, FailureMoves
<1>5. CASE e.type = "evidence"
  <2>1. b = [a EXCEPT !.evidence = a.evidence \cup {e.step}] /\ e.step \in Steps \cup {0}
    BY <1>5 DEF Project, Notes
  <2>2. b \in AuditType /\ b.attempts = a.attempts /\ b.status = a.status /\ b.blame = a.blame
    BY <2>1 DEF AuditType
  <2>3. OrdersMove(b, a, e)
    BY <1>5, <2>2, AttemptsStay, AlikeMove
  <2>4. BlameMoves(b, a, e)
    BY <1>5, <2>2 DEF BlameMoves
  <2> QED
    BY <1>5, <2>2, <2>3, <2>4 DEF Moved
<1>6. CASE e.type \in {"policy", "verified"}
  <2>1. b = a \/ b = Blamed(a, "policy") \/ b = Blamed(a, "verification")
    BY <1>6 DEF Project
  <2>2. b \in AuditType /\ b.attempts = a.attempts /\ b.status = a.status
    BY <2>1, BlamedIs
  <2>3. OrdersMove(b, a, e)
    BY <1>6, <2>2, AttemptsStay, AlikeMove
  <2>4. /\ e.type = "policy" /\ e.word = "denied" => b = Blamed(a, "policy")
        /\ e.type = "verified" /\ e.word = "refuted" => b = Blamed(a, "verification")
        /\ Unaccusing(e) => b = a
    BY <1>6 DEF Project, Unaccusing
  <2>5. BlameMoves(b, a, e)
    BY <1>6, <2>4, BlamedIs DEF BlameMoves
  <2> QED
    BY <1>6, <2>2, <2>3, <2>5 DEF Moved
<1>7. CASE e.type \in {"approved", "resumed"}
  <2>1. b = a
    BY <1>7 DEF Project
  <2>2. OrdersMove(b, a, e)
    BY <1>7, <2>1, AttemptsStay, AlikeMove
  <2> QED
    BY <1>7, <2>1, <2>2 DEF Moved, BlameMoves
<1>8. e.type \in {"status", "policy", "approved", "started", "failed", "evidence", "dispatched", "resumed",
                  "order completed", "order failed", "verified"}
  BY DEF Notes
<1> QED
  BY <1>1, <1>2, <1>3, <1>4, <1>5, <1>6, <1>7, <1>8

\* What the audit knows of the orders, and what the reducer does.
KnownIn(h) ==
  LET a == AuditIn(h) IN
  /\ a \in AuditType /\ a.status = StatusIn(h)
  /\ \A o \in Orders : LastIn(h, o) # None => OrderPlace(a, o) # 0
  /\ \A o \in Orders : LastIn(h, o) = "order completed" => a.attempts[OrderPlace(a, o)].outcome = "completed"

\* A note about an order follows its dispatch, and a status is one.
Orderly(h, e) ==
  /\ e.type = "status" => e.word \in StatusWords
  /\ e.type = "started" => e.order = NoOrder
  /\ e.type \in OrderTypes => e.order \in Orders
  /\ e.type \in OrderTypes \ {"dispatched"} => LastIn(h, e.order) # None

LEMMA KnownMore ==
  ASSUME NEW h \in SoundHistories, NEW t, NEW e \in Notes, IsMore(t, h, e), KnownIn(h), Orderly(h, e)
  PROVE  KnownIn(t) /\ BlameMoves(AuditIn(t), AuditIn(h), e)
<1> DEFINE a == AuditIn(h)
           b == AuditIn(t)
<1>1. b = Project(a, e)
  BY AuditMore
<1>2. a \in AuditType /\ a.status = StatusIn(h)
  BY DEF KnownIn
<1>3. ASSUME NEW o \in Orders
      PROVE  /\ LastIn(h, o) # None => OrderPlace(a, o) # 0
             /\ LastIn(h, o) = "order completed" => a.attempts[OrderPlace(a, o)].outcome = "completed"
  BY DEF KnownIn
<1>4. /\ StatusIn(t) = IF e.type = "status" THEN e.word ELSE StatusIn(h)
      /\ \A o : LastIn(t, o) = IF e.order = o /\ e.type \in OrderTypes THEN e.type ELSE LastIn(h, o)
  BY WordsMore
<1> HIDE DEF a, b
<1>5. Moved(b, a, e)
  BY <1>1, <1>2, ProjectMoves DEF Orderly
<1>6. b \in AuditType /\ b.status = StatusIn(t) /\ BlameMoves(b, a, e)
  BY <1>2, <1>4, <1>5 DEF Moved
<1>7. ASSUME NEW o \in Orders
      PROVE  /\ LastIn(t, o) # None => OrderPlace(b, o) # 0
             /\ LastIn(t, o) = "order completed" => b.attempts[OrderPlace(b, o)].outcome = "completed"
  <2>1. /\ OrderPlace(a, o) # 0 \/ (e.type = "dispatched" /\ e.order = o) => OrderPlace(b, o) # 0
        /\ e.order # o \/ e.type \notin {"started", "dispatched", "order completed", "order failed"} =>
             /\ OrderPlace(b, o) = OrderPlace(a, o)
             /\ OrderPlace(a, o) # 0 => b.attempts[OrderPlace(a, o)].outcome = a.attempts[OrderPlace(a, o)].outcome
        /\ e.type = "order completed" /\ e.order = o /\ OrderPlace(a, o) # 0 =>
             b.attempts[OrderPlace(b, o)].outcome = "completed"
    BY <1>5 DEF Moved, OrdersMove
  <2>2. o # NoOrder
    BY OrdersAreNumbers
  <2>3. CASE e.order = o /\ e.type \in OrderTypes
    <3>1. LastIn(t, o) = e.type
      BY <1>4, <2>3
    <3>2. e.type # "dispatched" => OrderPlace(a, o) # 0
      BY <1>3, <2>3 DEF Orderly
    <3> QED
      BY <2>1, <2>3, <3>1, <3>2
  <2>4. CASE ~(e.order = o /\ e.type \in OrderTypes)
    <3>1. LastIn(t, o) = LastIn(h, o)
      BY <1>4, <2>4
    <3>2. e.order # o \/ e.type \notin {"started", "dispatched", "order completed", "order failed"}
      BY <2>2, <2>4 DEF Orderly, OrderTypes
    <3>3. LastIn(h, o) = "order completed" => LastIn(h, o) # None
      BY DEF None
    <3> QED
      BY <1>3, <2>1, <3>1, <3>2, <3>3
  <2> QED
    BY <2>3, <2>4
<1> QED
  BY <1>6, <1>7 DEF KnownIn, a, b

\* The history passes the check of an import: for every place of it.
LegalAt(h, i, ext) ==
  /\ h[i].type = "order completed" => \E k \in 1..(i - 1) : h[k].type = "evidence" /\ h[k].order = h[i].order
  /\ h[i].type \in {"started", "dispatched"} /\ h[i].step \in ext =>
       \E k \in 1..(i - 1) : h[k] = Note("approved", h[i].step, NoOrder, None)
  /\ h[i] = Status("completed") =>
       LET verdict == LastPlace({k \in 1..i : h[k].type = "verified"}) IN verdict # 0 /\ h[verdict].word = "passed"

LegalIn(h, ext) == \A i \in DOMAIN h : LegalAt(h, i, ext)

LEMMA LegalIs == HistoryIsLegal <=> LegalIn(events, external)
<1>1. ASSUME NEW i \in DOMAIN events
      PROVE  LegalAt(events, i, external) <=> ~(CompletedUnseen(i) \/ StartedUnapproved(i) \/ CompletedUnverified(i))
  <2>1. CompletedUnseen(i) <=>
          /\ events[i].type = "order completed"
          /\ ~\E k \in 1..(i - 1) : events[k].type = "evidence" /\ events[k].order = events[i].order
    BY DEF CompletedUnseen, Before
  <2>2. StartedUnapproved(i) <=>
          /\ events[i].type \in {"started", "dispatched"} /\ events[i].step \in external
          /\ ~\E k \in 1..(i - 1) : events[k] = Note("approved", events[i].step, NoOrder, None)
    BY DEF StartedUnapproved, Before
  <2> QED
    BY <2>1, <2>2 DEF LegalAt, CompletedUnverified
<1> QED
  BY <1>1 DEF HistoryIsLegal, Violations, LegalIn

\* What may be written next.
Lawful(h, e, ext) ==
  /\ e.type = "order completed" => \E n \in ToSet(h) : n.type = "evidence" /\ n.order = e.order
  /\ e.type \in {"started", "dispatched"} /\ e.step \in ext => Note("approved", e.step, NoOrder, None) \in ToSet(h)
  /\ e = Status("completed") => h[Len(h)].type = "verified" /\ h[Len(h)].word = "passed"

LEMMA LegalMore ==
  ASSUME NEW h \in SoundHistories, NEW t, NEW e \in Notes, NEW ext, IsMore(t, h, e), LegalIn(h, ext), Lawful(h, e, ext)
  PROVE  LegalIn(t, ext)
<1> DEFINE n == Len(h)
<1>1. /\ n \in Nat /\ Len(t) = n + 1 /\ t[n + 1] = e /\ DOMAIN t = 1..(n + 1) /\ DOMAIN h = 1..n
      /\ \A i \in 1..n : t[i] = h[i]
  BY DEF IsMore
<1>2. n # 0
  BY DEF SoundHistories
<1>3. ToSet(h) = {h[k] : k \in 1..n}
  BY <1>1 DEF ToSet
<1>4. h[Len(h)] = h[n]
  OBVIOUS
<1> HIDE DEF n
<1>5. ASSUME NEW i \in 1..n PROVE LegalAt(t, i, ext)
  <2>1. LegalAt(h, i, ext)
    BY <1>1 DEF LegalIn
  <2>2. t[i] = h[i] /\ \A k \in 1..(i - 1) : t[k] = h[k]
    BY <1>1
  <2>3. \A k \in 1..i : t[k] = h[k]
    BY <1>1
  <2> DEFINE S == {k \in 1..i : h[k].type = "verified"}
             T == {k \in 1..i : t[k].type = "verified"}
             v == LastPlace(S)
  <2>4. S = T /\ S \subseteq 1..i /\ i \in Nat
    BY <1>1, <2>3
  <2>5. v # 0 => t[v] = h[v]
    <3> HIDE DEF S, T
    <3>1. v \in 0..i
      BY <2>4, LastPlaceIs
    <3> HIDE DEF v
    <3>2. v # 0 => v \in 1..i
      BY <3>1, <2>4
    <3> QED
      BY <2>3, <3>2
  <2> QED
    BY <2>1, <2>2, <2>4, <2>5 DEF LegalAt
<1>6. LegalAt(t, n + 1, ext)
  <2>0. (n + 1) - 1 = n /\ \A k \in 1..n : t[k] = h[k] /\ k \in 1..((n + 1) - 1)
    BY <1>1
  <2>1. t[n + 1].type = "order completed" =>
          \E k \in 1..((n + 1) - 1) : t[k].type = "evidence" /\ t[k].order = t[n + 1].order
    BY <1>1, <1>3, <2>0 DEF Lawful
  <2>2. t[n + 1].type \in {"started", "dispatched"} /\ t[n + 1].step \in ext =>
          \E k \in 1..((n + 1) - 1) : t[k] = Note("approved", t[n + 1].step, NoOrder, None)
    BY <1>1, <1>3, <2>0 DEF Lawful
  <2>3. ASSUME t[n + 1] = Status("completed")
        PROVE  LET verdict == LastPlace({k \in 1..(n + 1) : t[k].type = "verified"})
               IN  verdict # 0 /\ t[verdict].word = "passed"
    <3> DEFINE S == {k \in 1..(n + 1) : t[k].type = "verified"}
               v == LastPlace(S)
    <3>1. h[n].type = "verified" /\ h[n].word = "passed" /\ t[n] = h[n]
      <4>1. e = Status("completed")
        BY <1>1, <2>3
      <4>2. h[n].type = "verified" /\ h[n].word = "passed"
        BY <1>4, <4>1 DEF Lawful
      <4>3. n \in 1..n
        BY <1>1, <1>2
      <4> QED
        BY <1>1, <4>2, <4>3
    <3>2. t[n + 1].type = "status"
      BY <2>3 DEF Status, Note
    <3>3. S \subseteq 1..n /\ n \in S
      BY <1>1, <1>2, <3>1, <3>2
    <3> HIDE DEF S
    <3>4. v \in 0..n /\ n <= v
      BY <1>1, <3>3, LastPlaceIs
    <3>5. v = n
      BY <1>1, <3>4
    <3> QED
      BY <1>2, <3>1, <3>5 DEF S
  <2> QED
    BY <2>1, <2>2, <2>3 DEF LegalAt
<1>7. \A i \in 1..(n + 1) : i \in 1..n \/ i = n + 1
  BY <1>1
<1> QED
  BY <1>1, <1>5, <1>6, <1>7 DEF LegalIn

LEMMA KnownIs == AttemptsAreKnown <=> KnownIn(events)
<1>1. Projected = AuditIn(events) /\ RunStatus = StatusIn(events) /\ \A o : LastOf(o) = LastIn(events, o)
  BY DEF Projected, AuditIn, RunStatus, StatusIn, LastOf, LastIn
<1>2. ASSUME AuditIn(events) \in AuditType, NEW o \in Orders
      PROVE  Latest(AuditIn(events), 0, o) = OrderPlace(AuditIn(events), o)
  <2>1. o # NoOrder
    BY OrdersAreNumbers
  <2> DEFINE a == AuditIn(events)
  <2>2. a \in AuditType
    BY <1>2
  <2> HIDE DEF a
  <2>3. Latest(a, 0, o) = OrderPlace(a, o)
    BY <2>1, <2>2, LatestPlace
  <2> QED
    BY <2>3 DEF a
<1> QED
  BY <1>1, <1>2 DEF AttemptsAreKnown, KnownIn, OrderDone

\* The words of the model in any history, now and after a step.
LEMMA Readings ==
  /\ Projected = AuditIn(events) /\ RunStatus = StatusIn(events) /\ RecentWork = ToldIn(events)
  /\ \A o : LastOf(o) = LastIn(events, o)
  BY DEF Projected, AuditIn, RunStatus, StatusIn, RecentWork, ToldIn, LastOf, LastIn

\* What is the case of the events alone.
Sane(h, ext) == h \in SoundHistories /\ StatusIn(h) \in StatusWords /\ KnownIn(h) /\ LegalIn(h, ext)

LEMMA SaneMore ==
  ASSUME NEW h, NEW t, NEW e \in Notes, NEW ext, IsMore(t, h, e), Sane(h, ext), Orderly(h, e), Lawful(h, e, ext)
  PROVE  Sane(t, ext) /\ BlameMoves(AuditIn(t), AuditIn(h), e)
<1>1. h \in SoundHistories /\ StatusIn(h) \in StatusWords /\ KnownIn(h) /\ LegalIn(h, ext)
  BY DEF Sane
<1>2. KnownIn(t) /\ BlameMoves(AuditIn(t), AuditIn(h), e)
  BY <1>1, KnownMore
<1>3. LegalIn(t, ext)
  BY <1>1, LegalMore
<1>4. t \in SoundHistories /\ StatusIn(t) = IF e.type = "status" THEN e.word ELSE StatusIn(h)
  BY <1>1, WordsMore
<1>5. StatusIn(t) \in StatusWords
  BY <1>1, <1>4 DEF Orderly
<1> QED
  BY <1>2, <1>3, <1>4, <1>5 DEF Sane

LEMMA SaneIs ==
  /\ HistoryIInv => Sane(events, external)
  /\ /\ Sane(events, external) /\ todo \in Seq(Notes)
     /\ at \in {"planning", "queued", "deciding", "starting", "working", "teaming", "ordered", "verifying", "waiting_approval",
                "waiting_review", "dead", "over"}
     /\ safe \in BOOLEAN /\ cause \in Causes
     => SoundHistory /\ AttemptsAreKnown /\ HistoryIsLegal
<1>1. events \in SoundHistories <=> events \in Seq(Notes) /\ events # <<>> /\ events[1].type = "status"
  BY DEF SoundHistories
<1> QED
  BY <1>1, LegalIs, KnownIs, Readings DEF Sane, SoundHistory, HistoryIInv

\* What is left as it is by a step that writes nothing.
LEMMA Unwritten ==
  ASSUME events' = events, external' = external
  PROVE  /\ RunStatus' = RunStatus /\ RecentWork' = RecentWork /\ Projected' = Projected
         /\ \A o : LastOf(o)' = LastOf(o) /\ OrderDone(o)' = OrderDone(o)
         /\ \A s : StepDone(s)' = StepDone(s) /\ IsApproved(s)' = IsApproved(s)
         /\ NextStep' = NextStep /\ Order' = Order /\ ToSet(events)' = ToSet(events)
<1>1. RunStatus' = RunStatus /\ RecentWork' = RecentWork /\ Projected' = Projected /\ ToSet(events)' = ToSet(events)
  BY DEF RunStatus, RecentWork, Projected
<1>2. \A o : LastOf(o)' = LastOf(o)
  BY DEF LastOf
<1>3. \A o : OrderDone(o)' = OrderDone(o)
  BY <1>2 DEF OrderDone
<1>4. \A s : HasEvidence(s)' = HasEvidence(s)
  BY DEF HasEvidence, Types
<1>5. \A s : StepDone(s)' = StepDone(s)
  BY <1>3, <1>4 DEF StepDone
<1>6. \A s : IsApproved(s)' = IsApproved(s)
  BY DEF IsApproved
<1>7. NextStep' = NextStep
  BY <1>5 DEF NextStep
<1>8. Order' = Order
  BY <1>3 DEF Order
<1> QED
  BY <1>1, <1>2, <1>3, <1>5, <1>6, <1>7, <1>8

Places == {"planning", "queued", "deciding", "starting", "working", "teaming", "ordered", "verifying", "waiting_approval",
           "waiting_review", "dead", "over"}

TypedNow == todo \in Seq(Notes) /\ at \in Places /\ safe \in BOOLEAN /\ cause \in Causes

LEMMA SaneThen ==
  /\ HistoryIInv => Sane(events, external) /\ TypedNow
  /\ Sane(events, external) /\ TypedNow => SoundHistory /\ AttemptsAreKnown /\ HistoryIsLegal
  BY SaneIs DEF TypedNow, Places, HistoryIInv, SoundHistory

LEMMA SaneAfter ==
  Sane(events', external') /\ TypedNow' => SoundHistory' /\ AttemptsAreKnown' /\ HistoryIsLegal'
<1>1. (Sane(events, external) /\ TypedNow => SoundHistory /\ AttemptsAreKnown /\ HistoryIsLegal)'
  BY SaneThen, PTL
<1>2. Sane(events, external)' <=> Sane(events', external')
  OBVIOUS
<1> QED
  BY <1>1, <1>2

\* The executor decides what it writes: the history is as it was.
LEMMA QuietStep ==
  ASSUME HistoryIInv, events' = events, external' = external, RunStatus \notin Final,
         TypedNow', at' \notin {"waiting_review"}, at' = "dead" => todo' = <<>>,
         PendingIsLegal', StoppedForCause', WorkIsAllowed'
  PROVE  HistoryIInv'
<1>1. Sane(events, external)
  BY SaneThen
<1>2. Sane(events', external')
  BY <1>1
<1>3. SoundHistory' /\ AttemptsAreKnown' /\ HistoryIsLegal'
  BY <1>2, SaneAfter
<1>4. RunStatus' = RunStatus /\ RecentWork' = RecentWork
  BY Unwritten
<1>5. OpenWhileWriting' /\ StoppedIsTold'
  BY <1>4 DEF OpenWhileWriting, StoppedIsTold, Final
<1> QED
  BY <1>3, <1>5 DEF HistoryIInv

\* What is written next, one note, two or three.
LEMMA OnePending ==
  ASSUME NEW e, NEW h, NEW ext, NEW here, IsPending(e, {}, h, ext, here)
  PROVE  ArePending(<<e>>, h, ext, here)
<1> DEFINE q == <<e>>
<1>1. Len(q) = 1 /\ q[1] = e
  OBVIOUS
<1>2. \A i \in 1..1 : i = 1
  OBVIOUS
<1>3. {q[k] : k \in 1..(1 - 1)} = {}
  OBVIOUS
<1> HIDE DEF q
<1>4. ASSUME NEW i \in 1..Len(q)
      PROVE  IsPending(q[i], {q[k] : k \in 1..(i - 1)}, h, ext, here) /\ ((q[i].type = "status") => (i = Len(q)))
  <2>1. i = 1
    BY <1>1, <1>2
  <2> QED
    BY <1>1, <1>3, <2>1
<1>5. ArePending(q, h, ext, here)
  BY <1>4 DEF ArePending
<1> QED
  BY <1>5 DEF q

LEMMA PendingAfterMore ==
  ASSUME NEW e, NEW before, NEW more, before \subseteq more, NEW h, NEW ext, NEW here, IsPending(e, before, h, ext, here)
  PROVE  IsPending(e, more, h, ext, here)
  BY DEF IsPending

LEMMA TwoPending ==
  ASSUME NEW d, NEW e, NEW h, NEW ext, NEW here, d.type # "status",
         IsPending(d, {}, h, ext, here), IsPending(e, {d}, h, ext, here)
  PROVE  ArePending(<<d, e>>, h, ext, here)
<1> DEFINE q == <<d, e>>
<1>1. Len(q) = 2 /\ q[1] = d /\ q[2] = e
  OBVIOUS
<1>2. \A i \in 1..2 : i = 1 \/ i = 2
  OBVIOUS
<1>3. {q[k] : k \in 1..(1 - 1)} = {}
  OBVIOUS
<1>4. {q[k] : k \in 1..(2 - 1)} = {d}
  <2>1. 1..(2 - 1) = {1}
    OBVIOUS
  <2> QED
    BY <1>1, <2>1
<1> HIDE DEF q
<1>5. ASSUME NEW i \in 1..Len(q)
      PROVE  IsPending(q[i], {q[k] : k \in 1..(i - 1)}, h, ext, here) /\ ((q[i].type = "status") => (i = Len(q)))
  <2>1. i = 1 \/ i = 2
    BY <1>1, <1>2
  <2>2. CASE i = 1
    BY <1>1, <1>3, <2>2
  <2>3. CASE i = 2
    BY <1>1, <1>4, <2>3
  <2> QED
    BY <2>1, <2>2, <2>3
<1>6. ArePending(q, h, ext, here)
  BY <1>5 DEF ArePending
<1> QED
  BY <1>6 DEF q

LEMMA ThreePending ==
  ASSUME NEW c, NEW d, NEW e, NEW h, NEW ext, NEW here, c.type # "status", d.type # "status",
         IsPending(c, {}, h, ext, here), IsPending(d, {}, h, ext, here), IsPending(e, {}, h, ext, here)
  PROVE  ArePending(<<c, d, e>>, h, ext, here)
<1> DEFINE q == <<c, d, e>>
<1>1. Len(q) = 3 /\ q[1] = c /\ q[2] = d /\ q[3] = e
  OBVIOUS
<1>2. \A i \in 1..3 : i = 1 \/ i = 2 \/ i = 3
  OBVIOUS
<1> HIDE DEF q
<1>3. ASSUME NEW i \in 1..Len(q)
      PROVE  IsPending(q[i], {q[k] : k \in 1..(i - 1)}, h, ext, here) /\ ((q[i].type = "status") => (i = Len(q)))
  <2> DEFINE before == {q[k] : k \in 1..(i - 1)}
  <2>1. i = 1 \/ i = 2 \/ i = 3
    BY <1>1, <1>2
  <2>2. {} \subseteq before
    OBVIOUS
  <2> HIDE DEF before
  <2>3. IsPending(q[i], {}, h, ext, here) /\ ((q[i].type = "status") => (i = Len(q)))
    BY <1>1, <2>1
  <2>4. IsPending(q[i], before, h, ext, here)
    BY <2>2, <2>3, PendingAfterMore
  <2> QED
    BY <2>3, <2>4 DEF before
<1>4. ArePending(q, h, ext, here)
  BY <1>3 DEF ArePending
<1> QED
  BY <1>4 DEF q

LEMMA NothingPending ==
  ASSUME NEW h, NEW ext, NEW here
  PROVE  ArePending(<<>>, h, ext, here)
<1>1. \A i \in 1..Len(<<>>) : FALSE
  OBVIOUS
<1> QED
  BY <1>1 DEF ArePending

LEMMA PendingThen == PendingIsLegal' <=> ArePending(todo', events', external', at')
  BY DEF PendingIsLegal

NoteTypes == {"status", "policy", "approved", "started", "failed", "evidence", "dispatched", "resumed",
              "order completed", "order failed", "verified"}
NoteWords == StatusWords \cup {None, "denied", "approval_required", "allowed", "passed", "refuted", "open"}

LEMMA NoteIs ==
  ASSUME NEW w \in NoteTypes, NEW s \in Steps \cup {0}, NEW o \in Orders \cup {NoOrder}, NEW v \in NoteWords, NEW e,
         e = Note(w, s, o, v)
  PROVE  e \in Notes /\ e.type = w /\ e.step = s /\ e.order = o /\ e.word = v
  BY DEF Notes, Note, NoteTypes, NoteWords

LEMMA StatusNoteIs ==
  ASSUME NEW v \in StatusWords, NEW e, e = Status(v)
  PROVE  e \in Notes /\ e.type = "status" /\ e.word = v /\ e.order = NoOrder
<1>1. e = Note("status", 0, NoOrder, v)
  BY DEF Status
<1>2. "status" \in NoteTypes /\ v \in NoteWords /\ 0 \in Steps \cup {0} /\ NoOrder \in Orders \cup {NoOrder}
  BY DEF NoteTypes, NoteWords
<1> QED
  BY <1>1, <1>2, NoteIs

LEMMA NextIs ==
  ASSUME \E s \in Steps : ~StepDone(s)
  PROVE  NextStep \in Steps /\ ~StepDone(NextStep)
<1> DEFINE S == {s \in Steps : ~StepDone(s)}
<1>1. S # {} /\ S \subseteq Nat
  BY HistoryAssumption DEF Steps
<1>2. NextStep = Min(S)
  BY DEF NextStep
<1> HIDE DEF S
<1>3. PICK x \in S : \A y \in S : x <= y
  BY <1>1, LeastNumber
<1>4. Min(S) \in S
  BY <1>3 DEF Min
<1> QED
  BY <1>2, <1>4 DEF S

LEMMA OrderIs ==
  ASSUME \E o \in Orders : ~OrderDone(o)
  PROVE  Order \in Orders /\ ~OrderDone(Order)
<1> DEFINE S == {o \in Orders : ~OrderDone(o)}
<1>1. S # {} /\ S \subseteq Nat
  BY HistoryAssumption
<1>2. Order = Min(S)
  BY DEF Order
<1> HIDE DEF S
<1>3. PICK x \in S : \A y \in S : x <= y
  BY <1>1, LeastNumber
<1>4. Min(S) \in S
  BY <1>3 DEF Min
<1> QED
  BY <1>2, <1>4 DEF S

LEMMA TeamIs ==
  ASSUME NEW s \in Team
  PROVE  Max(Team) = s
<1>1. Team = {s} /\ s \in Nat
  BY HistoryAssumption
<1>2. s >= s
  BY <1>1
<1> QED
  BY <1>1, <1>2 DEF Max

\* A run that is worked on is open, and nothing has stopped it.
LEMMA WorkedOn ==
  ASSUME HistoryIInv, at \notin {"over", "waiting_review"}
  PROVE  RunStatus \notin Final /\ cause = None
  BY DEF HistoryIInv, OpenWhileWriting, StoppedForCause

LEMMA Uncaused == cause' = None => StoppedForCause'
  BY DEF StoppedForCause

LEMMA Caused ==
  ASSUME at' = "over", Len(todo') > 1, Blames(todo'[Len(todo') - 1], cause'), todo'[Len(todo')].type = "status",
         Len(todo') \in Nat
  PROVE  StoppedForCause'
  BY DEF StoppedForCause, Blames

LEMMA AtRest == at' \notin {"waiting_approval", "starting", "working", "teaming", "ordered"} => WorkIsAllowed'
  BY DEF WorkIsAllowed

\* The executor goes on and writes one note, or two, that need nothing of what was written before.
Plain(e) == e.type \in {"status", "policy", "approved", "evidence"} /\
            (e.type = "status" => e.word \in {"queued", "running", "waiting_approval", "verifying"}) /\
            (e.type = "policy" => e.word # "denied")

LEMMA PlainPending ==
  ASSUME NEW e, Plain(e), NEW before, NEW h, NEW ext, NEW here
  PROVE  IsPending(e, before, h, ext, here)
  BY DEF Plain, IsPending, OrderTypes

LEMMA PlanKeeps ==
  ASSUME HistoryIInv, Plan
  PROVE  HistoryIInv'
<1>1. at = "planning" /\ events' = events /\ external' = external /\ safe' = safe /\ TypedNow
  BY SaneThen DEF Plan, Ready, Writes
<1>2. RunStatus \notin Final /\ cause = None
  BY <1>1, WorkedOn
<1>3. CASE Writes(<<Status("queued")>>, "queued") /\ UNCHANGED cause
  <2>1. PICK e : e = Status("queued")
    OBVIOUS
  <2>2. e \in Notes /\ e.type = "status" /\ e.word = "queued"
    BY <2>1, StatusNoteIs DEF StatusWords
  <2>3. todo' = <<e>> /\ at' = "queued" /\ cause' = None
    BY <1>2, <1>3, <2>1 DEF Writes
  <2>4. TypedNow'
    BY <1>1, <2>2, <2>3 DEF TypedNow, Places, Causes
  <2>5. PendingIsLegal'
    BY <2>2, <2>3, PlainPending, OnePending, PendingThen DEF Plain
  <2>6. StoppedForCause' /\ WorkIsAllowed'
    BY <2>3, Uncaused, AtRest
  <2> QED
    BY <1>1, <1>2, <2>3, <2>4, <2>5, <2>6, QuietStep
<1>4. CASE Writes(<<Status("failed")>>, "over") /\ cause' = "planning"
  <2>1. PICK e : e = Status("failed")
    OBVIOUS
  <2>2. e \in Notes /\ e.type = "status" /\ e.word = "failed"
    BY <2>1, StatusNoteIs DEF StatusWords
  <2>3. todo' = <<e>> /\ at' = "over" /\ cause' = "planning"
    BY <1>4, <2>1 DEF Writes
  <2>4. TypedNow'
    BY <1>1, <2>2, <2>3 DEF TypedNow, Places, Causes
  <2>5. PendingIsLegal'
    <3>1. IsPending(e, {}, events', external', at')
      BY <2>2, <2>3 DEF IsPending, OrderTypes
    <3> QED
      BY <2>3, <3>1, OnePending, PendingThen
  <2>6. StoppedForCause' /\ WorkIsAllowed'
    BY <2>3, AtRest DEF StoppedForCause
  <2> QED
    BY <1>1, <1>2, <2>3, <2>4, <2>5, <2>6, QuietStep
<1> QED
  BY <1>3, <1>4 DEF Plan

LEMMA DieKeeps ==
  ASSUME HistoryIInv, Die
  PROVE  HistoryIInv'
<1>1. events' = events /\ external' = external /\ safe' = safe /\ todo' = <<>> /\ at' = "dead" /\ cause' = None /\ TypedNow
  BY SaneThen DEF Die
<1>2. RunStatus \notin Final
  BY DEF Die, Final
<1>3. TypedNow'
  BY <1>1 DEF TypedNow, Places, Causes
<1>4. PendingIsLegal' /\ StoppedForCause' /\ WorkIsAllowed'
  BY <1>1, NothingPending, PendingThen, Uncaused, AtRest
<1> QED
  BY <1>1, <1>2, <1>3, <1>4, QuietStep

LEMMA ApproveKeeps ==
  ASSUME HistoryIInv, Approve
  PROVE  HistoryIInv'
<1>1. at = "waiting_approval" /\ events' = events /\ external' = external /\ safe' = safe /\ TypedNow
  BY SaneThen DEF Approve, Ready, Writes
<1>2. RunStatus \notin Final /\ cause = None
  BY <1>1, WorkedOn
<1>3. NextStep \in Steps
  BY <1>1, NextIs DEF HistoryIInv, WorkIsAllowed
<1>4. PICK s : s = NextStep
  OBVIOUS
<1>9. PICK e : e = Note("approved", s, NoOrder, None)
  OBVIOUS
<1>5. e \in Notes /\ e.type = "approved"
  <2>1. "approved" \in NoteTypes /\ None \in NoteWords /\ s \in Steps \cup {0} /\ NoOrder \in Orders \cup {NoOrder}
    BY <1>3, <1>4 DEF NoteTypes, NoteWords
  <2> QED
    BY <1>9, <2>1, NoteIs
<1>6. todo' = <<e>> /\ at' = "deciding" /\ cause' = None
  BY <1>2, <1>4, <1>9 DEF Approve, Writes
<1>7. TypedNow'
  BY <1>1, <1>5, <1>6 DEF TypedNow, Places, Causes
<1>8. PendingIsLegal' /\ StoppedForCause' /\ WorkIsAllowed'
  BY <1>5, <1>6, PlainPending, OnePending, PendingThen, Uncaused, AtRest DEF Plain
<1> QED
  BY <1>1, <1>2, <1>6, <1>7, <1>8, QuietStep

LEMMA VerifyKeeps ==
  ASSUME HistoryIInv, Verify
  PROVE  HistoryIInv'
<1>1. at = "deciding" /\ events' = events /\ external' = external /\ safe' = safe /\ TypedNow
  BY SaneThen DEF Verify, Ready, Writes
<1>2. RunStatus \notin Final /\ cause = None
  BY <1>1, WorkedOn
<1>3. PICK e : e = Status("verifying")
  OBVIOUS
<1>4. e \in Notes /\ e.type = "status" /\ e.word = "verifying"
  BY <1>3, StatusNoteIs DEF StatusWords
<1>5. todo' = <<e>> /\ at' = "verifying" /\ cause' = None
  BY <1>2, <1>3 DEF Verify, Writes
<1>6. TypedNow'
  BY <1>1, <1>4, <1>5 DEF TypedNow, Places, Causes
<1>7. PendingIsLegal' /\ StoppedForCause' /\ WorkIsAllowed'
  BY <1>4, <1>5, PlainPending, OnePending, PendingThen, Uncaused, AtRest DEF Plain
<1> QED
  BY <1>1, <1>2, <1>5, <1>6, <1>7, QuietStep

\* Short sequences, written down one after the other.
LEMMA TwoNotes ==
  ASSUME NEW a, NEW b
  PROVE  <<a>> \o <<b>> = <<a, b>>
<1> DEFINE p == <<a>>
           q == <<b>>
           x == p \o q
           y == <<a, b>>
<1>1. p \in Seq({a, b}) /\ q \in Seq({a, b}) /\ Len(p) = 1 /\ Len(q) = 1 /\ p[1] = a /\ q[1] = b
  OBVIOUS
<1>2. y \in Seq({a, b}) /\ Len(y) = 2 /\ y[1] = a /\ y[2] = b
  OBVIOUS
<1> HIDE DEF p, q, y
<1>3. x \in Seq({a, b}) /\ Len(x) = 2 /\ x[1] = p[1] /\ x[2] = q[1]
  <2>1. /\ x \in Seq({a, b}) /\ Len(x) = Len(p) + Len(q)
        /\ \A i \in 1 .. Len(p) + Len(q) : x[i] = IF i <= Len(p) THEN p[i] ELSE q[i - Len(p)]
    BY <1>1, ConcatProperties
  <2> HIDE DEF x
  <2>2. x \in Seq({a, b}) /\ Len(x) = 2 /\ \A i \in 1 .. 2 : x[i] = IF i <= 1 THEN p[i] ELSE q[i - 1]
    BY <1>1, <2>1
  <2> QED
    BY <2>2
<1>4. \A i \in 1..2 : i = 1 \/ i = 2
  OBVIOUS
<1>5. x[1] = a /\ x[2] = b
  BY <1>1, <1>3
<1> HIDE DEF x
<1>6. DOMAIN x = 1..2 /\ DOMAIN y = 1..2 /\ x = [i \in DOMAIN x |-> x[i]] /\ y = [i \in DOMAIN y |-> y[i]]
  BY <1>2, <1>3
<1>7. \A i \in 1..2 : x[i] = y[i]
  BY <1>2, <1>4, <1>5
<1> QED
  BY <1>6, <1>7 DEF p, q, x, y

LEMMA ThreeNotes ==
  ASSUME NEW a, NEW b, NEW c
  PROVE  <<a>> \o <<b, c>> = <<a, b, c>>
<1> DEFINE S == {a, b, c}
           p == <<a>>
           q == <<b, c>>
           x == p \o q
           y == <<a, b, c>>
<1>1. p \in Seq(S) /\ q \in Seq(S) /\ Len(p) = 1 /\ Len(q) = 2 /\ p[1] = a /\ q[1] = b /\ q[2] = c
  OBVIOUS
<1>2. y \in Seq(S) /\ Len(y) = 3 /\ y[1] = a /\ y[2] = b /\ y[3] = c
  OBVIOUS
<1> HIDE DEF p, q, y, S
<1>3. x \in Seq(S) /\ Len(x) = 3 /\ x[1] = p[1] /\ x[2] = q[1] /\ x[3] = q[2]
  <2>1. /\ x \in Seq(S) /\ Len(x) = Len(p) + Len(q)
        /\ \A i \in 1 .. Len(p) + Len(q) : x[i] = IF i <= Len(p) THEN p[i] ELSE q[i - Len(p)]
    BY <1>1, ConcatProperties
  <2> HIDE DEF x
  <2>2. x \in Seq(S) /\ Len(x) = 3 /\ \A i \in 1 .. 3 : x[i] = IF i <= 1 THEN p[i] ELSE q[i - 1]
    BY <1>1, <2>1
  <2> QED
    BY <2>2
<1>4. \A i \in 1..3 : i = 1 \/ i = 2 \/ i = 3
  OBVIOUS
<1>5. x[1] = a /\ x[2] = b /\ x[3] = c
  BY <1>1, <1>3
<1> HIDE DEF x
<1>6. DOMAIN x = 1..3 /\ DOMAIN y = 1..3 /\ x = [i \in DOMAIN x |-> x[i]] /\ y = [i \in DOMAIN y |-> y[i]]
  BY <1>2, <1>3
<1>7. \A i \in 1..3 : x[i] = y[i]
  BY <1>2, <1>4, <1>5
<1> QED
  BY <1>6, <1>7 DEF p, q, x, y

LEMMA NoNotes ==
  ASSUME NEW a, NEW b
  PROVE  <<>> \o <<a, b>> = <<a, b>> /\ <<a>> \o <<>> = <<a>>
<1> DEFINE x == <<a>> \o <<>>
           y == <<a>>
           w == <<>> \o <<a, b>>
           z == <<a, b>>
<1>1. x = y
  OBVIOUS
<1>2. w = z
  <2>1. z \in Seq({a, b}) /\ Len(z) = 2
    OBVIOUS
  <2> HIDE DEF z
  <2>2. <<>> \o z = z
    BY <2>1
  <2> QED
    BY <2>2 DEF z
<1> QED
  BY <1>1, <1>2

LEMMA InSequence ==
  ASSUME NEW S, NEW a \in S, NEW b \in S, NEW c \in S
  PROVE  <<a>> \in Seq(S) /\ <<a, b>> \in Seq(S) /\ <<a, b, c>> \in Seq(S)
  OBVIOUS

\* Two notes, the second of which closes the run: a stop for a cause.
LEMMA StopKeeps ==
  ASSUME HistoryIInv, events' = events, external' = external, safe' = safe, RunStatus \notin Final,
         NEW d \in Notes, NEW e \in Notes, e = Status("failed"), Blames(d, cause'), cause' \in Causes,
         todo' = <<d, e>>, at' = "over"
  PROVE  HistoryIInv'
<1>1. e.type = "status" /\ e.word = "failed"
  BY StatusNoteIs DEF StatusWords
<1>2. TypedNow'
  BY SaneThen DEF TypedNow, Places
<1>3. d.type \in {"policy", "failed"}
  BY DEF Blames
<1>4. IsPending(d, {}, events', external', at') /\ IsPending(e, {d}, events', external', at')
  BY <1>1, <1>3 DEF IsPending, OrderTypes
<1>5. PendingIsLegal'
  BY <1>3, <1>4, TwoPending, PendingThen
<1>6. Len(todo') = 2 /\ todo'[1] = d /\ todo'[2] = e /\ Len(todo') - 1 = 1
  OBVIOUS
<1>7. StoppedForCause'
  BY <1>1, <1>6, Caused
<1>8. WorkIsAllowed'
  BY AtRest
<1> QED
  BY <1>2, <1>5, <1>7, <1>8, QuietStep

LEMMA DecideKeeps ==
  ASSUME HistoryIInv, Decide
  PROVE  HistoryIInv'
<1>1. /\ at \notin {"over", "waiting_review"} /\ events' = events /\ external' = external /\ safe' = safe /\ TypedNow
      /\ \E s \in Steps : ~StepDone(s)
  BY SaneThen DEF Decide, Writes
<1>2. RunStatus \notin Final /\ cause = None
  BY <1>1, WorkedOn
<1>3. PICK s \in Steps : s = NextStep
  BY <1>1, NextIs
<1>4. /\ NextStep' = s /\ (\E q \in Steps : ~StepDone(q))'
      /\ \A q : IsApproved(q)' = IsApproved(q)
  BY <1>1, <1>3, Unwritten
<1>5. s \in Steps \cup {0} /\ NoOrder \in Orders \cup {NoOrder} /\ "policy" \in NoteTypes
  BY DEF NoteTypes
<1>6. PICK denied : denied = Note("policy", s, NoOrder, "denied")
  OBVIOUS
<1>7. PICK required : required = Note("policy", s, NoOrder, "approval_required")
  OBVIOUS
<1>8. PICK allowed : allowed = Note("policy", s, NoOrder, "allowed")
  OBVIOUS
<1>9. /\ denied \in Notes /\ denied.type = "policy" /\ denied.word = "denied"
      /\ required \in Notes /\ required.type = "policy" /\ required.word # "denied"
      /\ allowed \in Notes /\ allowed.type = "policy" /\ allowed.word # "denied"
  <2>1. "denied" \in NoteWords /\ "approval_required" \in NoteWords /\ "allowed" \in NoteWords
    BY DEF NoteWords
  <2> QED
    BY <1>5, <1>6, <1>7, <1>8, <2>1, NoteIs
<1>10. PICK failed : failed = Status("failed")
  OBVIOUS
<1>11. PICK waiting : waiting = Status("waiting_approval")
  OBVIOUS
<1>12. PICK running : running = Status("running")
  OBVIOUS
<1>13. /\ failed \in Notes /\ waiting \in Notes /\ waiting.type = "status" /\ waiting.word = "waiting_approval"
       /\ running \in Notes /\ running.type = "status" /\ running.word = "running"
  BY <1>10, <1>11, <1>12, StatusNoteIs DEF StatusWords
<1>14. CASE Writes(<<denied, failed>>, "over") /\ cause' = "policy"
  <2>1. Blames(denied, cause') /\ cause' \in Causes
    BY <1>9, <1>14 DEF Blames, Causes
  <2>2. todo' = <<denied, failed>> /\ at' = "over"
    BY <1>14 DEF Writes
  <2> QED
    BY <1>1, <1>2, <1>9, <1>10, <1>13, <2>1, <2>2, StopKeeps
<1>15. CASE Writes(<<required, waiting>>, "waiting_approval") /\ UNCHANGED cause
  <2>1. todo' = <<required, waiting>> /\ at' = "waiting_approval" /\ cause' = None
    BY <1>2, <1>15 DEF Writes
  <2>2. TypedNow'
    BY <1>1, <1>9, <1>13, <2>1 DEF TypedNow, Places, Causes
  <2>3. PendingIsLegal'
    BY <1>9, <1>13, <2>1, PlainPending, TwoPending, PendingThen DEF Plain
  <2>4. \A i \in 1..Len(todo') : todo'[i].type \in {"policy", "status", "started"}
    BY <1>9, <1>13, <2>1
  <2>5. WorkIsAllowed'
    BY <1>4, <2>1, <2>4 DEF WorkIsAllowed
  <2> QED
    BY <1>1, <1>2, <2>1, <2>2, <2>3, <2>5, Uncaused, QuietStep
<1>16. ASSUME NEW begin, begin = <<>> \/ begin = <<running>>,
              Writes(<<allowed>> \o begin, IF s \in Team THEN "teaming" ELSE "starting"), UNCHANGED cause,
              s \in external => IsApproved(s)
       PROVE  HistoryIInv'
  <2>1. todo' = <<allowed>> \/ todo' = <<allowed, running>>
    <3>1. todo' = <<allowed>> \o begin
      BY <1>16 DEF Writes
    <3>2. <<allowed>> \o <<>> = <<allowed>>
      OBVIOUS
    <3>3. <<allowed>> \o <<running>> = <<allowed, running>>
      BY TwoNotes
    <3> QED
      BY <1>16, <3>1, <3>2, <3>3
  <2>2. at' = (IF s \in Team THEN "teaming" ELSE "starting") /\ cause' = None
    BY <1>2, <1>16 DEF Writes
  <2>3. TypedNow'
    <3>1. <<allowed>> \in Seq(Notes) /\ <<allowed, running>> \in Seq(Notes)
      BY <1>9, <1>13
    <3>2. todo' \in Seq(Notes)
      BY <2>1, <3>1
    <3>3. at' \in Places /\ cause' \in Causes
      BY <2>2 DEF Places, Causes
    <3> QED
      BY <1>1, <3>2, <3>3 DEF TypedNow
  <2>4. PendingIsLegal'
    <3>1. \A before : IsPending(allowed, before, events', external', at') /\ IsPending(running, before, events', external', at')
      BY <1>9, <1>13, PlainPending DEF Plain
    <3>2. allowed.type # "status"
      BY <1>9
    <3> QED
      BY <2>1, <3>1, <3>2, OnePending, TwoPending, PendingThen
  <2>5. \A i \in 1..Len(todo') : todo'[i].type \in {"policy", "status", "started"}
    BY <1>9, <1>13, <2>1
  <2>6. s \in external' => IsApproved(s)'
    BY <1>1, <1>4, <1>16
  <2>7. WorkIsAllowed'
    <3>1. CASE s \in Team
      <4>1. at' = "teaming" /\ Max(Team) = s /\ Team # {}
        BY <2>2, <3>1, TeamIs
      <4> QED
        BY <2>6, <4>1 DEF WorkIsAllowed
    <3>2. CASE s \notin Team
      <4>1. at' = "starting"
        BY <2>2, <3>2
      <4> QED
        BY <1>4, <2>5, <2>6, <4>1 DEF WorkIsAllowed
    <3> QED
      BY <3>1, <3>2
  <2>8. at' \notin {"waiting_review"} /\ at' # "dead"
    BY <2>2
  <2> QED
    BY <1>1, <1>2, <2>2, <2>3, <2>4, <2>7, <2>8, Uncaused, QuietStep
<1>17. \/ Writes(<<denied, failed>>, "over") /\ cause' = "policy"
       \/ Writes(<<required, waiting>>, "waiting_approval") /\ UNCHANGED cause
       \/ /\ s \in external => IsApproved(s)
          /\ Writes(<<allowed>> \o (IF RunStatus = "running" THEN <<>> ELSE <<running>>),
                    IF s \in Team THEN "teaming" ELSE "starting")
          /\ UNCHANGED cause
  BY <1>3, <1>6, <1>7, <1>8, <1>10, <1>11, <1>12 DEF Decide, IsApproved
<1> QED
  BY <1>14, <1>15, <1>16, <1>17

LEMMA StartSingleKeeps ==
  ASSUME HistoryIInv, StartSingle
  PROVE  HistoryIInv'
<1>1. at = "starting" /\ events' = events /\ external' = external /\ safe' = safe /\ TypedNow
  BY SaneThen DEF StartSingle, Ready, Writes
<1>2. RunStatus \notin Final /\ cause = None
  BY <1>1, WorkedOn
<1>3. (\E s \in Steps : ~StepDone(s)) /\ (NextStep \in external => IsApproved(NextStep))
  BY <1>1 DEF HistoryIInv, WorkIsAllowed
<1>4. PICK s \in Steps : s = NextStep
  BY <1>3, NextIs
<1>5. PICK e : e = Note("started", s, NoOrder, None)
  OBVIOUS
<1>6. e \in Notes /\ e.type = "started" /\ e.step = s /\ e.order = NoOrder
  <2>1. "started" \in NoteTypes /\ None \in NoteWords /\ s \in Steps \cup {0} /\ NoOrder \in Orders \cup {NoOrder}
    BY DEF NoteTypes, NoteWords
  <2> QED
    BY <1>5, <2>1, NoteIs
<1>7. todo' = <<e>> /\ at' = "working" /\ cause' = None
  BY <1>2, <1>4, <1>5 DEF StartSingle, Writes
<1>8. TypedNow'
  BY <1>1, <1>6, <1>7 DEF TypedNow, Places, Causes
<1>9. PendingIsLegal'
  <2>1. s \in external' => Note("approved", s, NoOrder, None) \in ToSet(events')
    BY <1>1, <1>3, <1>4 DEF IsApproved
  <2>2. IsPending(e, {}, events', external', at')
    BY <1>6, <2>1 DEF IsPending, OrderTypes
  <2> QED
    BY <1>7, <2>2, OnePending, PendingThen
<1>10. WorkIsAllowed'
  <2>1. (\E q \in Steps : ~StepDone(q))'
    BY <1>1, <1>3, Unwritten
  <2>2. \A i \in 1..Len(todo') : todo'[i].type \in {"policy", "status", "started"}
    BY <1>6, <1>7
  <2> QED
    BY <1>7, <2>1, <2>2 DEF WorkIsAllowed
<1> QED
  BY <1>1, <1>2, <1>7, <1>8, <1>9, <1>10, Uncaused, QuietStep

\* A failure of a step, after nothing or after a note of its own.
LEMMA FailureKeeps ==
  ASSUME HistoryIInv, events' = events, external' = external, safe' = safe, RunStatus \notin Final,
         NEW s \in Steps, Fails(<<>>, s)
  PROVE  HistoryIInv'
<1>1. PICK d : d = Note("failed", s, NoOrder, None)
  OBVIOUS
<1>2. PICK e : e = Status("failed")
  OBVIOUS
<1>3. d \in Notes /\ d.type = "failed"
  <2>1. "failed" \in NoteTypes /\ None \in NoteWords /\ s \in Steps \cup {0} /\ NoOrder \in Orders \cup {NoOrder}
    BY DEF NoteTypes, NoteWords
  <2> QED
    BY <1>1, <2>1, NoteIs
<1>4. e \in Notes
  BY <1>2, StatusNoteIs DEF StatusWords
<1>5. todo' = <<>> \o <<d, e>> /\ at' = "over" /\ cause' = "execution"
  BY <1>1, <1>2 DEF Fails, Writes
<1>6. todo' = <<d, e>>
  BY <1>5, NoNotes
<1>7. Blames(d, cause') /\ cause' \in Causes
  BY <1>3, <1>5 DEF Blames, Causes
<1> QED
  BY <1>2, <1>3, <1>4, <1>5, <1>6, <1>7, StopKeeps

LEMMA EndSingleKeeps ==
  ASSUME HistoryIInv, EndSingle
  PROVE  HistoryIInv'
<1>1. at = "working" /\ events' = events /\ external' = external /\ safe' = safe /\ TypedNow
  BY SaneThen DEF EndSingle, Ready, Writes, Fails
<1>2. RunStatus \notin Final /\ cause = None
  BY <1>1, WorkedOn
<1>3. PICK s \in Steps : s = NextStep
  BY <1>1, NextIs DEF HistoryIInv, WorkIsAllowed
<1>4. PICK e : e = Note("evidence", s, NoOrder, None)
  OBVIOUS
<1>5. e \in Notes /\ e.type = "evidence"
  <2>1. "evidence" \in NoteTypes /\ None \in NoteWords /\ s \in Steps \cup {0} /\ NoOrder \in Orders \cup {NoOrder}
    BY DEF NoteTypes, NoteWords
  <2> QED
    BY <1>4, <2>1, NoteIs
<1>6. CASE Writes(<<e>>, "deciding") /\ UNCHANGED cause
  <2>1. todo' = <<e>> /\ at' = "deciding" /\ cause' = None
    BY <1>2, <1>6 DEF Writes
  <2>2. TypedNow'
    BY <1>1, <1>5, <2>1 DEF TypedNow, Places, Causes
  <2>3. PendingIsLegal' /\ StoppedForCause' /\ WorkIsAllowed'
    BY <1>5, <2>1, PlainPending, OnePending, PendingThen, Uncaused, AtRest DEF Plain
  <2> QED
    BY <1>1, <1>2, <2>1, <2>2, <2>3, QuietStep
<1>7. CASE Fails(<<>>, s)
  BY <1>1, <1>2, <1>7, FailureKeeps
<1> QED
  BY <1>3, <1>4, <1>6, <1>7 DEF EndSingle

LEMMA StartOrderKeeps ==
  ASSUME HistoryIInv, StartOrder
  PROVE  HistoryIInv'
<1>1. at = "teaming" /\ todo = <<>> /\ events' = events /\ external' = external /\ safe' = safe /\ TypedNow
  BY SaneThen DEF StartOrder, Ready, Writes, Fails
<1>2. RunStatus \notin Final /\ cause = None
  BY <1>1, WorkedOn
<1>3. Team # {} /\ (Max(Team) \in external => IsApproved(Max(Team)))
  BY <1>1 DEF HistoryIInv, WorkIsAllowed
<1>4. PICK s \in Team : s = Max(Team)
  BY <1>3, TeamIs
<1>5. s \in Steps
  BY DEF Steps
<1>6. CASE Writes(<<>>, "deciding") /\ UNCHANGED cause
  <2>1. todo' = <<>> /\ at' = "deciding" /\ cause' = None
    BY <1>2, <1>6 DEF Writes
  <2>2. TypedNow'
    BY <1>1, <2>1 DEF TypedNow, Places, Causes
  <2>3. PendingIsLegal' /\ StoppedForCause' /\ WorkIsAllowed'
    BY <2>1, NothingPending, PendingThen, Uncaused, AtRest
  <2> QED
    BY <1>1, <1>2, <2>1, <2>2, <2>3, QuietStep
<1>7. CASE Fails(<<>>, s)
  BY <1>1, <1>2, <1>5, <1>7, FailureKeeps
<1>8. ASSUME \E o \in Orders : ~OrderDone(o),
             Writes(<<IF LastOf(Order) = None THEN Note("dispatched", s, Order, None)
                      ELSE Note("resumed", 0, Order, None)>>, "ordered"), UNCHANGED cause
      PROVE  HistoryIInv'
  <2>1. PICK o \in Orders : o = Order
    BY <1>8, OrderIs
  <2>2. PICK e : e = IF LastOf(o) = None THEN Note("dispatched", s, o, None) ELSE Note("resumed", 0, o, None)
    OBVIOUS
  <2>3. /\ e \in Notes /\ e.order = o /\ e.type \in {"dispatched", "resumed"}
        /\ e.type = "dispatched" => e.step = s
        /\ e.type = "resumed" => LastOf(o) # None
    <3>1. /\ "dispatched" \in NoteTypes /\ "resumed" \in NoteTypes /\ None \in NoteWords
          /\ s \in Steps \cup {0} /\ 0 \in Steps \cup {0} /\ o \in Orders \cup {NoOrder}
      BY <1>5 DEF NoteTypes, NoteWords
    <3>2. CASE LastOf(o) = None
      <4>1. e = Note("dispatched", s, o, None)
        BY <2>2, <3>2
      <4> QED
        BY <3>1, <4>1, NoteIs
    <3>3. CASE LastOf(o) # None
      <4>1. e = Note("resumed", 0, o, None)
        BY <2>2, <3>3
      <4>2. e \in Notes /\ e.order = o /\ e.type = "resumed"
        BY <3>1, <4>1, NoteIs
      <4> QED
        BY <3>3, <4>2
    <3> QED
      BY <3>2, <3>3
  <2>4. todo' = <<e>> /\ at' = "ordered" /\ cause' = None
    BY <1>2, <1>4, <1>8, <2>1, <2>2 DEF Writes
  <2>5. TypedNow'
    BY <1>1, <2>3, <2>4 DEF TypedNow, Places, Causes
  <2>6. Order' = o /\ (\E q \in Orders : ~OrderDone(q))' /\ IsApproved(s)' = IsApproved(s)
        /\ (s \in external => IsApproved(s)) /\ Max(Team) = s
    BY <1>1, <1>3, <1>4, <1>8, <2>1, Unwritten
  <2>7. PendingIsLegal'
    <3>1. s \in external' => Note("approved", s, NoOrder, None) \in ToSet(events')
      BY <1>1, <2>6 DEF IsApproved
    <3>2. LastOf(o) = LastIn(events', o)
      BY <1>1, Readings
    <3>3. IsPending(e, {}, events', external', at')
      BY <2>3, <3>1, <3>2 DEF IsPending, OrderTypes
    <3> QED
      BY <2>4, <3>3, OnePending, PendingThen
  <2>8. WorkIsAllowed'
    <3>1. Len(todo') = 1 /\ todo'[1].order = Order' /\ todo'[1].type \in {"dispatched", "resumed"}
      BY <2>3, <2>4, <2>6
    <3>2. Max(Team) \in external' => IsApproved(Max(Team))'
      BY <1>1, <2>6
    <3> QED
      BY <1>3, <2>4, <2>6, <3>1, <3>2 DEF WorkIsAllowed
  <2> QED
    BY <1>1, <1>2, <2>4, <2>5, <2>7, <2>8, Uncaused, QuietStep
<1> QED
  BY <1>4, <1>6, <1>7, <1>8 DEF StartOrder

LEMMA EndOrderKeeps ==
  ASSUME HistoryIInv, EndOrder
  PROVE  HistoryIInv'
<1>1. at = "ordered" /\ todo = <<>> /\ events' = events /\ external' = external /\ safe' = safe /\ TypedNow
  BY SaneThen DEF EndOrder, Ready, Writes, Fails
<1>2. RunStatus \notin Final /\ cause = None
  BY <1>1, WorkedOn
<1>3. /\ Team # {} /\ (Max(Team) \in external => IsApproved(Max(Team))) /\ LastOf(Order) # None
      /\ \E o \in Orders : ~OrderDone(o)
  <2>1. ~(Len(todo) = 1)
    BY <1>1
  <2> QED
    BY <1>1, <2>1 DEF HistoryIInv, WorkIsAllowed
<1>4. PICK s \in Team : s = Max(Team)
  BY <1>3, TeamIs
<1>5. PICK o \in Orders : o = Order
  BY <1>3, OrderIs
<1>6. PICK seen : seen = Note("evidence", s, o, None)
  OBVIOUS
<1>7. PICK done : done = Note("order completed", 0, o, None)
  OBVIOUS
<1>8. PICK lost : lost = Note("order failed", 0, o, None)
  OBVIOUS
<1>9. /\ seen \in Notes /\ seen.type = "evidence" /\ seen.order = o
      /\ done \in Notes /\ done.type = "order completed" /\ done.order = o
      /\ lost \in Notes /\ lost.type = "order failed" /\ lost.order = o
  <2>1. /\ "evidence" \in NoteTypes /\ "order completed" \in NoteTypes /\ "order failed" \in NoteTypes /\ None \in NoteWords
        /\ s \in Steps \cup {0} /\ 0 \in Steps \cup {0} /\ o \in Orders \cup {NoOrder}
    BY DEF NoteTypes, NoteWords, Steps
  <2>2. seen \in Notes /\ seen.type = "evidence" /\ seen.order = o
    BY <1>6, <2>1 DEF Notes, Note, NoteTypes, NoteWords
  <2>3. done \in Notes /\ done.type = "order completed" /\ done.order = o
    BY <1>7, <2>1 DEF Notes, Note, NoteTypes, NoteWords
  <2>4. lost \in Notes /\ lost.type = "order failed" /\ lost.order = o
    BY <1>8, <2>1 DEF Notes, Note, NoteTypes, NoteWords
  <2> QED
    BY <2>2, <2>3, <2>4
<1>10. LastIn(events', o) # None
  BY <1>1, <1>3, <1>5, Readings
<1>11. /\ \A before : IsPending(seen, before, events', external', at')
       /\ \A before : seen \in before => IsPending(done, before, events', external', at')
       /\ \A before : IsPending(lost, before, events', external', at')
  BY <1>9, <1>10 DEF IsPending, OrderTypes
<1>12. at' = "teaming" => WorkIsAllowed'
  <2>1. IsApproved(s)' = IsApproved(s)
    BY <1>1, Unwritten
  <2> QED
    BY <1>1, <1>3, <1>4, <2>1 DEF WorkIsAllowed
<1>13. ASSUME NEW d, NEW e, d \in Notes, e \in Notes, Writes(<<d, e>>, "teaming"), UNCHANGED cause, d.type # "status",
              IsPending(d, {}, events', external', at'), IsPending(e, {d}, events', external', at')
       PROVE  HistoryIInv'
  <2>1. todo' = <<d, e>> /\ at' = "teaming" /\ cause' = None
    BY <1>2, <1>13 DEF Writes
  <2>2. TypedNow'
    BY <1>1, <1>13, <2>1 DEF TypedNow, Places, Causes
  <2>3. PendingIsLegal'
    BY <1>13, <2>1, TwoPending, PendingThen
  <2> QED
    BY <1>1, <1>2, <1>12, <2>1, <2>2, <2>3, Uncaused, QuietStep
<1>14. CASE Writes(<<seen>> \o <<done>>, "teaming") /\ UNCHANGED cause
  <2>1. Writes(<<seen, done>>, "teaming")
    BY <1>14, TwoNotes
  <2> QED
    BY <1>9, <1>11, <1>13, <1>14, <2>1
<1>15. CASE Writes(<<seen>> \o <<lost>>, "teaming") /\ UNCHANGED cause
  <2>1. Writes(<<seen, lost>>, "teaming")
    BY <1>15, TwoNotes
  <2> QED
    BY <1>9, <1>11, <1>13, <1>15, <2>1
<1>16. CASE Writes(<<>> \o <<lost>>, "teaming") /\ UNCHANGED cause
  <2>0. <<>> \o <<lost>> = <<lost>>
    OBVIOUS
  <2>1. todo' = <<lost>> /\ at' = "teaming" /\ cause' = None
    BY <1>2, <1>16, <2>0 DEF Writes
  <2>2. TypedNow'
    <3>1. <<lost>> \in Seq(Notes)
      BY <1>9, InSequence
    <3> QED
      BY <1>1, <2>1, <3>1 DEF TypedNow, Places, Causes
  <2>3. PendingIsLegal'
    BY <1>11, <2>1, OnePending, PendingThen
  <2> QED
    BY <1>1, <1>2, <1>12, <2>1, <2>2, <2>3, Uncaused, QuietStep
<1>17. CASE Fails(<<lost>>, s)
  <2>1. PICK d : d = Note("failed", s, NoOrder, None)
    OBVIOUS
  <2>2. PICK e : e = Status("failed")
    OBVIOUS
  <2>3. d \in Notes /\ d.type = "failed"
    <3>1. "failed" \in NoteTypes /\ None \in NoteWords /\ s \in Steps \cup {0} /\ NoOrder \in Orders \cup {NoOrder}
      BY DEF NoteTypes, NoteWords, Steps
    <3> QED
      BY <2>1, <3>1, NoteIs
  <2>4. e \in Notes /\ e.type = "status" /\ e.word = "failed"
    BY <2>2, StatusNoteIs DEF StatusWords
  <2>5. todo' = <<lost>> \o <<d, e>> /\ at' = "over" /\ cause' = "execution"
    BY <1>17, <2>1, <2>2 DEF Fails, Writes
  <2>6. todo' = <<lost, d, e>>
    BY <2>5, ThreeNotes
  <2>7. TypedNow'
    <3>1. <<lost, d, e>> \in Seq(Notes)
      <4>1. lost \in Notes /\ d \in Notes /\ e \in Notes
        BY <1>9, <2>3, <2>4
      <4> QED
        BY <4>1, InSequence
    <3> QED
      BY <1>1, <2>5, <2>6, <3>1 DEF TypedNow, Places, Causes
  <2>8. IsPending(d, {}, events', external', at') /\ IsPending(e, {}, events', external', at')
    BY <2>3, <2>4, <2>5 DEF IsPending, OrderTypes
  <2>9. PendingIsLegal'
    BY <1>9, <1>11, <2>3, <2>6, <2>8, ThreePending, PendingThen
  <2>10. Len(todo') = 3 /\ Len(todo') - 1 = 2 /\ todo'[2] = d /\ todo'[3] = e
    BY <2>6
  <2>11. StoppedForCause'
    <3>1. Blames(d, cause')
      BY <2>3, <2>5 DEF Blames
    <3>2. todo'[Len(todo') - 1] = d /\ todo'[Len(todo')] = e /\ Len(todo') > 1 /\ Len(todo') \in Nat
      BY <2>10
    <3> QED
      BY <2>4, <2>5, <3>1, <3>2, Caused
  <2>12. WorkIsAllowed'
    BY <2>5, AtRest
  <2> QED
    BY <1>1, <1>2, <2>5, <2>7, <2>9, <2>11, <2>12, QuietStep
<1>18. Receipts(Order) = {<<seen>>}
  BY <1>4, <1>5, <1>6 DEF Receipts
<1>19. \/ Writes(<<seen>> \o <<done>>, "teaming") /\ UNCHANGED cause
       \/ Writes(<<seen>> \o <<lost>>, "teaming") /\ UNCHANGED cause
       \/ Writes(<<>> \o <<lost>>, "teaming") /\ UNCHANGED cause
       \/ Fails(<<lost>>, s)
  BY <1>4, <1>5, <1>7, <1>8, <1>18 DEF EndOrder
<1> QED
  BY <1>14, <1>15, <1>16, <1>17, <1>19

\* One note is written.
LEMMA Written ==
  ASSUME HistoryIInv, NEW e \in Notes, events' = Append(events, e), external' = external,
         Orderly(events, e), Lawful(events, e, external)
  PROVE  /\ Sane(events', external') /\ BlameMoves(Projected', Projected, e)
         /\ RunStatus' = IF e.type = "status" THEN e.word ELSE RunStatus
         /\ RecentWork' = IF Tells(e) THEN Word(e) ELSE RecentWork
         /\ \A o : LastOf(o)' = IF e.order = o /\ e.type \in OrderTypes THEN e.type ELSE LastOf(o)
         /\ ToSet(events') = ToSet(events) \cup {e}
<1>1. Sane(events, external) /\ events \in SoundHistories /\ events \in Seq(Notes)
  BY SaneThen DEF Sane, SoundHistories
<1>2. IsMore(events', events, e)
  BY <1>1, MoreIs
<1>3. Sane(events', external') /\ BlameMoves(AuditIn(events'), AuditIn(events), e)
  BY <1>1, <1>2, SaneMore
<1>4. /\ StatusIn(events') = IF e.type = "status" THEN e.word ELSE StatusIn(events)
      /\ ToldIn(events') = IF Tells(e) THEN Word(e) ELSE ToldIn(events)
      /\ \A o : LastIn(events', o) = IF e.order = o /\ e.type \in OrderTypes THEN e.type ELSE LastIn(events, o)
      /\ ToSet(events') = ToSet(events) \cup {e}
  BY <1>1, <1>2, WordsMore
<1>5. Projected = AuditIn(events) /\ RunStatus = StatusIn(events) /\ RecentWork = ToldIn(events)
      /\ \A o : LastOf(o) = LastIn(events, o)
  BY Readings
<1>6. Projected' = AuditIn(events') /\ RunStatus' = StatusIn(events') /\ RecentWork' = ToldIn(events')
  BY DEF Projected, AuditIn, RunStatus, StatusIn, RecentWork, ToldIn
<1>7. \A o : LastOf(o)' = LastIn(events', o)
  BY DEF LastOf, LastIn
<1> QED
  BY <1>3, <1>4, <1>5, <1>6, <1>7

\* A status that ends nothing, or ends it without a verdict, may be written at any time.
LEMMA StatusMayBe ==
  ASSUME NEW v \in StatusWords, v # "completed", NEW e, e = Status(v), NEW h, NEW ext
  PROVE  Orderly(h, e) /\ Lawful(h, e, ext)
<1>1. e.type = "status" /\ e.word = v
  BY StatusNoteIs
<1>2. e # Status("completed")
  <2>1. Status("completed").word = "completed"
    BY DEF Status, Note
  <2> QED
    BY <1>1, <2>1
<1> QED
  BY <1>1, <1>2 DEF Orderly, Lawful, OrderTypes

\* A status closes the run, or hands it back to the queue, with nothing left to write.
LEMMA ClosingKeeps ==
  ASSUME HistoryIInv, NEW v \in {"queued", "failed", "cancelled"}, NEW e, e = Status(v),
         events' = Append(events, e), external' = external, safe' = safe, todo' = <<>>,
         at' = (IF v = "queued" THEN v ELSE "over"), cause' \in {None, "interrupted", "cancelled", "rejected"},
         v = "queued" => cause' = None, cause' = "cancelled" => v = "cancelled"
  PROVE  HistoryIInv'
<1>1. e \in Notes /\ e.type = "status" /\ e.word = v
  BY StatusNoteIs DEF StatusWords
<1>2. Orderly(events, e) /\ Lawful(events, e, external)
  BY StatusMayBe DEF StatusWords
<1>3. /\ Sane(events', external') /\ BlameMoves(Projected', Projected, e)
      /\ RunStatus' = IF e.type = "status" THEN e.word ELSE RunStatus
      /\ RecentWork' = IF Tells(e) THEN Word(e) ELSE RecentWork
  BY <1>1, <1>2, Written
<1>4. TypedNow'
  BY SaneThen DEF TypedNow, Places, Causes
<1>5. SoundHistory' /\ AttemptsAreKnown' /\ HistoryIsLegal'
  BY <1>3, <1>4, SaneAfter
<1>6. RunStatus' = v
  BY <1>1, <1>3
<1>7. StoppedIsTold'
  BY <1>1, <1>3, <1>6 DEF StoppedIsTold, Tells, Word, Final
<1>8. OpenWhileWriting'
  BY <1>6 DEF OpenWhileWriting, Final
<1>9. PendingIsLegal' /\ WorkIsAllowed'
  BY NothingPending, PendingThen, AtRest
<1>10. StoppedForCause'
  <2>1. v = "cancelled" => Projected'.blame = "cancelled"
    BY <1>1, <1>3 DEF BlameMoves
  <2> QED
    BY <2>1 DEF StoppedForCause, None
<1> QED
  BY <1>5, <1>7, <1>8, <1>9, <1>10 DEF HistoryIInv

LEMMA CancelKeeps ==
  ASSUME HistoryIInv, Cancel
  PROVE  HistoryIInv'
<1>1. PICK e : e = Status("cancelled")
  OBVIOUS
<1> QED
  BY <1>1, ClosingKeeps DEF Cancel, None

LEMMA RejectKeeps ==
  ASSUME HistoryIInv, Reject
  PROVE  HistoryIInv'
<1>1. PICK e : e = Status("failed")
  OBVIOUS
<1> QED
  BY <1>1, ClosingKeeps DEF Reject, Ready, None

LEMMA RecoverKeeps ==
  ASSUME HistoryIInv, Recover
  PROVE  HistoryIInv'
<1>1. at = "dead" /\ external' = external /\ safe' = safe /\ todo' = todo
  BY DEF Recover
<1>2. todo = <<>> /\ cause = None
  BY <1>1 DEF HistoryIInv, OpenWhileWriting, StoppedForCause
<1>3. PICK lost \in BOOLEAN : /\ events' = Append(events, Status(IF lost THEN "failed" ELSE "queued"))
                              /\ at' = IF lost THEN "over" ELSE "queued"
                              /\ cause' = IF lost THEN "interrupted" ELSE cause
  <2> DEFINE started == Types("started") \cup Types("dispatched")
             given == RunStatus = "verifying" \/ external # {} \/ (~safe /\ started # {})
  <2>1. given \in BOOLEAN
    OBVIOUS
  <2> QED
    BY <2>1 DEF Recover
<1>4. PICK v : v = IF lost THEN "failed" ELSE "queued"
  OBVIOUS
<1>5. PICK e : e = Status(v)
  OBVIOUS
<1>6. /\ v \in {"queued", "failed", "cancelled"} /\ events' = Append(events, e) /\ todo' = <<>>
      /\ at' = (IF v = "queued" THEN v ELSE "over") /\ cause' \in {None, "interrupted", "cancelled"}
      /\ v = "queued" => cause' = None
      /\ cause' = "cancelled" => v = "cancelled"
  BY <1>1, <1>2, <1>3, <1>4, <1>5 DEF None
<1> QED
  BY <1>1, <1>5, <1>6, ClosingKeeps

\* The verdict and the status it entails.
LEMMA TwoMore ==
  ASSUME NEW h \in Seq(Notes), NEW d \in Notes, NEW e \in Notes
  PROVE  h \o <<d, e>> = Append(Append(h, d), e)
<1> DEFINE q == <<d, e>>
           x == h \o q
           y == Append(Append(h, d), e)
<1>1. q \in Seq(Notes) /\ Len(q) = 2 /\ q[1] = d /\ q[2] = e
  OBVIOUS
<1>2. IsMore(Append(h, d), h, d)
  BY MoreIs
<1>3. IsMore(y, Append(h, d), e)
  <2>1. Append(h, d) \in Seq(Notes)
    BY <1>2 DEF IsMore
  <2> QED
    BY <2>1, MoreIs
<1> DEFINE n == Len(h)
<1>4. /\ n \in Nat /\ y \in Seq(Notes) /\ Len(y) = n + 2 /\ y[n + 1] = d /\ y[n + 2] = e
      /\ \A i \in 1..n : y[i] = h[i]
  <2> DEFINE m == Append(h, d)
  <2>1. n \in Nat /\ Len(m) = n + 1 /\ m[n + 1] = d /\ \A i \in 1..n : m[i] = h[i]
    BY <1>2 DEF IsMore
  <2>2. y \in Seq(Notes) /\ Len(y) = Len(m) + 1 /\ y[Len(y)] = e /\ \A i \in 1..Len(m) : y[i] = m[i]
    BY <1>3 DEF IsMore
  <2> HIDE DEF m, n, y
  <2>3. Len(y) = n + 2 /\ n + 1 \in 1..Len(m) /\ \A i \in 1..n : i \in 1..Len(m)
    BY <2>1, <2>2
  <2> QED
    BY <2>1, <2>2, <2>3
<1> HIDE DEF q, y
<1>5. /\ x \in Seq(Notes) /\ Len(x) = n + 2
      /\ \A i \in 1..(n + 2) : x[i] = IF i <= n THEN h[i] ELSE q[i - n]
  <2>1. /\ x \in Seq(Notes) /\ Len(x) = Len(h) + Len(q)
        /\ \A i \in 1 .. Len(h) + Len(q) : x[i] = IF i <= Len(h) THEN h[i] ELSE q[i - Len(h)]
    BY <1>1, ConcatProperties
  <2> HIDE DEF x
  <2> QED
    BY <1>1, <2>1
<1> HIDE DEF x, n
<1>6. ASSUME NEW i \in 1..(n + 2) PROVE x[i] = y[i]
  <2>0. (n + 1) - n = 1 /\ (n + 2) - n = 2 /\ ~(n + 1 <= n) /\ ~(n + 2 <= n)
    BY <1>4
  <2>1. i \in 1..n \/ i = n + 1 \/ i = n + 2
    BY <1>4
  <2>2. CASE i \in 1..n
    <3>1. i <= n
      BY <1>4, <2>2
    <3> QED
      BY <1>4, <1>5, <2>2, <3>1
  <2>3. CASE i = n + 1
    BY <1>1, <1>4, <1>5, <2>0, <2>3
  <2>4. CASE i = n + 2
    BY <1>1, <1>4, <1>5, <2>0, <2>4
  <2> QED
    BY <2>1, <2>2, <2>3, <2>4
<1>7. /\ DOMAIN x = 1..(n + 2) /\ DOMAIN y = 1..(n + 2)
      /\ x = [i \in DOMAIN x |-> x[i]] /\ y = [i \in DOMAIN y |-> y[i]]
  BY <1>4, <1>5
<1>8. x = y
  BY <1>6, <1>7
<1> QED
  BY <1>8 DEF x, y, q

LEMMA VerdictsAre ==
  ASSUME NEW v \in Verdicts
  PROVE  /\ v[1] \in {"passed", "refuted", "open"} /\ v[2] \in {"completed", "failed", "waiting_review"}
         /\ v[2] = "completed" => v[1] = "passed"
         /\ v[2] = "failed" => v[1] = "refuted"
  BY DEF Verdicts

LEMMA JudgeKeeps ==
  ASSUME HistoryIInv, NEW verdicts \in SUBSET Verdicts, Judge(verdicts), at \in {"verifying", "waiting_review"}, todo = <<>>
  PROVE  HistoryIInv'
<1>1. PICK v \in verdicts :
         /\ events' = events \o <<Note("verified", 0, NoOrder, v[1]), Status(v[2])>>
         /\ at' = (IF v[2] = "waiting_review" THEN v[2] ELSE "over")
         /\ cause' = (IF v[2] = "failed" THEN "verification" ELSE cause)
         /\ UNCHANGED <<todo, safe, external, died>>
  BY DEF Judge
<1>2. v \in Verdicts
  OBVIOUS
<1>3. PICK found : found = v[1]
  OBVIOUS
<1>4. PICK word : word = v[2]
  OBVIOUS
<1>5. /\ found \in {"passed", "refuted", "open"} /\ word \in {"completed", "failed", "waiting_review"}
      /\ word = "completed" => found = "passed"
      /\ word = "failed" => found = "refuted"
  BY <1>2, <1>3, <1>4, VerdictsAre
<1>6. PICK d : d = Note("verified", 0, NoOrder, found)
  OBVIOUS
<1>7. PICK e : e = Status(word)
  OBVIOUS
<1>8. /\ events' = events \o <<d, e>> /\ todo' = <<>> /\ safe' = safe /\ external' = external
      /\ at' = (IF word = "waiting_review" THEN word ELSE "over")
      /\ cause' = (IF word = "failed" THEN "verification" ELSE cause)
  BY <1>1, <1>3, <1>4, <1>6, <1>7
<1>9. d \in Notes /\ d.type = "verified" /\ d.word = found
  <2>1. "verified" \in NoteTypes /\ found \in NoteWords /\ 0 \in Steps \cup {0} /\ NoOrder \in Orders \cup {NoOrder}
    BY <1>5 DEF NoteTypes, NoteWords
  <2> QED
    BY <1>5, <1>6, <2>1 DEF Notes, Note, NoteTypes, NoteWords
<1>10. e \in Notes /\ e.type = "status" /\ e.word = word
  BY <1>5, <1>7, StatusNoteIs DEF StatusWords
<1>11. cause = None /\ TypedNow /\ Sane(events, external)
  BY SaneThen DEF HistoryIInv, StoppedForCause
<1>12. events \in Seq(Notes) /\ events \in SoundHistories
  BY <1>11 DEF Sane, SoundHistories
<1>13. PICK h : h = Append(events, d)
  OBVIOUS
<1>14. IsMore(h, events, d)
  BY <1>9, <1>12, <1>13, MoreIs
<1>15. Orderly(events, d) /\ Lawful(events, d, external)
  <2>1. d # Status("completed")
    <3>1. Status("completed").type = "status"
      BY DEF Status, Note
    <3> QED
      BY <1>9, <3>1
  <2> QED
    BY <1>9, <2>1 DEF Orderly, Lawful, OrderTypes
<1>16. Sane(h, external) /\ BlameMoves(AuditIn(h), AuditIn(events), d)
  BY <1>9, <1>11, <1>14, <1>15, SaneMore
<1>17. h \in Seq(Notes) /\ h \in SoundHistories
  BY <1>16 DEF Sane, SoundHistories
<1>18. events' = Append(h, e)
  BY <1>8, <1>9, <1>10, <1>12, <1>13, TwoMore
<1>19. IsMore(events', h, e)
  BY <1>10, <1>17, <1>18, MoreIs
<1>20. Orderly(h, e) /\ Lawful(h, e, external)
  <2>1. CASE word = "completed"
    <3>1. h[Len(h)] = d
      BY <1>14 DEF IsMore
    <3> QED
      BY <1>5, <1>9, <1>10, <2>1, <3>1 DEF Orderly, Lawful, OrderTypes, StatusWords
  <2>2. CASE word # "completed"
    BY <1>5, <1>7, <2>2, StatusMayBe DEF StatusWords
  <2> QED
    BY <2>1, <2>2
<1>21. Sane(events', external') /\ BlameMoves(AuditIn(events'), AuditIn(h), e)
  BY <1>8, <1>10, <1>16, <1>19, <1>20, SaneMore
<1>22. StatusIn(events') = word /\ (Tells(e) => ToldIn(events') = Word(e))
  BY <1>10, <1>17, <1>19, WordsMore
<1>23. RunStatus' = word /\ RecentWork' = word
  <2>1. RunStatus' = StatusIn(events') /\ RecentWork' = ToldIn(events')
    BY DEF RunStatus, StatusIn, RecentWork, ToldIn
  <2>2. Tells(e) /\ Word(e) = word
    BY <1>5, <1>10 DEF Tells, Final, Word
  <2> QED
    BY <1>22, <2>1, <2>2
<1>24. TypedNow'
  <2>1. at' \in Places
    BY <1>5, <1>8 DEF Places
  <2>2. cause' \in Causes
    BY <1>8, <1>11 DEF Causes
  <2> QED
    BY <1>8, <1>11, <2>1, <2>2 DEF TypedNow
<1>25. SoundHistory' /\ AttemptsAreKnown' /\ HistoryIsLegal'
  BY <1>21, <1>24, SaneAfter
<1>26. StoppedIsTold'
  BY <1>23 DEF StoppedIsTold
<1>27. OpenWhileWriting'
  BY <1>5, <1>8 DEF OpenWhileWriting
<1>28. PendingIsLegal' /\ WorkIsAllowed'
  <2>1. at' \in {"over", "waiting_review"}
    BY <1>5, <1>8
  <2> QED
    BY <1>8, <2>1, NothingPending, PendingThen, AtRest
<1>29. StoppedForCause'
  <2>1. CASE word = "failed"
    <3>1. AuditIn(h).blame = "verification"
      BY <1>5, <1>9, <1>16, <2>1 DEF BlameMoves
    <3>2. AuditIn(events').blame = "verification"
      BY <1>10, <1>21, <2>1, <3>1 DEF BlameMoves, None
    <3>3. Projected' = AuditIn(events')
      BY DEF Projected, AuditIn
    <3> QED
      BY <1>8, <2>1, <3>2, <3>3 DEF StoppedForCause
  <2>2. CASE word # "failed"
    BY <1>8, <1>11, <2>2, Uncaused
  <2> QED
    BY <2>1, <2>2
<1> QED
  BY <1>25, <1>26, <1>27, <1>28, <1>29 DEF HistoryIInv

LEMMA RecordVerdictKeeps ==
  ASSUME HistoryIInv, RecordVerdict
  PROVE  HistoryIInv'
<1>1. Judge(Verdicts) /\ at = "verifying" /\ todo = <<>>
  BY DEF RecordVerdict, Ready
<1> QED
  BY <1>1, JudgeKeeps

LEMMA SettleReviewKeeps ==
  ASSUME HistoryIInv, SettleReview
  PROVE  HistoryIInv'
<1>1. PICK verdicts \in SUBSET Verdicts : Judge(verdicts)
  BY DEF SettleReview
<1>2. at = "waiting_review" /\ todo = <<>>
  BY DEF SettleReview, Ready
<1> QED
  BY <1>1, <1>2, JudgeKeeps

\* The first of what is to be written is written, the rest is still to be.
LEMMA RestIs ==
  ASSUME NEW q \in Seq(Notes), q # <<>>
  PROVE  /\ Head(q) = q[1] /\ q[1] \in Notes /\ Len(q) \in Nat \ {0}
         /\ Tail(q) \in Seq(Notes) /\ Len(Tail(q)) = Len(q) - 1
         /\ \A i \in 1..(Len(q) - 1) : Tail(q)[i] = q[i + 1]
  OBVIOUS

LEMMA PendingIsOrderly ==
  ASSUME NEW e, NEW h, NEW ext, NEW here, IsPending(e, {}, h, ext, here)
  PROVE  Orderly(h, e) /\ Lawful(h, e, ext)
<1>1. e # Status("completed")
  <2>1. Status("completed").type = "status" /\ Status("completed").word = "completed"
    BY DEF Status, Note
  <2>2. e.type = "status" => e.word # "completed"
    BY DEF IsPending
  <2> QED
    BY <2>1, <2>2
<1>2. Orderly(h, e)
  BY DEF IsPending, Orderly, StatusWords
<1>3. Lawful(h, e, ext)
  BY <1>1 DEF IsPending, Lawful
<1> QED
  BY <1>2, <1>3

\* What was legal after the notes before it stays so when the first of these is written.
Follows(t, h, e) ==
  /\ ToSet(t) = ToSet(h) \cup {e}
  /\ \A o : LastIn(t, o) = IF e.order = o /\ e.type \in OrderTypes THEN e.type ELSE LastIn(h, o)

LEMMA PendingFollows ==
  ASSUME NEW e, NEW d, NEW before, NEW more, NEW h, NEW t, NEW ext, NEW here,
         Follows(t, h, e), IsPending(d, before, h, ext, here), before \subseteq more \cup {e}
  PROVE  IsPending(d, more, t, ext, here)
<1>1. e.type \in OrderTypes => e.type # None
  BY DEF OrderTypes, None
<1>2. \A o : LastIn(h, o) # None => LastIn(t, o) # None
  BY <1>1 DEF Follows
<1>3. ToSet(h) \subseteq ToSet(t) /\ ToSet(h) \cup before \subseteq ToSet(t) \cup more
  BY DEF Follows
<1> HIDE DEF None
<1>4. d.type \in OrderTypes \ {"dispatched"} => LastIn(t, d.order) # None
  BY <1>2 DEF IsPending
<1>5. d.type = "order completed" => \E n \in ToSet(t) \cup more : n.type = "evidence" /\ n.order = d.order
  BY <1>3 DEF IsPending
<1>6. d.type \in {"started", "dispatched"} /\ d.step \in ext => Note("approved", d.step, NoOrder, None) \in ToSet(t)
  BY <1>3 DEF IsPending
<1> QED
  BY <1>4, <1>5, <1>6 DEF IsPending

LEMMA PendingShift ==
  ASSUME NEW q \in Seq(Notes), q # <<>>, NEW h, NEW t, NEW ext, NEW here,
         Follows(t, h, q[1]), ArePending(q, h, ext, here)
  PROVE  ArePending(Tail(q), t, ext, here)
<1> DEFINE r == Tail(q)
           n == Len(q)
<1>1. n \in Nat \ {0} /\ Len(r) = n - 1 /\ \A i \in 1..(n - 1) : r[i] = q[i + 1]
  BY RestIs
<1>2. \A i \in 1..n : /\ IsPending(q[i], {q[k] : k \in 1..(i - 1)}, h, ext, here)
                      /\ (q[i].type = "status") => (i = n)
  BY DEF ArePending
<1> HIDE DEF r, n
<1>3. ASSUME NEW i \in 1..(n - 1)
      PROVE  /\ IsPending(r[i], {r[k] : k \in 1..(i - 1)}, t, ext, here)
             /\ (r[i].type = "status") => (i = n - 1)
  <2>1. i + 1 \in 1..n /\ (i + 1) - 1 = i /\ i \in Nat
    BY <1>1
  <2> DEFINE before == {q[k] : k \in 1..((i + 1) - 1)}
             more == {r[k] : k \in 1..(i - 1)}
  <2>2. IsPending(q[i + 1], before, h, ext, here) /\ ((q[i + 1].type = "status") => (i + 1 = n))
    BY <1>2, <2>1
  <2>3. ASSUME NEW k \in 1..i PROVE q[k] \in more \cup {q[1]}
    <3>1. CASE k = 1
      BY <3>1
    <3>2. CASE k # 1
      <4>1. k - 1 \in 1..(i - 1) /\ k - 1 \in 1..(n - 1) /\ (k - 1) + 1 = k
        BY <1>1, <2>1, <3>2
      <4>2. r[k - 1] = q[k]
        BY <1>1, <4>1
      <4> QED
        BY <4>1, <4>2
    <3> QED
      BY <3>1, <3>2
  <2>4. before \subseteq more \cup {q[1]}
    BY <2>1, <2>3
  <2> HIDE DEF before, more
  <2>5. IsPending(q[i + 1], more, t, ext, here)
    BY <2>2, <2>4, PendingFollows
  <2>6. r[i] = q[i + 1]
    BY <1>1
  <2>7. (i + 1 = n) => (i = n - 1)
    BY <1>1, <2>1
  <2> QED
    BY <2>2, <2>5, <2>6, <2>7 DEF more
<1> QED
  BY <1>1, <1>3 DEF ArePending, r

\* A note that is no evidence and of no order leaves the work where it is.
LEMMA WorkStays ==
  ASSUME NEW e, ToSet(events') = ToSet(events) \cup {e}, e.type # "evidence",
         \A o \in Orders : OrderDone(o)' = OrderDone(o)
  PROVE  (\A s \in Steps : StepDone(s)' = StepDone(s)) /\ NextStep' = NextStep
<1>1. \A s : HasEvidence(s) <=> \E n \in ToSet(events) : n.type = "evidence" /\ n.step = s
  BY DEF HasEvidence, Types, ToSet
<1>2. \A s : HasEvidence(s)' <=> \E n \in ToSet(events') : n.type = "evidence" /\ n.step = s
  BY DEF HasEvidence, Types, ToSet
<1>3. \A s : HasEvidence(s)' <=> HasEvidence(s)
  BY <1>1, <1>2
<1>4. \A s : HasEvidence(s) \in BOOLEAN /\ HasEvidence(s)' \in BOOLEAN
  BY DEF HasEvidence
<1>5. \A s : HasEvidence(s)' = HasEvidence(s)
  BY <1>3, <1>4
<1>6. \A s \in Steps : StepDone(s)' = StepDone(s)
  BY <1>5 DEF StepDone
<1>7. {s \in Steps : ~StepDone(s)}' = {s \in Steps : ~StepDone(s)}
  BY <1>6
<1> QED
  BY <1>6, <1>7 DEF NextStep

LEMMA ApprovalStays ==
  ASSUME NEW e, ToSet(events') = ToSet(events) \cup {e}, NEW s, IsApproved(s)
  PROVE  IsApproved(s)'
  BY DEF IsApproved

\* The two facts of the work at hand, for a name of the order, or of the step.
LEMMA NamesOfWork ==
  /\ \A o : o = Order /\ LastOf(o) # None => LastOf(Order) # None
  /\ \A s : s = NextStep /\ (s \in external => IsApproved(s)) => (NextStep \in external => IsApproved(NextStep))
  OBVIOUS

LEMMA NamesOfWorkThen ==
  /\ \A o : o = Order' /\ LastOf(o)' # None => (LastOf(Order) # None)'
  /\ \A s : s = NextStep' /\ (s \in external' => IsApproved(s)') => (NextStep \in external => IsApproved(NextStep))'
<1>1. (/\ \A o : o = Order /\ LastOf(o) # None => LastOf(Order) # None
       /\ \A s : s = NextStep /\ (s \in external => IsApproved(s)) => (NextStep \in external => IsApproved(NextStep)))'
  BY NamesOfWork, PTL
<1> QED
  BY <1>1

\* What is known of the note that is written now.
IsNext(e) ==
  /\ e \in Notes /\ todo # <<>> /\ todo[1] = e /\ todo \in Seq(Notes)
  /\ events' = Append(events, e) /\ todo' = Tail(todo)
  /\ at' = at /\ safe' = safe /\ external' = external /\ cause' = cause
  /\ IsPending(e, {}, events, external, at)
  /\ (e.type = "status") => (Len(todo) = 1)

LEMMA NextNote ==
  ASSUME HistoryIInv, WriteNext
  PROVE  \E e : IsNext(e)
<1>1. todo \in Seq(Notes) /\ todo # <<>>
  BY SaneThen DEF TypedNow, WriteNext
<1>2. PICK e : e = todo[1]
  OBVIOUS
<1>3. Head(todo) = e /\ e \in Notes /\ Len(todo) \in Nat \ {0}
  BY <1>1, <1>2, RestIs
<1>4. ArePending(todo, events, external, at)
  BY DEF HistoryIInv, PendingIsLegal
<1>5. 1 \in 1..Len(todo)
  BY <1>3
<1>6. IsPending(todo[1], {todo[k] : k \in 1..(1 - 1)}, events, external, at)
      /\ ((todo[1].type = "status") => (1 = Len(todo)))
  BY <1>4, <1>5 DEF ArePending
<1>7. {todo[k] : k \in 1..(1 - 1)} = {}
  OBVIOUS
<1>8. IsPending(e, {}, events, external, at) /\ ((e.type = "status") => (Len(todo) = 1))
  BY <1>2, <1>6, <1>7
<1> QED
  BY <1>1, <1>2, <1>3, <1>8 DEF IsNext, WriteNext

LEMMA NextIsWritten ==
  ASSUME HistoryIInv, NEW e, IsNext(e)
  PROVE  /\ Sane(events', external') /\ BlameMoves(Projected', Projected, e)
         /\ RunStatus' = IF e.type = "status" THEN e.word ELSE RunStatus
         /\ RecentWork' = IF Tells(e) THEN Word(e) ELSE RecentWork
         /\ \A o : LastOf(o)' = IF e.order = o /\ e.type \in OrderTypes THEN e.type ELSE LastOf(o)
         /\ ToSet(events') = ToSet(events) \cup {e}
<1>1. e \in Notes /\ events' = Append(events, e) /\ external' = external /\ Orderly(events, e) /\ Lawful(events, e, external)
  BY PendingIsOrderly DEF IsNext
<1> QED
  BY <1>1, Written

LEMMA NextKeepsPending ==
  ASSUME HistoryIInv, NEW e, IsNext(e)
  PROVE  PendingIsLegal'
<1>1. /\ ToSet(events') = ToSet(events) \cup {e}
      /\ \A o : LastOf(o)' = IF e.order = o /\ e.type \in OrderTypes THEN e.type ELSE LastOf(o)
  BY NextIsWritten
<1>2. \A o : LastOf(o) = LastIn(events, o) /\ LastOf(o)' = LastIn(events', o)
  BY DEF LastOf, LastIn
<1>3. Follows(events', events, e)
  BY <1>1, <1>2 DEF Follows
<1>4. ArePending(todo, events, external, at)
  BY DEF HistoryIInv, PendingIsLegal
<1>5. ArePending(Tail(todo), events', external, at)
  BY <1>3, <1>4, PendingShift DEF IsNext
<1> QED
  BY <1>5, PendingThen DEF IsNext

LEMMA NextKeepsOpen ==
  ASSUME HistoryIInv, NEW e, IsNext(e)
  PROVE  OpenWhileWriting' /\ StoppedIsTold'
<1>1. /\ RunStatus' = IF e.type = "status" THEN e.word ELSE RunStatus
      /\ RecentWork' = IF Tells(e) THEN Word(e) ELSE RecentWork
  BY NextIsWritten
<1>2. todo # <<>> /\ at' = at /\ todo' = Tail(todo) /\ todo \in Seq(Notes)
  BY DEF IsNext
<1>3. at \notin {"waiting_review", "dead"} /\ RunStatus \notin Final
  BY <1>2 DEF HistoryIInv, OpenWhileWriting
<1>4. CASE e.type = "status" /\ e.word = "failed"
  <2>1. at = "over" /\ Len(todo) = 1
    BY <1>4 DEF IsNext, IsPending
  <2>2. todo' = <<>>
    <3>1. Tail(todo) \in Seq(Notes) /\ Len(Tail(todo)) = 0
      BY <1>2, <2>1, RestIs
    <3> QED
      BY <1>2, <3>1
  <2>3. RunStatus' = "failed" /\ RecentWork' = "failed"
    BY <1>1, <1>4 DEF Tells, Word, Final
  <2> QED
    BY <1>2, <2>1, <2>2, <2>3 DEF OpenWhileWriting, StoppedIsTold
<1>5. CASE ~(e.type = "status" /\ e.word = "failed")
  <2>1. RunStatus' \notin Final
    <3>1. e.type = "status" => e.word \notin Final
      BY <1>5 DEF IsNext, IsPending, Final
    <3> QED
      BY <1>1, <1>3, <3>1
  <2> QED
    BY <1>2, <1>3, <2>1 DEF OpenWhileWriting, StoppedIsTold, Final
<1> QED
  BY <1>4, <1>5

LEMMA NextKeepsCause ==
  ASSUME HistoryIInv, NEW e, IsNext(e)
  PROVE  StoppedForCause'
<1>1. BlameMoves(Projected', Projected, e)
  BY NextIsWritten
<1>2. /\ todo # <<>> /\ at' = at /\ todo' = Tail(todo) /\ todo \in Seq(Notes) /\ cause' = cause /\ todo[1] = e
      /\ e.type = "status" => e.word # "cancelled"
  BY DEF IsNext, IsPending
<1>3. PICK n : n = Len(todo)
  OBVIOUS
<1>4. n \in Nat \ {0} /\ Len(todo') = n - 1 /\ \A i \in 1..(n - 1) : todo'[i] = todo[i + 1]
  BY <1>2, <1>3, RestIs
<1>5. cause # None => at = "over"
  BY DEF HistoryIInv, StoppedForCause
<1>6. ASSUME cause \notin {None, "planning", "interrupted", "rejected"}
      PROVE  /\ Len(todo') <= 1 => Projected'.blame = cause'
             /\ Len(todo') > 1 => Blames(todo'[Len(todo') - 1], cause')
             /\ todo' # <<>> => todo'[Len(todo')].type = "status"
  <2>1. /\ n <= 1 => Projected.blame = cause
        /\ n > 1 => Blames(todo[n - 1], cause)
        /\ todo[n].type = "status"
    BY <1>2, <1>3, <1>6 DEF HistoryIInv, StoppedForCause
  <2>2. CASE n = 1
    <3>1. Projected.blame = cause /\ e.type = "status" /\ Projected.blame # None
      BY <1>2, <1>6, <2>1, <2>2
    <3>2. Projected'.blame = cause'
      BY <1>1, <1>2, <3>1 DEF BlameMoves
    <3>3. Len(todo') = 0 /\ todo' = <<>>
      <4>1. Tail(todo) \in Seq(Notes) /\ Len(Tail(todo)) = 0
        BY <1>2, <1>4, <2>2, RestIs
      <4> QED
        BY <1>2, <4>1
    <3> QED
      BY <3>2, <3>3
  <2>3. CASE n = 2
    <3>1. Blames(e, cause) /\ Len(todo') = 1 /\ todo'[1] = todo[2]
      <4>1. n > 1 /\ n - 1 = 1 /\ 1 \in 1..(n - 1) /\ 1 + 1 = n
        BY <2>3
      <4>2. Blames(todo[1], cause)
        BY <2>1, <4>1
      <4>3. todo'[1] = todo[n]
        BY <1>4, <4>1
      <4> QED
        BY <1>2, <1>4, <2>3, <4>1, <4>2, <4>3
    <3>2. Projected'.blame = cause'
      BY <1>1, <1>2, <3>1 DEF BlameMoves, Blames
    <3>3. todo'[Len(todo')].type = "status"
      BY <2>1, <2>3, <3>1
    <3> QED
      BY <3>1, <3>2, <3>3
  <2>4. CASE n > 2
    <3>1. /\ Len(todo') > 1 /\ (n - 1) - 1 \in 1..(n - 1) /\ ((n - 1) - 1) + 1 = n - 1
          /\ n - 1 \in 1..(n - 1) /\ (n - 1) + 1 = n
      BY <1>4, <2>4
    <3>2. todo'[Len(todo') - 1] = todo[n - 1] /\ todo'[Len(todo')] = todo[n]
      <4>1. todo'[(n - 1) - 1] = todo[n - 1]
        BY <1>4, <3>1
      <4>2. todo'[n - 1] = todo[n]
        BY <1>4, <3>1
      <4> QED
        BY <1>4, <4>1, <4>2
    <3>3. ~(Len(todo') <= 1)
      BY <1>4, <2>4
    <3>4. Blames(todo'[Len(todo') - 1], cause')
      <4>1. Blames(todo[n - 1], cause) /\ cause' = cause
        BY <1>2, <2>1, <2>4, <1>4
      <4> QED
        BY <3>2, <4>1
    <3>5. todo'[Len(todo')].type = "status"
      BY <2>1, <3>2
    <3> QED
      BY <3>3, <3>4, <3>5, Zenon
  <2> QED
    BY <1>4, <2>2, <2>3, <2>4
<1> QED
  BY <1>2, <1>5, <1>6 DEF StoppedForCause

LEMMA NextKeepsWork ==
  ASSUME HistoryIInv, NEW e, IsNext(e)
  PROVE  WorkIsAllowed'
<1>1. /\ \A o : LastOf(o)' = IF e.order = o /\ e.type \in OrderTypes THEN e.type ELSE LastOf(o)
      /\ ToSet(events') = ToSet(events) \cup {e}
  BY NextIsWritten
<1>2. /\ todo # <<>> /\ at' = at /\ todo' = Tail(todo) /\ todo \in Seq(Notes) /\ todo[1] = e /\ external' = external
      /\ events' = Append(events, e) /\ e \in Notes
  BY DEF IsNext
<1>3. PICK n : n = Len(todo)
  OBVIOUS
<1>4. n \in Nat \ {0} /\ Len(todo') = n - 1 /\ \A i \in 1..(n - 1) : todo'[i] = todo[i + 1]
  BY <1>2, <1>3, RestIs
<1>5. \A s : IsApproved(s) => IsApproved(s)'
  BY <1>1, ApprovalStays
<1>6. ASSUME at \in {"waiting_approval", "starting", "working"}
      PROVE  /\ \A i \in 1..Len(todo') : todo'[i].type \in {"policy", "status", "started"}
             /\ (\E s \in Steps : ~StepDone(s))'
             /\ at = "starting" => (NextStep \in external => IsApproved(NextStep))'
  <2>1. /\ \A i \in 1..n : todo[i].type \in {"policy", "status", "started"}
        /\ \E s \in Steps : ~StepDone(s)
        /\ at = "starting" => (NextStep \in external => IsApproved(NextStep))
    BY <1>3, <1>6 DEF HistoryIInv, WorkIsAllowed
  <2>2. \A i \in 1..(n - 1) : todo'[i].type \in {"policy", "status", "started"}
    <3>1. \A i \in 1..(n - 1) : i + 1 \in 1..n
      BY <1>4
    <3> QED
      BY <1>4, <2>1, <3>1
  <2>3. e.type \in {"policy", "status", "started"}
    <3>1. 1 \in 1..n
      BY <1>4
    <3> QED
      BY <1>2, <2>1, <3>1
  <2>4. e.type # "evidence" /\ e.type \notin OrderTypes
    BY <2>3 DEF OrderTypes
  <2>5. \A o \in Orders : OrderDone(o)' = OrderDone(o)
    BY <1>1, <2>4 DEF OrderDone
  <2>6. (\A s \in Steps : StepDone(s)' = StepDone(s)) /\ NextStep' = NextStep
    BY <1>1, <2>4, <2>5, WorkStays
  <2>7. (\E s \in Steps : ~StepDone(s))'
    BY <2>1, <2>6
  <2>8. ASSUME at = "starting" PROVE (NextStep \in external => IsApproved(NextStep))'
    <3>1. PICK s : s = NextStep
      OBVIOUS
    <3>2. s = NextStep' /\ (s \in external' => IsApproved(s)')
      BY <1>2, <1>5, <2>1, <2>6, <2>8, <3>1
    <3> QED
      BY <3>2, NamesOfWorkThen
  <2> QED
    BY <1>4, <2>2, <2>7, <2>8
<1>7. ASSUME at \in {"teaming", "ordered"}
      PROVE  Team # {} /\ (Max(Team) \in external => IsApproved(Max(Team)))'
  <2>1. Team # {} /\ (Max(Team) \in external => IsApproved(Max(Team)))
    BY <1>7 DEF HistoryIInv, WorkIsAllowed
  <2>2. PICK s : s = Max(Team)
    OBVIOUS
  <2>3. s \in external' => IsApproved(s)'
    BY <1>2, <1>5, <2>1, <2>2
  <2> QED
    BY <2>1, <2>2, <2>3
<1>8. ASSUME at = "ordered"
      PROVE  (\E o \in Orders : ~OrderDone(o))' /\ todo' = <<>> /\ (LastOf(Order) # None)'
  <2>1. /\ \E o \in Orders : ~OrderDone(o)
        /\ Len(todo) = 1 /\ todo[1].order = Order /\ todo[1].type \in {"dispatched", "resumed"}
    BY <1>2, <1>8 DEF HistoryIInv, WorkIsAllowed
  <2>2. PICK o \in Orders : o = Order /\ ~OrderDone(o)
    BY <2>1, OrderIs
  <2>3. e.order = o /\ e.type \in {"dispatched", "resumed"}
    BY <1>2, <2>1, <2>2
  <2>4. LastOf(o)' = e.type /\ e.type # None /\ e.type # "order completed"
    BY <1>1, <2>3 DEF OrderTypes, None
  <2>5. \A q \in Orders : OrderDone(q)' = OrderDone(q)
    <3>1. ASSUME NEW q \in Orders, q # o PROVE OrderDone(q)' = OrderDone(q)
      BY <1>1, <2>3, <3>1 DEF OrderDone
    <3>2. OrderDone(o)' = OrderDone(o)
      <4>1. ~OrderDone(o)'
        BY <2>4 DEF OrderDone
      <4>2. OrderDone(o) \in BOOLEAN /\ OrderDone(o)' \in BOOLEAN
        BY DEF OrderDone
      <4> QED
        BY <2>2, <4>1, <4>2
    <3> QED
      BY <3>1, <3>2
  <2>6. Order' = o
    <3>1. {q \in Orders : ~OrderDone(q)}' = {q \in Orders : ~OrderDone(q)}
      BY <2>5
    <3> QED
      BY <2>2, <3>1 DEF Order
  <2>7. (LastOf(Order) # None)'
    BY <2>4, <2>6, NamesOfWorkThen
  <2>8. (\E q \in Orders : ~OrderDone(q))'
    BY <2>2, <2>5
  <2>9. todo' = <<>>
    <3>1. Tail(todo) \in Seq(Notes) /\ Len(Tail(todo)) = 0
      BY <1>2, <2>1, RestIs
    <3> QED
      BY <1>2, <3>1
  <2> QED
    BY <2>7, <2>8, <2>9
<1> QED
  BY <1>2, <1>6, <1>7, <1>8 DEF WorkIsAllowed

LEMMA WriteNextKeeps ==
  ASSUME HistoryIInv, WriteNext
  PROVE  HistoryIInv'
<1>1. PICK e : IsNext(e)
  BY NextNote
<1>2. Sane(events', external')
  BY <1>1, NextIsWritten
<1>3. TypedNow'
  <2>1. TypedNow
    BY SaneThen
  <2>2. todo' \in Seq(Notes) /\ at' = at /\ safe' = safe /\ cause' = cause
    BY <1>1, RestIs DEF IsNext
  <2> QED
    BY <2>1, <2>2 DEF TypedNow
<1>4. SoundHistory' /\ AttemptsAreKnown' /\ HistoryIsLegal'
  BY <1>2, <1>3, SaneAfter
<1>5. PendingIsLegal' /\ OpenWhileWriting' /\ StoppedIsTold' /\ StoppedForCause' /\ WorkIsAllowed'
  BY <1>1, NextKeepsPending, NextKeepsOpen, NextKeepsCause, NextKeepsWork
<1> QED
  BY <1>4, <1>5 DEF HistoryIInv

\* A run begins with the note that it is being planned.
LEMMA FirstHistory ==
  ASSUME NEW e, e = Status("planning"), NEW h, h = <<e>>, NEW ext
  PROVE  /\ Sane(h, ext) /\ StatusIn(h) = "planning"
         /\ \A o : LastIn(h, o) = None
<1>1. e \in Notes /\ e.type = "status" /\ e.word = "planning"
  BY StatusNoteIs DEF StatusWords
<1>2. PICK z : z = <<>>
  OBVIOUS
<1>3. z \in Seq(Notes) /\ Len(z) = 0 /\ ToSet(z) = {}
  BY <1>2 DEF ToSet
<1>4. h = Append(z, e) /\ Len(h) = 1 /\ h[1] = e /\ h \in Seq(Notes) /\ h # <<>> /\ DOMAIN h = 1..1
  BY <1>1, <1>2
<1>5. IsMore(h, z, e)
  BY <1>1, <1>3, <1>4, MoreIs
<1>6. h \in SoundHistories
  BY <1>1, <1>4 DEF SoundHistories
<1>7. StatusIn(h) = "planning"
  <2>1. StatusIn(h) = LastNote(h, StatusNotes).word
    BY <1>6, StatusInIs
  <2>2. e \in StatusNotes
    BY <1>1 DEF StatusNotes
  <2>3. LastNote(h, StatusNotes) = e
    BY <1>5, <2>2, LastNoteMore
  <2> QED
    BY <1>1, <2>1, <2>3
<1>8. ASSUME NEW o PROVE LastIn(h, o) = None
  <2>1. LastIn(h, o) = LastNote(h, OrderNotes(o)).type
    BY <1>4, LastInIs
  <2>2. e \notin OrderNotes(o)
    BY <1>1 DEF OrderNotes, OrderTypes
  <2>3. LastNote(h, OrderNotes(o)) = LastNote(z, OrderNotes(o))
    BY <1>5, <2>2, LastNoteMore
  <2>4. LastNote(z, OrderNotes(o)) = NoNote
    BY <1>3, LastNoteIs
  <2> QED
    BY <2>1, <2>3, <2>4 DEF NoNote, Note
<1>9. AuditIn(z) = NoAudit
  <2>1. PICK f : IsAudit(f, z, Len(z)) /\ AuditIn(z) = f[Len(z)]
    BY <1>3, AuditInIs
  <2>2. 0 \in 0..0
    OBVIOUS
  <2> QED
    BY <1>3, <2>1, <2>2 DEF IsAudit
<1>10. NoAudit \in AuditType
  BY DEF NoAudit, AuditType, None
<1>11. AuditIn(h) \in AuditType /\ AuditIn(h).status = "planning"
  <2>1. AuditIn(h) = Project(NoAudit, e)
    BY <1>5, <1>9, AuditMore
  <2>2. Moved(Project(NoAudit, e), NoAudit, e)
    BY <1>1, <1>10, StatusMoves DEF StatusWords
  <2> QED
    BY <1>1, <2>1, <2>2 DEF Moved
<1>12. KnownIn(h)
  BY <1>7, <1>8, <1>11 DEF KnownIn, None
<1>13. LegalIn(h, ext)
  <2>1. e # Status("completed")
    <3>1. Status("completed").word = "completed"
      BY DEF Status, Note
    <3> QED
      BY <1>1, <3>1
  <2>2. LegalAt(h, 1, ext)
    BY <1>1, <1>4, <2>1 DEF LegalAt
  <2>3. \A i \in 1..1 : i = 1
    OBVIOUS
  <2> QED
    BY <1>4, <2>2, <2>3 DEF LegalIn
<1> QED
  BY <1>6, <1>7, <1>8, <1>12, <1>13 DEF Sane, StatusWords

\* And blames nobody.
LEMMA FirstAudit ==
  ASSUME NEW e, e = Status("planning"), NEW h, h = <<e>>
  PROVE  AuditIn(h).blame = None
<1>1. e \in Notes /\ e.type = "status" /\ e.word = "planning"
  BY StatusNoteIs DEF StatusWords
<1>2. PICK z : z = <<>>
  OBVIOUS
<1>3. z \in Seq(Notes) /\ Len(z) = 0 /\ h = Append(z, e) /\ h \in Seq(Notes)
  BY <1>1, <1>2
<1>4. IsMore(h, z, e)
  BY <1>1, <1>3, MoreIs
<1>5. PICK f : IsAudit(f, z, Len(z)) /\ AuditIn(z) = f[Len(z)]
  BY <1>3, AuditInIs
<1>6. 0 \in 0..0
  OBVIOUS
<1>7. AuditIn(z) = NoAudit
  BY <1>3, <1>5, <1>6 DEF IsAudit
<1>8. AuditIn(h) = Project(NoAudit, e)
  BY <1>4, <1>7, AuditMore
<1> QED
  BY <1>1, <1>8 DEF Project, NoAudit, None

LEMMA InitKeeps == HistoryInit => HistoryIInv
<1> SUFFICES ASSUME HistoryInit PROVE HistoryIInv
  OBVIOUS
<1>1. PICK e : e = Status("planning")
  OBVIOUS
<1>2. events = <<e>> /\ todo = <<>> /\ at = "planning" /\ safe \in BOOLEAN /\ cause = None
  BY <1>1 DEF HistoryInit
<1>3. PICK h : h = events
  OBVIOUS
<1>4. PICK ext : ext = external
  OBVIOUS
<1>5. Sane(h, ext) /\ StatusIn(h) = "planning"
  BY <1>1, <1>2, <1>3, FirstHistory
<1>6. Sane(events, external) /\ RunStatus = "planning"
  BY <1>3, <1>4, <1>5, Readings
<1>7. TypedNow
  BY <1>2 DEF TypedNow, Places, Causes
<1>8. SoundHistory /\ AttemptsAreKnown /\ HistoryIsLegal
  BY <1>6, <1>7, SaneThen
<1>9. PendingIsLegal
  BY <1>2, NothingPending DEF PendingIsLegal
<1>10. OpenWhileWriting /\ StoppedForCause /\ WorkIsAllowed /\ StoppedIsTold
  BY <1>2, <1>6 DEF OpenWhileWriting, StoppedForCause, WorkIsAllowed, StoppedIsTold, Final
<1> QED
  BY <1>8, <1>9, <1>10 DEF HistoryIInv

\* Every step of the executor, of the owner and of recovery keeps the invariant.
LEMMA HistoryStep == HistoryIInv /\ [HistoryNext]_historyVars => HistoryIInv'
<1> SUFFICES ASSUME HistoryIInv, [HistoryNext]_historyVars PROVE HistoryIInv'
  OBVIOUS
<1>1. CASE WriteNext
  BY <1>1, WriteNextKeeps
<1>2. CASE Plan
  BY <1>2, PlanKeeps
<1>3. CASE Decide
  BY <1>3, DecideKeeps
<1>4. CASE Approve
  BY <1>4, ApproveKeeps
<1>5. CASE StartSingle
  BY <1>5, StartSingleKeeps
<1>6. CASE EndSingle
  BY <1>6, EndSingleKeeps
<1>7. CASE StartOrder
  BY <1>7, StartOrderKeeps
<1>8. CASE EndOrder
  BY <1>8, EndOrderKeeps
<1>9. CASE Verify
  BY <1>9, VerifyKeeps
<1>10. CASE RecordVerdict
  BY <1>10, RecordVerdictKeeps
<1>11. CASE SettleReview
  BY <1>11, SettleReviewKeeps
<1>12. CASE Cancel
  BY <1>12, CancelKeeps
<1>13. CASE Die
  BY <1>13, DieKeeps
<1>14. CASE Recover
  BY <1>14, RecoverKeeps
<1>16. CASE Reject
  BY <1>16, RejectKeeps
<1>15. CASE UNCHANGED historyVars
  <2>1. events' = events /\ todo' = todo /\ at' = at /\ safe' = safe /\ external' = external /\ cause' = cause
    BY <1>15 DEF historyVars
  <2>2. Sane(events', external') /\ TypedNow'
    BY <2>1, SaneThen DEF TypedNow
  <2>3. SoundHistory' /\ AttemptsAreKnown' /\ HistoryIsLegal'
    BY <2>2, SaneAfter
  <2>4. RunStatus' = RunStatus /\ RecentWork' = RecentWork /\ Projected' = Projected
    BY <2>1, Unwritten
  <2>5. PendingIsLegal' /\ OpenWhileWriting' /\ StoppedForCause' /\ StoppedIsTold'
    BY <2>1, <2>4 DEF HistoryIInv, PendingIsLegal, OpenWhileWriting, StoppedForCause, StoppedIsTold
  <2>6. WorkIsAllowed'
    <3>1. /\ \A s : StepDone(s)' = StepDone(s) /\ IsApproved(s)' = IsApproved(s)
          /\ \A o : LastOf(o)' = LastOf(o) /\ OrderDone(o)' = OrderDone(o)
          /\ NextStep' = NextStep /\ Order' = Order
      BY <2>1, Unwritten
    <3>2. (LastOf(Order) # None) => (LastOf(Order) # None)'
      BY <3>1, NamesOfWorkThen
    <3>3. (NextStep \in external => IsApproved(NextStep)) => (NextStep \in external => IsApproved(NextStep))'
      BY <2>1, <3>1, NamesOfWorkThen
    <3>4. WorkIsAllowed
      BY DEF HistoryIInv
    <3> QED
      BY <2>1, <3>1, <3>2, <3>3, <3>4 DEF WorkIsAllowed
  <2> QED
    BY <2>3, <2>5, <2>6 DEF HistoryIInv
<1> QED
  BY <1>1, <1>2, <1>3, <1>4, <1>5, <1>6, <1>7, <1>8, <1>9, <1>10, <1>11, <1>12, <1>13, <1>14, <1>15, <1>16 DEF HistoryNext

\* Only a run with a step the owner must approve waits for one, and while it is worked on nothing but the
\* execution of an earlier attempt can have been blamed: so it stays when the owner rejects it.
Unblamed ==
  /\ at = "waiting_approval" => external # {}
  /\ external # {} /\ at \notin {"over", "dead", "waiting_review"} => Projected.blame \in {None, "execution"}
  /\ cause = "rejected" => at = "over" /\ todo = <<>> /\ Projected.blame \in {"unknown", "execution"}

LEMMA UnblamedStart == HistoryInit => Unblamed
<1> SUFFICES ASSUME HistoryInit PROVE Unblamed
  OBVIOUS
<1>1. PICK e : e = Status("planning")
  OBVIOUS
<1>2. PICK h : h = events
  OBVIOUS
<1>3. at = "planning" /\ cause = None /\ h = <<e>>
  BY <1>1, <1>2 DEF HistoryInit
<1>4. AuditIn(h).blame = None
  BY <1>1, <1>3, FirstAudit
<1>5. Projected.blame = None
  BY <1>2, <1>4, Readings
<1> QED
  BY <1>3, <1>5 DEF Unblamed, None

LEMMA UnblamedStep == HistoryIInv /\ Unblamed /\ [HistoryNext]_historyVars => Unblamed'
<1> SUFFICES ASSUME HistoryIInv, Unblamed, [HistoryNext]_historyVars PROVE Unblamed'
  OBVIOUS
<1>1. CASE WriteNext
  <2>1. PICK e : IsNext(e)
    BY <1>1, NextNote
  <2>2. BlameMoves(Projected', Projected, e)
    BY <2>1, NextIsWritten
  <2>3. at' = at /\ external' = external /\ cause' = cause /\ todo # <<>> /\ (at # "over" => Unaccusing(e))
    BY <2>1 DEF IsNext, IsPending, Unaccusing
  <2> QED
    BY <2>2, <2>3 DEF Unblamed, BlameMoves
<1>2. CASE Reject
  <2>1. PICK e : e = Status("failed")
    OBVIOUS
  <2>2. e \in Notes /\ e.type = "status" /\ e.word = "failed" /\ Orderly(events, e) /\ Lawful(events, e, external)
    BY <2>1, StatusNoteIs, StatusMayBe DEF StatusWords
  <2>3. /\ at = "waiting_approval" /\ events' = Append(events, e) /\ external' = external
        /\ at' = "over" /\ todo' = <<>>
    BY <1>2, <2>1 DEF Reject, Ready
  <2>4. BlameMoves(Projected', Projected, e)
    BY <2>2, <2>3, Written
  <2>5. Projected.blame \in {None, "execution"}
    BY <2>3 DEF Unblamed
  <2>6. Projected'.blame \in {"unknown", "execution"}
    BY <2>2, <2>4, <2>5 DEF BlameMoves, None
  <2> QED
    BY <2>3, <2>6 DEF Unblamed
<1>3. CASE at' \in {"over", "dead", "waiting_review"} /\ cause' # "rejected"
  BY <1>3 DEF Unblamed
<1>4. CASE /\ events' = events /\ external' = external /\ at \notin {"over", "dead", "waiting_review"}
           /\ at' = "waiting_approval" => external # {}
           /\ cause' # "rejected"
  <2>1. Projected' = Projected
    BY <1>4, Unwritten
  <2> QED
    BY <1>4, <2>1 DEF Unblamed
<1>5. CASE Recover
  <2>1. CASE external # {}
    BY <1>3, <1>5, <2>1 DEF Recover, HistoryIInv, StoppedForCause
  <2>2. CASE external = {}
    <3>1. external' = {} /\ at' \in {"over", "queued"} /\ cause' # "rejected"
      BY <1>5, <2>2 DEF Recover, HistoryIInv, StoppedForCause, None
    <3> QED
      BY <3>1 DEF Unblamed
  <2> QED
    BY <2>1, <2>2
<1>6. CASE UNCHANGED historyVars
  <2>1. Projected' = Projected
    BY <1>6, Unwritten DEF historyVars
  <2> QED
    BY <1>6, <2>1 DEF Unblamed, historyVars
<1>7. ASSUME at \notin {"over", "waiting_review"} PROVE cause = None
  BY <1>7, WorkedOn
<1>8. CASE Plan \/ Decide \/ Approve \/ StartSingle
  BY <1>4, <1>7, <1>8 DEF Plan, Decide, Approve, StartSingle, Ready, Writes, None
<1>9. CASE EndSingle \/ StartOrder \/ EndOrder \/ Verify
  BY <1>4, <1>7, <1>9 DEF EndSingle, StartOrder, EndOrder, Verify, Ready, Writes, Fails, None
<1>10. CASE RecordVerdict \/ SettleReview
  <2>1. at' \in {"over", "waiting_review"} /\ (cause' = cause \/ cause' = "verification") /\ at \in {"verifying", "waiting_review"}
    BY <1>10 DEF RecordVerdict, SettleReview, Judge, Ready
  <2>2. cause' # "rejected"
    BY <2>1 DEF Unblamed
  <2> QED
    BY <1>3, <2>1, <2>2
<1>11. CASE Cancel \/ Die
  BY <1>3, <1>11 DEF Cancel, Die, None
<1> QED
  BY <1>1, <1>2, <1>5, <1>6, <1>8, <1>9, <1>10, <1>11 DEF HistoryNext

\* What is shown of the audit: attempts still open may be taken for completed, the rest is as projected.
ShownOf(b, a) ==
  /\ b.status = a.status /\ b.blame = a.blame /\ DOMAIN b.attempts = DOMAIN a.attempts
  /\ \A i \in DOMAIN a.attempts : /\ b.attempts[i].order = a.attempts[i].order /\ b.attempts[i].step = a.attempts[i].step
                                  /\ b.attempts[i].outcome = Swept(a, a.attempts[i])

LEMMA SweepShows ==
  ASSUME NEW a \in AuditType, NEW b,
         b = [a EXCEPT !.attempts = [i \in DOMAIN a.attempts |-> [a.attempts[i] EXCEPT !.outcome = Swept(a, a.attempts[i])]]]
  PROVE  ShownOf(b, a)
<1> DEFINE swept == [i \in DOMAIN a.attempts |-> [a.attempts[i] EXCEPT !.outcome = Swept(a, a.attempts[i])]]
<1>1. ASSUME NEW i \in DOMAIN a.attempts
      PROVE  /\ swept[i].order = a.attempts[i].order /\ swept[i].step = a.attempts[i].step
             /\ swept[i].outcome = Swept(a, a.attempts[i])
  <2>1. a.attempts[i] \in AuditAttempt
    BY AuditFields
  <2>2. PICK t : t = a.attempts[i]
    OBVIOUS
  <2>3. PICK v : v = Swept(a, t)
    OBVIOUS
  <2>4. swept[i] = [t EXCEPT !.outcome = v]
    BY <2>2, <2>3
  <2> HIDE DEF swept
  <2> QED
    BY <2>1, <2>2, <2>3, <2>4 DEF AuditAttempt
<1>2. DOMAIN swept = DOMAIN a.attempts
  OBVIOUS
<1>3. b.attempts = swept /\ b.status = a.status /\ b.blame = a.blame
  <2>1. b = [a EXCEPT !.attempts = swept]
    OBVIOUS
  <2> HIDE DEF swept
  <2> QED
    BY <2>1 DEF AuditType
<1> HIDE DEF swept
<1> QED
  BY <1>1, <1>2, <1>3 DEF ShownOf

LEMMA AuditShows ==
  ASSUME Projected \in AuditType
  PROVE  ShownOf(Audit, Projected)
<1>1. PICK a : a = Projected
  OBVIOUS
<1>2. Audit = [a EXCEPT !.attempts = [i \in DOMAIN a.attempts |->
                 [a.attempts[i] EXCEPT !.outcome = Swept(a, a.attempts[i])]]]
  BY <1>1 DEF Audit, AuditType
<1> QED
  BY <1>1, <1>2, SweepShows

LEMMA HistoryFollows == HistoryIInv /\ Unblamed => HistoryInv
<1> SUFFICES ASSUME HistoryIInv, Unblamed PROVE HistoryInv
  OBVIOUS
<1>1. Projected \in AuditType /\ Projected.status = RunStatus /\ RunStatus \in StatusWords
  BY DEF HistoryIInv, AttemptsAreKnown, SoundHistory
<1>2. PICK a : a = Projected
  OBVIOUS
<1>3. PICK b : b = Audit
  OBVIOUS
<1>4. ShownOf(b, a) /\ a \in AuditType
  BY <1>1, <1>2, <1>3, AuditShows
<1>5. b.status \in StatusWords /\ b.blame = a.blame /\ a.blame \in {None, "policy", "execution", "verification", "cancelled", "unknown"}
  BY <1>1, <1>2, <1>4 DEF ShownOf, AuditType
<1>6. HistoryTypeOK
  <2>1. FailureStage \in {"planning", "unknown", "policy", "execution", "verification", "cancelled"}
    BY <1>3, <1>5 DEF FailureStage
  <2>2. Audit.status \in StatusWords
    BY <1>3, <1>5
  <2> QED
    BY <2>1, <2>2 DEF HistoryTypeOK, HistoryIInv, SoundHistory, StatusWords
<1>7. AuditNamesTheStage
  <2>1. ASSUME Stopped, cause \notin {None, "planning", "interrupted", "rejected"} PROVE FailureStage = cause
    <3>1. at = "over"
      BY <2>1 DEF HistoryIInv, StoppedForCause
    <3>2. todo = <<>>
      BY <2>1, <3>1 DEF HistoryIInv, OpenWhileWriting, Stopped, Final
    <3>3. Len(todo) <= 1
      BY <3>2
    <3>4. Projected.blame = cause
      BY <2>1, <3>3 DEF HistoryIInv, StoppedForCause
    <3>5. Audit.blame = cause
      BY <1>2, <1>3, <1>5, <3>4
    <3> QED
      BY <2>1, <3>5 DEF FailureStage
  <2>2. ASSUME cause = "rejected" PROVE FailureStage \in {"unknown", "execution"}
    <3>1. Projected.blame \in {"unknown", "execution"}
      BY <2>2 DEF Unblamed
    <3>2. Audit.blame = Projected.blame
      BY <1>2, <1>3, <1>5
    <3> QED
      BY <3>1, <3>2 DEF FailureStage, None
  <2> QED
    BY <2>1, <2>2 DEF AuditNamesTheStage
<1>8. CompletedOrdersAreShown
  <2> SUFFICES ASSUME NEW o \in Orders, OrderDone(o)
               PROVE  Audit.attempts[Latest(Audit, 0, o)].outcome = "completed"
    BY DEF CompletedOrdersAreShown
  <2>1. LastOf(o) # None
    BY DEF OrderDone, None
  <2>2. Latest(a, 0, o) # 0 /\ a.attempts[Latest(a, 0, o)].outcome = "completed"
    BY <1>2, <2>1 DEF HistoryIInv, AttemptsAreKnown
  <2>3. PICK i : i = Latest(a, 0, o)
    OBVIOUS
  <2>4. i \in DOMAIN a.attempts /\ a.attempts[i].outcome = "completed"
    BY <1>4, <2>2, <2>3, LatestPlace
  <2>5. Latest(b, 0, o) = i
    <3>1. {k \in DOMAIN b.attempts : b.attempts[k].order = o /\ (o = NoOrder => b.attempts[k].step = 0)}
          = {k \in DOMAIN a.attempts : a.attempts[k].order = o /\ (o = NoOrder => a.attempts[k].step = 0)}
      BY <1>4 DEF ShownOf
    <3> QED
      BY <2>3, <3>1 DEF Latest
  <2>6. b.attempts[i].outcome = "completed"
    BY <1>4, <2>4 DEF ShownOf, Swept
  <2> QED
    BY <1>3, <2>5, <2>6
<1> QED
  BY <1>6, <1>7, <1>8 DEF HistoryInv, HistoryIInv

\* Whatever was interrupted, resumed, failed or settled, the events alone tell it right: the history passes
\* the check of an import, the audit puts a stop down to its cause - a rejection by the owner, which leaves no
\* cause in the journal, to "unknown" or to an execution that failed before it - and shows a completed order as
\* completed, and the Main Agent is told of a run that is over as it stands (invariants.ts, run-audit.ts,
\* situation-briefing.ts).
THEOREM HistoryHolds == HistorySpec => []HistoryInv
<1>1. HistoryInit => HistoryIInv
  BY InitKeeps
<1>2. HistoryIInv /\ [HistoryNext]_historyVars => HistoryIInv'
  BY HistoryStep
<1>3. HistoryInit => Unblamed
  BY UnblamedStart
<1>4. HistoryIInv /\ Unblamed /\ [HistoryNext]_historyVars => Unblamed'
  BY UnblamedStep
<1>5. HistoryIInv /\ Unblamed => HistoryInv
  BY HistoryFollows
<1> QED
  BY <1>1, <1>2, <1>3, <1>4, <1>5, PTL DEF HistorySpec
=============================================================================

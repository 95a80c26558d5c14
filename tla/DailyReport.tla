---------------------------- MODULE DailyReport ----------------------------
(***************************************************************************)
(* The daily report: daily-report-runner.ts, with the lock of              *)
(* workspace-lock.ts under which every operation on the delivery record    *)
(* runs, and the journal the report is drawn from.                         *)
(*                                                                         *)
(* The delivery record is in a database all processes share; the sequence  *)
(* the last report covered is a field of the runner, so a new process      *)
(* starts from 0.                                                          *)
(***************************************************************************)
EXTENDS Integers

CONSTANTS
  Runners,       \* processes with a report runner
  MaxDay,        \* bound of the calendar
  MaxSequence,   \* bound of the journal
  MaxResends,    \* bound of the retries the owner asks for, per day
  MaxStops       \* bound of the processes that die

ASSUME DailyReportConstants ==
  /\ MaxDay \in Nat \ {0} /\ MaxSequence \in Nat /\ MaxResends \in Nat /\ MaxStops \in Nat
  /\ "free" \notin Runners

Days == 1..MaxDay

VARIABLES
  today,
  sequence,   \* of the last event of the journal
  delivery,   \* per day, the status of its row, "none" without a row
  runner,     \* per process, [at, day, covered, batch]
  lock,       \* the process that holds the delivery lock, or "free"
  mails,      \* per day, how many mails left
  mailed,     \* the events some mail carried
  resends,    \* per day, how often the owner asked for a retry
  stops

reportHistory == <<mails, mailed, resends, stops>>
reportVars == <<today, sequence, delivery, runner, lock, reportHistory>>

Idle(covered) == [at |-> "idle", day |-> 0, covered |-> covered, batch |-> {}]

DailyReportInit ==
  /\ today = 1 /\ sequence = 0
  /\ delivery = [y \in Days |-> "none"]
  /\ runner = [p \in Runners |-> Idle(0)]
  /\ lock = "free"
  /\ mails = [y \in Days |-> 0] /\ mailed = {}
  /\ resends = [y \in Days |-> 0] /\ stops = 0

Is(p, where) == runner[p].at = where
Goes(p, where) == runner' = [runner EXCEPT ![p].at = where]

Journal ==
  /\ sequence < MaxSequence
  /\ sequence' = sequence + 1
  /\ UNCHANGED <<today, delivery, runner, lock, reportHistory>>

Midnight ==
  /\ today < MaxDay
  /\ today' = today + 1
  /\ UNCHANGED <<sequence, delivery, runner, lock, reportHistory>>
-----------------------------------------------------------------------------
(* maybeSend.                                                              *)

\* The day is read before the lock is waited for.
maybeSend(p) ==
  /\ Is(p, "idle")
  /\ runner' = [runner EXCEPT ![p].at = "waiting", ![p].day = today]
  /\ UNCHANGED <<today, sequence, delivery, lock, reportHistory>>

Dispatch(p) ==
  /\ delivery' = [delivery EXCEPT ![runner[p].day] = "dispatching"]
  /\ lock' = p
  /\ Goes(p, "sending")
  /\ UNCHANGED <<today, sequence, reportHistory>>

\* Under the lock: a delivery that ended is left alone, one that was started
\* by a process that is gone has an outcome nobody knows.
enter(p) ==
  /\ Is(p, "waiting") /\ lock = "free"
  /\ LET y == runner[p].day
     IN \/ /\ delivery[y] \in {"none", "ready"}
           /\ Dispatch(p)
        \/ /\ delivery[y] \in {"sent", "dismissed", "unknown", "dispatching"}
           /\ delivery' = [delivery EXCEPT ![y] =
                IF @ = "dispatching" THEN "unknown" ELSE @]
           /\ runner' = [runner EXCEPT ![p] = Idle(@.covered)]
           /\ UNCHANGED <<today, sequence, lock, reportHistory>>

\* send, up to the mail: the events since the last report are read, and count
\* as covered.
readSince(p) ==
  /\ Is(p, "sending")
  /\ runner' = [runner EXCEPT ![p] =
       [at |-> "mailing", day |-> @.day, covered |-> sequence, batch |-> (@.covered + 1)..sequence]]
  /\ UNCHANGED <<today, sequence, delivery, lock, reportHistory>>

\* The opportunities cannot be listed, the mail leaves, or an error is
\* reported although it left.
sendEmail(p) ==
  /\ Is(p, "mailing")
  /\ \/ /\ mails' = [mails EXCEPT ![runner[p].day] = @ + 1]
        /\ mailed' = mailed \cup runner[p].batch
        /\ Goes(p, "succeeded") \/ Goes(p, "failed")
     \/ UNCHANGED <<mails, mailed>> /\ Goes(p, "failed")
  /\ UNCHANGED <<today, sequence, delivery, lock, resends, stops>>

\* The outcome is recorded, in the worst case not at all.
settle(p) ==
  /\ runner[p].at \in {"failed", "succeeded"}
  /\ \E s \in {"unknown", "dispatching"} \cup (IF Is(p, "succeeded") THEN {"sent"} ELSE {}) :
       delivery' = [delivery EXCEPT ![runner[p].day] = s]
  /\ runner' = [runner EXCEPT ![p] = Idle(@.covered)]
  /\ lock' = "free"
  /\ UNCHANGED <<today, sequence, reportHistory>>
-----------------------------------------------------------------------------
(* The owner, from the page of any process.                                *)

\* Mutant of unknownDeliveries: the lock is not waited for.
unknownDeliveriesUnlocked ==
  /\ delivery' = [y \in Days |->
       IF delivery[y] = "dispatching" THEN "unknown" ELSE delivery[y]]
  /\ UNCHANGED <<today, sequence, runner, lock, reportHistory>>

unknownDeliveries ==
  /\ lock = "free"
  /\ delivery' = [y \in Days |->
       IF delivery[y] = "dispatching" THEN "unknown" ELSE delivery[y]]
  /\ UNCHANGED <<today, sequence, runner, lock, reportHistory>>

\* Only today's report can be retried.
resolveDelivery(y) ==
  /\ lock = "free"
  /\ delivery[y] \in {"unknown", "dispatching"}
  /\ \/ /\ y = today /\ resends[y] < MaxResends
        /\ delivery' = [delivery EXCEPT ![y] = "ready"]
        /\ resends' = [resends EXCEPT ![y] = @ + 1]
     \/ /\ delivery' = [delivery EXCEPT ![y] = "dismissed"]
        /\ UNCHANGED resends
  /\ UNCHANGED <<today, sequence, runner, lock, mails, mailed, stops>>

\* The process dies, and its lock with it; a new one starts from nothing.
Stop(p) ==
  /\ stops < MaxStops
  /\ stops' = stops + 1
  /\ runner' = [runner EXCEPT ![p] = Idle(0)]
  /\ lock' = IF lock = p THEN "free" ELSE lock
  /\ UNCHANGED <<today, sequence, delivery, mails, mailed, resends>>

DailyReportNext ==
  \/ Journal \/ Midnight \/ unknownDeliveries
  \/ \E y \in Days : resolveDelivery(y)
  \/ \E p \in Runners :
       \/ maybeSend(p) \/ enter(p) \/ readSince(p) \/ sendEmail(p) \/ settle(p)
       \/ Stop(p)

DailyReportSpec == DailyReportInit /\ [][DailyReportNext]_reportVars
-----------------------------------------------------------------------------
ReportRunner ==
  [at : {"idle", "waiting", "sending", "mailing", "failed", "succeeded"}, day : Days \cup {0},
   covered : 0..MaxSequence, batch : SUBSET (1..MaxSequence)]

DailyReportTypeOK ==
  /\ today \in Days /\ sequence \in 0..MaxSequence
  /\ delivery \in [Days -> {"none", "ready", "dispatching", "unknown", "sent", "dismissed"}]
  /\ runner \in [Runners -> ReportRunner]
  /\ lock \in Runners \cup {"free"}
  /\ mails \in [Days -> Nat] /\ mailed \subseteq 1..MaxSequence
  /\ resends \in [Days -> 0..MaxResends] /\ stops \in 0..MaxStops

\* "another process must not send the same report without an owner decision":
\* whatever dies or overlaps, the mails of a day are at most one, and one more
\* for every retry the owner asked for.
NoBlindResend == \A y \in Days : mails[y] <= 1 + resends[y]

\* While a report is being sent its delivery says so: nobody declares the
\* outcome unknown, hence nobody can ask for a retry, of a mail under way.
UnderWayIsDispatching ==
  \A p \in Runners :
    runner[p].at \in {"sending", "mailing", "failed", "succeeded"} =>
      delivery[runner[p].day] = "dispatching"

\* "a narrower one would drop events, which is the failure this deliberately
\* avoids": once a process sent the report of a day, every event it counts as
\* covered was in some mail.
NothingDropped ==
  \A p \in Runners : Is(p, "succeeded") => 1..runner[p].covered \subseteq mailed

\* Over runners that overlap and die around the moment a mail leaves: a day is
\* mailed once and once more per retry the owner asked for, and a mail under way
\* is recorded as such (daily-report-runner.ts).
DailyReportInv == DailyReportTypeOK /\ NoBlindResend /\ UnderWayIsDispatching
=============================================================================

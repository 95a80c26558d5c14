----------------------------- MODULE BadCaseLog -----------------------------
(* reporting/bad-case-log.ts: the failures of the journal are appended to a    *)
(* file the owner reads; a marker file holds the last sequence appended.  The  *)
(* daemon calls appendNew when it starts and on every maintenance tick, which  *)
(* never overlap, and may die between any two writes.                          *)
EXTENDS Integers, Sequences, SequencesExt

CONSTANTS MaxLines,       \* cases the file holds before it is cut
          MaxHappenings, MaxCrashes     \* bounds

ASSUME LogAssumption == MaxLines \in Nat \ {0} /\ MaxHappenings \in Nat /\ MaxCrashes \in Nat

VARIABLES happened,         \* the journal: TRUE for a failure
          file,           \* sequence numbers in the log, in the order written
          marker,         \* the last sequence; 0 also when the file cannot be read
          fresh,          \* what the pass under way appends
          at,             \* where that pass is
          appended,       \* every sequence ever appended
          crashes

caseVars == <<happened, file, marker, fresh, at, appended, crashes>>

LogInit ==
    /\ happened = <<>> /\ file = <<>> /\ fresh = <<>>
    /\ marker = 0
    /\ at = "idle"
    /\ appended = {}
    /\ crashes = 0

\* What collectBadCases keeps of the journal.
BadCases == {i \in DOMAIN happened : happened[i]}

FreshCases(last) == {i \in BadCases : i > last}

\* The cases of a set in the order of the journal.
InOrder(cases) == {list \in [1..Cardinality(cases) -> cases] :
    ToSet(list) = cases /\ \A i, j \in DOMAIN list : i < j => list[i] < list[j]}

Happen ==                       \* anything is written to the journal
    /\ Len(happened) < MaxHappenings
    /\ \E bad \in BOOLEAN : happened' = Append(happened, bad)
    /\ UNCHANGED <<file, marker, fresh, at, appended, crashes>>

Collect ==
    /\ at = "idle" /\ FreshCases(marker) # {}
    /\ fresh' \in InOrder(FreshCases(marker))
    /\ at' = "appending"
    /\ UNCHANGED <<happened, file, marker, appended, crashes>>

AppendBlock ==
    /\ at = "appending"
    /\ file' = file \o fresh
    /\ appended' = appended \cup ToSet(fresh)
    /\ at' = "marking"
    /\ UNCHANGED <<happened, marker, fresh, crashes>>

Newest == Last(fresh)

WriteMarker ==
    /\ at = "marking"
    /\ marker' = Newest
    /\ fresh' = <<>>
    /\ at' = "rotating"
    /\ UNCHANGED <<happened, file, appended, crashes>>

RotateIfNeeded ==               \* about the newest half of the lines stays
    /\ at = "rotating"
    /\ file' = IF Len(file) <= MaxLines THEN file ELSE SubSeq(file, (Len(file) \div 2) + 1, Len(file))
    /\ at' = "idle"
    /\ UNCHANGED <<happened, marker, fresh, appended, crashes>>

\* A write that is cut short leaves an unreadable marker, or a part of the log.
Crash ==
    /\ crashes < MaxCrashes /\ at # "idle"
    /\ crashes' = crashes + 1
    /\ \/ UNCHANGED <<marker, file>>
       \/ at = "marking" /\ marker' = 0 /\ UNCHANGED file
       \/ at = "rotating" /\ Len(file) > MaxLines /\ file' = <<>> /\ UNCHANGED marker
    /\ fresh' = <<>>
    /\ at' = "idle"
    /\ UNCHANGED <<happened, appended>>

AppendNew == Collect \/ AppendBlock \/ WriteMarker \/ RotateIfNeeded

LogNext == Happen \/ AppendNew \/ Crash

LogSpec == LogInit /\ [][LogNext]_caseVars

-----------------------------------------------------------------------------
LogTypeOK ==
    /\ happened \in Seq(BOOLEAN)
    /\ marker \in 0..Len(happened)
    /\ at \in {"idle", "appending", "marking", "rotating"}
    /\ file \in Seq(Nat) /\ ToSet(file) \subseteq appended /\ appended \subseteq DOMAIN happened

\* "Restarting never misses": what the marker says was appended was appended, even
\* when failures were recorded while a pass was writing.
MarkerIsHonest == \A i \in 1..marker : happened[i] => i \in appended

\* Every failure reaches the log, as the maintenance tick keeps coming back.
Recorded(i) == i \in DOMAIN happened /\ happened[i]
\* Every failure the journal holds reaches the log, also when a pass died.
FailuresAreLogged == \A i \in 1..MaxHappenings : Recorded(i) ~> (i \in appended)

\* Whatever pass died between its two files, the marker never speaks for a
\* failure that was not appended (bad-case-log.ts).
LogInv == LogTypeOK /\ MarkerIsHonest
=============================================================================

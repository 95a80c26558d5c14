------------------------- MODULE ProjectionRefresh -------------------------
(***************************************************************************)
(* The in-memory projection of a runtime, brought up to date incrementally *)
(* from a journal that other runtimes append to (refresh, #applySince and  *)
(* #applyEvent of src/core/runtime.ts over listSince of the store).        *)
(*                                                                         *)
(* A runtime remembers the last sequence it applied and later asks only    *)
(* for what follows.  An event it writes itself is applied when it is      *)
(* written, and moves that mark past whatever others wrote before it.      *)
(*                                                                         *)
(* A run is abstracted to a rank: 0 when created, one more with every      *)
(* status; the reducer refuses a status of a run it does not know or that  *)
(* is not one above the rank it holds.  refresh is one action: between its *)
(* two reads of the journal the thread of the runtime runs nothing else.   *)
(***************************************************************************)
EXTENDS Naturals, Integers, Sequences, FiniteSetsExt

CONSTANTS Runtimes, Writers, Runs, MaxRank, MaxRestarts

ASSUME RefreshConstants ==
  /\ Writers \subseteq Runtimes
  /\ MaxRank \in Nat /\ MaxRestarts \in Nat

VARIABLES
  journal,  \* [run, rank] of every event, in sequence order
  applied,  \* per runtime, the last sequence applied
  proj,     \* per runtime, the rank it holds for each run
  restarts  \* bound of the restarts

refreshVars == <<journal, applied, proj, restarts>>

Unknown == -1
Nothing == [r \in Runs |-> Unknown]

Event(r, k) == [run |-> r, rank |-> k]

\* The rank of r after the events a+1..n were applied on top of p.
RankAfter(p, a, n, r) ==
  LET window == {i \in (a + 1)..n : journal[i].run = r}
  IN IF window = {} THEN p[r] ELSE journal[Max(window)].rank

\* The reducer takes the i-th event on top of the ones before it.
Accepts(p, a, i) ==
  \/ journal[i].rank = 0
  \/ /\ RankAfter(p, a, i - 1, journal[i].run) # Unknown
     /\ journal[i].rank = RankAfter(p, a, i - 1, journal[i].run) + 1

\* How far a replay that starts after a gets before an event is refused.
ReplayedTo(p, a) ==
  Max({n \in a..Len(journal) : \A i \in (a + 1)..n : Accepts(p, a, i)})

\* The projection a replay from zero of the first n events gives.
Replayed(n) == [r \in Runs |-> RankAfter(Nothing, 0, n, r)]

Current(r) == RankAfter(Nothing, 0, Len(journal), r)

RefreshInit ==
  /\ journal = <<>>
  /\ applied = [w \in Runtimes |-> 0]
  /\ proj = [w \in Runtimes |-> Nothing]
  /\ restarts = 0

\* Mutant of Record: an event of one's own does not move the mark.
RecordUnmarked(w, r, k) ==
  /\ journal' = Append(journal, Event(r, k))
  /\ proj' = [proj EXCEPT ![w][r] = k]
  /\ UNCHANGED <<applied, restarts>>

\* record: committed, then applied by #applyEvent, which moves the mark.
Record(w, r, k) ==
  /\ journal' = Append(journal, Event(r, k))
  /\ proj' = [proj EXCEPT ![w][r] = k]
  /\ applied' = [applied EXCEPT ![w] = Len(journal) + 1]
  /\ UNCHANGED restarts

\* acceptTrigger.
CreateRun(w, r) ==
  /\ Current(r) = Unknown
  /\ Record(w, r, 0)

\* A status, by a runtime that knows the current one.
ChangeStatus(w, r) ==
  /\ proj[w][r] # Unknown
  /\ proj[w][r] = Current(r) /\ proj[w][r] < MaxRank
  /\ Record(w, r, proj[w][r] + 1)

\* Events are applied one by one; the first one refused throws, and leaves
\* what was applied before it.
Refresh(w) ==
  /\ LET n == ReplayedTo(proj[w], applied[w])
     IN /\ proj' = [proj EXCEPT ![w] =
                      [r \in Runs |-> RankAfter(proj[w], applied[w], n, r)]]
        /\ applied' = [applied EXCEPT ![w] = n]
  /\ UNCHANGED <<journal, restarts>>

\* A new process replays from zero (hydrate).
Rehydrate(w) ==
  /\ restarts < MaxRestarts
  /\ restarts' = restarts + 1
  /\ proj' = [proj EXCEPT ![w] = Replayed(Len(journal))]
  /\ applied' = [applied EXCEPT ![w] = Len(journal)]
  /\ UNCHANGED journal

RefreshNext ==
  \/ \E w \in Writers, r \in Runs : CreateRun(w, r) \/ ChangeStatus(w, r)
  \/ \E w \in Runtimes : Refresh(w) \/ Rehydrate(w)

RefreshSpec == RefreshInit /\ [][RefreshNext]_refreshVars

\* Every tick of a consumer refreshes.
FairRefreshSpec == RefreshSpec /\ \A w \in Runtimes : WF_refreshVars(Refresh(w))
-----------------------------------------------------------------------------
\* A projection is what a replay of the journal up to its mark gives:
\* nothing before the mark is missing, nothing is applied twice.
ProjectionIsReplay ==
  \A w \in Runtimes :
    /\ applied[w] \in 0..Len(journal)
    /\ proj[w] = Replayed(applied[w])

\* A refresh never meets an event its reducer refuses, which would make it
\* throw at every later tick too.
RefreshGoesThrough ==
  \A w \in Runtimes : ReplayedTo(proj[w], applied[w]) = Len(journal)

\* A run created anywhere is eventually known to every runtime that keeps
\* refreshing.
CreatedIsSeen ==
  \A w \in Runtimes, r \in Runs : Current(r) # Unknown ~> proj[w][r] # Unknown

\* An incremental projection is what a replay of the journal would be, and no
\* refresh throws on an event it already applied (refresh in runtime.ts).
RefreshInv == ProjectionIsReplay /\ RefreshGoesThrough
=============================================================================

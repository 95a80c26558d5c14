---------------------------- MODULE Improvement ----------------------------
(* Suggestions to change the memory, from how runs ended                      *)
(* (improvement/improvement-service.ts, improvement/analysis.ts).  A sweep    *)
(* reads the journal once, compares, and appends what it suggests one by one; *)
(* no lock keeps the sweep of the command line from one of the daemon, so     *)
(* several may have read before any of them appends.  Approving changes the   *)
(* memory first and records that after, two steps of a request that other     *)
(* requests and a crash may come between.                                     *)
EXTENDS Integers, FiniteSets

CONSTANTS
  Judged,       \* runs that end
  Recalled,     \* the runs that recalled the memory; the others did not
  Alike,        \* the runs that fail, if they do, with the same signature
  MinRuns,      \* MIN_EXPOSURES, MIN_CLUSTER_RUNS
  MaxPending,   \* MAX_PENDING_SUGGESTIONS
  Sweepers,     \* sweeps that may be under way together: of the daemon and of the command line
  Requests,     \* requests of the owner that may be under way together
  MaxDecisions,  \* bound on the decisions the owner asks for
  MaxFlips      \* bound on the labels the owner gives

ASSUME ImprovementAssumption ==
  /\ IsFiniteSet(Judged) /\ IsFiniteSet(Requests) /\ IsFiniteSet(Sweepers) /\ Recalled \subseteq Judged /\ Alike \subseteq Judged
  /\ MinRuns \in Nat \ {0} /\ {MaxPending, MaxDecisions, MaxFlips} \subseteq Nat

VARIABLES
  verdict,     \* verdict[r]: runVerdict, from its status or the owner's label
  flips,       \* labels given
  suggested,   \* the ids of improvement.suggested, how often each
  offered,     \* what pending() returns, the ids an event offered since it was decided
  decided,     \* the ids of improvement.applied and .dismissed, how often each
  changes,     \* changes[s]: how often the memory was changed for suggestion s
  sweep,       \* sweep[p]: what an open sweep still has to append, and what it counted
  request,     \* request[q]: the suggestion q decides, and how far it is
  decisions    \* decisions asked for

improvementVars == <<verdict, flips, suggested, offered, decided, changes, sweep, request, decisions>>

Verdicts == {"none", "good", "bad"}
Buckets == {MinRuns * k : k \in 1 .. Cardinality(Judged)}
\* The id of a suggestion says what it is about and on how much evidence.
Suggestions == [kind : {"retire", "reinforce", "lesson"}, bucket : Buckets]
Quiescent == [open |-> FALSE, todo |-> {}, pending |-> 0]
NoRequest == [step |-> "idle", about |-> {}]

ImprovementTypeOK ==
  /\ verdict \in [Judged -> Verdicts] /\ flips \in 0 .. MaxFlips
  /\ suggested \in [Suggestions -> Nat] /\ decided \in [Suggestions -> Nat]
  /\ changes \in [Suggestions -> Nat]
  /\ offered \subseteq Suggestions /\ decisions \in 0 .. MaxDecisions
  /\ \A p \in Sweepers : sweep[p].todo \subseteq Suggestions /\ sweep[p].pending \in Nat
  /\ \A q \in Requests : request[q].step \in {"idle", "approving", "applied", "dismissing"}

ImprovementInit ==
  /\ verdict = [r \in Judged |-> "none"] /\ flips = 0
  /\ suggested = [s \in Suggestions |-> 0]
  /\ decided = [s \in Suggestions |-> 0]
  /\ changes = [s \in Suggestions |-> 0]
  /\ offered = {}
  /\ sweep = [p \in Sweepers |-> Quiescent]
  /\ request = [q \in Requests |-> NoRequest]
  /\ decisions = 0

-----------------------------------------------------------------------------
\* A run ends, or the owner labels one that has ended.
Ends(r, how) ==
  /\ how \in {"good", "bad"} /\ verdict[r] # how
  /\ verdict[r] # "none" => flips < MaxFlips
  /\ flips' = IF verdict[r] = "none" THEN flips ELSE flips + 1
  /\ verdict' = [verdict EXCEPT ![r] = how]
  /\ UNCHANGED <<suggested, offered, decided, changes, sweep, request, decisions>>

Good(S) == Cardinality({r \in S : verdict[r] = "good"})
Known(S) == Cardinality({r \in S : verdict[r] # "none"})
Bucket(n) == (n \div MinRuns) * MinRuns

\* Whether the rate g/n is so far from G/N that its Wilson interval (z = 1.96)
\* leaves it out: the interval is the rates b with |g/n - b|^2 n <= z^2 b (1 - b).
Apart(g, n, G, N) ==
  LET gap == G * n - g * N IN 10000 * gap * gap > 38416 * n * G * (N - G)

\* suggestLifecycle: worse than the other runs, or at least as good beyond doubt
\* (the boundary of the interval counts).
AboutMemory ==
  LET n == Known(Recalled)
      g == Good(Recalled)
      N == Known(Judged) - n
      G == Good(Judged) - g
      gap == G * n - g * N IN
  IF n < MinRuns \/ N < MinRuns THEN {}
  ELSE IF gap > 0 /\ Apart(g, n, G, N) THEN {[kind |-> "retire", bucket |-> Bucket(n)]}
  ELSE IF gap <= 0 /\ 10000 * gap * gap >= 38416 * n * G * (N - G)
       THEN {[kind |-> "reinforce", bucket |-> Bucket(n)]} ELSE {}

\* clusterFailures
AboutFailures ==
  LET n == Cardinality({r \in Alike : verdict[r] = "bad"}) IN
  IF n < MinRuns THEN {} ELSE {[kind |-> "lesson", bucket |-> Bucket(n)]}

Pending == {s \in Suggestions : suggested[s] > 0 /\ decided[s] = 0}

\* sweep: one reading says what is known, decided and pending.
BeginSweep(p) ==
  /\ ~sweep[p].open
  /\ sweep' = [sweep EXCEPT ![p] =
                 [open |-> TRUE,
                  todo |-> {s \in AboutMemory \cup AboutFailures : suggested[s] = 0 /\ decided[s] = 0},
                  pending |-> Cardinality(Pending)]]
  /\ UNCHANGED <<verdict, flips, suggested, offered, decided, changes, request, decisions>>

SuggestOne(p, s) ==
  /\ sweep[p].open /\ sweep[p].pending < MaxPending /\ s \in sweep[p].todo
  /\ suggested' = [suggested EXCEPT ![s] = @ + 1]
  /\ offered' = offered \cup {s}
  /\ sweep' = [sweep EXCEPT ![p] = [open |-> TRUE, todo |-> @.todo \ {s}, pending |-> @.pending + 1]]
  /\ UNCHANGED <<verdict, flips, decided, changes, request, decisions>>

EndSweep(p) ==                  \* nothing is left, or too much is pending, or the process dies
  /\ sweep[p].open
  /\ sweep' = [sweep EXCEPT ![p] = Quiescent]
  /\ UNCHANGED <<verdict, flips, suggested, offered, decided, changes, request, decisions>>

-----------------------------------------------------------------------------
\* approve and dismiss begin with the pending suggestions of one reading, and
\* these are in the order of the journal: a late suggestion is pending again.
BeginDecision(q, s, how) ==
  /\ request[q] = NoRequest /\ s \in offered /\ decisions < MaxDecisions
  /\ decisions' = decisions + 1
  /\ request' = [request EXCEPT ![q] = [step |-> how, about |-> {s}]]
  /\ UNCHANGED <<verdict, flips, suggested, offered, decided, changes, sweep>>

\* The governance archives, updates or authors a memory ...
ChangeMemory(q) ==
  /\ request[q].step = "approving"
  /\ changes' = [s \in Suggestions |-> changes[s] + IF s \in request[q].about THEN 1 ELSE 0]
  /\ request' = [request EXCEPT ![q].step = "applied"]
  /\ UNCHANGED <<verdict, flips, suggested, offered, decided, sweep, decisions>>

\* Mutant of Refused: the error comes after the change.
RefusedLate(q) ==
  /\ request[q].step = "approving"
  /\ changes' = [s \in Suggestions |-> changes[s] + IF s \in request[q].about THEN 1 ELSE 0]
  /\ request' = [request EXCEPT ![q] = NoRequest]
  /\ UNCHANGED <<verdict, flips, suggested, offered, decided, sweep, decisions>>

\* ... or refuses to (the memory is gone, or its file was edited), and the
\* suggestion stays.
Refused(q) ==
  /\ request[q].step = "approving"
  /\ request' = [request EXCEPT ![q] = NoRequest]
  /\ UNCHANGED <<verdict, flips, suggested, offered, decided, changes, sweep, decisions>>

RecordDecision(q) ==
  /\ request[q].step \in {"applied", "dismissing"}
  /\ decided' = [s \in Suggestions |-> decided[s] + IF s \in request[q].about THEN 1 ELSE 0]
  /\ offered' = offered \ request[q].about
  /\ request' = [request EXCEPT ![q] = NoRequest]
  /\ UNCHANGED <<verdict, flips, suggested, changes, sweep, decisions>>

ImprovementNext ==
  \/ \E r \in Judged, how \in Verdicts : Ends(r, how)
  \/ \E p \in Sweepers : BeginSweep(p) \/ EndSweep(p) \/ \E s \in Suggestions : SuggestOne(p, s)
  \/ \E q \in Requests :
       \/ \E s \in Suggestions, how \in {"approving", "dismissing"} : BeginDecision(q, s, how)
       \/ ChangeMemory(q) \/ Refused(q) \/ RecordDecision(q)

ImprovementSpec == ImprovementInit /\ [][ImprovementNext]_improvementVars

-----------------------------------------------------------------------------
\* A flood trains blind approval: no more is undecided than the limit for each of
\* the sweeps that may be under way together.
PendingIsBounded == Cardinality(Pending) <= Cardinality(Sweepers) * MaxPending

\* A suggestion is made again only by a sweep that had read before it was made:
\* once, if sweeps do not overlap.
SuggestedOnce == \A s \in Suggestions : suggested[s] <= Cardinality(Sweepers)

\* What the owner decided comes back on the same evidence only if sweeps overlapped,
\* however runs are labeled in between.
DecidedStaysDecided == \A s \in offered : decided[s] > 0 => suggested[s] > 1

\* Every change is accounted for: by a decision in the journal, or by a request
\* that is about to record it.
ChangesAreAccounted ==
  \A s \in Suggestions :
    changes[s] <= decided[s] + Cardinality({q \in Requests : request[q].step = "applied" /\ request[q].about = {s}})

\* As far as sweeps do not overlap a suggestion is made once, is not offered again
\* and the undecided ones are few; and every change of the memory is accounted for
\* although it is applied and recorded in two steps (improvement-service.ts).
ImprovementInv ==
  /\ ImprovementTypeOK
  /\ PendingIsBounded
  /\ SuggestedOnce
  /\ DecidedStaysDecided
  /\ ChangesAreAccounted
=============================================================================

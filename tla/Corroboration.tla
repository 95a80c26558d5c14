---------------------------- MODULE Corroboration ----------------------------
(* The attempts of a retry-safe work order, one worker after another, and the *)
(* judgement of their failures (core/failure-analysis.ts): when two providers *)
(* fail the same way the obstacle is taken to be in the task, and no third    *)
(* worker is sent against it.  The wording of a report is a set of words.     *)
EXTENDS Naturals, Sequences, FiniteSets, SequencesExt

CONSTANTS
  Ranking,      \* the workers of the registry, in its order
  Capable,      \* those that cover the work order
  Categories,   \* of the reports
  Inconclusive, \* those that say only that something failed
  Words,
  MaxAttempts   \* the order's budget

ASSUME CorroborationAssumption == Capable \subseteq ToSet(Ranking) /\ MaxAttempts \in Nat \ {0}

VARIABLES
  worker,        \* the worker under way
  tried,         \* workers given up on
  attempt,
  reports,       \* the reports of this dispatch's failures, in order
  orderStatus    \* running, completed, escalated, exhausted

corroborationVars == <<worker, tried, attempt, reports, orderStatus>>

Report(w, category, words) == [provider |-> w, category |-> category, words |-> words]

CorroborationTypeOK ==
  /\ worker \in Capable /\ tried \subseteq ToSet(Ranking)
  /\ attempt \in 1 .. MaxAttempts /\ Len(reports) <= attempt
  /\ orderStatus \in {"running", "completed", "escalated", "exhausted"}

CorroborationInit ==
  /\ worker \in Capable /\ tried = {} /\ attempt = 1 /\ reports = <<>> /\ orderStatus = "running"

-----------------------------------------------------------------------------
\* corroborateFailures

\* The first report of each provider.
Independent(rs) ==
  {rs[i] : i \in {j \in DOMAIN rs : \A k \in 1 .. j - 1 : rs[k].provider # rs[j].provider}}

Shared(pair) == Cardinality(UNION {a.words : a \in pair} \ UNION {a.words \ b.words : a, b \in pair})
Shortest(pair) == CHOOSE n \in {Cardinality(a.words) : a \in pair} : \A a \in pair : n <= Cardinality(a.words)

\* Pairs of one category that share a word, and the one that shares most.
Agreeing(rs) ==
  {pair \in SUBSET Independent(rs) :
     Cardinality(pair) = 2 /\ (\A a, b \in pair : a.category = b.category) /\ Shared(pair) > 0}
Closest(rs) ==
  CHOOSE pair \in Agreeing(rs) : \A other \in Agreeing(rs) :
    Shared(other) * Shortest(pair) <= Shared(pair) * Shortest(other)

\* A diagnosis needs no more; a catch-all category needs half of the words.
Corroborated(rs) ==
  /\ Agreeing(rs) # {}
  /\ \A a \in Closest(rs) : a.category \in Inconclusive => 2 * Shared(Closest(rs)) >= Shortest(Closest(rs))

-----------------------------------------------------------------------------

\* selectAlternativeAdapter: the first capable worker not yet tried.
Left == Capable \ (tried \cup {worker})
NextWorker ==
  {Ranking[i] : i \in {k \in DOMAIN Ranking : Ranking[k] \in Left /\ \A j \in 1 .. k - 1 : Ranking[j] \notin Left}}

BudgetSpent == attempt = MaxAttempts

Succeed == orderStatus = "running" /\ orderStatus' = "completed" /\ UNCHANGED <<worker, tried, attempt, reports>>

\* What becomes of the order, by the reports there are.
GoOn ==
  IF Corroborated(reports')
  THEN orderStatus' = "escalated" /\ UNCHANGED <<worker, tried, attempt>>
  ELSE IF BudgetSpent THEN orderStatus' = "exhausted" /\ UNCHANGED <<worker, tried, attempt>>
  ELSE /\ tried' = tried \cup {worker} /\ attempt' = attempt + 1
       \* with nobody left the same worker resumes its session
       /\ IF Left = {} THEN worker' = worker ELSE worker' \in NextWorker
       /\ UNCHANGED orderStatus

FailAttempt(category, words) ==
  /\ orderStatus = "running"
  /\ reports' = Append(reports, Report(worker, category, words))
  /\ GoOn

\* No report: the worker stopped without a completion, or without evidence.
FailUnreported == orderStatus = "running" /\ reports' = reports /\ GoOn

CorroborationNext ==
  \/ Succeed \/ FailUnreported
  \/ \E c \in Categories, ws \in SUBSET Words : FailAttempt(c, ws)

CorroborationSpec == CorroborationInit /\ [][CorroborationNext]_corroborationVars

-----------------------------------------------------------------------------
\* "Only when two independent providers fail the same way": one worker that
\* fails alike over and over proves nothing, nor do two that fail differently.
WallNeedsTwo ==
  orderStatus = "escalated" =>
    \E i, j \in DOMAIN reports : reports[i].provider # reports[j].provider /\ reports[i].category = reports[j].category

\* The budget is not spent on one worker while another could be asked: who reports
\* a second failure was sent again when all others had failed.
OthersAreAskedFirst ==
  \A i, j \in DOMAIN reports :
    i < j /\ reports[i].provider = reports[j].provider => Capable \subseteq tried \cup {worker}

\* An order is given up as hopeless only when two providers failed alike, and no
\* worker is asked twice before every other one was (failure-analysis.ts).
CorroborationInv == CorroborationTypeOK /\ WallNeedsTwo /\ OthersAreAskedFirst
=============================================================================

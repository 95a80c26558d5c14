---------------------------- MODULE MemoryContext ----------------------------
(* What of the long-term memory reaches a model.  The index ranks what matches *)
(* a question (memory/md-memory-store.ts) and counts each memory it returns as *)
(* used; GovernedMemorySource passes identity, summary and score on; the       *)
(* context builder (main-agent/memory-context-builder.ts, memory/conflict.ts)  *)
(* drops statements a later one replaces and restatements, and fills a bounded *)
(* text class by class.  Texts are their attributes in Library: the subjects   *)
(* they name, whether they say "changed to", their length.                     *)
EXTENDS Integers, Sequences, SequencesExt, FiniteSets, FiniteSetsExt, Options

CONSTANTS Library,        \* id -> [type, subject, replaces, worker, secret, size]; ids are numbers
          Restates,       \* pairs {m, n} of near duplicates
          Questions,      \* question -> (id -> hundredths: overlap, cosine, recency, preference)
          Found,          \* question -> those that share enough of its words to match
          MaxResults,     \* path -> limit of the recall
          UsageCap,       \* what use can add to a score
          UsedBefore,     \* id -> accessCount at first
          MaxItems, MaxCharacters, MinScore,
          MaxRecalls, MaxArchivals    \* bounds

Memories == DOMAIN Library
Paths == {"planning", "push", "dispatch", "evaluation"}

ASSUME ContextAssumption ==
    /\ UsageCap \in Nat /\ MaxItems \in Nat \ {0} /\ MaxCharacters \in Nat /\ MinScore \in Nat
    /\ Memories \subseteq Nat
    /\ \A m \in Memories : Library[m].size \in Nat \ {0}
    /\ \A q \in DOMAIN Questions : Questions[q] \in [Memories -> Nat] /\ Found[q] \subseteq Memories
    /\ UsedBefore \in [Memories -> Nat]
    /\ MaxResults \in [Paths -> Nat]
    /\ MaxRecalls \in Nat /\ MaxArchivals \in Nat

Kinds == <<"user_preference", "task_outcome", "project_fact", "agent_outcome">>

VARIABLES told,           \* the memories, in the order what they tell happened
          active,         \* those not archived
          uses,           \* id -> accessCount
          answer,         \* the last recall: its path, question, what was stored then, matches and context
          recalls, archivals

contextVars == <<told, active, uses, answer, recalls, archivals>>

Nothing == [path |-> "none", question |-> "none", library |-> {}, matches |-> <<>>, context |-> <<>>]

ContextInit ==
    /\ told = <<>>
    /\ active = {}
    /\ uses = UsedBefore
    /\ answer = Nothing
    /\ recalls = 0 /\ archivals = 0

-----------------------------------------------------------------------------
(* MdMemoryStore.recall                                                        *)

Boost(count) == IF count < UsageCap THEN count ELSE UsageCap

Preferred(m) == Library[m].type = "preference"

Matching(q) == {m \in active \cap Found[q] : ~Library[m].secret}

Score(q, m) == Questions[q][m] + Boost(uses[m])

\* By score, then preferences first, then in the order of the index.
Ahead(q, m, n) ==
    \/ Score(q, m) > Score(q, n)
    \/ Score(q, m) = Score(q, n) /\ Preferred(m) /\ ~Preferred(n)
    \/ Score(q, m) = Score(q, n) /\ (Preferred(m) <=> Preferred(n)) /\ m < n

Best(q, S) == CHOOSE m \in S : \A n \in S \ {m} : Ahead(q, m, n)

\* The first of them, one after the other.
Ranked(q, limit) ==
    LET many == Cardinality(Matching(q))
        last == IF many < limit THEN many ELSE limit
        left[i \in 0..last] == IF i = 0 THEN Matching(q) ELSE left[i - 1] \ {Best(q, left[i - 1])}
    IN  [i \in 1..last |-> Best(q, left[i - 1])]

\* What crosses to the caller: only the evaluation harness reads the store itself
\* and passes type and date on.
Candidate(path, q, m) ==
    [id |-> m, score |-> Score(q, m),
     type |-> IF path = "evaluation" THEN Library[m].type ELSE "unknown",
     dated |-> path = "evaluation"]

-----------------------------------------------------------------------------
(* memory/conflict.ts                                                          *)
Later(m, n) == \E i, k \in DOMAIN told : i < k /\ told[i] = n /\ told[k] = m

Replaces(newer, older) ==
    /\ newer.dated /\ older.dated /\ newer.type = older.type
    /\ Library[newer.id].replaces /\ ~Library[older.id].replaces
    /\ Later(newer.id, older.id)
    /\ Library[newer.id].subject \cap Library[older.id].subject # {}

ApplySupersedes(candidates) ==
    Picked(candidates, {i \in DOMAIN candidates : ~\E n \in ToSet(candidates) : Replaces(n, candidates[i])})

\* Of two that restate each other the better one stays, in the place of the first.
Kept(kept, c) ==
    LET same == {k \in DOMAIN kept : {kept[k].id, c.id} \in Restates}
    IN  IF same = {} THEN Append(kept, c)
        ELSE IF c.score > kept[Min(same)].score THEN [kept EXCEPT ![Min(same)] = c] ELSE kept

DedupeContext(candidates) == Looped(Len(candidates), <<>>, LAMBDA kept, i : Kept(kept, candidates[i]))

-----------------------------------------------------------------------------
(* buildMemoryContextFromCandidates                                            *)
Scoring(candidates) == Picked(candidates, {i \in DOMAIN candidates : candidates[i].score >= MinScore})

\* Mutant: restatements are dropped before replaced statements.
RelevantDedupedFirst(candidates) == ApplySupersedes(DedupeContext(Scoring(candidates)))

Relevant(candidates) == DedupeContext(ApplySupersedes(Scoring(candidates)))

Kind(c) ==
    CASE c.type = "preference" -> "user_preference"
      [] c.type \in {"procedure", "decision"} -> "task_outcome"
      [] OTHER -> IF Library[c.id].worker THEN "agent_outcome" ELSE "project_fact"

Weight(kind) == CASE kind = "user_preference" -> 50 [] kind = "task_outcome" -> 25 [] kind = "project_fact" -> 20 [] OTHER -> 5

\* What the classes from k on have of it together.
Remaining(k) == LET of(i) == IF i < k THEN 0 ELSE Weight(Kinds[i]) IN of(1) + of(2) + of(3) + of(4)

\* A line takes its length and the line break.
Admitted(acc, c, share) ==
    LET size == Library[c.id].size
    IN  IF Len(acc.lines) >= MaxItems \/ acc.class + size > share \/ acc.used + size > MaxCharacters THEN acc
        ELSE [lines |-> Append(acc.lines, c), used |-> acc.used + size + 1, class |-> acc.class + size + 1]

Fill(filled, k, relevant) ==
    LET pool == Picked(relevant, {i \in DOMAIN relevant : Kind(relevant[i]) = Kinds[k]})
        share == ((MaxCharacters - filled.used) * Weight(Kinds[k])) \div Remaining(k)
        start == [lines |-> filled.lines, used |-> filled.used, class |-> 0]
    IN  Looped(Len(pool), start, LAMBDA acc, i : Admitted(acc, pool[i], share))

NoLines == [lines |-> <<>>, used |-> 0, class |-> 0]

Filled(relevant) == Fill(Fill(Fill(Fill(NoLines, 1, relevant), 2, relevant), 3, relevant), 4, relevant).lines

\* When no line fits its class, the best one crosses all the same.
Built(candidates) ==
    LET relevant == Relevant(candidates)
        best == Min({i \in DOMAIN relevant : \A k \in DOMAIN relevant : relevant[i].score >= relevant[k].score})
    IN  IF relevant = <<>> THEN <<>> ELSE IF Filled(relevant) = <<>> THEN <<relevant[best]>> ELSE Filled(relevant)

\* A work order is handed what was recalled for its objective, as it is.
Handed(path, candidates) == IF path = "dispatch" THEN candidates ELSE Built(candidates)

-----------------------------------------------------------------------------
Remember(m) ==
    /\ m \notin ToSet(told)
    /\ told' = Append(told, m)
    /\ active' = active \cup {m}
    /\ UNCHANGED <<uses, answer, recalls, archivals>>

Archive(m) ==
    /\ m \in active /\ archivals < MaxArchivals
    /\ active' = active \ {m}
    /\ archivals' = archivals + 1
    /\ UNCHANGED <<told, uses, answer, recalls>>

Restore(m) ==
    /\ m \in ToSet(told) \ active
    /\ active' = active \cup {m}
    /\ UNCHANGED <<told, uses, answer, recalls, archivals>>

Used(matches) == [m \in Memories |-> IF m \in ToSet(matches) THEN uses[m] + 1 ELSE uses[m]]   \* touch

Recall(path, q) ==
    LET matches == Ranked(q, MaxResults[path])
        candidates == [i \in DOMAIN matches |-> Candidate(path, q, matches[i])]
    IN  /\ recalls < MaxRecalls /\ recalls' = recalls + 1
        /\ uses' = Used(matches)
        /\ answer' = [path |-> path, question |-> q, library |-> active, matches |-> matches,
                      context |-> Handed(path, candidates)]
        /\ UNCHANGED <<told, active, archivals>>

ContextNext ==
    \/ \E m \in Memories : Remember(m) \/ Archive(m) \/ Restore(m)
    \/ \E path \in Paths, q \in DOMAIN Questions : Recall(path, q)

ContextSpec == ContextInit /\ [][ContextNext]_contextVars

-----------------------------------------------------------------------------
Shown == {c.id : c \in ToSet(answer.context)}

ContextTypeOK ==
    /\ told \in Seq(Memories) /\ active \subseteq ToSet(told)
    /\ recalls \in 0..MaxRecalls /\ archivals \in 0..MaxArchivals
    /\ uses \in [Memories -> Nat] /\ \A m \in Memories : uses[m] \in UsedBefore[m]..(UsedBefore[m] + recalls)
    /\ Shown \subseteq ToSet(answer.matches) /\ ToSet(answer.matches) \subseteq answer.library
    /\ answer.library \subseteq ToSet(told)

\* Use is a nudge: a memory that matches and is left out of a recall is never a
\* better match than one returned by more than use can add, however often the
\* other was recalled before.
UsageNeverBuries ==
    \A m \in ToSet(answer.matches), n \in answer.library \ ToSet(answer.matches) :
        n \in Found[answer.question] /\ ~Library[n].secret
            => Questions[answer.question][n] <= Questions[answer.question][m] + UsageCap

\* What a context takes of the budget.
Length(context) == Looped(Len(context), 0, LAMBDA sum, i : sum + Library[context[i].id].size + 1)

\* What the builder shows fits the budget, but for a single line that fits nowhere.
ContextFitsTheBudget ==
    answer.path # "dispatch" =>
        /\ Len(answer.context) <= MaxItems
        /\ Len(answer.context) > 1 => Length(answer.context) <= MaxCharacters + 1

\* What the evaluation knows of the recalled memory, and whether it puts it before
\* the builder's floor without any use.
KnownOf(m) == Candidate("evaluation", answer.question, m)
Relates(m) == m \in ToSet(answer.matches) /\ Questions[answer.question][m] >= MinScore

\* Where types are known, preferences are not crowded out: if one was recalled that
\* fits their half of the budget, and nothing recalled restates or replaces it, one
\* is shown.
PreferenceIsShown ==
    \A p \in ToSet(answer.matches) :
        /\ answer.path = "evaluation"
        /\ Preferred(p) /\ Relates(p)
        /\ 2 * Library[p].size <= MaxCharacters
        /\ \A n \in ToSet(answer.matches) : {n, p} \notin Restates /\ ~Replaces(KnownOf(n), KnownOf(p))
        => \E m \in Shown : Preferred(m)

\* Where type and date are known, nothing is shown that a recalled statement which
\* relates to the question replaces, even when that statement itself is left out.
ReplacedIsRetired ==
    answer.path = "evaluation" =>
        \A m \in Shown, n \in ToSet(answer.matches) : Relates(n) => ~Replaces(KnownOf(n), KnownOf(m))

\* Whatever was recalled before: use never buries a better match, the context
\* fits its budget without crowding preferences out, and shows no statement that
\* a recalled one replaces (md-memory-store.ts, memory-context-builder.ts,
\* conflict.ts).
ContextInv ==
  /\ ContextTypeOK
  /\ UsageNeverBuries
  /\ ContextFitsTheBudget
  /\ PreferenceIsShown
  /\ ReplacedIsRetired
=============================================================================

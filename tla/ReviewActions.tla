---------------------------- MODULE ReviewActions ----------------------------
(* audit/self-review.ts and audit/apply-review.ts: the review proposes changes *)
(* of the Main Agent's model and effort; the owner applies or reverts one by   *)
(* a click.  A click writes config.json, the journal and the review file, in   *)
(* that order, and puts back the whole review it read at its start.  Clicks    *)
(* interleave with each other, with a new review and with the settings page;   *)
(* the daemon may die between any two writes.                                  *)
EXTENDS Naturals, Sequences, SequencesExt

CONSTANTS Fields,         \* of config.json an action may set
          Values,
          NoValue,
          Clicks,         \* requests that may be under way
          MaxReviews, MaxEdits, MaxClicks, MaxFalls      \* bounds

ASSUME ReviewAssumption ==
    NoValue \notin Values /\ {MaxReviews, MaxEdits, MaxClicks, MaxFalls} \subseteq Nat

VARIABLES config,         \* field -> value
          review,         \* the file: its generation, and its rows by field
          trail,          \* the recommendation.applied events
          click,          \* click -> what it is doing
          edits, clicks, falls

reviewVars == <<config, review, trail, click, edits, clicks, falls>>

Row(value) == [value |-> value, applied |-> FALSE, from |-> NoValue]
NoClick == [at |-> "none"]

ReviewInit ==
    /\ config = [f \in Fields |-> NoValue]
    /\ review = [generation |-> 0, rows |-> <<>>]
    /\ trail = <<>>
    /\ click = [c \in Clicks |-> NoClick]
    /\ edits = 0 /\ clicks = 0 /\ falls = 0

\* validateActions leaves one action for each field.
Generate ==
    /\ review.generation < MaxReviews
    /\ \E fields \in SUBSET Fields : \E proposed \in [fields -> Values] :
         review' = [generation |-> review.generation + 1, rows |-> [f \in fields |-> Row(proposed[f])]]
    /\ UNCHANGED <<config, trail, click, edits, clicks, falls>>

OwnerEdits(f) ==
    /\ edits < MaxEdits
    /\ \E v \in Values : config' = [config EXCEPT ![f] = v]
    /\ edits' = edits + 1
    /\ UNCHANGED <<review, trail, click, clicks, falls>>

Goes(c, doing) == click' = [click EXCEPT ![c] = doing]

Following == [config |-> "journal", journal |-> "file", file |-> "none"]

Advances(c) ==
    LET next == Following[click[c].at]
    IN  Goes(c, IF next = "none" THEN NoClick ELSE [click[c] EXCEPT !.at = next])

\* What is to be written, and what the row is to remember: read once, at the start.
Apply(c, f) ==
    /\ click[c] = NoClick /\ clicks < MaxClicks
    /\ f \in DOMAIN review.rows
    /\ Goes(c, [at |-> "config", field |-> f, from |-> config[f], to |-> review.rows[f].value,
                read |-> review, row |-> [review.rows[f] EXCEPT !.applied = TRUE, !.from = config[f]]])
    /\ clicks' = clicks + 1
    /\ UNCHANGED <<config, review, trail, edits, falls>>

Revert(c, f) ==
    /\ click[c] = NoClick /\ clicks < MaxClicks
    /\ f \in DOMAIN review.rows /\ review.rows[f].applied
    /\ Goes(c, [at |-> "config", field |-> f, from |-> review.rows[f].value, to |-> review.rows[f].from,
                read |-> review, row |-> Row(review.rows[f].value)])
    /\ clicks' = clicks + 1
    /\ UNCHANGED <<config, review, trail, edits, falls>>

WriteConfig(c) ==
    /\ click[c].at = "config"
    /\ config' = [config EXCEPT ![click[c].field] = click[c].to]
    /\ Advances(c)
    /\ UNCHANGED <<review, trail, edits, clicks, falls>>

Record(c) ==
    /\ click[c].at = "journal"
    /\ trail' = Append(trail, [field |-> click[c].field, from |-> click[c].from, to |-> click[c].to])
    /\ Advances(c)
    /\ UNCHANGED <<config, review, edits, clicks, falls>>

SaveRow(c) ==
    /\ click[c].at = "file"
    /\ review' = [click[c].read EXCEPT !.rows[click[c].field] = click[c].row]
    /\ Advances(c)
    /\ UNCHANGED <<config, trail, edits, clicks, falls>>

Fall ==
    /\ falls < MaxFalls /\ click # [c \in Clicks |-> NoClick]
    /\ falls' = falls + 1
    /\ click' = [c \in Clicks |-> NoClick]
    /\ UNCHANGED <<config, review, trail, edits, clicks>>

ReviewNext ==
    \/ Generate \/ Fall
    \/ \E f \in Fields : OwnerEdits(f)
    \/ \E c \in Clicks : \/ \E f \in Fields : Apply(c, f) \/ Revert(c, f)
                         \/ WriteConfig(c) \/ Record(c) \/ SaveRow(c)

ReviewSpec == ReviewInit /\ [][ReviewNext]_reviewVars

-----------------------------------------------------------------------------
ReviewTypeOK ==
    /\ config \in [Fields -> Values \cup {NoValue}]
    /\ review.generation \in 0..MaxReviews /\ DOMAIN review.rows \subseteq Fields
    /\ \A c \in Clicks : click[c].at \in {"none", "config", "journal", "file"}

\* "The journal can always answer who changed what": whatever the panel shows as
\* applied was journaled with the value it replaced, whatever clicks interleaved.
AppliedIsJournaled ==
    \A f \in DOMAIN review.rows :
        LET row == review.rows[f]
        IN  row.applied => [field |-> f, from |-> row.from, to |-> row.value] \in ToSet(trail)

\* What the panel shows as applied was journaled with the value it replaced,
\* whatever clicks, reviews and settings interleave (apply-review.ts).
ReviewInv == ReviewTypeOK /\ AppliedIsJournaled
=============================================================================

----------------------------- MODULE RunClaims -----------------------------
(***************************************************************************)
(* The storage contract every executor of a run relies on: the claim table *)
(* and the journal of SqliteJournalStore (src/core/sqlite-journal.ts).     *)
(*                                                                         *)
(* A claim is a lease: an owner, an expiry instant and an attempt number.  *)
(* Every operation of the store is one IMMEDIATE transaction, hence one    *)
(* action here.  A fenced write checks the claim in the transaction that   *)
(* appends, an unfenced one does not, a conditional one checks the last    *)
(* recorded status instead.  The clock is Date.now(), the wall clock: it   *)
(* may be set back.                                                        *)
(*                                                                         *)
(* The callers are the most general ones: any owner may try any operation  *)
(* at any moment.  What the callers of this program do is RunKernel.       *)
(***************************************************************************)
EXTENDS RunStatus, Integers, FiniteSets

CONSTANTS Runs,          \* run ids
          Owners,        \* owner ids: consumers, direct executors, recovery
          Orders,        \* subagent work orders of a run
          None,          \* no owner, no status
          LeaseMs,       \* lengths of the leases callers ask for
          MaxTime,       \* bound of the clock
          MaxSetBacks,   \* bound of its being set back
          MaxEntries,    \* bound of the journal of a run
          MaxGrants      \* bound of the successful claims of a run

ASSUME ClaimConstants ==
  /\ None \notin Owners
  /\ None \notin RunStatuses
  /\ LeaseMs \subseteq Nat \ {0}
  /\ MaxTime \in Nat /\ MaxSetBacks \in Nat /\ MaxEntries \in Nat /\ MaxGrants \in Nat

VARIABLES
  now,      \* the wall clock
  setBacks, \* how often the clock was set back
  claims,   \* per run, its row of run_claims
  journal,  \* per run, its journal: one entry per committed transaction
  grants    \* per run, how many claims were granted so far

clock == <<now, setBacks>>
vars == <<clock, claims, journal, grants>>

\* A row of run_claims.  `owner = None` is the absence of a row.
Claim == [owner : Owners \cup {None}, leaseUntil : Nat, attempt : Nat]

\* What one transaction wrote about a run: the status it recorded, the work
\* orders it dispatched and settled.  by, attempt and grant are not stored:
\* they remember whose claim fenced the write (None: not fenced).
Entry == [status : RunStatuses \cup {None},
          opened : SUBSET Orders, closed : SUBSET Orders,
          by : Owners \cup {None}, attempt : Nat, grant : Nat]

NoClaim == [owner |-> None, leaseUntil |-> 0, attempt |-> 0]

Written(s, opened, closed) == [status |-> s, opened |-> opened, closed |-> closed]

Stamp(write, by, attempt, grant) ==
  [status |-> write.status, opened |-> write.opened, closed |-> write.closed,
   by |-> by, attempt |-> attempt, grant |-> grant]

(***************************************************************************)
(* What the store reads back from the journal of a run.                    *)
(***************************************************************************)
\* The last recorded status, None when the run was never created.
StatusOf(r) ==
  LET marks == {i \in DOMAIN journal[r] : journal[r][i].status # None}
  IN IF marks = {} THEN None
     ELSE journal[r][CHOOSE i \in marks : \A j \in marks : j <= i].status

\* Work orders dispatched (or resumed) and not settled since.
ActiveIn(entries) ==
  {o \in Orders :
     \E i \in DOMAIN entries :
        /\ o \in entries[i].opened
        /\ \A j \in DOMAIN entries : j > i => o \notin entries[j].closed}

Live(r) == claims[r].owner # None /\ claims[r].leaseUntil > now

Holds(o, r) == claims[r].owner = o /\ Live(r)

HasRoom(r) == Len(journal[r]) < MaxEntries
-----------------------------------------------------------------------------
Init ==
  /\ now = 0 /\ setBacks = 0
  /\ claims = [r \in Runs |-> NoClaim]
  /\ journal = [r \in Runs |-> <<>>]
  /\ grants = [r \in Runs |-> 0]

Advance ==
  /\ now < MaxTime
  /\ now' = now + 1
  /\ UNCHANGED <<setBacks, claims, journal, grants>>

\* The wall clock is set back (NTP, a manual change).
SetBack ==
  /\ setBacks < MaxSetBacks
  /\ \E t \in 0..(now - 1) : now' = t
  /\ setBacks' = setBacks + 1
  /\ UNCHANGED <<claims, journal, grants>>

\* Mutant of claimRun: a live row is taken over.
claimRunSteals(r, o) ==
  /\ grants[r] < MaxGrants
  /\ \E ms \in LeaseMs :
       claims' = [claims EXCEPT ![r] =
         [owner |-> o, leaseUntil |-> now + ms, attempt |-> claims[r].attempt + 1]]
  /\ grants' = [grants EXCEPT ![r] = grants[r] + 1]
  /\ UNCHANGED <<clock, journal>>

\* The caller's own live row is renewed, another owner's live row refuses
\* it, an expired row is taken over; only a change of owner counts as a new
\* attempt.
claimRun(r, o) ==
  /\ grants[r] < MaxGrants
  /\ Live(r) => claims[r].owner = o
  /\ \E ms \in LeaseMs :
       claims' = [claims EXCEPT ![r] =
         [owner |-> o, leaseUntil |-> now + ms,
          attempt |-> IF claims[r].owner = o THEN claims[r].attempt
                      ELSE claims[r].attempt + 1]]
  /\ grants' = [grants EXCEPT ![r] = grants[r] + 1]
  /\ UNCHANGED <<clock, journal>>

renewClaim(r, o) ==
  /\ Holds(o, r)
  /\ \E ms \in LeaseMs : claims' = [claims EXCEPT ![r].leaseUntil = now + ms]
  /\ UNCHANGED <<clock, journal, grants>>

\* The row expires and stays: it is the ledger of attempts.
releaseClaim(r, o) ==
  /\ claims[r].owner = o
  /\ claims' = [claims EXCEPT ![r].leaseUntil = now]
  /\ UNCHANGED <<clock, journal, grants>>

\* Cancellation settles every active work order, records the status and
\* expires the claim, whoever holds it, in one transaction.
cancelRun(r) ==
  /\ StatusOf(r) \notin Terminal \cup {None}
  /\ HasRoom(r)
  /\ journal' = [journal EXCEPT ![r] = Append(@,
       Stamp(Written("cancelled", {}, ActiveIn(journal[r])), None, 0, grants[r]))]
  /\ claims' = [claims EXCEPT ![r].leaseUntil =
                  IF claims[r].owner = None THEN 0 ELSE now]
  /\ UNCHANGED <<clock, grants>>

\* What a transaction may write: a status other than the one cancelRun
\* records, or the dispatch or the settlement of one work order.
Writes ==
  {Written(s, {}, {}) : s \in {"running", "failed"}}
  \cup {Written(None, {o}, {}) : o \in Orders}
  \cup {Written(None, {}, {o}) : o \in Orders}

Unfenced(r, w) ==
  /\ HasRoom(r)
  /\ journal' = [journal EXCEPT ![r] = Append(@, Stamp(w, None, 0, grants[r]))]
  /\ UNCHANGED <<clock, claims, grants>>

\* The batch that creates a run (appendBatch, from acceptTrigger).
createRun(r) ==
  /\ StatusOf(r) = None
  /\ Unfenced(r, Written("created", {}, {}))

\* append and appendBatch: no check at all.
append(r, w) ==
  /\ StatusOf(r) # None
  /\ Unfenced(r, w)

\* appendBatchIfStatus: refused unless the last recorded status is the
\* expected one; no claim is looked at.
appendBatchIfStatus(r, expected, w) ==
  /\ StatusOf(r) = expected
  /\ Unfenced(r, w)

\* Mutant of appendClaimed: a lease is asked for, not whose it is.
appendClaimedByAnyone(r, o, w) ==
  /\ Live(r)
  /\ StatusOf(r) # None
  /\ HasRoom(r)
  /\ journal' = [journal EXCEPT ![r] =
       Append(@, Stamp(w, o, claims[r].attempt, grants[r]))]
  /\ UNCHANGED <<clock, claims, grants>>

\* appendClaimed, appendBatchClaimed: refused unless the claim is held now.
appendClaimed(r, o, w) ==
  /\ Holds(o, r)
  /\ StatusOf(r) # None
  /\ HasRoom(r)
  /\ journal' = [journal EXCEPT ![r] =
       Append(@, Stamp(w, o, claims[r].attempt, grants[r]))]
  /\ UNCHANGED <<clock, claims, grants>>

\* appendClaimedIfUnchanged: refused, too, when the run's history has grown
\* past the last entry the caller read.
appendClaimedIfUnchanged(r, o, w, last) ==
  /\ Len(journal[r]) = last
  /\ appendClaimed(r, o, w)

Next ==
  \/ Advance
  \/ SetBack
  \/ \E r \in Runs :
       \/ createRun(r)
       \/ cancelRun(r)
       \/ \E w \in Writes : append(r, w)
       \/ \E w \in Writes, s \in RunStatuses : appendBatchIfStatus(r, s, w)
       \/ \E o \in Owners :
            \/ claimRun(r, o)
            \/ renewClaim(r, o)
            \/ releaseClaim(r, o)
            \/ \E w \in Writes : appendClaimed(r, o, w)
            \/ \E w \in Writes, last \in 1..MaxEntries :
                 appendClaimedIfUnchanged(r, o, w, last)

Spec == Init /\ [][Next]_vars
-----------------------------------------------------------------------------
\* The state of the store has its type.
TypeOK ==
  /\ now \in Nat /\ setBacks \in Nat
  /\ claims \in [Runs -> Claim]
  /\ journal \in [Runs -> Seq(Entry)]
  /\ grants \in [Runs -> Nat]

\* Positions i before j of the journal of run r, both written under a claim.
FencedPair(r, i, j) ==
  /\ i < j
  /\ journal[r][i].by # None /\ journal[r][j].by # None

\* Fencing: along the journal of a run the writes made under a claim come in
\* the order of the attempts, and those of one attempt are one owner's.  An
\* executor that lost its run to a successor, and does not know it, never
\* lands a write after the first write of that successor.
FencingOrder ==
  \A r \in Runs : \A i, j \in DOMAIN journal[r] :
    FencedPair(r, i, j) =>
      /\ journal[r][i].attempt <= journal[r][j].attempt
      /\ journal[r][i].attempt = journal[r][j].attempt =>
           journal[r][i].by = journal[r][j].by

\* A cancellation revokes the claim under which the run was executing: what
\* is written under a claim after it was written under a later grant.  A clock
\* set back may revive the lease, hence the condition.
CancelRevokes ==
  setBacks = 0 =>
    \A r \in Runs : \A i, j \in DOMAIN journal[r] :
      /\ i < j
      /\ journal[r][i].status = "cancelled"
      /\ journal[r][j].by # None
      => journal[r][j].grant > journal[r][i].grant

\* A cancelled run leaves no work order active at the instant of the
\* cancellation, whatever was dispatched before it and by whom.
CancelSettlesOrders ==
  \A r \in Runs : \A i \in DOMAIN journal[r] :
    journal[r][i].status = "cancelled" => ActiveIn(SubSeq(journal[r], 1, i)) = {}

\* A run passes from one owner to another only when the lease of the first
\* has run out, been released or been revoked, and the ledger of attempts
\* counts that hand-over: two executors are never both within a lease.
HandOver ==
  [][\A r \in Runs :
       /\ claims'[r].attempt >= claims[r].attempt
       /\ claims'[r].owner # claims[r].owner =>
            /\ ~Live(r)
            /\ claims'[r].attempt = claims[r].attempt + 1]_vars

\* What the store owes to whoever executes a run: the writes under a claim come
\* in the order of the attempts, each attempt's are one owner's, and a
\* cancellation revokes the claim and leaves no work order active
\* (sqlite-journal.ts), on rows and entries of their types.
ClaimsInv == TypeOK /\ FencingOrder /\ CancelRevokes /\ CancelSettlesOrders
=============================================================================

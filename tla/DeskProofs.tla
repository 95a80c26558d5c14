----------------------------- MODULE DeskProofs -----------------------------
(***************************************************************************)
(* Proofs about the processes of the owner's desk, for every value of the  *)
(* constants and for every number of steps:                                *)
(*   - RunClaims: the fencing order of the journal, whatever the wall clock *)
(*     does; the hand-over of a run from one owner to the next; for a clock *)
(*     that never goes back, the revocation of a claim by a cancellation;  *)
(*     the settlement of every active work order by a cancellation;        *)
(*   - Companion: the journal outlives the work that writes to it;         *)
(*   - Sessions: what the list hides, the owner removed, or it went with its*)
(*     conversation, in one write (one request at a time);                 *)
(*   - OwnerThread: each reply is shown once, the sidebar tells of the latest*)
(*     turn, and the prompt has the newest turn and keeps to its budget;    *)
(*   - ReviewActions: what is shown as applied was journaled;              *)
(*   - Improvement: every change of the memory is accounted for.           *)
(*   - MemoryContext: use never buries a better match, the context keeps to*)
(*     its budget with a preference in it, and shows nothing that was      *)
(*     replaced.                                                           *)
(***************************************************************************)
EXTENDS MCDesk, BridgeProofs, FiniteSetTheorems, TLAPS

-----------------------------------------------------------------------------
(* RunClaims.                                                                *)

\* Every write stamped by the store is an entry of the journal.
LEMMA StampType ==
  ASSUME NEW w \in Writes, NEW o \in Owners \cup {None}, NEW a \in Nat, NEW g \in Nat
  PROVE  Stamp(w, o, a, g) \in Entry
  BY DEF Writes, Written, Stamp, Entry, RunStatuses

LEMMA CreatedType ==
  ASSUME NEW o \in Owners \cup {None}, NEW a \in Nat, NEW g \in Nat
  PROVE  /\ Stamp(Written("created", {}, {}), o, a, g) \in Entry
         /\ \A c \in SUBSET Orders :
              Stamp(Written("cancelled", {}, c), o, a, g) \in Entry
  BY DEF Written, Stamp, Entry, RunStatuses

LEMMA ActiveType == \A s : ActiveIn(s) \in SUBSET Orders
  BY DEF ActiveIn

\* What an unfenced transaction does to the journal of its run.
LEMMA UnfencedType ==
  ASSUME TypeOK, NEW r \in Runs, NEW w,
         Stamp(w, None, 0, grants[r]) \in Entry, Unfenced(r, w)
  PROVE  TypeOK'
  BY DEF clock, TypeOK, Unfenced

\* The state of the store has its type in every behaviour.
THEOREM Typing == Spec => []TypeOK
<1>1. Init => TypeOK
  BY ClaimConstants DEF Init, TypeOK, Claim, NoClaim
<1>2. TypeOK /\ [Next]_vars => TypeOK'
  <2> SUFFICES ASSUME TypeOK, [Next]_vars PROVE TypeOK'
    OBVIOUS
  <2>1. CASE Advance
    BY <2>1 DEF TypeOK, Advance
  <2>2. CASE SetBack
    BY <2>2 DEF TypeOK, SetBack
  <2>3. ASSUME NEW r \in Runs, createRun(r) PROVE TypeOK'
    <3>1. Stamp(Written("created", {}, {}), None, 0, grants[r]) \in Entry
      BY CreatedType DEF TypeOK
    <3> QED
      BY <2>3, <3>1, UnfencedType DEF createRun
  <2>4. ASSUME NEW r \in Runs, cancelRun(r) PROVE TypeOK'
    <3>1. Stamp(Written("cancelled", {}, ActiveIn(journal[r])), None, 0, grants[r])
            \in Entry
      BY CreatedType, ActiveType DEF TypeOK
    <3>2. journal' \in [Runs -> Seq(Entry)]
      BY <2>4, <3>1 DEF TypeOK, cancelRun
    <3>3. claims' \in [Runs -> Claim]
      BY <2>4 DEF TypeOK, cancelRun, Claim
    <3> QED
      BY <2>4, <3>2, <3>3 DEF clock, TypeOK, cancelRun
  <2>5. ASSUME NEW r \in Runs, NEW w \in Writes, append(r, w) PROVE TypeOK'
    <3>1. Stamp(w, None, 0, grants[r]) \in Entry
      BY StampType DEF TypeOK
    <3> QED
      BY <2>5, <3>1, UnfencedType DEF append
  <2>6. ASSUME NEW r \in Runs, NEW w \in Writes, NEW s \in RunStatuses,
               appendBatchIfStatus(r, s, w)
        PROVE TypeOK'
    <3>1. Stamp(w, None, 0, grants[r]) \in Entry
      BY StampType DEF TypeOK
    <3> QED
      BY <2>6, <3>1, UnfencedType DEF appendBatchIfStatus
  <2>7. ASSUME NEW r \in Runs, NEW o \in Owners, claimRun(r, o) PROVE TypeOK'
    BY <2>7, ClaimConstants DEF clock, TypeOK, claimRun, Claim
  <2>8. ASSUME NEW r \in Runs, NEW o \in Owners, renewClaim(r, o) PROVE TypeOK'
    <3>1. PICK ms \in LeaseMs :
            claims' = [claims EXCEPT ![r].leaseUntil = now + ms]
      BY <2>8 DEF renewClaim
    <3>2. now + ms \in Nat
      BY ClaimConstants DEF TypeOK
    <3>3. claims' \in [Runs -> Claim]
      BY <3>1, <3>2 DEF TypeOK, Claim
    <3> QED
      BY <2>8, <3>3 DEF clock, TypeOK, renewClaim
  <2>9. ASSUME NEW r \in Runs, NEW o \in Owners, releaseClaim(r, o) PROVE TypeOK'
    BY <2>9 DEF clock, TypeOK, releaseClaim, Claim
  <2>10. ASSUME NEW r \in Runs, NEW o \in Owners, NEW w \in Writes,
                appendClaimed(r, o, w)
         PROVE TypeOK'
    <3>1. claims[r].attempt \in Nat /\ grants[r] \in Nat
      BY DEF TypeOK, Claim
    <3>2. Stamp(w, o, claims[r].attempt, grants[r]) \in Entry
      BY <3>1, StampType
    <3> QED
      BY <2>10, <3>2 DEF clock, TypeOK, appendClaimed
  <2>11. CASE UNCHANGED vars
    BY <2>11 DEF clock, TypeOK, vars
  <2> QED
    BY <2>1, <2>2, <2>3, <2>4, <2>5, <2>6, <2>7, <2>8, <2>9, <2>10, <2>11
    DEF Next, appendClaimedIfUnchanged
<1> QED
  BY <1>1, <1>2, PTL DEF Spec
-----------------------------------------------------------------------------
(***************************************************************************)
(* Fencing.  FencingOrder is not inductive: it says nothing of the claim   *)
(* under which the next write will be made.  The ledger ties the writes of *)
(* the past to the row of the present: none was made under a later attempt *)
(* than the row's, and those of the row's attempt are its owner's.         *)
(***************************************************************************)
Ledger ==
  \A r \in Runs : \A i \in DOMAIN journal[r] :
    journal[r][i].by # None =>
      /\ claims[r].owner # None
      /\ journal[r][i].attempt <= claims[r].attempt
      /\ journal[r][i].attempt = claims[r].attempt =>
           journal[r][i].by = claims[r].owner

\* The row of a run never disappears, never goes back to an earlier attempt,
\* and keeps its owner as long as it keeps its attempt.
RowAdvances(r) ==
  /\ claims[r].owner # None => claims'[r].owner # None
  /\ claims'[r].attempt >= claims[r].attempt
  /\ claims[r].owner # None /\ claims'[r].attempt = claims[r].attempt =>
       claims'[r].owner = claims[r].owner

\* A transaction adds at most one entry to a run, fenced by its row or not
\* fenced at all; a fenced one leaves the row as it is, and a cancellation
\* leaves no live row and settles every active order.
Lands(r, e) ==
  /\ journal'[r] = Append(journal[r], e)
  /\ e.grant = grants[r]
  /\ \/ e.by = None
     \/ /\ e.by = claims[r].owner /\ e.attempt = claims[r].attempt
        /\ Live(r)
        /\ claims' = claims
  /\ e.status = "cancelled" =>
       /\ grants'[r] = grants[r] /\ ~Live(r)'
       /\ e.opened = {} /\ e.closed = ActiveIn(journal[r])

LEMMA RowStep ==
  ASSUME TypeOK, [Next]_vars, NEW r \in Runs
  PROVE  RowAdvances(r)
<1> USE DEF RowAdvances
<1>0. claims[r] \in Claim /\ claims[r].attempt \in Nat
  BY DEF TypeOK, Claim
<1>1. CASE claims' = claims
  BY <1>0, <1>1
<1>2. ASSUME NEW q \in Runs, NEW o \in Owners, claimRun(q, o) PROVE RowAdvances(r)
  <2>1. CASE q = r
    BY <1>0, <1>2, <2>1, ClaimConstants DEF claimRun, TypeOK
  <2>2. CASE q # r
    BY <1>0, <1>2, <2>2 DEF claimRun, TypeOK
  <2> QED
    BY <2>1, <2>2
<1>3. ASSUME NEW q \in Runs, NEW t, claims' = [claims EXCEPT ![q].leaseUntil = t]
      PROVE RowAdvances(r)
  BY <1>0, <1>3 DEF TypeOK, Claim
<1>4. ASSUME NEW q \in Runs, NEW o \in Owners, renewClaim(q, o) PROVE RowAdvances(r)
  BY <1>3, <1>4 DEF renewClaim
<1>5. ASSUME NEW q \in Runs, NEW o \in Owners, releaseClaim(q, o)
      PROVE RowAdvances(r)
  BY <1>3, <1>5 DEF releaseClaim
<1>6. ASSUME NEW q \in Runs, cancelRun(q) PROVE RowAdvances(r)
  BY <1>3, <1>6 DEF cancelRun
<1> QED
  BY <1>1, <1>2, <1>4, <1>5, <1>6
  DEF Next, vars, Advance, SetBack, createRun, append, appendBatchIfStatus,
      Unfenced, appendClaimed, appendClaimedIfUnchanged

LEMMA WriteStatus == \A w \in Writes : w.status # "cancelled"
  BY ClaimConstants DEF Writes, Written, RunStatuses

LEMMA JournalStep ==
  ASSUME TypeOK, [Next]_vars, NEW r \in Runs
  PROVE  \/ journal'[r] = journal[r]
         \/ \E e \in Entry : Lands(r, e)
<1> DEFINE Goal == journal'[r] = journal[r] \/ \E e \in Entry : Lands(r, e)
<1>0. grants[r] \in Nat /\ claims[r].attempt \in Nat /\ journal[r] \in Seq(Entry)
  BY DEF TypeOK, Claim
<1>1. CASE journal' = journal
  BY <1>1
<1>2. ASSUME NEW q \in Runs, NEW w, Unfenced(q, w), w.status # "cancelled",
             Stamp(w, None, 0, grants[q]) \in Entry
      PROVE  Goal
  <2>1. CASE q = r
    <3>1. journal'[r] = Append(journal[r], Stamp(w, None, 0, grants[r]))
      BY <1>2, <2>1 DEF Unfenced, TypeOK
    <3> QED
      BY <1>2, <2>1, <3>1 DEF Lands, Stamp
  <2>2. CASE q # r
    BY <1>2, <2>2 DEF Unfenced, TypeOK
  <2> QED
    BY <2>1, <2>2
<1>3. ASSUME NEW q \in Runs, createRun(q) PROVE Goal
  <2>1. Stamp(Written("created", {}, {}), None, 0, grants[q]) \in Entry
    BY CreatedType DEF TypeOK
  <2>2. Written("created", {}, {}).status # "cancelled"
    BY DEF Written
  <2> QED
    BY <1>2, <1>3, <2>1, <2>2 DEF createRun
<1>4. ASSUME NEW q \in Runs, NEW w \in Writes, Unfenced(q, w) PROVE Goal
  <2>1. Stamp(w, None, 0, grants[q]) \in Entry
    BY StampType DEF TypeOK
  <2> QED
    BY <1>2, <1>4, <2>1, WriteStatus
<1>5. ASSUME NEW q \in Runs, cancelRun(q) PROVE Goal
  <2> DEFINE e == Stamp(Written("cancelled", {}, ActiveIn(journal[q])),
                        None, 0, grants[q])
  <2>1. e \in Entry
    BY CreatedType, ActiveType DEF TypeOK
  <2>2. CASE q = r
    <3>1. journal'[r] = Append(journal[r], e)
      BY <1>5, <2>2 DEF cancelRun, TypeOK
    <3>2. /\ e.by = None /\ e.grant = grants[r]
          /\ e.opened = {} /\ e.closed = ActiveIn(journal[r])
      BY <2>2 DEF Stamp, Written
    <3>3. claims'[r].owner = claims[r].owner
      BY <1>5 DEF cancelRun, TypeOK, Claim
    <3>4. claims[r].owner # None => claims'[r].leaseUntil = now
      BY <1>5, <2>2 DEF cancelRun, TypeOK, Claim
    <3>5. now' = now /\ grants' = grants /\ now \in Nat
      BY <1>5 DEF clock, cancelRun, TypeOK
    <3>6. ~Live(r)'
      BY <3>3, <3>4, <3>5 DEF Live
    <3> QED
      BY <2>1, <3>1, <3>2, <3>5, <3>6 DEF Lands
  <2>3. CASE q # r
    BY <1>5, <2>3 DEF cancelRun, TypeOK
  <2> QED
    BY <2>2, <2>3
<1>6. ASSUME NEW q \in Runs, NEW o \in Owners, NEW w \in Writes,
             appendClaimed(q, o, w)
      PROVE  Goal
  <2>1. CASE q = r
    <3> DEFINE e == Stamp(w, o, claims[r].attempt, grants[r])
    <3>1. e \in Entry
      BY <1>0, StampType
    <3>2. journal'[r] = Append(journal[r], e) /\ claims' = claims
      BY <1>6, <2>1 DEF appendClaimed, TypeOK
    <3>3. /\ e.by = claims[r].owner
          /\ e.attempt = claims[r].attempt
          /\ e.grant = grants[r]
          /\ e.status = w.status
      BY <1>6, <2>1 DEF appendClaimed, Holds, Stamp
    <3>4. Live(r)
      BY <1>6, <2>1 DEF appendClaimed, Holds
    <3>5. w.status # "cancelled"
      BY WriteStatus
    <3> QED
      BY <3>1, <3>2, <3>3, <3>4, <3>5 DEF Lands
  <2>2. CASE q # r
    BY <1>6, <2>2 DEF appendClaimed, TypeOK
  <2> QED
    BY <2>1, <2>2
<1> QED
  BY <1>1, <1>3, <1>4, <1>5, <1>6
  DEF Next, vars, Advance, SetBack, append, appendBatchIfStatus, claimRun,
      renewClaim, releaseClaim, appendClaimedIfUnchanged

LEMMA LedgerStep ==
  ASSUME TypeOK, TypeOK', Ledger, [Next]_vars
  PROVE  Ledger'
<1> SUFFICES ASSUME NEW r \in Runs, NEW i \in DOMAIN journal'[r],
                    journal'[r][i].by # None
             PROVE  /\ claims'[r].owner # None
                    /\ journal'[r][i].attempt <= claims'[r].attempt
                    /\ journal'[r][i].attempt = claims'[r].attempt =>
                         journal'[r][i].by = claims'[r].owner
  BY DEF Ledger
<1>1. RowAdvances(r)
  BY RowStep
<1>2. claims[r].attempt \in Nat /\ claims'[r].attempt \in Nat
  BY DEF TypeOK, Claim
<1>3. journal[r] \in Seq(Entry)
  BY DEF TypeOK
<1>4. CASE i \in DOMAIN journal[r] /\ journal'[r][i] = journal[r][i]
  <2>1. /\ claims[r].owner # None
        /\ journal[r][i].attempt <= claims[r].attempt
        /\ journal[r][i].attempt = claims[r].attempt =>
             journal[r][i].by = claims[r].owner
    BY <1>4 DEF Ledger
  <2>2. journal[r][i].attempt \in Nat
    <3>1. journal[r][i] \in Entry
      BY <1>3, <1>4
    <3> QED
      BY <3>1 DEF Entry
  <2> QED
    BY <1>1, <1>2, <1>4, <2>1, <2>2 DEF RowAdvances
<1>5. ASSUME NEW e \in Entry, Lands(r, e), i = Len(journal[r]) + 1
      PROVE  /\ claims'[r].owner # None
             /\ journal'[r][i].attempt <= claims'[r].attempt
             /\ journal'[r][i].attempt = claims'[r].attempt =>
                  journal'[r][i].by = claims'[r].owner
  <2>1. journal'[r][i] = e
    BY <1>3, <1>5 DEF Lands
  <2> QED
    BY <1>2, <1>5, <2>1 DEF Lands, Live
<1>6. ASSUME NEW e \in Entry, Lands(r, e)
      PROVE  \/ i \in DOMAIN journal[r] /\ journal'[r][i] = journal[r][i]
             \/ i = Len(journal[r]) + 1
  BY <1>3, <1>6 DEF Lands
<1> QED
  BY <1>4, <1>5, <1>6, JournalStep

LEMMA FencingStep ==
  ASSUME TypeOK, TypeOK', Ledger, FencingOrder, [Next]_vars
  PROVE  FencingOrder'
<1> SUFFICES ASSUME NEW r \in Runs,
                    NEW i \in DOMAIN journal'[r], NEW j \in DOMAIN journal'[r],
                    i < j, journal'[r][i].by # None, journal'[r][j].by # None
             PROVE  /\ journal'[r][i].attempt <= journal'[r][j].attempt
                    /\ journal'[r][i].attempt = journal'[r][j].attempt =>
                         journal'[r][i].by = journal'[r][j].by
  BY DEF FencingOrder, FencedPair
<1>1. journal[r] \in Seq(Entry)
  BY DEF TypeOK
<1>2. CASE journal'[r] = journal[r]
  BY <1>2 DEF FencingOrder, FencedPair
<1>3. ASSUME NEW e \in Entry, Lands(r, e)
      PROVE  /\ journal'[r][i].attempt <= journal'[r][j].attempt
             /\ journal'[r][i].attempt = journal'[r][j].attempt =>
                  journal'[r][i].by = journal'[r][j].by
  <2>1. i \in DOMAIN journal[r] /\ journal'[r][i] = journal[r][i]
    BY <1>1, <1>3 DEF Lands
  <2>2. CASE j \in DOMAIN journal[r]
    <3>1. journal'[r][j] = journal[r][j]
      BY <1>1, <1>3, <2>2 DEF Lands
    <3> QED
      BY <2>1, <2>2, <3>1 DEF FencingOrder, FencedPair
  <2>3. CASE j = Len(journal[r]) + 1
    <3>1. journal'[r][j] = e
      BY <1>1, <1>3, <2>3 DEF Lands
    <3> QED
      BY <1>3, <2>1, <3>1 DEF Lands, Ledger
  <2> QED
    BY <1>1, <1>3, <2>2, <2>3 DEF Lands
<1> QED
  BY <1>2, <1>3, JournalStep

\* The writes made under a claim land in the order of the attempts, whatever
\* the owners do and wherever the clock is set: the guarantee that a stale
\* executor never writes over its successor.
THEOREM Fencing == Spec => []FencingOrder
<1>1. Init => Ledger /\ FencingOrder
  BY DEF Init, Ledger, FencingOrder, FencedPair
<1>2. TypeOK /\ TypeOK' /\ Ledger /\ FencingOrder /\ [Next]_vars
        => Ledger' /\ FencingOrder'
  BY LedgerStep, FencingStep
<1> QED
  BY <1>1, <1>2, Typing, PTL DEF Spec
-----------------------------------------------------------------------------
\* The ledger of attempts only grows, and an owner takes a run over from
\* another only outside that owner's lease.
THEOREM HandOvers == Spec => HandOver
<1> DEFINE HandsOver(r) ==
      /\ claims'[r].attempt >= claims[r].attempt
      /\ claims'[r].owner # claims[r].owner =>
           /\ ~Live(r)
           /\ claims'[r].attempt = claims[r].attempt + 1
<1>1. ASSUME TypeOK, [Next]_vars, NEW r \in Runs PROVE HandsOver(r)
  <2>0. claims[r] \in Claim /\ claims[r].attempt \in Nat
    BY <1>1 DEF TypeOK, Claim
  <2>1. CASE claims' = claims
    BY <2>0, <2>1
  <2>2. ASSUME NEW q \in Runs, NEW t, claims' = [claims EXCEPT ![q].leaseUntil = t]
        PROVE HandsOver(r)
    BY <1>1, <2>0, <2>2 DEF TypeOK, Claim
  <2>3. ASSUME NEW q \in Runs, NEW o \in Owners, claimRun(q, o)
        PROVE HandsOver(r)
    <3>1. CASE q = r
      BY <1>1, <2>0, <2>3, <3>1 DEF claimRun, TypeOK
    <3>2. CASE q # r
      BY <1>1, <2>0, <2>3, <3>2 DEF claimRun, TypeOK
    <3> QED
      BY <3>1, <3>2
  <2>4. ASSUME NEW q \in Runs, NEW o \in Owners,
               renewClaim(q, o) \/ releaseClaim(q, o)
        PROVE HandsOver(r)
    BY <2>2, <2>4 DEF renewClaim, releaseClaim
  <2>5. ASSUME NEW q \in Runs, cancelRun(q) PROVE HandsOver(r)
    BY <2>2, <2>5 DEF cancelRun
  <2> QED
    BY <1>1, <2>1, <2>3, <2>4, <2>5
    DEF Next, vars, Advance, SetBack, createRun, append, appendBatchIfStatus,
        Unfenced, appendClaimed, appendClaimedIfUnchanged
<1>2. TypeOK /\ [Next]_vars => [\A r \in Runs : HandsOver(r)]_vars
  BY <1>1
<1> QED
  BY <1>2, Typing, PTL DEF Spec, HandOver
-----------------------------------------------------------------------------
(***************************************************************************)
(* Revocation.  A claim is revoked when its row is no longer live or was   *)
(* granted again since.  With a clock that never goes back a revoked claim *)
(* stays so; a clock set back would revive it, which is why this invariant, *)
(* unlike the fencing order, asks that it never was.                       *)
(***************************************************************************)
Revoked ==
  setBacks = 0 =>
    \A r \in Runs : \A i \in DOMAIN journal[r] :
      /\ journal[r][i].grant <= grants[r]
      /\ journal[r][i].status = "cancelled" /\ journal[r][i].grant = grants[r] =>
           ~Live(r)

\* A clock that was never set back in the next state was not in this one.
LEMMA SetBacksStep ==
  ASSUME TypeOK, [Next]_vars, setBacks' = 0
  PROVE  setBacks = 0
<1>1. CASE UNCHANGED vars
  BY <1>1 DEF vars, clock
<1>2. CASE Next
  BY <1>2 DEF TypeOK, Next, Advance, SetBack, createRun, cancelRun, append,
     appendBatchIfStatus, Unfenced, claimRun, renewClaim, releaseClaim,
     appendClaimed, appendClaimedIfUnchanged, clock
<1> QED
  BY <1>1, <1>2

\* With a monotone clock a step makes a claim live only by granting it again
\* and a cancellation leaves none live.
LEMMA LiveStep ==
  ASSUME setBacks' = 0, TypeOK, [Next]_vars, NEW r \in Runs
  PROVE  /\ grants'[r] >= grants[r]
         /\ ~Live(r) /\ grants'[r] = grants[r] => ~Live(r)'
<1> DEFINE Goal == /\ grants'[r] >= grants[r]
                   /\ ~Live(r) /\ grants'[r] = grants[r] => ~Live(r)'
<1>0. /\ grants[r] \in Nat /\ now \in Nat
      /\ claims[r] \in Claim /\ claims[r].leaseUntil \in Nat
  BY DEF TypeOK, Claim
<1>1. CASE UNCHANGED <<clock, claims, grants>>
  BY <1>0, <1>1 DEF clock, Live
<1>2. CASE Advance
  BY <1>0, <1>2 DEF Advance, Live
<1>3. CASE SetBack
  BY <1>3 DEF TypeOK, SetBack
<1>4. ASSUME NEW q \in Runs, claims' = [claims EXCEPT ![q].leaseUntil = now],
             now' = now, grants' = grants
      PROVE  Goal
  BY <1>0, <1>4 DEF Live, TypeOK, Claim
<1>5. ASSUME NEW q \in Runs, NEW o \in Owners, claimRun(q, o) PROVE Goal
  BY <1>0, <1>5 DEF clock, claimRun, Live, TypeOK
<1>6. ASSUME NEW q \in Runs, NEW o \in Owners, renewClaim(q, o) PROVE Goal
  <2>1. CASE q = r
    BY <1>0, <1>6, <2>1 DEF renewClaim, Holds
  <2>2. CASE q # r
    BY <1>0, <1>6, <2>2 DEF clock, renewClaim, Live, TypeOK
  <2> QED
    BY <2>1, <2>2
<1>7. ASSUME NEW q \in Runs, NEW o \in Owners, releaseClaim(q, o) PROVE Goal
  BY <1>4, <1>7 DEF clock, releaseClaim
<1>8. ASSUME NEW q \in Runs, cancelRun(q) PROVE Goal
  <2>1. CASE claims[q].owner = None
    <3>1. claims'[r].owner = claims[r].owner
      BY <1>0, <1>8 DEF cancelRun, TypeOK, Claim
    <3>2. CASE q = r
      BY <1>0, <1>8, <2>1, <3>1, <3>2 DEF cancelRun, Live
    <3>3. CASE q # r
      BY <1>0, <1>8, <3>3 DEF clock, cancelRun, Live, TypeOK
    <3> QED
      BY <3>2, <3>3
  <2>2. CASE claims[q].owner # None
    BY <1>4, <1>8, <2>2 DEF clock, cancelRun
  <2> QED
    BY <2>1, <2>2
<1> QED
  BY <1>1, <1>2, <1>3, <1>5, <1>6, <1>7, <1>8
  DEF Next, vars, createRun, append, appendBatchIfStatus, Unfenced,
      appendClaimed, appendClaimedIfUnchanged

LEMMA RevokedStep ==
  ASSUME TypeOK, TypeOK', Revoked, [Next]_vars
  PROVE  Revoked'
<1> SUFFICES ASSUME setBacks' = 0, NEW r \in Runs, NEW i \in DOMAIN journal'[r]
             PROVE  /\ journal'[r][i].grant <= grants'[r]
                    /\ journal'[r][i].status = "cancelled"
                         /\ journal'[r][i].grant = grants'[r] => ~Live(r)'
  BY DEF Revoked
<1>a. setBacks = 0
  BY SetBacksStep
<1>0. journal[r] \in Seq(Entry) /\ grants[r] \in Nat /\ grants'[r] \in Nat
  BY DEF TypeOK
<1>1. CASE i \in DOMAIN journal[r] /\ journal'[r][i] = journal[r][i]
  <2>1. /\ journal[r][i].grant <= grants[r]
        /\ journal[r][i].status = "cancelled" /\ journal[r][i].grant = grants[r]
             => ~Live(r)
    BY <1>a, <1>1 DEF Revoked
  <2>2. journal[r][i] \in Entry
    BY <1>0, <1>1
  <2>3. journal[r][i].grant \in Nat
    BY <2>2 DEF Entry
  <2> QED
    BY <1>0, <1>1, <2>1, <2>3, LiveStep
<1>2. ASSUME NEW e \in Entry, Lands(r, e), i = Len(journal[r]) + 1
      PROVE  /\ journal'[r][i].grant <= grants'[r]
             /\ journal'[r][i].status = "cancelled"
                  /\ journal'[r][i].grant = grants'[r] => ~Live(r)'
  <2>1. journal'[r][i] = e /\ e.grant = grants[r]
    BY <1>0, <1>2 DEF Lands
  <2>2. e.status = "cancelled" => ~Live(r)'
    BY <1>2 DEF Lands
  <2>3. grants'[r] >= grants[r]
    BY LiveStep
  <2> QED
    BY <1>0, <2>1, <2>2, <2>3
<1>3. ASSUME NEW e \in Entry, Lands(r, e)
      PROVE  \/ i \in DOMAIN journal[r] /\ journal'[r][i] = journal[r][i]
             \/ i = Len(journal[r]) + 1
  BY <1>0, <1>3 DEF Lands
<1> QED
  BY <1>0, <1>1, <1>2, <1>3, JournalStep

LEMMA CancelRevokesStep ==
  ASSUME TypeOK, TypeOK', Revoked, CancelRevokes, [Next]_vars
  PROVE  CancelRevokes'
<1> SUFFICES ASSUME setBacks' = 0, NEW r \in Runs,
                    NEW i \in DOMAIN journal'[r], NEW j \in DOMAIN journal'[r],
                    i < j, journal'[r][i].status = "cancelled",
                    journal'[r][j].by # None
             PROVE  journal'[r][j].grant > journal'[r][i].grant
  BY DEF CancelRevokes
<1>a. setBacks = 0
  BY SetBacksStep
<1>0. journal[r] \in Seq(Entry) /\ grants[r] \in Nat
  BY DEF TypeOK
<1>1. CASE journal'[r] = journal[r]
  BY <1>a, <1>1 DEF CancelRevokes
<1>2. ASSUME NEW e \in Entry, Lands(r, e)
      PROVE  journal'[r][j].grant > journal'[r][i].grant
  <2>1. i \in DOMAIN journal[r] /\ journal'[r][i] = journal[r][i]
    BY <1>0, <1>2 DEF Lands
  <2>2. CASE j \in DOMAIN journal[r]
    <3>1. journal'[r][j] = journal[r][j]
      BY <1>0, <1>2, <2>2 DEF Lands
    <3> QED
      BY <1>a, <2>1, <2>2, <3>1 DEF CancelRevokes
  <2>3. CASE j = Len(journal[r]) + 1
    <3>1. journal'[r][j] = e /\ e.grant = grants[r]
      BY <1>0, <1>2, <2>3 DEF Lands
    <3>2. Live(r)
      BY <1>2, <3>1 DEF Lands
    <3>3. journal[r][i].grant <= grants[r] /\ journal[r][i].grant # grants[r]
      BY <1>a, <2>1, <3>2 DEF Revoked
    <3>4. journal[r][i] \in Entry
      BY <1>0, <2>1
    <3>5. journal[r][i].grant \in Nat
      BY <3>4 DEF Entry
    <3> QED
      BY <1>0, <2>1, <3>1, <3>3, <3>5
  <2> QED
    BY <1>0, <1>2, <2>2, <2>3 DEF Lands
<1> QED
  BY <1>1, <1>2, JournalStep

\* As long as the clock was never set back, nothing is written under a claim
\* after the run was cancelled unless the claim was granted again since.
THEOREM Revocation == Spec => []CancelRevokes
<1>1. Init => Revoked /\ CancelRevokes
  BY DEF Init, Revoked, CancelRevokes
<1>2. TypeOK /\ TypeOK' /\ Revoked /\ CancelRevokes /\ [Next]_vars
        => Revoked' /\ CancelRevokes'
  BY RevokedStep, CancelRevokesStep
<1> QED
  BY <1>1, <1>2, Typing, PTL DEF Spec

\* The beginnings of a journal that grew by one entry.
LEMMA Beginnings ==
  ASSUME NEW j \in Seq(Entry), NEW e \in Entry
  PROVE  /\ \A i \in DOMAIN j : SubSeq(Append(j, e), 1, i) = SubSeq(j, 1, i)
         /\ SubSeq(Append(j, e), 1, Len(j) + 1) = Append(j, e)
  OBVIOUS

LEMMA ClosingStep ==
  ASSUME TypeOK, CancelSettlesOrders, [Next]_vars
  PROVE  CancelSettlesOrders'
<1> SUFFICES ASSUME NEW r \in Runs, NEW i \in DOMAIN journal'[r], journal'[r][i].status = "cancelled"
             PROVE  ActiveIn(SubSeq(journal'[r], 1, i)) = {}
  BY DEF CancelSettlesOrders, ActiveIn
<1>1. journal[r] \in Seq(Entry)
  BY DEF TypeOK
<1>2. CASE journal'[r] = journal[r]
  BY <1>2 DEF CancelSettlesOrders
<1>3. ASSUME NEW e \in Entry, Lands(r, e) PROVE ActiveIn(SubSeq(journal'[r], 1, i)) = {}
  <2> DEFINE j == journal[r]
  <2>1. journal'[r] = Append(j, e)
    BY <1>3 DEF Lands
  <2>2. CASE i \in DOMAIN j
    <3>1. SubSeq(journal'[r], 1, i) = SubSeq(j, 1, i)
      BY <1>1, <2>1, <2>2, Beginnings
    <3>2. j[i].status = "cancelled"
      BY <1>1, <2>1, <2>2
    <3> QED
      BY <2>2, <3>1, <3>2 DEF CancelSettlesOrders
  <2>3. CASE i = Len(j) + 1
    <3>1. SubSeq(journal'[r], 1, i) = Append(j, e)
      BY <1>1, <2>1, <2>3, Beginnings
    <3>2. e.opened = {} /\ e.closed = ActiveIn(j)
      BY <1>1, <1>3, <2>1, <2>3 DEF Lands
    <3>3. ASSUME NEW o \in ActiveIn(Append(j, e)) PROVE FALSE
      <4>1. PICK k \in DOMAIN Append(j, e) :
              /\ o \in Append(j, e)[k].opened
              /\ \A l \in DOMAIN Append(j, e) : l > k => o \notin Append(j, e)[l].closed
        BY DEF ActiveIn
      <4>2. k \in DOMAIN j
        BY <1>1, <3>2, <4>1
      <4>3. o \in ActiveIn(j)
        BY <1>1, <3>3, <4>1, <4>2 DEF ActiveIn
      <4>4. Append(j, e)[Len(j) + 1] = e /\ Len(j) + 1 \in DOMAIN Append(j, e) /\ Len(j) + 1 > k
        BY <1>1, <4>2
      <4> QED
        BY <3>2, <4>1, <4>3, <4>4
    <3> QED
      BY <3>1, <3>3
  <2> QED
    BY <1>1, <2>1, <2>2, <2>3
<1> QED
  BY <1>2, <1>3, JournalStep

\* cancelRun settles, in the transaction that records the cancellation, every
\* work order that is active at that moment (sqlite-journal.ts).
THEOREM Closing == Spec => []CancelSettlesOrders
<1>1. Init => CancelSettlesOrders
  BY DEF Init, CancelSettlesOrders
<1> QED
  BY <1>1, ClosingStep, Typing, PTL DEF Spec

\* What executors rely on when they write under a claim (sqlite-journal.ts).
THEOREM ClaimsHold == Spec => []ClaimsInv
  BY Typing, Fencing, Revocation, Closing, PTL DEF ClaimsInv

-----------------------------------------------------------------------------
(* Companion.                                                                *)

\* The phases of the boots, the files and the call of the bridge keep their types.
THEOREM CompanionTyping == CompanionSpec => []CompanionTypeOK
<1> USE CompanionAssumption DEF Boots, NoBoot, CompanionTypeOK
<1>1. CompanionInit => CompanionTypeOK
  BY DEF CompanionInit, Phases, NoAsk
<1>2. CompanionTypeOK /\ [CompanionNext]_companionVars => CompanionTypeOK'
  <2> SUFFICES ASSUME CompanionTypeOK, [CompanionNext]_companionVars PROVE CompanionTypeOK'
    OBVIOUS
  <2> USE DEF fileVars, workVars, Phases
  <2>1. ASSUME NEW b \in Boots, Prepare(b) PROVE CompanionTypeOK'
    BY <2>1 DEF Prepare, Go
  <2>2. ASSUME NEW b \in Boots, Assemble(b) PROVE CompanionTypeOK'
    BY <2>2 DEF Assemble, Go
  <2>3. ASSUME NEW b \in Boots, FirstSweepDone(b) PROVE CompanionTypeOK'
    BY <2>3 DEF FirstSweepDone, Go
  <2>4. ASSUME NEW b \in Boots, Bind(b) PROVE CompanionTypeOK'
    BY <2>4 DEF Bind, Go
  <2>5. ASSUME NEW b \in Boots, Announce(b) PROVE CompanionTypeOK'
    BY <2>5 DEF Announce, Go
  <2>6. ASSUME NEW b \in Boots, StartRun(b) PROVE CompanionTypeOK'
    BY <2>6 DEF StartRun, QueueOn
  <2>7. ASSUME NEW b \in Boots, EndRun(b) PROVE CompanionTypeOK'
    BY <2>7 DEF EndRun
  <2>8. ASSUME NEW b \in Boots, StartMaintenance(b) PROVE CompanionTypeOK'
    BY <2>8 DEF StartMaintenance, Spend
  <2>9. ASSUME NEW b \in Boots, EndMaintenance(b) PROVE CompanionTypeOK'
    BY <2>9 DEF EndMaintenance
  <2>10. ASSUME NEW b \in Boots, Request(b) PROVE CompanionTypeOK'
    BY <2>10 DEF Request, Spend
  <2>11. ASSUME NEW b \in Boots, HangUp(b) PROVE CompanionTypeOK'
    BY <2>11 DEF HangUp
  <2>12. ASSUME NEW b \in Boots, Respond(b) PROVE CompanionTypeOK'
    BY <2>12 DEF Respond
  <2>13. ASSUME NEW b \in Boots, StopListening(b) PROVE CompanionTypeOK'
    BY <2>13 DEF StopListening, Go
  <2>14. ASSUME NEW b \in Boots, QueueStopped(b) PROVE CompanionTypeOK'
    BY <2>14 DEF QueueStopped, Go
  <2>15. ASSUME NEW b \in Boots, ReadEndpointOnClose(b) PROVE CompanionTypeOK'
    BY <2>15 DEF ReadEndpointOnClose, Go, Drained, Owned
  <2>16. ASSUME NEW b \in Boots, UnlinkEndpoint(b) PROVE CompanionTypeOK'
    BY <2>16 DEF UnlinkEndpoint, Go
  <2>17. ASSUME NEW b \in Boots, CloseJournal(b) PROVE CompanionTypeOK'
    BY <2>17 DEF CloseJournal, Go
  <2>18. ASSUME NEW b \in Boots, Exit(b) PROVE CompanionTypeOK'
    BY <2>18 DEF Exit, Go
  <2>19. ASSUME NEW b \in Boots, Crash(b) PROVE CompanionTypeOK'
    BY <2>19 DEF Crash, Spend
  <2>20. ASSUME Bridge PROVE CompanionTypeOK'
    <3>1. CASE ReadEndpoint
      BY <3>1 DEF ReadEndpoint, NoAsk
    <3>2. CASE ReadToken
      BY <3>2 DEF ReadToken
    <3>3. CASE Call
      <4>1. Answered(ask.endpoint, ask.token) \in {"offline", "refused", "served"}
        BY DEF Answered
      <4> QED
        BY <3>3, <4>1 DEF Call
    <3>4. CASE Settle
      BY <3>4 DEF Settle, NoAsk
    <3> QED
      BY <2>20, <3>1, <3>2, <3>3, <3>4 DEF Bridge
  <2>21. CASE UNCHANGED companionVars
    BY <2>21 DEF companionVars
  <2> QED
    BY <2>1, <2>2, <2>3, <2>4, <2>5, <2>6, <2>7, <2>8, <2>9, <2>10, <2>11, <2>12, <2>13, <2>14, <2>15, <2>16, <2>17, <2>18, <2>19, <2>20, <2>21 DEF CompanionNext, Life
<1> QED
  BY <1>1, <1>2, PTL DEF CompanionSpec

-----------------------------------------------------------------------------
(* The order of the awaits in close.  Each one is passed when nothing of its *)
(* kind is left, and what was stopped before it keeps new ones from coming:  *)
(* no port, no request; no queue, no run; no timer, no pass.                 *)

Deaf(b) == at[b] \in {"stopping", "draining", "unlinking", "leaving", "closed"} => b \notin listener
Idled(b) == at[b] \in {"draining", "unlinking", "leaving", "closed"} => b \notin running
Quiet(b) == at[b] \in {"unlinking", "leaving", "closed"} => b \notin sweeping /\ b \notin handling \ stranded

Orderly == \A b \in Boots : Deaf(b) /\ Idled(b) /\ Quiet(b)

LEMMA CloseIsOrderly == CompanionSpec => []Orderly
<1>1. CompanionInit => Orderly
  BY DEF CompanionInit, Orderly, Deaf, Idled, Quiet
<1>2. CompanionTypeOK /\ Orderly /\ [CompanionNext]_companionVars => Orderly'
  <2> SUFFICES ASSUME CompanionTypeOK, Orderly, [CompanionNext]_companionVars PROVE Orderly'
    OBVIOUS
  <2>0. at \in [Boots -> Phases]
    BY DEF CompanionTypeOK
  <2> USE <2>0 DEF Orderly, Deaf, Idled, Quiet, fileVars, workVars
  <2>1. ASSUME NEW b \in Boots, Prepare(b) PROVE Orderly'
    BY <2>1 DEF Prepare, Go
  <2>2. ASSUME NEW b \in Boots, Assemble(b) PROVE Orderly'
    BY <2>2 DEF Assemble, Go
  <2>3. ASSUME NEW b \in Boots, FirstSweepDone(b) PROVE Orderly'
    BY <2>3 DEF FirstSweepDone, Go
  <2>4. ASSUME NEW b \in Boots, Bind(b) PROVE Orderly'
    BY <2>4 DEF Bind, Go
  <2>5. ASSUME NEW b \in Boots, Announce(b) PROVE Orderly'
    BY <2>5 DEF Announce, Go
  <2>6. ASSUME NEW b \in Boots, StartRun(b) PROVE Orderly'
    BY <2>6 DEF StartRun, QueueOn
  <2>7. ASSUME NEW b \in Boots, EndRun(b) PROVE Orderly'
    BY <2>7 DEF EndRun
  <2>8. ASSUME NEW b \in Boots, StartMaintenance(b) PROVE Orderly'
    BY <2>8 DEF StartMaintenance, Spend
  <2>9. ASSUME NEW b \in Boots, EndMaintenance(b) PROVE Orderly'
    BY <2>9 DEF EndMaintenance
  <2>10. ASSUME NEW b \in Boots, Request(b) PROVE Orderly'
    BY <2>10 DEF Request, Spend
  <2>11. ASSUME NEW b \in Boots, HangUp(b) PROVE Orderly'
    BY <2>11 DEF HangUp
  <2>12. ASSUME NEW b \in Boots, Respond(b) PROVE Orderly'
    BY <2>12 DEF Respond
  <2>13. ASSUME NEW b \in Boots, StopListening(b) PROVE Orderly'
    BY <2>13 DEF StopListening, Go
  <2>14. ASSUME NEW b \in Boots, QueueStopped(b) PROVE Orderly'
    BY <2>14 DEF QueueStopped, Go
  <2>15. ASSUME NEW b \in Boots, ReadEndpointOnClose(b) PROVE Orderly'
    BY <2>15 DEF ReadEndpointOnClose, Go, Drained, Owned
  <2>16. ASSUME NEW b \in Boots, UnlinkEndpoint(b) PROVE Orderly'
    BY <2>16 DEF UnlinkEndpoint, Go
  <2>17. ASSUME NEW b \in Boots, CloseJournal(b) PROVE Orderly'
    BY <2>17 DEF CloseJournal, Go
  <2>18. ASSUME NEW b \in Boots, Exit(b) PROVE Orderly'
    BY <2>18 DEF Exit, Go
  <2>19. ASSUME NEW b \in Boots, Crash(b) PROVE Orderly'
    BY <2>19 DEF Crash, Spend
  <2>20. ASSUME Bridge PROVE Orderly'
    BY <2>20 DEF Bridge, ReadEndpoint, ReadToken, Call, Settle, Spend, NoAsk
  <2>21. CASE UNCHANGED companionVars
    BY <2>21 DEF companionVars
  <2> QED
    BY <2>1, <2>2, <2>3, <2>4, <2>5, <2>6, <2>7, <2>8, <2>9, <2>10, <2>11, <2>12, <2>13, <2>14, <2>15, <2>16, <2>17, <2>18, <2>19, <2>20, <2>21 DEF CompanionNext, Life
<1> QED
  BY <1>1, <1>2, CompanionTyping, PTL DEF CompanionSpec

\* Once a boot has closed the journal no run of its queue, no maintenance pass
\* and no request whose client waits is under way (companion-server.ts, close).
THEOREM JournalClosesLast == CompanionSpec => []JournalOutlivesWork
<1>1. Orderly => JournalOutlivesWork
  BY DEF Orderly, Idled, Quiet, JournalOutlivesWork
<1> QED
  BY <1>1, CloseIsOrderly, PTL

\* What the timers, sweeps and requests of a daemon rely on while it closes
\* (companion-server.ts).
THEOREM CompanionHolds == CompanionSpec => []CompanionInv
  BY CompanionTyping, JournalClosesLast, PTL DEF CompanionInv

-----------------------------------------------------------------------------
(* Sessions.                                                                 *)

\* The daemon answers one request for the list at a time: between the reading of
\* sessions.json and its writing no other request reads it.
OneVisit == \A v, w \in Visits : v = w

\* A request under way has read what is still in the file.
VisitsAreCurrent ==
  \A v \in Visits : visit[v] # NoVisit =>
    /\ visit[v].read = index /\ visit[v].op \in {"delete", "restore"}
    /\ visit[v].on \in Tasks \cup {Chat}

SessionsIInv == SessionsInv /\ VisitsAreCurrent /\ DOMAIN visit = Visits /\ visit = [v \in Visits |-> visit[v]]

LEMMA SessionsBegin == SessionsInit => SessionsIInv
  BY DEF SessionsInit, SessionsIInv, SessionsInv, SessionsTypeOK, HiddenForAReason, VisitsAreCurrent, NoVisit,
         Index, Optional, RunKinds

\* What a request writes, for each of the four it can be.
SavedCases(o) ==
  \/ /\ o.op = "delete" /\ o.on = Chat /\ o.read.talk # {} /\ SavedIndex(o) = o.read
  \/ /\ o.op = "delete" /\ o.on = Chat /\ o.read.talk = {}
     /\ SavedIndex(o) = [gone |-> o.read.gone \cup o.children, talk |-> {o.children}]
  \/ /\ o.op = "restore" /\ o.on = Chat
     /\ SavedIndex(o) = [gone |-> o.read.gone \ UNION o.read.talk, talk |-> {}]
  \/ /\ o.op = "delete" /\ o.on # Chat /\ o.on \in Tasks
     /\ SavedIndex(o) = [gone |-> o.read.gone \cup {o.on}, talk |-> o.read.talk]
  \/ /\ o.op = "restore" /\ o.on # Chat /\ o.on \in Tasks
     /\ SavedIndex(o) = [gone |-> o.read.gone \ {o.on}, talk |-> o.read.talk]

LEMMA Saved ==
  ASSUME NEW o, o.op \in {"delete", "restore"}, o.on \in Tasks \cup {Chat}, o.read \in Index, o.children \subseteq Tasks
  PROVE  SavedCases(o)
<1> USE DEF SavedCases
<1>1. CASE o.on = Chat
  BY <1>1 DEF SavedIndex, WithoutTalk, WithTalk
<1>2. CASE o.on # Chat
  <2>1. \A i \in Index : \A g : [i EXCEPT !.gone = g] = [gone |-> g, talk |-> i.talk]
    BY DEF Index
  <2>2. /\ [o.read EXCEPT !.gone = o.read.gone \cup {o.on}] = [gone |-> o.read.gone \cup {o.on}, talk |-> o.read.talk]
        /\ [o.read EXCEPT !.gone = o.read.gone \ {o.on}] = [gone |-> o.read.gone \ {o.on}, talk |-> o.read.talk]
    BY <2>1
  <2>3. CASE o.op = "delete"
    <3>1. SavedIndex(o) = [o.read EXCEPT !.gone = o.read.gone \cup {o.on}]
      BY <1>2, <2>3 DEF SavedIndex
    <3> QED BY <1>2, <2>2, <2>3, <3>1
  <2>4. CASE o.op = "restore"
    <3>1. SavedIndex(o) = [o.read EXCEPT !.gone = o.read.gone \ {o.on}]
      BY <1>2, <2>4 DEF SavedIndex
    <3> QED BY <1>2, <2>2, <2>4, <3>1
  <2> QED BY <2>3, <2>4
<1> QED BY <1>1, <1>2

LEMMA VisitStep ==
  ASSUME OneVisit, SessionsIInv, NEW v \in Visits, Answer(v)
  PROVE  /\ SessionsIInv'
         /\ index.talk = {} /\ index'.talk # {} => Listed' \cap UNION index'.talk = {}
<1>1. /\ visit[v] # NoVisit /\ visit[v].read = index /\ visit[v].op \in {"delete", "restore"}
      /\ visit[v].on \in Tasks \cup {Chat} /\ index \in Index /\ visit[v].children \subseteq Tasks
      /\ wished \subseteq Tasks /\ index.gone \subseteq wished \cup UNION index.talk
  BY DEF Answer, SessionsIInv, SessionsInv, SessionsTypeOK, VisitsAreCurrent, HiddenForAReason
<1>2. index' = SavedIndex(visit[v])
  BY <1>1 DEF Answer
<1>3. /\ wished' = IF visit[v].on = Chat THEN wished
                   ELSE IF visit[v].op = "delete" THEN wished \cup {visit[v].on} ELSE wished \ {visit[v].on}
      /\ visit' = [visit EXCEPT ![v] = NoVisit] /\ UNCHANGED <<tasks, removals>>
  BY DEF Answer
<1>4. \A w \in Visits : visit'[w] = NoVisit
  BY <1>3 DEF OneVisit, SessionsIInv
<1>5. index.gone \subseteq Tasks /\ index.talk \in Optional(SUBSET Tasks)
  BY <1>1 DEF Index
<1>7. {} \in Optional(SUBSET Tasks) /\ {visit[v].children} \in Optional(SUBSET Tasks)
  BY <1>1 DEF Optional
<1>8. /\ index' \in Index /\ wished' \subseteq Tasks /\ index'.gone \subseteq wished' \cup UNION index'.talk
      /\ index.talk = {} /\ index'.talk # {} => UNION index'.talk \subseteq index'.gone
  <2>1. CASE visit[v].op = "delete" /\ visit[v].on = Chat /\ index.talk # {} /\ SavedIndex(visit[v]) = index
    BY <2>1, <1>1, <1>2, <1>3
  <2>2. CASE /\ visit[v].op = "delete" /\ visit[v].on = Chat /\ index.talk = {}
             /\ SavedIndex(visit[v]) = [gone |-> index.gone \cup visit[v].children, talk |-> {visit[v].children}]
    <3>1. index' \in Index /\ index'.gone = index.gone \cup visit[v].children /\ index'.talk = {visit[v].children}
      BY <2>2, <1>1, <1>2, <1>5, <1>7 DEF Index
    <3> QED BY <2>2, <1>1, <1>3, <3>1
  <2>3. CASE /\ visit[v].op = "restore" /\ visit[v].on = Chat
             /\ SavedIndex(visit[v]) = [gone |-> index.gone \ UNION index.talk, talk |-> {}]
    <3>1. index' \in Index /\ index'.gone = index.gone \ UNION index.talk /\ index'.talk = {}
      BY <2>3, <1>1, <1>2, <1>5, <1>7 DEF Index
    <3> QED BY <2>3, <1>1, <1>3, <3>1
  <2>4. CASE /\ visit[v].op = "delete" /\ visit[v].on # Chat /\ visit[v].on \in Tasks
             /\ SavedIndex(visit[v]) = [gone |-> index.gone \cup {visit[v].on}, talk |-> index.talk]
    <3>1. index' \in Index /\ index'.gone = index.gone \cup {visit[v].on} /\ index'.talk = index.talk
      BY <2>4, <1>1, <1>2, <1>5, <1>7 DEF Index
    <3> QED BY <2>4, <1>1, <1>3, <3>1
  <2>5. CASE /\ visit[v].op = "restore" /\ visit[v].on # Chat /\ visit[v].on \in Tasks
             /\ SavedIndex(visit[v]) = [gone |-> index.gone \ {visit[v].on}, talk |-> index.talk]
    <3>1. index' \in Index /\ index'.gone = index.gone \ {visit[v].on} /\ index'.talk = index.talk
      BY <2>5, <1>1, <1>2, <1>5, <1>7 DEF Index
    <3> QED BY <2>5, <1>1, <1>3, <3>1
  <2>6. SavedCases(visit[v])
    BY <1>1, Saved
  <2> QED BY <1>1, <2>1, <2>2, <2>3, <2>4, <2>5, <2>6 DEF SavedCases
<1>9. \A w \in Visits : NoVisit.read \in Index /\ NoVisit.children \subseteq Tasks
  BY DEF NoVisit, Index, Optional
<1>10. visit' = [w \in Visits |-> visit'[w]]
  BY <1>3 DEF SessionsIInv
<1>11. SessionsTypeOK'
  BY <1>3, <1>4, <1>8, <1>9 DEF SessionsTypeOK, SessionsIInv, SessionsInv
<1>12. SessionsIInv'
  BY <1>4, <1>8, <1>10, <1>11 DEF SessionsIInv, SessionsInv, HiddenForAReason, VisitsAreCurrent
<1>13. index.talk = {} /\ index'.talk # {} => Listed' \cap UNION index'.talk = {}
  BY <1>8 DEF Listed
<1> QED BY <1>12, <1>13

LEMMA SessionsStep ==
  ASSUME OneVisit
  PROVE  SessionsIInv /\ [SessionsNext]_sessionVars =>
           /\ SessionsIInv'
           /\ index.talk = {} /\ index'.talk # {} => Listed' \cap UNION index'.talk = {}
<1> SUFFICES ASSUME SessionsIInv, [SessionsNext]_sessionVars
             PROVE  /\ SessionsIInv'
                    /\ index.talk = {} /\ index'.talk # {} => Listed' \cap UNION index'.talk = {}
  OBVIOUS
<1> USE DEF SessionsIInv, SessionsInv, SessionsTypeOK, HiddenForAReason, VisitsAreCurrent
<1>1. CASE UNCHANGED sessionVars
  BY <1>1 DEF sessionVars
<1>2. ASSUME NEW t \in Tasks, CreateTask(t) PROVE SessionsIInv' /\ index' = index
  BY <1>2 DEF CreateTask
<1>3. ASSUME NEW v \in Visits, NEW op \in {"delete", "restore"}, NEW on \in Tasks \cup {Chat}, Ask(v, op, on)
      PROVE  SessionsIInv' /\ index' = index
  <2> DEFINE o == [op |-> op, on |-> on, read |-> index,
                   children |-> IF op = "delete" /\ on = Chat THEN DerivedRuns ELSE {}]
  <2>1. visit' = [visit EXCEPT ![v] = o] /\ UNCHANGED <<tasks, index, wished>>
    BY <1>3 DEF Ask
  <2>2. o.op = op /\ o.on = on /\ o.read = index /\ o.children \subseteq Tasks
    BY DEF DerivedRuns
  <2> HIDE DEF o
  <2>3. \A w \in Visits : visit'[w] = IF w = v THEN o ELSE visit[w]
    BY <2>1
  <2>4. visit' = [w \in Visits |-> visit'[w]] /\ DOMAIN visit' = Visits
    BY <2>1
  <2>5. SessionsTypeOK'
    BY <2>1, <2>2, <2>3
  <2>6. VisitsAreCurrent'
    BY <2>1, <2>2, <2>3
  <2> QED BY <2>1, <2>4, <2>5, <2>6
<1>4. ASSUME NEW v \in Visits, Answer(v)
      PROVE  /\ SessionsIInv'
             /\ index.talk = {} /\ index'.talk # {} => Listed' \cap UNION index'.talk = {}
  BY <1>4, VisitStep
<1>5. CASE StopDaemon
  BY <1>5 DEF StopDaemon, NoVisit, Index, Optional
<1> QED BY <1>1, <1>2, <1>3, <1>4, <1>5 DEF SessionsNext, sessionVars, StopDaemon

\* For any tasks and any number of removals, requests coming one at a time: the
\* list hides a run only because the owner removed it, or with the conversation
\* it belongs to that is still removed (session-store.ts).
THEOREM SessionsHold == ASSUME OneVisit PROVE SessionsSpec => []SessionsInv
<1>1. SessionsIInv => SessionsInv
  BY DEF SessionsIInv
<1>2. SessionsIInv /\ [SessionsNext]_sessionVars => SessionsIInv'
  BY SessionsStep
<1> QED BY <1>1, <1>2, SessionsBegin, PTL DEF SessionsSpec

\* The conversation leaves the list in one write with the tasks it started
\* (session-store.ts).
THEOREM ChildrenLeave == ASSUME OneVisit PROVE SessionsSpec => ChildrenLeaveTogether
<1>1. SessionsIInv /\ [SessionsNext]_sessionVars =>
        [index.talk = {} /\ index'.talk # {} => Listed' \cap UNION index'.talk = {}]_sessionVars
  BY SessionsStep
<1>2. SessionsIInv /\ [SessionsNext]_sessionVars => SessionsIInv'
  BY SessionsStep
<1> QED BY <1>1, <1>2, SessionsBegin, PTL DEF SessionsSpec, ChildrenLeaveTogether

\* A message that came to its end is not reopened by a redelivery, and a
\* conversation leaves the list in one write with the tasks it started: the steps
\* of the bridge and of the list (whatsapp-bridge.ts, session-store.ts).
THEOREM DeskStepsHold == ASSUME OneAtATime, OneVisit PROVE BridgeSpec /\ SessionsSpec => DeskSteps
  BY EndsOfRowsStand, ChildrenLeave, PTL DEF DeskSteps

-----------------------------------------------------------------------------
(* OwnerThread.                                                              *)

LedgerRow == [status : {"started", "completed"} \cup Broken, from : 1..MaxClock, to : 0..MaxClock, size : Sizes]

\* A turn ends before the next one is begun, on a clock that is not set back.
LedgerIsInOrder ==
  /\ turns \in Seq(LedgerRow)
  /\ minute \in 1..MaxClock
  /\ \A i \in Indices :
       /\ turns[i].from <= minute /\ turns[i].to <= minute
       /\ turns[i].status # "started" => turns[i].from <= turns[i].to
  /\ \A i, j \in Indices : i < j => turns[i].status # "started" /\ turns[i].to <= turns[j].from

\* A run that ended stays as it ended, so what is still to be told of it holds; an
\* execution is told of what it left, or of what the run was meanwhile.
EndsAreTold ==
  /\ LinesStayTrue
  /\ \A w \in Works : executor[w] # "nobody" => works[w] # "none"
  /\ \A word \in telling : word[2] \in {"completed", "failed", "cancelled"} => works[word[1]] = word[2]
  /\ serverCrashes = 0 =>
       \A w \in queueEnds :
         /\ works[w] \in Settled
         /\ HasLine(w) \/ (\E word \in telling : word[1] = w /\ word[2] \in Settled)

ThreadIInv == ThreadTypeOK /\ LedgerIsInOrder /\ EndsAreTold

LEMMA TurnRowOf ==
  ASSUME NEW s \in Seq(LedgerRow), NEW i \in 1..Len(s)
  PROVE  /\ s[i] \in LedgerRow
         /\ s[i].status \in {"started", "completed"} \cup Broken /\ s[i].from \in 1..MaxClock
         /\ s[i].to \in 0..MaxClock /\ s[i].size \in Sizes
<1>1. s[i] \in LedgerRow
  OBVIOUS
<1> QED
  BY <1>1 DEF LedgerRow

LEMMA ThreadBegin == ThreadInit => ThreadIInv
<1> SUFFICES ASSUME ThreadInit PROVE ThreadIInv
  OBVIOUS
<1>1. turns = <<>> /\ Indices = {} /\ minute \in 1..MaxClock
  BY ThreadAssumption DEF ThreadInit, Indices
<1>2. ThreadTypeOK
  BY <1>1, ThreadAssumption DEF ThreadInit, ThreadTypeOK, WorkIsTyped
<1>3. LedgerIsInOrder
  BY <1>1 DEF LedgerIsInOrder
<1>4. EndsAreTold
  BY DEF ThreadInit, EndsAreTold, LinesStayTrue
<1> QED
  BY <1>2, <1>3, <1>4 DEF ThreadIInv

\* A turn that was under way ends now, the others stay as they are.
OnlyEnds ==
  /\ turns' \in Seq(LedgerRow) /\ Len(turns') = Len(turns) /\ minute' = minute
  /\ \A i \in Indices :
       \/ turns'[i] = turns[i]
       \/ /\ turns[i].status = "started" /\ turns'[i].status # "started"
          /\ turns'[i].from = turns[i].from /\ turns'[i].to = minute

LEMMA LedgerGoesOn == ThreadIInv /\ OnlyEnds => LedgerIsInOrder'
<1> SUFFICES ASSUME ThreadIInv, OnlyEnds PROVE LedgerIsInOrder'
  OBVIOUS
<1> USE DEF OnlyEnds
<1>1. Indices' = Indices /\ minute \in Nat
  BY DEF Indices, ThreadIInv, LedgerIsInOrder
<1>2. ASSUME NEW i \in Indices
      PROVE  /\ turns'[i].from <= minute /\ turns'[i].to <= minute
             /\ turns'[i].status # "started" => turns'[i].from <= turns'[i].to
  BY <1>2 DEF ThreadIInv, LedgerIsInOrder
<1>3. ASSUME NEW i \in Indices, NEW j \in Indices, i < j
      PROVE  turns'[i].status # "started" /\ turns'[i].to <= turns'[j].from
  <2>1. turns[i].status # "started" /\ turns[i].to <= turns[j].from
    BY <1>3 DEF ThreadIInv, LedgerIsInOrder
  <2>2. turns'[i] = turns[i] /\ turns'[j].from = turns[j].from
    BY <2>1
  <2> QED
    BY <2>1, <2>2
<1> QED
  BY <1>1, <1>2, <1>3 DEF ThreadIInv, LedgerIsInOrder

LEMMA LedgerIsTyped ==
  ASSUME LedgerIsInOrder', WorkIsTyped', serverCrashes' \in 0..MaxThreadCrashes
  PROVE  ThreadTypeOK'
<1>1. turns' \in Seq(LedgerRow)
  BY DEF LedgerIsInOrder
<1>2. ASSUME NEW i \in Indices'
      PROVE  turns'[i].status \in {"started", "completed"} \cup Broken /\ turns'[i].from \in 1..MaxClock /\ turns'[i].to \in 0..MaxClock
  <2>1. i \in 1..Len(turns')
    BY DEF Indices
  <2> QED
    BY <1>1, <2>1, TurnRowOf
<1> QED
  BY <1>2 DEF ThreadTypeOK

LEMMA WorkIsTold ==
  ASSUME WorkIsTyped, EndsAreTold, WorkStep
  PROVE  WorkIsTyped' /\ EndsAreTold'
<1> DEFINE Over == {"completed", "failed", "cancelled"}
           Begun == \A x \in Works : executor[x] # "nobody" => works[x] # "none"
           Owes(x) == HasLine(x) \/ (\E word \in telling : word[1] = x /\ word[2] \in Settled)
<1>0. serverCrashes' = serverCrashes
  BY DEF WorkStep, CreateRun, SettleRun, GiveUp, RecoverRun, OwnerDecides, TellSettled, Execute
<1> SUFFICES ASSUME NEW w \in Works,
                    \/ CreateRun(w) \/ SettleRun(w) \/ GiveUp(w) \/ RecoverRun(w) \/ OwnerDecides(w) \/ TellSettled(w)
                    \/ \E who \in {"queue", "request"} : Execute(w, who)
             PROVE  WorkIsTyped' /\ EndsAreTold'
  BY DEF WorkStep
<1>1. CASE CreateRun(w) \/ RecoverRun(w) \/ OwnerDecides(w) \/ \E who \in {"queue", "request"} : Execute(w, who)
  <2>1. UNCHANGED <<queueEnds, telling, updates>>
    BY <1>1 DEF CreateRun, RecoverRun, OwnerDecides, Execute
  <2>2. PICK to \in NotOver \cup Settled :
          /\ works' = [works EXCEPT ![w] = to] /\ works[w] \notin Over
          /\ works[w] \in Settled => to \in Settled
    BY <1>1 DEF CreateRun, RecoverRun, OwnerDecides, Execute, ByOwner, NotOver, Settled
  <2>3. executor' \in [Works -> {"nobody", "queue", "request"}]
    BY <1>1 DEF CreateRun, RecoverRun, OwnerDecides, Execute, WorkIsTyped
  <2>4. WorkIsTyped'
    BY <2>1, <2>2, <2>3 DEF WorkIsTyped
  <2>8. Begun'
    BY <1>1, <2>2 DEF CreateRun, RecoverRun, OwnerDecides, Execute, WorkIsTyped, EndsAreTold, NotOver, Settled
  <2>5. LinesStayTrue'
    BY <2>1, <2>2 DEF WorkIsTyped, EndsAreTold, LinesStayTrue, Settled
  <2>6. ASSUME NEW word \in telling', word[2] \in Over PROVE works'[word[1]] = word[2]
    BY <2>1, <2>2, <2>6 DEF WorkIsTyped, EndsAreTold
  <2>7. ASSUME serverCrashes' = 0, NEW x \in queueEnds' PROVE works'[x] \in Settled /\ Owes(x)'
    BY <1>0, <2>1, <2>2, <2>7 DEF WorkIsTyped, EndsAreTold, HasLine
  <2> QED
    BY <2>4, <2>5, <2>6, <2>7, <2>8 DEF EndsAreTold
<1>2. CASE SettleRun(w)
  <2>1. PICK to \in (Settled \ {"cancelled"}) \cup {"waiting_approval"} :
          /\ works[w] = "running" /\ works' = [works EXCEPT ![w] = to] /\ updates' = updates
          /\ queueEnds' = IF executor[w] = "queue" /\ to \in Settled THEN queueEnds \cup {w} ELSE queueEnds
          /\ telling' = IF executor[w] = "queue" THEN telling \cup {<<w, to>>} ELSE telling
          /\ executor' = [executor EXCEPT ![w] = "nobody"]
    BY <1>2 DEF SettleRun, Returned
  <2>2. WorkIsTyped'
    BY <2>1 DEF WorkIsTyped, NotOver, Settled
  <2>3. LinesStayTrue'
    BY <2>1 DEF WorkIsTyped, EndsAreTold, LinesStayTrue, Settled
  <2>4. ASSUME NEW word \in telling', word[2] \in Over PROVE works'[word[1]] = word[2]
    <3>1. CASE word \in telling
      BY <2>1, <2>4, <3>1 DEF WorkIsTyped, EndsAreTold
    <3>2. CASE word = <<w, to>>
      BY <2>1, <3>2 DEF WorkIsTyped
    <3> QED
      BY <2>1, <3>1, <3>2
  <2>5. ASSUME serverCrashes' = 0, NEW x \in queueEnds' PROVE works'[x] \in Settled /\ Owes(x)'
    <3>1. CASE x \in queueEnds
      <4>1. works[x] \in Settled /\ Owes(x)
        BY <1>0, <2>5, <3>1 DEF EndsAreTold
      <4>2. x # w /\ works'[x] = works[x]
        BY <2>1, <4>1 DEF WorkIsTyped, Settled
      <4>3. Owes(x)'
        BY <2>1, <4>1 DEF HasLine
      <4> QED
        BY <4>1, <4>2, <4>3
    <3>2. CASE x = w /\ executor[w] = "queue" /\ to \in Settled
      <4>1. <<w, to>> \in telling' /\ works'[w] = to
        BY <2>1, <3>2 DEF WorkIsTyped
      <4>2. \E word \in telling' : word[1] = x /\ word[2] \in Settled
        BY <3>2, <4>1
      <4> QED
        BY <3>2, <4>1, <4>2
    <3> QED
      BY <2>1, <2>5, <3>1, <3>2
  <2>6. Begun'
    BY <2>1 DEF WorkIsTyped, EndsAreTold
  <2> QED
    BY <2>2, <2>3, <2>4, <2>5, <2>6 DEF EndsAreTold
<1>3. CASE GiveUp(w)
  <2>1. /\ UNCHANGED <<works, queueEnds, updates>> /\ executor' = [executor EXCEPT ![w] = "nobody"]
        /\ executor[w] # "nobody"
        /\ telling' = telling \/ telling' = telling \cup {<<w, works[w]>>}
    BY <1>3 DEF GiveUp, Returned
  <2>2. works[w] # "none"
    BY <2>1 DEF EndsAreTold
  <2>3. WorkIsTyped'
    BY <2>1, <2>2 DEF WorkIsTyped
  <2>4. LinesStayTrue'
    BY <2>1 DEF EndsAreTold, LinesStayTrue
  <2>5. ASSUME NEW word \in telling', word[2] \in Over PROVE works'[word[1]] = word[2]
    BY <2>1, <2>5 DEF EndsAreTold
  <2>6. ASSUME serverCrashes' = 0, NEW x \in queueEnds' PROVE works'[x] \in Settled /\ Owes(x)'
    BY <1>0, <2>1, <2>6 DEF EndsAreTold, HasLine
  <2>7. Begun'
    BY <2>1 DEF WorkIsTyped, EndsAreTold
  <2> QED
    BY <2>3, <2>4, <2>5, <2>6, <2>7 DEF EndsAreTold
<1>4. CASE TellSettled(w)
  <2>1. PICK word \in telling :
          /\ word[1] = w /\ telling' = telling \ {word}
          /\ \E status \in {word[2], works[w]} :
                updates' = IF status \in Settled THEN updates \cup {<<w, status>>} ELSE updates
    BY <1>4 DEF TellSettled
  <2>2. PICK status \in {word[2], works[w]} :
          updates' = IF status \in Settled THEN updates \cup {<<w, status>>} ELSE updates
    BY <2>1
  <2>3. UNCHANGED <<works, executor, queueEnds>>
    BY <1>4 DEF TellSettled
  <2>4. WorkIsTyped'
    BY <2>1, <2>2, <2>3 DEF WorkIsTyped
  <2>5. LinesStayTrue'
    <3>1. status \in Settled => works[w] = status \/ status = "waiting_review"
      BY <2>1, <2>2 DEF EndsAreTold, Settled
    <3> QED
      BY <2>2, <2>3, <3>1 DEF EndsAreTold, LinesStayTrue
  <2>6. ASSUME serverCrashes' = 0, NEW x \in queueEnds' PROVE works'[x] \in Settled /\ Owes(x)'
    <3>1. works[x] \in Settled /\ Owes(x)
      BY <1>0, <2>3, <2>6 DEF EndsAreTold
    <3>2. CASE HasLine(x)
      BY <2>2, <2>3, <3>1, <3>2 DEF HasLine
    <3>3. CASE \E other \in telling : other[1] = x /\ other[2] \in Settled
      <4>1. PICK other \in telling : other[1] = x /\ other[2] \in Settled
        BY <3>3
      <4>2. CASE other = word
        <5>1. status \in Settled /\ x = w
          BY <2>1, <2>2, <3>1, <4>1, <4>2
        <5> QED
          BY <2>2, <2>3, <3>1, <5>1 DEF HasLine
      <4>3. CASE other # word
        BY <2>1, <2>3, <3>1, <4>1, <4>3
      <4> QED
        BY <4>2, <4>3
    <3> QED
      BY <3>1, <3>2, <3>3
  <2> QED
    BY <2>1, <2>3, <2>4, <2>5, <2>6 DEF EndsAreTold
<1> QED
  BY <1>1, <1>2, <1>3, <1>4

LEMMA ThreadStep == ThreadIInv /\ [ThreadNext]_threadVars => ThreadIInv'
<1> SUFFICES ASSUME ThreadIInv, [ThreadNext]_threadVars PROVE ThreadIInv'
  OBVIOUS
<1> USE DEF ThreadIInv
<1>0. WorkIsTyped /\ serverCrashes \in 0..MaxThreadCrashes
  BY DEF ThreadTypeOK
<1>7. UNCHANGED <<executionVars, serverCrashes>> => WorkIsTyped' /\ EndsAreTold'
  BY <1>0 DEF executionVars, WorkIsTyped, EndsAreTold, LinesStayTrue, HasLine
<1>1. CASE Say
  <2>1. PICK size \in Sizes :
          turns' = Append(turns, [status |-> "started", from |-> minute, to |-> 0, size |-> size])
    BY <1>1 DEF Say
  <2>2. UNCHANGED <<minute, executionVars, serverCrashes>> /\ \A i \in Indices : turns[i].status # "started"
    BY <1>1 DEF Say
  <2> DEFINE row == [status |-> "started", from |-> minute, to |-> 0, size |-> size]
  <2>3. row \in LedgerRow /\ row.status = "started" /\ row.from = minute /\ row.to = 0
    BY ThreadAssumption DEF LedgerRow, LedgerIsInOrder
  <2>4. turns \in Seq(LedgerRow)
    BY DEF LedgerIsInOrder
  <2> HIDE DEF row
  <2>5. /\ turns' \in Seq(LedgerRow)
        /\ Len(turns) \in Nat /\ Len(turns') = Len(turns) + 1
        /\ turns'[Len(turns) + 1] = row
        /\ \A i \in 1 .. Len(turns) : turns'[i] = turns[i]
    <3>1. turns' = Append(turns, row)
      BY <2>1 DEF row
    <3> QED
      BY <2>3, <2>4, <3>1, Extends
  <2>6. \A i \in Indices' : i \in Indices \/ i = Len(turns) + 1
    BY <2>5 DEF Indices
  <2>7. LedgerIsInOrder'
    <3>1. minute \in 1..MaxClock /\ minute' = minute
      BY <2>2 DEF LedgerIsInOrder
    <3>2. ASSUME NEW i \in Indices'
          PROVE  /\ turns'[i].from <= minute /\ turns'[i].to <= minute
                 /\ turns'[i].status # "started" => turns'[i].from <= turns'[i].to
      <4>1. CASE i \in Indices
        <5>1. turns'[i] = turns[i]
          BY <4>1, <2>5 DEF Indices
        <5> QED
          BY <4>1, <5>1 DEF LedgerIsInOrder
      <4>2. CASE i = Len(turns) + 1
        BY <4>2, <2>3, <2>5, <3>1
      <4> QED
        BY <4>1, <4>2, <2>6
    <3>3. ASSUME NEW i \in Indices', NEW j \in Indices', i < j
          PROVE  turns'[i].status # "started" /\ turns'[i].to <= turns'[j].from
      <4>1. i \in Indices /\ turns'[i] = turns[i]
        <5>1. i \in 1 .. Len(turns)
          BY <2>5, <3>3 DEF Indices
        <5> QED
          BY <5>1, <2>5 DEF Indices
      <4>2. CASE j \in Indices
        <5>1. turns'[j] = turns[j]
          BY <4>2, <2>5 DEF Indices
        <5> QED
          BY <4>1, <4>2, <5>1, <3>3 DEF LedgerIsInOrder
      <4>3. CASE j = Len(turns) + 1
        BY <4>1, <4>3, <2>2, <2>3, <2>5 DEF LedgerIsInOrder
      <4> QED
        BY <4>2, <4>3, <2>6
    <3> QED
      BY <2>5, <3>1, <3>2, <3>3 DEF LedgerIsInOrder
  <2> QED
    BY <1>0, <1>7, <2>2, <2>7, LedgerIsTyped
<1>2. ASSUME NEW status \in {"completed", "failed"}, End(status) PROVE ThreadIInv'
  <2>1. UNCHANGED <<minute, executionVars, serverCrashes>>
    BY <1>2 DEF End
  <2>2. PICK k \in Indices : turns[k].status = "started" /\ turns' = [turns EXCEPT ![k].status = status, ![k].to = minute]
    BY <1>2 DEF End
  <2>3. turns \in Seq(LedgerRow) /\ minute \in 1..MaxClock /\ k \in 1..Len(turns)
    BY DEF LedgerIsInOrder, Indices
  <2> DEFINE row == [turns[k] EXCEPT !.status = status, !.to = minute]
  <2>4. row \in LedgerRow /\ row.status = status /\ row.from = turns[k].from /\ row.to = minute
    <3>1. turns[k] \in LedgerRow
      BY <2>3, TurnRowOf
    <3>2. minute \in 0..MaxClock
      BY <2>3, ThreadAssumption
    <3> QED
      BY <3>1, <3>2 DEF LedgerRow, Broken
  <2>5. turns' = [turns EXCEPT ![k] = row]
    BY <2>2
  <2> HIDE DEF row
  <2>6. turns' \in Seq(LedgerRow) /\ Len(turns') = Len(turns) /\ turns'[k] = row /\ \A i \in 1..Len(turns) : i # k => turns'[i] = turns[i]
    BY <2>3, <2>4, <2>5
  <2>7. LedgerIsInOrder'
    <3>1. status # "started"
      OBVIOUS
    <3>2. ASSUME NEW i \in Indices
          PROVE  \/ turns'[i] = turns[i]
                 \/ /\ turns[i].status = "started" /\ turns'[i].status # "started"
                    /\ turns'[i].from = turns[i].from /\ turns'[i].to = minute
      BY <2>2, <2>4, <2>6, <3>1 DEF Indices
    <3>3. OnlyEnds
      BY <2>1, <2>6, <3>2 DEF OnlyEnds
    <3> QED
      BY <3>3, LedgerGoesOn
  <2> QED
    BY <1>0, <1>7, <2>1, <2>7, LedgerIsTyped
<1>3. CASE CrashServer
  <2>1. /\ UNCHANGED <<minute, works, queueEnds, updates>> /\ telling' = {} /\ serverCrashes' = serverCrashes + 1
        /\ executor' = [w \in Works |-> "nobody"]
        /\ turns' = [i \in Indices |-> IF turns[i].status = "started"
                                       THEN [turns[i] EXCEPT !.status = "interrupted", !.to = minute] ELSE turns[i]]
    BY <1>3 DEF CrashServer
  <2>2. turns \in Seq(LedgerRow) /\ minute \in 1..MaxClock /\ Indices = 1..Len(turns) /\ Len(turns) \in Nat
    BY DEF LedgerIsInOrder, Indices
  <2>3. ASSUME NEW i \in Indices
        PROVE  /\ turns'[i] \in LedgerRow
               /\ \/ turns'[i] = turns[i]
                  \/ /\ turns[i].status = "started" /\ turns'[i].status # "started"
                     /\ turns'[i].from = turns[i].from /\ turns'[i].to = minute
    <3>1. turns[i] \in LedgerRow
      BY <2>2, TurnRowOf
    <3>2. turns'[i] = IF turns[i].status = "started"
                      THEN [turns[i] EXCEPT !.status = "interrupted", !.to = minute] ELSE turns[i]
      BY <2>1
    <3>3. minute \in 0..MaxClock
      BY <2>2, ThreadAssumption
    <3> DEFINE row == turns[i]
               ended == [row EXCEPT !.status = "interrupted", !.to = minute]
    <3>4. ended \in LedgerRow /\ ended.status # "started" /\ ended.from = row.from /\ ended.to = minute
      <4> HIDE DEF row
      <4> QED
        BY <3>1, <3>3 DEF LedgerRow, Broken, row
    <3>5. turns'[i] = IF row.status = "started" THEN ended ELSE row
      BY <3>2
    <3> HIDE DEF row, ended
    <3> QED
      BY <3>1, <3>4, <3>5 DEF row
  <2>4. turns' \in Seq(LedgerRow) /\ Len(turns') = Len(turns)
    <3>1. ASSUME NEW n \in Nat, NEW f \in [1..n -> LedgerRow] PROVE f \in Seq(LedgerRow) /\ Len(f) = n
      OBVIOUS
    <3>2. turns' \in [1..Len(turns) -> LedgerRow]
      BY <2>1, <2>2, <2>3
    <3> QED
      BY <2>2, <3>1, <3>2
  <2>5. LedgerIsInOrder'
    <3>1. minute' = minute
      BY <2>1
    <3>2. \A i \in Indices :
             \/ turns'[i] = turns[i]
             \/ /\ turns[i].status = "started" /\ turns'[i].status # "started"
                /\ turns'[i].from = turns[i].from /\ turns'[i].to = minute
      BY <2>3
    <3>3. OnlyEnds
      BY <2>4, <3>1, <3>2 DEF OnlyEnds
    <3> QED
      BY <3>3, LedgerGoesOn
  <2>7. serverCrashes' \in 0..MaxThreadCrashes /\ serverCrashes' # 0
    <3>1. serverCrashes < MaxThreadCrashes /\ serverCrashes' = serverCrashes + 1
      BY <1>3 DEF CrashServer
    <3>2. serverCrashes \in 0..MaxThreadCrashes /\ MaxThreadCrashes \in Nat
      BY <1>0, ThreadAssumption
    <3> QED
      BY <3>1, <3>2
  <2>6. EndsAreTold'
    BY <2>1, <2>7 DEF EndsAreTold, LinesStayTrue
  <2>8. WorkIsTyped'
    BY <1>0, <2>1 DEF WorkIsTyped
  <2> QED
    BY <2>5, <2>6, <2>7, <2>8, LedgerIsTyped
<1>4. CASE MinutePasses
  <2>1. minute < MaxClock /\ minute' = minute + 1 /\ UNCHANGED <<turns, executionVars, serverCrashes>>
    BY <1>4 DEF MinutePasses
  <2>2. minute' \in 1..MaxClock
    BY <2>1, ThreadAssumption DEF LedgerIsInOrder
  <2>3. ASSUME NEW i \in Indices PROVE turns[i].from <= minute' /\ turns[i].to <= minute'
    <3>1. turns[i].from \in 1..MaxClock /\ turns[i].to \in 0..MaxClock /\ minute \in Nat
      BY ThreadAssumption DEF ThreadTypeOK, LedgerIsInOrder
    <3>2. turns[i].from <= minute /\ turns[i].to <= minute
      BY DEF LedgerIsInOrder
    <3> QED
      BY <2>1, <3>1, <3>2
  <2>4. LedgerIsInOrder'
    BY <2>1, <2>2, <2>3 DEF LedgerIsInOrder, Indices
  <2> QED
    BY <1>0, <1>7, <2>1, <2>4, LedgerIsTyped
<1>5. CASE WorkStep
  <2>1. UNCHANGED <<turns, minute, serverCrashes>>
    BY <1>5 DEF WorkStep, CreateRun, SettleRun, GiveUp, RecoverRun, OwnerDecides, TellSettled, Execute
  <2>2. LedgerIsInOrder'
    BY <2>1 DEF LedgerIsInOrder, Indices
  <2> QED
    BY <1>0, <1>5, <2>1, <2>2, WorkIsTold, LedgerIsTyped
<1>6. CASE UNCHANGED threadVars
  <2>1. LedgerIsInOrder' /\ UNCHANGED <<executionVars, serverCrashes>>
    BY <1>6 DEF threadVars, LedgerIsInOrder, Indices
  <2> QED
    BY <1>0, <1>7, <2>1, LedgerIsTyped
<1> QED
  BY <1>1, <1>2, <1>3, <1>4, <1>5, <1>6 DEF ThreadNext, TurnStep

TailOf(t, s, n, T) ==
  /\ t \in Seq(T) /\ Len(t) = (IF Len(s) < n THEN Len(s) ELSE n)
  /\ \A k \in 1..Len(t) : t[k] = s[Len(s) - Len(t) + k]

LEMMA NewestIs ==
  ASSUME NEW T, NEW s \in Seq(T), NEW n \in Nat
  PROVE  TailOf(Newest(s, n), s, n, T)
<1> DEFINE m == IF Len(s) < n THEN 1 ELSE Len(s) - n + 1
           t == SubSeq(s, m, Len(s))
<1>1. Len(s) \in Nat /\ m \in 1..Len(s) + 1
  OBVIOUS
<1>2. t = Newest(s, n)
  BY DEF Newest
<1>3. Len(s) - m + 1 = IF Len(s) < n THEN Len(s) ELSE n
  BY <1>1
<1> HIDE DEF m
<1>4. t \in Seq(T) /\ Len(t) = Len(s) - m + 1 /\ \A k \in 1..Len(t) : t[k] = s[m + k - 1]
  BY <1>1
<1> HIDE DEF t
<1>5. ASSUME NEW k \in 1..Len(t) PROVE t[k] = s[Len(s) - Len(t) + k]
  <2>1. Len(s) - Len(t) + k = m + k - 1
    BY <1>1, <1>4
  <2> QED
    BY <1>4, <2>1
<1> QED
  BY <1>2, <1>3, <1>4, <1>5 DEF TailOf

Completed == {i \in Indices : turns[i].status = "completed"}

LEMMA IndicesAre ==
  ASSUME ThreadIInv
  PROVE  turns \in Seq(LedgerRow) /\ Len(turns) \in Nat /\ Indices = 1..Len(turns)
  BY DEF ThreadIInv, LedgerIsInOrder, Indices

LEMMA DoneIs ==
  ASSUME ThreadIInv
  PROVE  Done \in Seq(Completed)
<1> DEFINE s == [i \in Indices |-> i]
<1>1. Len(turns) \in Nat /\ Indices = 1..Len(turns)
  BY IndicesAre
<1>2. s \in Seq(Indices) /\ Len(s) = Len(turns)
  <2>1. ASSUME NEW n \in Nat, NEW T, NEW f \in [1..n -> T] PROVE f \in Seq(T) /\ Len(f) = n
    OBVIOUS
  <2>2. s \in [1..Len(turns) -> Indices]
    BY <1>1
  <2> QED
    BY <1>1, <2>1, <2>2
<1>3. \A i \in Completed \cap (1..Len(s)) : s[i] \in Completed
  BY DEF Completed
<1> HIDE DEF s
<1>4. Keeps(Picked(s, Completed), s, Completed, Completed)
  BY <1>2, <1>3, PickedOf
<1>5. Done = Picked(s, Completed)
  BY DEF Done, s, Completed
<1> QED
  BY <1>4, <1>5 DEF Keeps

\* What is stored are the questions and replies of turns that completed.
LEMMA RepliesAre ==
  ASSUME ThreadIInv, NEW m \in StoredReplies
  PROVE  \E i \in Completed : m = Replied(i)
<1> DEFINE E == {Said(i) : i \in Completed} \cup {Replied(i) : i \in Completed}
           entry(k) == IF k % 2 = 1 THEN Said(Done[(k + 1) \div 2]) ELSE Replied(Done[k \div 2])
           entries == [k \in 1..(2 * Len(Done)) |-> entry(k)]
<1>1. Done \in Seq(Completed) /\ Len(Done) \in Nat
  BY DoneIs
<1>2. ASSUME NEW k \in 1..(2 * Len(Done)) PROVE entry(k) \in E
  <2>1. k \in Nat /\ k >= 1 /\ k <= 2 * Len(Done)
    BY <1>1
  <2>2. CASE k % 2 = 1
    <3>1. (k + 1) \div 2 \in 1..Len(Done)
      BY <1>1, <2>1, <2>2
    <3>2. Done[(k + 1) \div 2] \in Completed
      BY <1>1, <3>1
    <3> QED
      BY <2>2, <3>2
  <2>3. CASE k % 2 # 1
    <3>1. k \div 2 \in 1..Len(Done)
      BY <1>1, <2>1, <2>3
    <3>2. Done[k \div 2] \in Completed
      BY <1>1, <3>1
    <3> QED
      BY <2>3, <3>2
  <2> QED
    BY <2>2, <2>3
<1>3. Stored = Newest(entries, Window)
  BY DEF Stored
<1> HIDE DEF entry
<1>4. entries \in Seq(E)
  <2>1. ASSUME NEW n \in Nat, NEW T, NEW f \in [1..n -> T] PROVE f \in Seq(T)
    OBVIOUS
  <2>2. 2 * Len(Done) \in Nat
    BY <1>1
  <2>3. entries \in [1..(2 * Len(Done)) -> E]
    BY <1>2
  <2> HIDE DEF entries, E
  <2> QED
    BY <2>1, <2>2, <2>3
<1> HIDE DEF entries, E
<1>5. Window \in Nat
  BY ThreadAssumption
<1>6. Stored \in Seq(E)
  <2>1. TailOf(Stored, entries, Window, E)
    BY <1>3, <1>4, <1>5, NewestIs
  <2> QED
    BY <2>1 DEF TailOf
<1>7. m \in E /\ m.by = "assistant"
  <2>1. \A t \in Seq(E) : ToSet(t) \subseteq E
    BY DEF ToSet
  <2> QED
    BY <1>6, <2>1 DEF StoredReplies
<1> QED
  BY <1>7 DEF E, Said, Replied

LEMMA EachReplyOnce == ThreadIInv => RepliesShownOnce
<1> SUFFICES ASSUME ThreadIInv, NEW m \in StoredReplies PROVE m.turn \notin Bubbles
  BY DEF RepliesShownOnce
<1>1. PICK i \in Completed : m = Replied(i)
  BY RepliesAre
<1>2. m.turn = i /\ m.at = turns[i].to
  BY <1>1 DEF Replied
<1>3. i \in Indices /\ turns[i].status = "completed"
  BY DEF Completed
<1>4. turns[i].from <= turns[i].to
  BY <1>3 DEF ThreadIInv, LedgerIsInOrder
<1>5. turns[i].from \in Nat /\ turns[i].to \in Nat /\ Grace \in Nat
  BY <1>3, ThreadAssumption DEF ThreadIInv, ThreadTypeOK
<1>6. Ended(i) = turns[i].to
  BY <1>3 DEF Ended
<1>7. HasStoredReply(i)
  <2>1. turns[i].from <= m.at /\ m.at <= Ended(i) + Grace
    BY <1>2, <1>4, <1>5, <1>6
  <2> QED
    BY <2>1 DEF HasStoredReply
<1> QED
  BY <1>2, <1>7 DEF Bubbles

\* The last turn of the ledger is the latest one.
LEMMA LatestIsLast ==
  ASSUME ThreadIInv, turns # <<>>
  PROVE  LatestTurn = Len(turns) /\ Len(turns) \in Indices
<1> DEFINE n == Len(turns)
           Latest(i) == \A j \in Indices : Ended(j) < Ended(i) \/ (Ended(j) = Ended(i) /\ j <= i)
<1>1. Indices = 1..n /\ n \in Nat /\ n \in Indices
  <2>1. turns \in Seq(LedgerRow) /\ n \in Nat /\ Indices = 1..n
    BY IndicesAre
  <2>2. \A s \in Seq(LedgerRow) : s # <<>> => Len(s) >= 1
    OBVIOUS
  <2> QED
    BY <2>1, <2>2
<1> HIDE DEF n
<1>2. ASSUME NEW i \in Indices
      PROVE  /\ turns[i].from \in Nat /\ Ended(i) \in Nat /\ i \in Nat
             /\ turns[i].from <= Ended(i)
  <2>1. turns[i].from \in 1..MaxClock /\ turns[i].to \in 0..MaxClock /\ minute \in 1..MaxClock
    BY DEF ThreadIInv, ThreadTypeOK, LedgerIsInOrder
  <2>2. turns[i].from <= minute /\ (turns[i].status # "started" => turns[i].from <= turns[i].to)
    BY DEF ThreadIInv, LedgerIsInOrder
  <2>3. turns[i].from \in Nat /\ turns[i].to \in Nat /\ minute \in Nat /\ i \in Nat
    BY <1>1, <2>1, ThreadAssumption
  <2> QED
    BY <2>2, <2>3 DEF Ended
<1>3. ASSUME NEW j \in Indices, j # n PROVE Ended(j) <= Ended(n) /\ j < n
  <2>1. j < n
    BY <1>1, <1>3
  <2>2. turns[j].status # "started" /\ turns[j].to <= turns[n].from
    BY <1>1, <2>1 DEF ThreadIInv, LedgerIsInOrder
  <2>3. Ended(j) = turns[j].to
    BY <2>2 DEF Ended
  <2>4. Ended(j) \in Nat /\ Ended(n) \in Nat /\ turns[n].from \in Nat /\ turns[n].from <= Ended(n)
    BY <1>1, <1>2
  <2> QED
    BY <2>1, <2>2, <2>3, <2>4
<1>4. Latest(n)
  <2> SUFFICES ASSUME NEW j \in Indices PROVE Ended(j) < Ended(n) \/ (Ended(j) = Ended(n) /\ j <= n)
    OBVIOUS
  <2>1. Ended(j) \in Nat /\ Ended(n) \in Nat /\ j \in Nat /\ n \in Nat
    BY <1>1, <1>2
  <2>2. CASE j = n
    BY <2>1, <2>2
  <2>3. CASE j # n
    BY <1>3, <2>1, <2>3
  <2> QED
    BY <2>2, <2>3
<1>5. ASSUME NEW i \in Indices, Latest(i) PROVE i = n
  <2> SUFFICES ASSUME i # n PROVE FALSE
    OBVIOUS
  <2>1. Ended(i) <= Ended(n) /\ i < n
    BY <1>3
  <2>2. Ended(n) < Ended(i) \/ (Ended(n) = Ended(i) /\ n <= i)
    BY <1>1, <1>5
  <2>3. Ended(i) \in Nat /\ Ended(n) \in Nat /\ i \in Nat /\ n \in Nat
    BY <1>1, <1>2
  <2> QED
    BY <2>1, <2>2, <2>3
<1>6. LatestTurn = CHOOSE i \in Indices : Latest(i)
  BY DEF LatestTurn
<1> HIDE DEF Latest
<1>7. LatestTurn = n
  BY <1>1, <1>4, <1>5, <1>6
<1> QED
  BY <1>1, <1>7 DEF n

LEMMA SidebarIsTrue == ThreadIInv => SidebarTellsTheTurn
<1> SUFFICES ASSUME ThreadIInv, turns # <<>> PROVE Sidebar = ShownAs(Last(turns).status)
  BY DEF SidebarTellsTheTurn
<1> DEFINE n == Len(turns)
<1>1. LatestTurn = n /\ n \in Indices /\ Last(turns) = turns[n]
  BY LatestIsLast DEF Last
<1> HIDE DEF n
<1>2. CASE Stored # <<>> /\ ~AfterReply(n)
  <2>1. PICK m \in StoredReplies : ~(turns[n].from >= m.at)
    BY <1>2 DEF AfterReply
  <2>2. PICK i \in Completed : m = Replied(i)
    BY RepliesAre
  <2>3. i \in Indices /\ turns[i].status = "completed" /\ m.at = turns[i].to
    BY <2>2 DEF Completed, Replied
  <2>4. turns[n].from \in Nat /\ turns[i].to \in Nat /\ i \in 1..n /\ n \in Nat
    <3>1. Indices = 1..n /\ n \in Nat
      BY IndicesAre DEF n
    <3> QED
      BY <1>1, <2>3, <3>1, ThreadAssumption DEF ThreadIInv, ThreadTypeOK
  <2>5. i = n
    <3> SUFFICES ASSUME i # n PROVE FALSE
      OBVIOUS
    <3>1. i < n
      BY <2>4
    <3>2. turns[i].to <= turns[n].from
      BY <1>1, <2>3, <3>1 DEF ThreadIInv, LedgerIsInOrder
    <3> QED
      BY <2>1, <2>3, <2>4, <3>2
  <2> QED
    BY <1>1, <1>2, <2>3, <2>5 DEF Sidebar, ShownAs
<1>3. CASE ~(Stored # <<>> /\ ~AfterReply(n))
  BY <1>1, <1>3 DEF Sidebar
<1> QED
  BY <1>2, <1>3

\* The size of turns is a number, whatever turns they are.
LEMMA SizeIs ==
  ASSUME ThreadIInv, NEW pairs \in Seq(Indices)
  PROVE  Size(pairs) \in Nat
<1> DEFINE n == Len(pairs)
           Is(f, m) == f = [i \in 0..m |-> IF i = 0 THEN 0 ELSE f[i - 1] + turns[pairs[i]].size]
           Summed(m) == \E f : Is(f, m) /\ f[m] \in Nat
           Bad == {m \in 0..n : ~ Summed(m)}
<1>1. n \in Nat
  OBVIOUS
<1>2. ASSUME NEW i \in 1..n PROVE turns[pairs[i]].size \in Nat
  <2>1. pairs[i] \in 1..Len(turns) /\ turns \in Seq(LedgerRow)
    BY <1>2, IndicesAre
  <2> QED
    BY <2>1, TurnRowOf, ThreadAssumption
<1> HIDE DEF Summed, n
<1>3. Bad = {}
  <2> SUFFICES ASSUME Bad # {} PROVE FALSE
    OBVIOUS
  <2>1. Bad \subseteq Nat
    BY <1>1
  <2>2. PICK m \in Bad : \A y \in Bad : m <= y
    BY <2>1, LeastNumber
  <2>3. CASE m = 0
    <3> DEFINE g == [i \in 0..0 |-> 0]
    <3>1. \A i \in 0..0 : i = 0
      OBVIOUS
    <3>2. g = [i \in 0..0 |-> IF i = 0 THEN 0 ELSE g[i - 1] + turns[pairs[i]].size] /\ g[0] \in Nat
      BY <3>1
    <3> HIDE DEF g
    <3>3. Is(g, 0)
      BY <3>2
    <3> QED
      BY <2>2, <2>3, <3>2, <3>3 DEF Summed
  <2>4. CASE m # 0
    <3>1. m - 1 \in 0..n /\ m \in 1..n /\ ~(m <= m - 1)
      BY <1>1, <2>2, <2>4
    <3>2. PICK f : Is(f, m - 1) /\ f[m - 1] \in Nat
      <4>1. Summed(m - 1)
        BY <2>2, <3>1
      <4> QED
        BY <4>1 DEF Summed
    <3> DEFINE next == f[m - 1] + turns[pairs[m]].size
               g == [i \in 0..m |-> IF i = m THEN next ELSE f[i]]
    <3>3. next \in Nat
      BY <1>2, <3>1, <3>2
    <3> HIDE DEF next
    <3>4. ASSUME NEW i \in 0..m
          PROVE  g[i] = IF i = 0 THEN 0 ELSE g[i - 1] + turns[pairs[i]].size
      <4>1. CASE i = m
        <5>1. g[i] = next /\ g[i - 1] = f[m - 1]
          BY <4>1, <2>4, <3>1
        <5> QED
          BY <5>1, <4>1, <2>4 DEF next
      <4>2. CASE i # m
        <5>1. i \in 0..(m - 1) /\ (i # 0 => i - 1 \in 0..(m - 1) /\ i - 1 # m /\ i - 1 \in 0..m)
          BY <4>2, <3>1
        <5>2. g[i] = f[i] /\ (i # 0 => g[i - 1] = f[i - 1])
          BY <4>2, <5>1
        <5>3. f[i] = IF i = 0 THEN 0 ELSE f[i - 1] + turns[pairs[i]].size
          BY <3>2, <5>1
        <5> QED
          BY <5>2, <5>3
      <4> QED
        BY <4>1, <4>2
    <3>5. g = [i \in 0..m |-> g[i]] /\ g[m] = next
      BY <3>1
    <3> HIDE DEF g
    <3>6. Is(g, m)
      BY <3>4, <3>5
    <3> QED
      BY <2>2, <3>3, <3>5, <3>6 DEF Summed
  <2> QED
    BY <2>3, <2>4
<1>4. n \in 0..n
  BY <1>1
<1>5. Summed(n)
  BY <1>3, <1>4
<1> DEFINE sum == CHOOSE f : Is(f, n)
<1>6. Size(pairs) = sum[n]
  BY DEF Size, n
<1>7. Is(sum, n)
  BY <1>5 DEF Summed
<1> HIDE DEF sum
<1> DEFINE Off == {m \in 0..n : sum[m] \notin Nat}
<1>8. Off = {}
  <2> SUFFICES ASSUME Off # {} PROVE FALSE
    OBVIOUS
  <2>1. Off \subseteq Nat
    BY <1>1
  <2>2. PICK m \in Off : \A y \in Off : m <= y
    BY <2>1, LeastNumber
  <2>3. sum[m] = IF m = 0 THEN 0 ELSE sum[m - 1] + turns[pairs[m]].size
    BY <1>7
  <2>4. m # 0
    BY <2>2, <2>3
  <2>5. m - 1 \in 0..n /\ m \in 1..n /\ ~(m <= m - 1)
    BY <1>1, <2>2, <2>4
  <2>6. sum[m - 1] \in Nat
    BY <2>2, <2>5
  <2> QED
    BY <1>2, <2>2, <2>3, <2>4, <2>5, <2>6
<1> QED
  BY <1>4, <1>6, <1>8

\* What is said word for word: all of it within the budget, or a tail that fits.
LEMMA VerbatimIs ==
  ASSUME ThreadIInv
  PROVE  /\ Len(Verbatim) <= 1 \/ Size(Verbatim) <= Budget
         /\ Remembered # <<>> => Verbatim # <<>> /\ Last(Verbatim) = Last(Remembered)
<1>1. Remembered \in Seq(Completed)
  <2>1. Done \in Seq(Completed) /\ HistoryTurns \in Nat
    BY DoneIs, ThreadAssumption
  <2>2. TailOf(Remembered, Done, HistoryTurns, Completed)
    BY <2>1, NewestIs DEF Remembered
  <2> QED
    BY <2>2 DEF TailOf
<1>2. CASE Size(Remembered) <= Budget
  BY <1>2 DEF Verbatim
<1>3. CASE ~(Size(Remembered) <= Budget) /\ Remembered = <<>>
  <2> DEFINE S == {0} \cup {k \in 1..Len(Remembered) : Fits(k)}
  <2>1. Verbatim = Newest(Remembered, Max(S))
    BY <1>3 DEF Verbatim
  <2>2. S = {0} /\ Max({0}) = 0
    BY <1>3 DEF Max
  <2>3. TailOf(Newest(Remembered, 0), Remembered, 0, Completed)
    BY <1>1, NewestIs
  <2>4. Len(Newest(Remembered, 0)) = 0
    BY <1>1, <2>3 DEF TailOf
  <2> QED
    BY <1>3, <2>1, <2>2, <2>4
<1>4. CASE ~(Size(Remembered) <= Budget) /\ Remembered # <<>>
  <2> DEFINE r == Remembered
             n == Len(r)
             S == {0} \cup {k \in 1..n : Fits(k)}
             M == Max(S)
  <2>1. n \in Nat /\ n >= 1
    <3>1. \A s \in Seq(Completed) : s # <<>> => Len(s) \in Nat /\ Len(s) >= 1
      OBVIOUS
    <3> QED
      BY <1>1, <1>4, <3>1
  <2>2. Verbatim = Newest(r, M)
    BY <1>4 DEF Verbatim
  <2>3. S \subseteq 0..n /\ S # {} /\ 1 \in S
    BY <2>1 DEF Fits
  <2> HIDE DEF r, n
  <2>4. M \in S /\ 1 <= M
    <3> HIDE DEF S
    <3> QED
      BY <2>1, <2>3, GreatestIs
  <2>5. M \in 1..n /\ Fits(M)
    BY <2>1, <2>4
  <2> HIDE DEF S, M
  <2> DEFINE v == Newest(r, M)
  <2>6. TailOf(v, r, M, Completed)
    BY <1>1, <2>1, <2>5, NewestIs DEF r
  <2> HIDE DEF v
  <2>7. v \in Seq(Completed) /\ Len(v) = M /\ v[M] = r[n]
    <3>1. v \in Seq(Completed) /\ Len(v) = (IF n < M THEN n ELSE M) /\ \A k \in 1..Len(v) : v[k] = r[n - Len(v) + k]
      BY <2>6 DEF TailOf, n
    <3>2. Len(v) = M
      BY <2>1, <2>5, <3>1
    <3>3. M \in 1..Len(v) /\ n - M + M = n
      BY <2>1, <2>5, <3>2
    <3> QED
      BY <3>1, <3>2, <3>3
  <2>8. v # <<>>
    <3>1. Len(v) # 0
      BY <2>5, <2>7
    <3> QED
      BY <3>1
  <2>9. Last(v) = Last(Remembered)
    BY <2>7 DEF Last, n, r
  <2>10. Len(v) <= 1 \/ Size(v) <= Budget
    <3>1. CASE M = 1
      BY <2>7, <3>1
    <3>2. CASE M # 1
      <4>1. Size(v) <= KeepBudget
        BY <2>5, <3>2 DEF Fits, v, r
      <4>2. KeepBudget \in Nat /\ Budget \in Nat /\ KeepBudget <= Budget
        BY ThreadAssumption DEF KeepBudget
      <4>3. v \in Seq(Indices)
        <5>1. Completed \subseteq Indices
          BY DEF Completed
        <5> QED
          BY <2>7, <5>1
      <4>4. Size(v) \in Nat
        BY <4>3, SizeIs
      <4> QED
        BY <4>1, <4>2, <4>4
    <3> QED
      BY <3>1, <3>2
  <2> QED
    BY <2>2, <2>8, <2>9, <2>10 DEF v
<1> QED
  BY <1>2, <1>3, <1>4

\* Every reply is shown once and the sidebar tells of the latest turn, the model
\* has the newest completed turn word for word and no more than its budget, work
\* that the queue brought to its end has its line, however runs are executed,
\* cancelled, rejected and reviewed meanwhile, and no line tells of an end that was
\* none (companion-server.ts, work-updates.ts, native-runtime.ts).
THEOREM ThreadHolds == ThreadSpec => []ThreadInv
<1>1. ThreadIInv => ThreadInv
  <2> SUFFICES ASSUME ThreadIInv PROVE ThreadInv
    OBVIOUS
  <2>1. NewestIsVerbatim /\ PromptWithinBudget
    BY VerbatimIs DEF NewestIsVerbatim, PromptWithinBudget
  <2> QED
    BY <2>1, EachReplyOnce, SidebarIsTrue DEF ThreadIInv, ThreadInv, EndsAreTold, QueuedWorkIsTold
<1> QED
  BY <1>1, ThreadBegin, ThreadStep, PTL DEF ThreadSpec

\* What the owner is shown is what happened, of the conversation, of the work the
\* queue settled and of the list beside it, requests for the list coming one at a
\* time (companion-server.ts, work-updates.ts, session-store.ts).
THEOREM ShownHolds == ASSUME OneVisit PROVE ThreadSpec /\ SessionsSpec => []ShownInv
  BY ThreadHolds, SessionsHold, PTL DEF ShownInv

-----------------------------------------------------------------------------
(* ReviewActions.                                                            *)

SomeValues == Values \cup {NoValue}
RowType == [value : Values, applied : BOOLEAN, from : SomeValues]
RowsType == UNION {[S -> RowType] : S \in SUBSET Fields}
ReviewType == [generation : 0 .. MaxReviews, rows : RowsType]
TrailType == [field : Fields, from : SomeValues, to : SomeValues]
Doing == [at : {"config", "journal", "file"}, field : Fields, from : SomeValues, to : SomeValues,
          read : ReviewType, row : RowType]

Change(f, from, to) == [field |-> f, from |-> from, to |-> to]

\* Every row of a review that says it was applied is in the journal.
Journaled(rows, events) ==
  \A f \in DOMAIN rows : rows[f].applied => Change(f, rows[f].from, rows[f].value) \in ToSet(events)

\* The review a click puts back was as true as the file is, and by the time it
\* writes its own row that one is in the journal as well.
ClickIsHonest(doing) ==
  /\ doing.field \in DOMAIN doing.read.rows /\ Journaled(doing.read.rows, trail)
  /\ doing.row.applied => doing.row.from = doing.from /\ doing.row.value = doing.to
  /\ doing.at = "file" => Change(doing.field, doing.from, doing.to) \in ToSet(trail)

ReviewTypes ==
  /\ config \in [Fields -> SomeValues] /\ review \in ReviewType /\ trail \in Seq(TrailType)
  /\ click \in [Clicks -> Doing \cup {NoClick}]

ReviewIInv ==
  /\ ReviewTypes /\ Journaled(review.rows, trail)
  /\ \A c \in Clicks : click[c] # NoClick => ClickIsHonest(click[c])

LEMMA DoingIsSomething == \A d \in Doing : d # NoClick /\ d.at # "none"
  BY DEF Doing, NoClick

LEMMA ReviewBegins == ReviewInit => ReviewIInv
<1> SUFFICES ASSUME ReviewInit PROVE ReviewIInv
  OBVIOUS
<1>1. review.rows = <<>> /\ review.generation = 0 /\ DOMAIN review.rows = {}
  BY DEF ReviewInit
<1>2. review.rows \in [{} -> RowType]
  <2>1. <<>> \in [{} -> RowType]
    OBVIOUS
  <2> QED BY <1>1, <2>1
<1>3. review.rows \in RowsType
  BY <1>2 DEF RowsType
<1>4. review = [generation |-> 0, rows |-> <<>>] /\ 0 \in 0 .. MaxReviews
  BY ReviewAssumption DEF ReviewInit
<1>5. review \in ReviewType
  BY <1>1, <1>3, <1>4 DEF ReviewType
<1> QED BY <1>1, <1>5 DEF ReviewInit, ReviewIInv, ReviewTypes, Journaled, SomeValues

\* A row that is replaced in a review leaves a review.
LEMMA WithRow ==
  ASSUME NEW r \in ReviewType, NEW f \in DOMAIN r.rows, NEW row \in RowType
  PROVE  /\ [r EXCEPT !.rows[f] = row] \in ReviewType
         /\ DOMAIN [r EXCEPT !.rows[f] = row].rows = DOMAIN r.rows
         /\ \A g \in DOMAIN r.rows : [r EXCEPT !.rows[f] = row].rows[g] = IF g = f THEN row ELSE r.rows[g]
<1>1. PICK S \in SUBSET Fields : r.rows \in [S -> RowType]
  BY DEF ReviewType, RowsType
<1>2. [r.rows EXCEPT ![f] = row] \in [S -> RowType]
  BY <1>1
<1>3. [r.rows EXCEPT ![f] = row] \in RowsType
  BY <1>2 DEF RowsType
<1>4. [r EXCEPT !.rows[f] = row] = [generation |-> r.generation, rows |-> [r.rows EXCEPT ![f] = row]]
  BY DEF ReviewType
<1>5. r.generation \in 0 .. MaxReviews
  BY DEF ReviewType
<1>6. [generation |-> r.generation, rows |-> [r.rows EXCEPT ![f] = row]] \in ReviewType
  BY <1>3, <1>5 DEF ReviewType
<1> QED BY <1>1, <1>2, <1>4, <1>6

LEMMA RowOf ==
  ASSUME NEW r \in ReviewType, NEW f \in DOMAIN r.rows
  PROVE  f \in Fields /\ r.rows[f] \in RowType
  BY DEF ReviewType, RowsType

LEMMA TrailGrows ==
  ASSUME NEW s \in Seq(TrailType), NEW e \in TrailType
  PROVE  Append(s, e) \in Seq(TrailType) /\ ToSet(Append(s, e)) = ToSet(s) \cup {e}
<1>1. Append(s, e) \in Seq(TrailType) /\ Len(Append(s, e)) = Len(s) + 1 /\ Append(s, e)[Len(s) + 1] = e
  OBVIOUS
<1>2. \A i \in 1 .. Len(s) : Append(s, e)[i] = s[i]
  OBVIOUS
<1>3. 1 .. Len(s) + 1 = (1 .. Len(s)) \cup {Len(s) + 1}
  OBVIOUS
<1>4. DOMAIN Append(s, e) = 1 .. Len(s) + 1 /\ DOMAIN s = 1 .. Len(s)
  BY <1>1
<1> QED BY <1>1, <1>2, <1>3, <1>4 DEF ToSet

\* What a click does leaves what the others are about to do as it was.
LEMMA OneClick ==
  ASSUME ReviewIInv, NEW c \in Clicks, NEW d \in Doing \cup {NoClick}, click' = [click EXCEPT ![c] = d],
         ToSet(trail) \subseteq ToSet(trail)', d # NoClick => ClickIsHonest(d)'
  PROVE  /\ click' \in [Clicks -> Doing \cup {NoClick}]
         /\ \A b \in Clicks : click'[b] # NoClick => ClickIsHonest(click[b])'
<1>1. click' \in [Clicks -> Doing \cup {NoClick}] /\ click'[c] = d
  BY DEF ReviewIInv, ReviewTypes
<1>2. ASSUME NEW b \in Clicks, click'[b] # NoClick PROVE ClickIsHonest(click[b])'
  <2>1. CASE b = c
    BY <1>1, <1>2, <2>1 DEF ClickIsHonest, Journaled
  <2>2. CASE b # c
    <3>1. click'[b] = click[b] /\ ClickIsHonest(click[b])
      BY <1>2, <2>2 DEF ReviewIInv, ReviewTypes
    <3> QED BY <3>1 DEF ClickIsHonest, Journaled
  <2> QED BY <2>1, <2>2
<1> QED BY <1>1, <1>2

LEMMA ReviewGoesOn == ReviewIInv /\ [ReviewNext]_reviewVars => ReviewIInv'
<1> SUFFICES ASSUME ReviewIInv, [ReviewNext]_reviewVars PROVE ReviewIInv'
  OBVIOUS
<1>T. /\ config \in [Fields -> SomeValues] /\ review \in ReviewType /\ trail \in Seq(TrailType)
      /\ click \in [Clicks -> Doing \cup {NoClick}] /\ Journaled(review.rows, trail)
  BY DEF ReviewIInv, ReviewTypes
<1>0. CASE UNCHANGED reviewVars
  BY <1>0 DEF reviewVars, ReviewIInv, ReviewTypes, Journaled, ClickIsHonest
<1>1. CASE Generate
  <2>1. PICK S \in SUBSET Fields : \E proposed \in [S -> Values] :
          review' = [generation |-> review.generation + 1, rows |-> [f \in S |-> Row(proposed[f])]]
    BY <1>1 DEF Generate
  <2>P. PICK proposed \in [S -> Values] :
          review' = [generation |-> review.generation + 1, rows |-> [f \in S |-> Row(proposed[f])]]
    BY <2>1
  <2>2. UNCHANGED <<config, trail, click>>
    BY <1>1 DEF Generate
  <2>3. \A f \in S : Row(proposed[f]) \in RowType /\ ~Row(proposed[f]).applied
    BY DEF Row, RowType, SomeValues
  <2>4. [f \in S |-> Row(proposed[f])] \in RowsType
    BY <2>3 DEF RowsType
  <2>5. review.generation + 1 \in 0 .. MaxReviews
    <3>1. review.generation \in 0 .. MaxReviews /\ review.generation < MaxReviews
      BY <1>T, <1>1 DEF ReviewType, Generate
    <3> QED BY <3>1, ReviewAssumption
  <2>6. review' \in ReviewType
    BY <2>P, <2>4, <2>5 DEF ReviewType
  <2>7. Journaled(review.rows, trail)'
    BY <2>P, <2>3 DEF Journaled
  <2> QED BY <1>T, <2>2, <2>6, <2>7 DEF ReviewIInv, ReviewTypes, ClickIsHonest, Journaled
<1>2. CASE Fall
  <2>1. UNCHANGED <<config, review, trail>> /\ click' = [c \in Clicks |-> NoClick]
    BY <1>2 DEF Fall
  <2>2. click' \in [Clicks -> Doing \cup {NoClick}] /\ \A c \in Clicks : click'[c] = NoClick
    BY <2>1
  <2> QED BY <1>T, <2>1, <2>2 DEF ReviewIInv, ReviewTypes, Journaled
<1>3. ASSUME NEW f \in Fields, OwnerEdits(f) PROVE ReviewIInv'
  <2>1. config' \in [Fields -> SomeValues] /\ UNCHANGED <<review, trail, click>>
    BY <1>3, <1>T DEF OwnerEdits, SomeValues
  <2> QED BY <1>T, <2>1 DEF ReviewIInv, ReviewTypes, ClickIsHonest, Journaled
<1>4. ASSUME NEW c \in Clicks, NEW f \in Fields, Apply(c, f) \/ Revert(c, f) PROVE ReviewIInv'
  <2>1. f \in DOMAIN review.rows /\ UNCHANGED <<config, review, trail>> /\ config[f] \in SomeValues
    BY <1>4, <1>T DEF Apply, Revert
  <2>2. PICK row \in RowType : row = review.rows[f]
    BY <2>1, <1>T, RowOf
  <2>3. PICK d : /\ click' = [click EXCEPT ![c] = d] /\ d \in Doing /\ d.at = "config"
                 /\ d.field = f /\ d.read = review
                 /\ d.row.applied => d.row.from = d.from /\ d.row.value = d.to
    <3>1. CASE Apply(c, f)
      <4> DEFINE d == [at |-> "config", field |-> f, from |-> config[f], to |-> row.value,
                       read |-> review, row |-> [row EXCEPT !.applied = TRUE, !.from = config[f]]]
      <4>1. [row EXCEPT !.applied = TRUE, !.from = config[f]] \in RowType /\ row.value \in SomeValues
        BY <2>1 DEF RowType, SomeValues
      <4>2. /\ [row EXCEPT !.applied = TRUE, !.from = config[f]].from = config[f]
            /\ [row EXCEPT !.applied = TRUE, !.from = config[f]].value = row.value
        BY DEF RowType
      <4>3. d \in Doing
        BY <1>T, <2>1, <4>1 DEF Doing
      <4>4. click' = [click EXCEPT ![c] = d]
        BY <3>1, <2>2 DEF Apply, Goes
      <4>5. /\ d.at = "config" /\ d.field = f /\ d.read = review
            /\ d.row.applied => d.row.from = d.from /\ d.row.value = d.to
        BY <4>2
      <4> HIDE DEF d
      <4> QED BY <4>3, <4>4, <4>5
    <3>2. CASE Revert(c, f)
      <4> DEFINE d == [at |-> "config", field |-> f, from |-> row.value, to |-> row.from,
                       read |-> review, row |-> Row(row.value)]
      <4>1. Row(row.value) \in RowType /\ ~Row(row.value).applied /\ row.value \in SomeValues /\ row.from \in SomeValues
        BY DEF RowType, SomeValues, Row
      <4>2. d \in Doing
        BY <1>T, <4>1 DEF Doing
      <4>3. click' = [click EXCEPT ![c] = d]
        BY <3>2, <2>2 DEF Revert, Goes
      <4>4. d.at = "config" /\ d.field = f /\ d.read = review /\ ~d.row.applied
        BY <4>1
      <4> HIDE DEF d
      <4> QED BY <4>2, <4>3, <4>4
    <3> QED BY <1>4, <3>1, <3>2
  <2>4. ClickIsHonest(d)'
    BY <1>T, <2>1, <2>3 DEF ClickIsHonest, Journaled
  <2>5. /\ click' \in [Clicks -> Doing \cup {NoClick}]
        /\ \A b \in Clicks : click'[b] # NoClick => ClickIsHonest(click[b])'
    BY <2>1, <2>3, <2>4, OneClick
  <2> QED BY <1>T, <2>1, <2>5 DEF ReviewIInv, ReviewTypes, Journaled
<1>5. ASSUME NEW c \in Clicks, WriteConfig(c) \/ Record(c) \/ SaveRow(c) PROVE ReviewIInv'
  <2>0. click[c] \in Doing
    BY <1>5, <1>T DEF WriteConfig, Record, SaveRow, NoClick
  <2>1. PICK d \in Doing : d = click[c]
    BY <2>0
  <2>2. ClickIsHonest(d)
    BY <2>1, DoingIsSomething DEF ReviewIInv
  <2>3. /\ d.field \in Fields /\ d.from \in SomeValues /\ d.to \in SomeValues
        /\ d.read \in ReviewType /\ d.row \in RowType
    BY DEF Doing
  <2>4. \A how \in {"config", "journal", "file"} :
          /\ [d EXCEPT !.at = how] \in Doing /\ [d EXCEPT !.at = how].at = how
          /\ [d EXCEPT !.at = how].field = d.field /\ [d EXCEPT !.at = how].from = d.from
          /\ [d EXCEPT !.at = how].to = d.to /\ [d EXCEPT !.at = how].read = d.read
          /\ [d EXCEPT !.at = how].row = d.row
    BY DEF Doing
  <2>5. CASE WriteConfig(c)
    <3>1. d.at = "config" /\ UNCHANGED <<review, trail>>
      BY <2>1, <2>5 DEF WriteConfig
    <3>2. PICK e \in Doing : e = [d EXCEPT !.at = "journal"]
      BY <2>4
    <3>3. click' = [click EXCEPT ![c] = e]
      BY <2>1, <2>5, <3>1, <3>2 DEF WriteConfig, Advances, Goes, Following
    <3>4. config' \in [Fields -> SomeValues]
      BY <1>T, <2>1, <2>3, <2>5 DEF WriteConfig
    <3>5. ClickIsHonest(e)'
      BY <2>2, <2>4, <3>1, <3>2 DEF ClickIsHonest, Journaled
    <3>6. /\ click' \in [Clicks -> Doing \cup {NoClick}]
          /\ \A b \in Clicks : click'[b] # NoClick => ClickIsHonest(click[b])'
      BY <3>1, <3>3, <3>5, OneClick
    <3> QED BY <1>T, <3>1, <3>4, <3>6 DEF ReviewIInv, ReviewTypes, Journaled
  <2>6. CASE Record(c)
    <3>1. d.at = "journal" /\ UNCHANGED <<review, config>> /\ trail' = Append(trail, Change(d.field, d.from, d.to))
      BY <2>1, <2>6 DEF Record, Change
    <3>2. PICK e \in Doing : e = [d EXCEPT !.at = "file"]
      BY <2>4
    <3>3. click' = [click EXCEPT ![c] = e]
      BY <2>1, <2>6, <3>1, <3>2 DEF Record, Advances, Goes, Following
    <3>4. Change(d.field, d.from, d.to) \in TrailType
      BY <2>3 DEF Change, TrailType
    <3>5. trail' \in Seq(TrailType) /\ ToSet(trail)' = ToSet(trail) \cup {Change(d.field, d.from, d.to)}
      <4>1. /\ Append(trail, Change(d.field, d.from, d.to)) \in Seq(TrailType)
            /\ ToSet(Append(trail, Change(d.field, d.from, d.to))) = ToSet(trail) \cup {Change(d.field, d.from, d.to)}
        BY <1>T, <3>4, TrailGrows
      <4>2. ToSet(trail)' = ToSet(Append(trail, Change(d.field, d.from, d.to)))
        BY <3>1 DEF ToSet
      <4> QED BY <3>1, <4>1, <4>2
    <3>6. e.field = d.field /\ e.from = d.from /\ e.to = d.to /\ e.read = d.read /\ e.row = d.row
      BY <2>4, <3>2
    <3>7. ClickIsHonest(e)'
      BY <2>2, <3>5, <3>6 DEF ClickIsHonest, Journaled
    <3>8. /\ click' \in [Clicks -> Doing \cup {NoClick}]
          /\ \A b \in Clicks : click'[b] # NoClick => ClickIsHonest(click[b])'
      BY <3>3, <3>5, <3>7, OneClick
    <3>9. Journaled(review.rows, trail)'
      BY <1>T, <3>1, <3>5 DEF Journaled
    <3> QED BY <1>T, <3>1, <3>5, <3>8, <3>9 DEF ReviewIInv, ReviewTypes
  <2>7. CASE SaveRow(c)
    <3>1. d.at = "file" /\ UNCHANGED <<config, trail>> /\ review' = [d.read EXCEPT !.rows[d.field] = d.row]
      BY <2>1, <2>7 DEF SaveRow
    <3>2. click' = [click EXCEPT ![c] = NoClick]
      BY <2>1, <2>7, <3>1 DEF SaveRow, Advances, Goes, Following
    <3>3. /\ click' \in [Clicks -> Doing \cup {NoClick}]
          /\ \A b \in Clicks : click'[b] # NoClick => ClickIsHonest(click[b])'
      BY <3>1, <3>2, OneClick
    <3>4. d.field \in DOMAIN d.read.rows
      BY <2>2 DEF ClickIsHonest
    <3>5. /\ review' \in ReviewType /\ DOMAIN review'.rows = DOMAIN d.read.rows
          /\ \A g \in DOMAIN d.read.rows : review'.rows[g] = IF g = d.field THEN d.row ELSE d.read.rows[g]
      BY <2>3, <3>1, <3>4, WithRow
    <3>6. Journaled(review.rows, trail)'
      BY <2>2, <3>1, <3>5 DEF Journaled, ClickIsHonest
    <3> QED BY <1>T, <3>1, <3>3, <3>5, <3>6 DEF ReviewIInv, ReviewTypes
  <2> QED BY <1>5, <2>5, <2>6, <2>7
<1> QED BY <1>0, <1>1, <1>2, <1>3, <1>4, <1>5 DEF ReviewNext

\* Whatever clicks, new reviews, settings and falls interleave, between any two of
\* the writes of a click: what the panel shows as applied was journaled with the
\* value it replaced (apply-review.ts).
THEOREM ReviewHolds == ReviewSpec => []ReviewInv
<1>1. ReviewIInv => ReviewInv
  <2> SUFFICES ASSUME ReviewIInv PROVE ReviewInv
    OBVIOUS
  <2>1. review \in ReviewType /\ config \in [Fields -> SomeValues] /\ Journaled(review.rows, trail)
    BY DEF ReviewIInv, ReviewTypes
  <2>2. review.generation \in 0 .. MaxReviews /\ DOMAIN review.rows \subseteq Fields
    BY <2>1 DEF ReviewType, RowsType
  <2>3. \A c \in Clicks : click[c].at \in {"none", "config", "journal", "file"}
    BY DEF ReviewIInv, ReviewTypes, Doing, NoClick
  <2> QED BY <2>1, <2>2, <2>3 DEF ReviewInv, ReviewTypeOK, AppliedIsJournaled, Journaled, Change, SomeValues
<1> QED BY <1>1, ReviewBegins, ReviewGoesOn, PTL DEF ReviewSpec

-----------------------------------------------------------------------------
(* Improvement.                                                              *)

SweepType == [open : BOOLEAN, todo : SUBSET Suggestions, pending : Nat]
Deciding == [step : {"approving", "applied", "dismissing"}, about : {{s} : s \in Suggestions}]
AppliersOf(s) == {q \in Requests : request[q].step = "applied" /\ request[q].about = {s}}
Holders(s) == {p \in Sweepers : s \in sweep[p].todo}

\* What sweeps may append: a place for each, up to the limit; those above what an
\* open sweep counted are still free.
Places == Sweepers \X (1 .. MaxPending)
Room == {x \in Places : sweep[x[1]].open /\ x[2] > sweep[x[1]].pending}

ImprovementTypes ==
  /\ verdict \in [Judged -> Verdicts] /\ flips \in 0 .. MaxFlips
  /\ suggested \in [Suggestions -> Nat] /\ decided \in [Suggestions -> Nat] /\ changes \in [Suggestions -> Nat]
  /\ offered \subseteq Suggestions /\ decisions \in 0 .. MaxDecisions
  /\ sweep \in [Sweepers -> SweepType] /\ request \in [Requests -> Deciding \cup {NoRequest}]

\* Who is still to append a suggestion read before anybody had; and every place a
\* sweep has left was free when it counted.
SweepsAreCareful ==
  /\ \A s \in Suggestions : suggested[s] + Cardinality(Holders(s)) <= Cardinality(Sweepers)
  /\ IsFiniteSet(Pending) /\ Cardinality(Pending) + Cardinality(Room) <= Cardinality(Places)

\* Only what was suggested is decided, and what is offered after that was
\* suggested once more.
OfferedAgain ==
  \A s \in Suggestions :
    /\ s \in offered \/ decided[s] > 0 \/ (\E q \in Requests : request[q].about = {s}) => suggested[s] > 0
    /\ s \in offered /\ decided[s] > 0 => suggested[s] > 1

\* A request that has changed the memory is still to be recorded.
RequestsAccount == \A s \in Suggestions : changes[s] <= decided[s] + Cardinality(AppliersOf(s))

ImprovementIInv == ImprovementTypes /\ SweepsAreCareful /\ OfferedAgain /\ RequestsAccount

LEMMA SomeRequests ==
  ASSUME NEW S \in SUBSET Requests
  PROVE  IsFiniteSet(S) /\ Cardinality(S) \in Nat
  BY ImprovementAssumption, FS_Subset, FS_CardinalityType

LEMMA SomeSweepers ==
  ASSUME NEW S \in SUBSET Sweepers
  PROVE  IsFiniteSet(S) /\ Cardinality(S) \in Nat /\ Cardinality(S) <= Cardinality(Sweepers) /\ Cardinality(Sweepers) \in Nat
  BY ImprovementAssumption, FS_Subset, FS_CardinalityType

LEMMA SomePlaces ==
  /\ IsFiniteSet(Places)
  /\ \A S \in SUBSET Places : IsFiniteSet(S) /\ Cardinality(S) \in Nat /\ Cardinality(S) <= Cardinality(Places)
<1>1. IsFiniteSet(1 .. MaxPending)
  BY ImprovementAssumption, FS_Interval
<1>2. IsFiniteSet(Places)
  BY <1>1, ImprovementAssumption, FS_Product DEF Places
<1> QED BY <1>2, FS_Subset, FS_CardinalityType

LEMMA DecidingIsNotNothing ==
  /\ \A d \in Deciding : d # NoRequest /\ d.step # "idle" /\ d.about # {}
  /\ NoRequest.step = "idle" /\ NoRequest.about = {} /\ \A x : NoRequest.about # {x}
  BY DEF Deciding, NoRequest

LEMMA BucketOf == ASSUME NEW n \in Nat, n >= MinRuns, n <= Cardinality(Judged) PROVE Bucket(n) \in Buckets
<1>1. MinRuns \in Nat \ {0} /\ Cardinality(Judged) \in Nat
  BY ImprovementAssumption, FS_CardinalityType
<1>2. n \div MinRuns \in Nat /\ n \div MinRuns >= 1 /\ n \div MinRuns <= n
  BY <1>1
<1>3. PICK k \in Nat : k = n \div MinRuns
  BY <1>2
<1>4. k \in 1 .. Cardinality(Judged)
  BY <1>1, <1>2, <1>3
<1>5. k * MinRuns = MinRuns * k
  BY <1>1
<1>6. Bucket(n) = MinRuns * k
  BY <1>3, <1>5 DEF Bucket
<1> QED BY <1>4, <1>6 DEF Buckets

LEMMA WhatIsSuggested == AboutMemory \cup AboutFailures \subseteq Suggestions
<1>0. IsFiniteSet(Judged) /\ Cardinality(Judged) \in Nat /\ MinRuns \in Nat \ {0}
  BY ImprovementAssumption, FS_CardinalityType
<1>1. \A S \in SUBSET Judged : Cardinality(S) \in Nat /\ Cardinality(S) <= Cardinality(Judged)
  BY <1>0, FS_Subset, FS_CardinalityType
<1>2. Known(Recalled) \in Nat /\ Known(Recalled) <= Cardinality(Judged)
  <2>1. {r \in Recalled : verdict[r] # "none"} \in SUBSET Judged
    BY ImprovementAssumption
  <2> QED BY <1>1, <2>1 DEF Known
<1>3. AboutMemory \subseteq Suggestions
  <2>1. \A kind \in {"retire", "reinforce"} : ~(Known(Recalled) < MinRuns) =>
          [kind |-> kind, bucket |-> Bucket(Known(Recalled))] \in Suggestions
    BY <1>0, <1>2, BucketOf DEF Suggestions
  <2> QED BY <2>1 DEF AboutMemory
<1>4. AboutFailures \subseteq Suggestions
  <2>1. {r \in Alike : verdict[r] = "bad"} \in SUBSET Judged
    BY ImprovementAssumption
  <2>2. PICK n \in Nat : n = Cardinality({r \in Alike : verdict[r] = "bad"}) /\ n <= Cardinality(Judged)
    BY <1>1, <2>1
  <2>3. ~(n < MinRuns) => [kind |-> "lesson", bucket |-> Bucket(n)] \in Suggestions
    BY <1>0, <2>2, BucketOf DEF Suggestions
  <2> QED BY <2>2, <2>3 DEF AboutFailures
<1> QED BY <1>3, <1>4

LEMMA ImprovementBegins == ImprovementInit => ImprovementIInv
<1> SUFFICES ASSUME ImprovementInit PROVE ImprovementIInv
  OBVIOUS
<1>1. MaxPending \in Nat /\ MaxDecisions \in Nat /\ MaxFlips \in Nat
  BY ImprovementAssumption
<1>2. Pending = {} /\ Room = {}
  BY DEF ImprovementInit, Pending, Room, Quiescent, Places
<1>3. \A s \in Suggestions : Holders(s) = {} /\ AppliersOf(s) = {}
  BY DecidingIsNotNothing DEF ImprovementInit, Holders, AppliersOf, Quiescent
<1>4. IsFiniteSet({}) /\ Cardinality({}) = 0
  BY FS_EmptySet
<1>5. ImprovementTypes
  <2>1. Quiescent \in SweepType
    BY DEF Quiescent, SweepType
  <2> QED BY <1>1, <2>1 DEF ImprovementInit, ImprovementTypes, Verdicts
<1>6. SweepsAreCareful
  <2>1. Cardinality(Sweepers) \in Nat /\ Cardinality(Places) \in Nat
    BY SomePlaces, SomeSweepers, FS_CardinalityType
  <2>2. ASSUME NEW s \in Suggestions PROVE suggested[s] + Cardinality(Holders(s)) <= Cardinality(Sweepers)
    <3>1. suggested[s] = 0 /\ Cardinality(Holders(s)) = 0
      BY <1>3, <1>4 DEF ImprovementInit
    <3> QED BY <2>1, <3>1
  <2>3. IsFiniteSet(Pending) /\ Cardinality(Pending) + Cardinality(Room) <= Cardinality(Places)
    <3>1. IsFiniteSet(Pending) /\ Cardinality(Pending) = 0 /\ Cardinality(Room) = 0
      BY <1>2, <1>4
    <3> QED BY <2>1, <3>1
  <2> QED BY <2>2, <2>3 DEF SweepsAreCareful
<1>7. RequestsAccount
  <2>1. ASSUME NEW s \in Suggestions PROVE changes[s] = 0 /\ decided[s] = 0 /\ Cardinality(AppliersOf(s)) = 0
    BY <1>3, <1>4 DEF ImprovementInit
  <2> QED BY <2>1 DEF RequestsAccount
<1>8. OfferedAgain
  <2>1. ASSUME NEW s \in Suggestions
        PROVE  s \notin offered /\ decided[s] = 0 /\ \A q \in Requests : request[q].about # {s}
    BY DecidingIsNotNothing DEF ImprovementInit, NoRequest
  <2> QED BY <2>1 DEF OfferedAgain
<1> QED BY <1>5, <1>6, <1>7, <1>8 DEF ImprovementIInv

\* Steps that leave the requests and what was decided alone.
LEMMA RequestsStay ==
  RequestsAccount /\ UNCHANGED <<decided, changes, request>> => RequestsAccount'
  BY DEF RequestsAccount, AppliersOf

LEMMA SweepsStay ==
  SweepsAreCareful /\ UNCHANGED <<suggested, decided, sweep>> => SweepsAreCareful'
  BY DEF SweepsAreCareful, Pending, Holders, Room

LEMMA OffersStay ==
  OfferedAgain /\ UNCHANGED <<suggested, offered, decided, request>> => OfferedAgain'
  BY DEF OfferedAgain

\* A sweep counts: it has as many places as are left.
LEMMA RoomFor ==
  ASSUME ImprovementIInv, NEW p \in Sweepers, BeginSweep(p)
  PROVE  Cardinality(Pending) + Cardinality(Room)' <= Cardinality(Places)
<1> DEFINE c == Cardinality(Pending)
           E == {p} \X (1 .. c)
<1>1. c \in Nat /\ MaxPending \in Nat /\ sweep \in [Sweepers -> SweepType] /\ ~sweep[p].open
  BY FS_CardinalityType, ImprovementAssumption DEF ImprovementIInv, SweepsAreCareful, ImprovementTypes, BeginSweep
<1>2. /\ sweep'[p].open /\ sweep'[p].pending = c
      /\ \A o \in Sweepers : o # p => sweep'[o] = sweep[o]
  BY <1>1 DEF BeginSweep
<1> HIDE DEF c
<1>3. Room' = {x \in Places : sweep'[x[1]].open /\ x[2] > sweep'[x[1]].pending}
  BY DEF Room, Places
<1>4. CASE c <= MaxPending
  <2>1. Room' \cap E = {}
    BY <1>1, <1>2, <1>3 DEF Places
  <2>2. E \subseteq Places
    BY <1>1, <1>4 DEF Places
  <2>3. Room' \in SUBSET Places
    BY <1>3
  <2>4. IsFiniteSet(E) /\ Cardinality(E) = c
    <3>1. IsFiniteSet(1 .. c) /\ Cardinality(1 .. c) = c
      <4>1. 1 \in Int /\ c \in Int
        BY <1>1
      <4>2. IsFiniteSet(1 .. c) /\ Cardinality(1 .. c) = IF 1 > c THEN 0 ELSE c - 1 + 1
        BY <4>1, FS_Interval
      <4> QED BY <1>1, <4>2
    <3>2. IsFiniteSet({p}) /\ Cardinality({p}) = 1
      BY FS_Singleton
    <3>3. IsFiniteSet({p} \X (1 .. c)) /\ Cardinality({p} \X (1 .. c)) = Cardinality({p}) * Cardinality(1 .. c)
      BY <3>1, <3>2, FS_Product
    <3>4. 1 * c = c
      BY <1>1
    <3> QED BY <3>1, <3>2, <3>3, <3>4
  <2> HIDE DEF E
  <2>5. PICK R : R = Room'
    OBVIOUS
  <2>6. /\ IsFiniteSet(R) /\ Cardinality(R) \in Nat /\ R \cup E \in SUBSET Places
        /\ Cardinality(R \cup E) <= Cardinality(Places) /\ Cardinality(Places) \in Nat
    BY <2>2, <2>3, <2>5, SomePlaces, FS_CardinalityType
  <2>7. Cardinality(R \cup E) = Cardinality(R) + Cardinality(E)
    <3>1. Cardinality(R \cup E) = Cardinality(R) + Cardinality(E) - Cardinality(R \cap E)
      BY <2>4, <2>6, FS_Union
    <3>2. Cardinality(R \cap E) = 0
      BY <2>1, <2>5, FS_EmptySet
    <3> QED BY <1>1, <2>4, <2>6, <3>1, <3>2
  <2> QED BY <1>1, <2>4, <2>5, <2>6, <2>7 DEF c
<1>5. CASE c > MaxPending
  <2>1. Room' = Room
    <3>1. ASSUME NEW x \in Places PROVE x \in Room' <=> x \in Room
      <4>1. x[1] \in Sweepers /\ x[2] \in 1 .. MaxPending
        BY DEF Places
      <4>2. CASE x[1] = p
        BY <1>1, <1>2, <1>3, <1>5, <4>1, <4>2 DEF Room
      <4>3. CASE x[1] # p
        BY <1>2, <1>3, <4>1, <4>3 DEF Room
      <4> QED BY <4>2, <4>3
    <3> QED BY <1>3, <3>1 DEF Room
  <2> QED BY <2>1 DEF c, ImprovementIInv, SweepsAreCareful
<1> QED BY <1>1, <1>4, <1>5

LEMMA SweepBegins == ASSUME ImprovementIInv, NEW p \in Sweepers, BeginSweep(p) PROVE ImprovementIInv'
<1>1. UNCHANGED <<verdict, flips, suggested, offered, decided, changes, request, decisions>>
  BY DEF BeginSweep
<1>2. Cardinality(Pending) \in Nat
  BY FS_CardinalityType DEF ImprovementIInv, SweepsAreCareful
<1>3. {s \in AboutMemory \cup AboutFailures : suggested[s] = 0 /\ decided[s] = 0} \subseteq Suggestions
  BY WhatIsSuggested
<1>4. PICK row \in SweepType : row = [open |-> TRUE,
                  todo |-> {s \in AboutMemory \cup AboutFailures : suggested[s] = 0 /\ decided[s] = 0},
                  pending |-> Cardinality(Pending)]
  BY <1>2, <1>3 DEF SweepType
<1>5. sweep' = [sweep EXCEPT ![p] = row] /\ \A s \in row.todo : suggested[s] = 0
  BY <1>4 DEF BeginSweep
<1>6. sweep' \in [Sweepers -> SweepType] /\ \A o \in Sweepers : sweep'[o] = IF o = p THEN row ELSE sweep[o]
  BY <1>5 DEF ImprovementIInv, ImprovementTypes
<1>7. ASSUME NEW s \in Suggestions PROVE suggested[s] + Cardinality(Holders(s))' <= Cardinality(Sweepers)
  <2>1. PICK H \in SUBSET Sweepers : H = Holders(s)'
    BY DEF Holders
  <2>2. Cardinality(H) \in Nat /\ Cardinality(H) <= Cardinality(Sweepers) /\ Cardinality(Sweepers) \in Nat
    BY SomeSweepers
  <2>3. CASE suggested[s] = 0
    BY <2>1, <2>2, <2>3
  <2>4. CASE suggested[s] # 0
    <3>1. H \in SUBSET Holders(s) /\ Holders(s) \in SUBSET Sweepers
      BY <1>5, <1>6, <2>1, <2>4 DEF Holders
    <3>2. IsFiniteSet(Holders(s)) /\ Cardinality(Holders(s)) \in Nat
      BY <3>1, SomeSweepers
    <3>3. Cardinality(H) <= Cardinality(Holders(s))
      BY <3>1, <3>2, FS_Subset
    <3>4. suggested[s] + Cardinality(Holders(s)) <= Cardinality(Sweepers) /\ suggested[s] \in Nat
      BY DEF ImprovementIInv, SweepsAreCareful, ImprovementTypes
    <3> QED BY <2>1, <2>2, <3>2, <3>3, <3>4
  <2> QED BY <2>3, <2>4
<1>8. SweepsAreCareful'
  <2>1. Pending' = Pending
    BY <1>1 DEF Pending
  <2> QED BY <1>1, <1>7, <2>1, RoomFor DEF ImprovementIInv, SweepsAreCareful
<1> QED BY <1>1, <1>6, <1>8, RequestsStay, OffersStay DEF ImprovementIInv, ImprovementTypes

LEMMA SweepEnds == ASSUME ImprovementIInv, NEW p \in Sweepers, EndSweep(p) PROVE ImprovementIInv'
<1>1. /\ UNCHANGED <<verdict, flips, suggested, offered, decided, changes, request, decisions>>
      /\ sweep' = [sweep EXCEPT ![p] = Quiescent] /\ sweep \in [Sweepers -> SweepType]
  BY DEF EndSweep, ImprovementIInv, ImprovementTypes
<1>2. Quiescent \in SweepType /\ Quiescent.todo = {} /\ ~Quiescent.open
  BY DEF Quiescent, SweepType
<1>3. sweep' \in [Sweepers -> SweepType] /\ \A o \in Sweepers : sweep'[o] = IF o = p THEN Quiescent ELSE sweep[o]
  BY <1>1, <1>2
<1>4. Room' \subseteq Room
  BY <1>2, <1>3 DEF Room, Places
<1>5. ASSUME NEW s \in Suggestions PROVE suggested[s] + Cardinality(Holders(s))' <= Cardinality(Sweepers)
  <2>1. PICK H \in SUBSET Holders(s) : H = Holders(s)'
    BY <1>2, <1>3 DEF Holders
  <2>2. Holders(s) \in SUBSET Sweepers
    BY DEF Holders
  <2>3. IsFiniteSet(Holders(s)) /\ Cardinality(Holders(s)) \in Nat /\ Cardinality(Sweepers) \in Nat
    BY <2>2, SomeSweepers
  <2>4. Cardinality(H) \in Nat /\ Cardinality(H) <= Cardinality(Holders(s))
    BY <2>3, FS_Subset, FS_CardinalityType
  <2>5. suggested[s] + Cardinality(Holders(s)) <= Cardinality(Sweepers) /\ suggested[s] \in Nat
    BY DEF ImprovementIInv, SweepsAreCareful, ImprovementTypes
  <2> QED BY <2>1, <2>3, <2>4, <2>5
<1>6. IsFiniteSet(Pending) /\ Cardinality(Pending) + Cardinality(Room)' <= Cardinality(Places)
  <2>1. PICK R \in SUBSET Room : R = Room'
    BY <1>4
  <2>2. Room \in SUBSET Places
    BY DEF Room
  <2>3. /\ IsFiniteSet(Room) /\ Cardinality(Room) \in Nat /\ Cardinality(R) \in Nat
        /\ Cardinality(R) <= Cardinality(Room) /\ Cardinality(Places) \in Nat
    BY <2>2, SomePlaces, FS_Subset, FS_CardinalityType
  <2>4. /\ IsFiniteSet(Pending) /\ Cardinality(Pending) \in Nat
        /\ Cardinality(Pending) + Cardinality(Room) <= Cardinality(Places)
    BY FS_CardinalityType DEF ImprovementIInv, SweepsAreCareful
  <2> QED BY <2>1, <2>3, <2>4
<1>7. SweepsAreCareful'
  <2>1. Pending' = Pending
    BY <1>1 DEF Pending
  <2> QED BY <1>1, <1>5, <1>6, <2>1 DEF SweepsAreCareful
<1> QED BY <1>1, <1>3, <1>7, RequestsStay, OffersStay DEF ImprovementIInv, ImprovementTypes

\* An appended suggestion takes the next place of its sweep.
LEMMA Suggesting ==
  ASSUME ImprovementIInv, NEW p \in Sweepers, NEW s \in Suggestions, SuggestOne(p, s)
  PROVE  ImprovementIInv'
<1>T. /\ suggested \in [Suggestions -> Nat] /\ sweep \in [Sweepers -> SweepType] /\ decided \in [Suggestions -> Nat]
      /\ SweepsAreCareful /\ OfferedAgain /\ MaxPending \in Nat /\ offered \subseteq Suggestions
  BY ImprovementAssumption DEF ImprovementIInv, ImprovementTypes
<1>1. /\ sweep[p].open /\ sweep[p].pending < MaxPending /\ s \in sweep[p].todo
      /\ suggested' = [suggested EXCEPT ![s] = @ + 1] /\ offered' = offered \cup {s}
      /\ UNCHANGED <<verdict, flips, decided, changes, request, decisions>>
  BY DEF SuggestOne
<1>2. sweep[p].todo \subseteq Suggestions /\ sweep[p].pending \in Nat
  BY <1>T DEF SweepType
<1>3. PICK row \in SweepType : /\ row = [open |-> TRUE, todo |-> sweep[p].todo \ {s}, pending |-> sweep[p].pending + 1]
                               /\ row.open /\ row.todo = sweep[p].todo \ {s} /\ row.pending = sweep[p].pending + 1
  <2> DEFINE left == sweep[p].todo \ {s}
             next == sweep[p].pending + 1
  <2>1. left \in SUBSET Suggestions /\ next \in Nat
    BY <1>2
  <2>2. [open |-> TRUE, todo |-> left, pending |-> next] \in SweepType
    BY <2>1 DEF SweepType
  <2> QED BY <2>2
<1>4. sweep' = [sweep EXCEPT ![p] = row]
  BY <1>3 DEF SuggestOne
<1>5. sweep' \in [Sweepers -> SweepType] /\ \A o \in Sweepers : sweep'[o] = IF o = p THEN row ELSE sweep[o]
  BY <1>4, <1>T
<1>6. suggested' \in [Suggestions -> Nat] /\ \A t \in Suggestions : suggested'[t] = IF t = s THEN suggested[t] + 1 ELSE suggested[t]
  BY <1>1, <1>T
<1>7. ASSUME NEW t \in Suggestions PROVE suggested'[t] + Cardinality(Holders(t))' <= Cardinality(Sweepers)
  <2>1. Holders(t)' = IF t = s THEN Holders(t) \ {p} ELSE Holders(t)
    BY <1>3, <1>5 DEF Holders
  <2>2. Holders(t) \in SUBSET Sweepers
    BY DEF Holders
  <2>3. IsFiniteSet(Holders(t)) /\ Cardinality(Holders(t)) \in Nat /\ Cardinality(Sweepers) \in Nat
    BY <2>2, SomeSweepers
  <2>4. suggested[t] + Cardinality(Holders(t)) <= Cardinality(Sweepers) /\ suggested[t] \in Nat
    BY <1>T DEF SweepsAreCareful
  <2>5. CASE t = s
    <3>1. p \in Holders(t)
      BY <1>1, <2>5 DEF Holders
    <3>2. Cardinality(Holders(t) \ {p}) = Cardinality(Holders(t)) - 1
      BY <2>3, <3>1, FS_RemoveElement
    <3>3. Cardinality(Holders(t))' = Cardinality(Holders(t)) - 1
      BY <2>1, <2>5, <3>2
    <3> QED BY <1>6, <2>3, <2>4, <2>5, <3>3
  <2>6. CASE t # s
    <3>1. Cardinality(Holders(t))' = Cardinality(Holders(t))
      BY <2>1, <2>6
    <3> QED BY <1>6, <2>4, <2>6, <3>1
  <2> QED BY <2>5, <2>6
<1>8. IsFiniteSet(Pending)' /\ (Cardinality(Pending) + Cardinality(Room))' <= Cardinality(Places)
  <2> DEFINE x == <<p, sweep[p].pending + 1>>
  <2>1. x \in Room /\ Room' = Room \ {x}
    <3>1. x \in Places /\ x[1] = p /\ x[2] = sweep[p].pending + 1
      BY <1>1, <1>2, <1>T DEF Places
    <3>2. x \in Room
      BY <1>1, <1>2, <3>1 DEF Room
    <3>3. ASSUME NEW y \in Places PROVE y \in Room' <=> y \in Room /\ y # x
      <4>1. y = <<y[1], y[2]>> /\ y[1] \in Sweepers /\ y[2] \in 1 .. MaxPending
        BY DEF Places
      <4>2. CASE y[1] = p
        <5>1. y \in Room' <=> y[2] > sweep[p].pending + 1
          BY <1>3, <1>5, <4>1, <4>2 DEF Room
        <5>2. y \in Room <=> y[2] > sweep[p].pending
          BY <1>1, <4>1, <4>2 DEF Room
        <5>3. y = x <=> y[2] = sweep[p].pending + 1
          BY <4>1, <4>2
        <5> QED BY <1>2, <4>1, <5>1, <5>2, <5>3
      <4>3. CASE y[1] # p
        <5>1. y \in Room' <=> y \in Room
          BY <1>5, <4>1, <4>3 DEF Room
        <5>2. y # x
          BY <3>1, <4>3
        <5> QED BY <5>1, <5>2
      <4> QED BY <4>2, <4>3
    <3>4. Room' \subseteq Places
      BY DEF Room, Places
    <3>5. Room \subseteq Places
      BY DEF Room
    <3> QED BY <3>2, <3>3, <3>4, <3>5
  <2> HIDE DEF x
  <2>2. Room \in SUBSET Places
    BY DEF Room
  <2>3. IsFiniteSet(Room) /\ Cardinality(Room) \in Nat /\ Cardinality(Places) \in Nat
    BY <2>2, SomePlaces, FS_CardinalityType
  <2>4. Cardinality(Room \ {x}) = Cardinality(Room) - 1
    BY <2>1, <2>3, FS_RemoveElement
  <2>5. PICK P \in SUBSET (Pending \cup {s}) : P = Pending'
    BY <1>1, <1>6 DEF Pending
  <2>6. /\ IsFiniteSet(Pending) /\ Cardinality(Pending) \in Nat
        /\ Cardinality(Pending) + Cardinality(Room) <= Cardinality(Places)
    BY <1>T, FS_CardinalityType DEF SweepsAreCareful
  <2>7. /\ IsFiniteSet(Pending \cup {s})
        /\ Cardinality(Pending \cup {s}) = IF s \in Pending THEN Cardinality(Pending) ELSE Cardinality(Pending) + 1
    BY <2>6, FS_AddElement
  <2>8. IsFiniteSet(P) /\ Cardinality(P) \in Nat /\ Cardinality(P) <= Cardinality(Pending \cup {s})
    BY <2>7, FS_Subset, FS_CardinalityType
  <2>9. Cardinality(P) <= Cardinality(Pending) + 1
    BY <2>6, <2>7, <2>8
  <2>10. Cardinality(P) + (Cardinality(Room) - 1) <= Cardinality(Places)
    BY <2>3, <2>6, <2>8, <2>9
  <2> QED BY <2>1, <2>4, <2>5, <2>8, <2>10
<1>9. SweepsAreCareful'
  <2>1. Places' = Places /\ Sweepers' = Sweepers
    BY DEF Places
  <2> QED BY <1>7, <1>8, <2>1 DEF SweepsAreCareful
<1>10. OfferedAgain'
  BY <1>1, <1>6, <1>T DEF OfferedAgain
<1>11. offered' \subseteq Suggestions
  BY <1>1, <1>T
<1> QED BY <1>1, <1>5, <1>6, <1>9, <1>10, <1>11, RequestsStay DEF ImprovementIInv, ImprovementTypes

\* A request for one suggestion that begins, goes on, or ends.
LEMMA RequestMoves ==
  ASSUME ImprovementIInv, NEW q \in Requests, NEW d \in Deciding \cup {NoRequest}, request' = [request EXCEPT ![q] = d]
  PROVE  /\ request' \in [Requests -> Deciding \cup {NoRequest}]
         /\ \A r \in Requests : request'[r] = IF r = q THEN d ELSE request[r]
         /\ \A s : AppliersOf(s)' = IF d.step = "applied" /\ d.about = {s} THEN AppliersOf(s) \cup {q}
                                    ELSE AppliersOf(s) \ {q}
         /\ \A s : /\ Cardinality(AppliersOf(s)) \in Nat
                   /\ Cardinality(AppliersOf(s) \cup {q}) =
                        Cardinality(AppliersOf(s)) + (IF q \in AppliersOf(s) THEN 0 ELSE 1)
                   /\ Cardinality(AppliersOf(s) \ {q}) =
                        Cardinality(AppliersOf(s)) - (IF q \in AppliersOf(s) THEN 1 ELSE 0)
<1>1. request \in [Requests -> Deciding \cup {NoRequest}]
  BY DEF ImprovementIInv, ImprovementTypes
<1>2. request' \in [Requests -> Deciding \cup {NoRequest}] /\ \A r \in Requests : request'[r] = IF r = q THEN d ELSE request[r]
  BY <1>1
<1>3. ASSUME NEW s
      PROVE  AppliersOf(s)' = IF d.step = "applied" /\ d.about = {s} THEN AppliersOf(s) \cup {q} ELSE AppliersOf(s) \ {q}
  BY <1>2 DEF AppliersOf
<1>4. ASSUME NEW S \in SUBSET Requests
      PROVE  /\ Cardinality(S) \in Nat
             /\ Cardinality(S \cup {q}) = Cardinality(S) + (IF q \in S THEN 0 ELSE 1)
             /\ Cardinality(S \ {q}) = Cardinality(S) - (IF q \in S THEN 1 ELSE 0)
  <2>1. IsFiniteSet(S) /\ Cardinality(S) \in Nat
    BY SomeRequests
  <2>2. Cardinality(S \cup {q}) = IF q \in S THEN Cardinality(S) ELSE Cardinality(S) + 1
    BY <2>1, FS_AddElement
  <2>3. Cardinality(S \ {q}) = IF q \in S THEN Cardinality(S) - 1 ELSE Cardinality(S)
    BY <2>1, FS_RemoveElement
  <2> QED BY <2>1, <2>2, <2>3
<1>5. \A s : AppliersOf(s) \in SUBSET Requests
  BY DEF AppliersOf
<1> QED BY <1>2, <1>3, <1>4, <1>5

\* What is pending only shrinks when the owner decides.
LEMMA FewerPending ==
  ASSUME SweepsAreCareful, UNCHANGED <<suggested, sweep>>, \A s \in Suggestions : decided[s] > 0 => decided'[s] > 0,
         decided \in [Suggestions -> Nat], decided' \in [Suggestions -> Nat]
  PROVE  SweepsAreCareful'
<1>1. PICK P \in SUBSET Pending : P = Pending'
  <2>1. ASSUME NEW s \in Suggestions, suggested'[s] > 0, decided'[s] = 0 PROVE suggested[s] > 0 /\ decided[s] = 0
    <3>1. decided[s] \in Nat /\ (decided[s] > 0 => decided'[s] > 0) /\ suggested[s] = suggested'[s]
      OBVIOUS
    <3> QED BY <2>1, <3>1
  <2>2. \A s : s \in Pending' => s \in Pending
    BY <2>1 DEF Pending
  <2> QED BY <2>2
<1>2. /\ IsFiniteSet(Pending) /\ Cardinality(Pending) \in Nat
      /\ Cardinality(Pending) + Cardinality(Room) <= Cardinality(Places)
  BY FS_CardinalityType DEF SweepsAreCareful
<1>3. IsFiniteSet(P) /\ Cardinality(P) \in Nat /\ Cardinality(P) <= Cardinality(Pending)
  BY <1>2, FS_Subset, FS_CardinalityType
<1>4. Room \in SUBSET Places /\ Cardinality(Room) \in Nat /\ Cardinality(Places) \in Nat
  BY SomePlaces, FS_CardinalityType DEF Room
<1>5. Cardinality(P) + Cardinality(Room) <= Cardinality(Places)
  BY <1>2, <1>3, <1>4
<1>6. Room' = Room /\ \A s \in Suggestions : Holders(s)' = Holders(s)
  BY DEF Room, Holders, Places
<1> QED BY <1>1, <1>3, <1>5, <1>6 DEF SweepsAreCareful

LEMMA DecisionBegins ==
  ASSUME ImprovementIInv, NEW q \in Requests, NEW s \in Suggestions, NEW how \in {"approving", "dismissing"},
         BeginDecision(q, s, how)
  PROVE  ImprovementIInv'
<1>1. /\ request[q] = NoRequest /\ s \in offered /\ decisions < MaxDecisions /\ decisions' = decisions + 1
      /\ UNCHANGED <<verdict, flips, suggested, offered, decided, changes, sweep>>
  BY DEF BeginDecision
<1>2. PICK d \in Deciding : d = [step |-> how, about |-> {s}]
  BY DEF Deciding
<1>3. d.about = {s} /\ d.step # "applied" /\ request' = [request EXCEPT ![q] = d]
  BY <1>2 DEF BeginDecision
<1>4. /\ request' \in [Requests -> Deciding \cup {NoRequest}]
      /\ \A r \in Requests : request'[r] = IF r = q THEN d ELSE request[r]
      /\ \A t : AppliersOf(t)' = AppliersOf(t) \ {q}
  BY <1>3, RequestMoves
<1>5. \A t : q \notin AppliersOf(t)
  BY <1>1, DecidingIsNotNothing DEF AppliersOf
<1>6. \A t : AppliersOf(t)' = AppliersOf(t)
  BY <1>4, <1>5
<1>7. RequestsAccount'
  BY <1>1, <1>6 DEF ImprovementIInv, RequestsAccount
<1>8. OfferedAgain'
  BY <1>1, <1>3, <1>4 DEF ImprovementIInv, OfferedAgain
<1>9. decisions' \in 0 .. MaxDecisions
  BY <1>1, ImprovementAssumption DEF ImprovementIInv, ImprovementTypes
<1> QED BY <1>1, <1>4, <1>7, <1>8, <1>9, SweepsStay DEF ImprovementIInv, ImprovementTypes

LEMMA DecisionGoesOn ==
  ASSUME ImprovementIInv, NEW q \in Requests, ChangeMemory(q) \/ Refused(q) \/ RecordDecision(q)
  PROVE  ImprovementIInv'
<1>T. /\ decided \in [Suggestions -> Nat] /\ changes \in [Suggestions -> Nat] /\ suggested \in [Suggestions -> Nat]
      /\ RequestsAccount /\ OfferedAgain /\ request[q] \in Deciding \cup {NoRequest} /\ offered \subseteq Suggestions
  BY DEF ImprovementIInv, ImprovementTypes
<1>1. request[q] \in Deciding /\ UNCHANGED <<verdict, flips, suggested, sweep, decisions>>
  BY <1>T DEF ChangeMemory, Refused, RecordDecision, NoRequest
<1>2. PICK s \in Suggestions : request[q].about = {s}
  BY <1>1 DEF Deciding
<1>3. suggested[s] > 0
  BY <1>2, <1>T DEF OfferedAgain
<1>4. \A t \in Suggestions : q \in AppliersOf(t) <=> t = s /\ request[q].step = "applied"
  BY <1>2 DEF AppliersOf
<1>5. CASE ChangeMemory(q)
  <2>1. request[q].step = "approving" /\ UNCHANGED <<decided, offered>>
        /\ changes' = [t \in Suggestions |-> changes[t] + IF t \in {s} THEN 1 ELSE 0]
    BY <1>2, <1>5 DEF ChangeMemory
  <2>2. PICK d \in Deciding : d = [step |-> "applied", about |-> {s}]
    BY DEF Deciding
  <2>3. d.about = {s} /\ d.step = "applied" /\ request' = [request EXCEPT ![q] = d]
    <3>1. [request[q] EXCEPT !.step = "applied"] = [step |-> "applied", about |-> {s}]
      BY <1>1, <1>2 DEF Deciding
    <3> QED BY <1>5, <2>2, <3>1 DEF ChangeMemory
  <2>4. /\ request' \in [Requests -> Deciding \cup {NoRequest}]
        /\ \A r \in Requests : request'[r] = IF r = q THEN d ELSE request[r]
        /\ \A t : AppliersOf(t)' = IF d.about = {t} THEN AppliersOf(t) \cup {q} ELSE AppliersOf(t) \ {q}
        /\ \A t : Cardinality(AppliersOf(t)) \in Nat
        /\ \A t : Cardinality(AppliersOf(t) \cup {q}) = Cardinality(AppliersOf(t)) + (IF q \in AppliersOf(t) THEN 0 ELSE 1)
    BY <2>3, RequestMoves
  <2>5. changes' \in [Suggestions -> Nat]
    BY <1>T, <2>1
  <2>6. ASSUME NEW t \in Suggestions
        PROVE  changes'[t] <= decided[t] + Cardinality(AppliersOf(t))'
    <3>0. /\ changes[t] <= decided[t] + Cardinality(AppliersOf(t)) /\ changes[t] \in Nat /\ decided[t] \in Nat
          /\ Cardinality(AppliersOf(t)) \in Nat
      BY <1>T, <2>4 DEF RequestsAccount
    <3>1. CASE t = s
      <4>1. Cardinality(AppliersOf(t))' = Cardinality(AppliersOf(t)) + 1
        BY <1>4, <2>1, <2>3, <2>4, <3>1
      <4>2. changes'[t] = changes[t] + 1
        BY <2>1, <3>1
      <4> QED BY <3>0, <4>1, <4>2
    <3>2. CASE t # s
      <4>1. AppliersOf(t)' = AppliersOf(t)
        BY <1>4, <2>3, <2>4, <3>2
      <4>2. changes'[t] = changes[t]
        BY <1>T, <2>1, <3>2
      <4> QED BY <3>0, <4>1, <4>2
    <3> QED BY <3>1, <3>2
  <2>7. RequestsAccount'
    BY <2>1, <2>6 DEF RequestsAccount
  <2>8. OfferedAgain'
    BY <1>1, <1>3, <1>T, <2>1, <2>3, <2>4 DEF OfferedAgain
  <2>9. SweepsAreCareful'
    BY <1>1, <2>1, SweepsStay DEF ImprovementIInv
  <2> QED BY <1>1, <2>1, <2>4, <2>5, <2>7, <2>8, <2>9 DEF ImprovementIInv, ImprovementTypes
<1>6. CASE Refused(q) \/ RecordDecision(q)
  <2>1. /\ request' \in [Requests -> Deciding \cup {NoRequest}]
        /\ \A r \in Requests : request'[r] = IF r = q THEN NoRequest ELSE request[r]
        /\ \A t : AppliersOf(t)' = AppliersOf(t) \ {q}
        /\ \A t : /\ Cardinality(AppliersOf(t)) \in Nat
                  /\ Cardinality(AppliersOf(t) \ {q}) = Cardinality(AppliersOf(t)) - (IF q \in AppliersOf(t) THEN 1 ELSE 0)
    <3>1. request' = [request EXCEPT ![q] = NoRequest] /\ UNCHANGED changes
      BY <1>6 DEF Refused, RecordDecision
    <3>2. NoRequest.step # "applied" /\ \A t : NoRequest.about # {t}
      BY DEF NoRequest
    <3> QED BY <3>1, <3>2, RequestMoves
  <2>2. /\ UNCHANGED changes /\ decided' \in [Suggestions -> Nat] /\ offered' \subseteq offered
        /\ \A t \in Suggestions :
             /\ decided'[t] = decided[t] + IF RecordDecision(q) /\ t = s THEN 1 ELSE 0
             /\ t \in offered' => ~(RecordDecision(q) /\ t = s)
    <3>1. CASE Refused(q)
      <4>1. request[q].step = "approving" /\ UNCHANGED <<decided, changes, offered>>
        BY <3>1 DEF Refused
      <4>2. ~RecordDecision(q)
        BY <4>1 DEF RecordDecision
      <4> QED BY <1>T, <4>1, <4>2
    <3>2. CASE RecordDecision(q)
      <4>1. /\ decided' = [t \in Suggestions |-> decided[t] + IF t \in {s} THEN 1 ELSE 0] /\ UNCHANGED changes
            /\ offered' = offered \ {s}
        BY <1>2, <3>2 DEF RecordDecision
      <4> QED BY <1>T, <3>2, <4>1
    <3> QED BY <1>6, <3>1, <3>2
  <2>3. ~RecordDecision(q) => request[q].step = "approving"
    BY <1>6 DEF Refused
  <2>4. ASSUME NEW t \in Suggestions
        PROVE  changes'[t] <= decided'[t] + Cardinality(AppliersOf(t))'
    <3>0. /\ changes[t] <= decided[t] + Cardinality(AppliersOf(t)) /\ Cardinality(AppliersOf(t)) \in Nat
          /\ changes'[t] = changes[t] /\ changes[t] \in Nat /\ decided[t] \in Nat
      BY <1>T, <2>1, <2>2 DEF RequestsAccount
    <3>1. CASE RecordDecision(q) /\ t = s
      <4>1. decided'[t] = decided[t] + 1
        BY <2>2, <3>1
      <4>2. Cardinality(AppliersOf(t))' >= Cardinality(AppliersOf(t)) - 1 /\ Cardinality(AppliersOf(t))' \in Int
        BY <2>1, <3>0
      <4> QED BY <3>0, <4>1, <4>2
    <3>2. CASE ~(RecordDecision(q) /\ t = s)
      <4>1. decided'[t] = decided[t]
        BY <2>2, <3>0, <3>2
      <4>2. q \notin AppliersOf(t)
        BY <1>4, <2>3, <3>2
      <4>3. Cardinality(AppliersOf(t))' = Cardinality(AppliersOf(t))
        BY <2>1, <3>0, <4>2
      <4> QED BY <3>0, <4>1, <4>3
    <3> QED BY <3>1, <3>2
  <2>5. RequestsAccount'
    BY <2>4 DEF RequestsAccount
  <2>6. OfferedAgain'
    <3>1. ASSUME NEW t \in Suggestions,
                 t \in offered' \/ decided'[t] > 0 \/ \E r \in Requests : request'[r].about = {t}
          PROVE  suggested'[t] > 0
      <4>1. CASE t = s
        BY <1>1, <1>3, <4>1
      <4>2. CASE t # s
        <5>1. decided'[t] = decided[t]
          BY <1>T, <2>2, <4>2
        <5>2. (\E r \in Requests : request'[r].about = {t}) => \E r \in Requests : request[r].about = {t}
          BY <2>1, DecidingIsNotNothing
        <5> QED BY <1>1, <1>T, <2>2, <3>1, <5>1, <5>2 DEF OfferedAgain
      <4> QED BY <4>1, <4>2
    <3>2. ASSUME NEW t \in Suggestions, t \in offered', decided'[t] > 0 PROVE suggested'[t] > 1
      <4>1. t \in offered /\ decided'[t] = decided[t]
        BY <1>T, <2>2, <3>2
      <4> QED BY <1>1, <1>T, <3>2, <4>1 DEF OfferedAgain
    <3> QED BY <3>1, <3>2 DEF OfferedAgain
  <2>7. SweepsAreCareful'
    <3>1. \A t \in Suggestions : decided[t] > 0 => decided'[t] > 0
      BY <1>T, <2>2
    <3> QED BY <1>1, <1>T, <2>2, <3>1, FewerPending DEF ImprovementIInv
  <2>8. offered' \subseteq Suggestions
    BY <1>T, <2>2
  <2> QED BY <1>1, <2>1, <2>2, <2>5, <2>6, <2>7, <2>8 DEF ImprovementIInv, ImprovementTypes
<1> QED BY <1>5, <1>6

LEMMA ImprovementGoesOn == ImprovementIInv /\ [ImprovementNext]_improvementVars => ImprovementIInv'
<1> SUFFICES ASSUME ImprovementIInv, [ImprovementNext]_improvementVars PROVE ImprovementIInv'
  OBVIOUS
<1>1. CASE UNCHANGED improvementVars
  BY <1>1, RequestsStay, SweepsStay, OffersStay DEF improvementVars, ImprovementIInv, ImprovementTypes
<1>2. ASSUME NEW r \in Judged, NEW how \in Verdicts, Ends(r, how) PROVE ImprovementIInv'
  <2>1. /\ UNCHANGED <<suggested, offered, decided, changes, sweep, request, decisions>>
        /\ verdict' = [verdict EXCEPT ![r] = how]
    BY <1>2 DEF Ends
  <2>2. verdict' \in [Judged -> Verdicts]
    BY <2>1 DEF ImprovementIInv, ImprovementTypes
  <2>3. flips' \in 0 .. MaxFlips
    BY <1>2, ImprovementAssumption DEF Ends, ImprovementIInv, ImprovementTypes
  <2> QED BY <2>1, <2>2, <2>3, RequestsStay, SweepsStay, OffersStay DEF ImprovementIInv, ImprovementTypes
<1>3. ASSUME NEW p \in Sweepers, BeginSweep(p) PROVE ImprovementIInv'
  BY <1>3, SweepBegins
<1>4. ASSUME NEW p \in Sweepers, NEW s \in Suggestions, SuggestOne(p, s) PROVE ImprovementIInv'
  BY <1>4, Suggesting
<1>7. ASSUME NEW p \in Sweepers, EndSweep(p) PROVE ImprovementIInv'
  BY <1>7, SweepEnds
<1>5. ASSUME NEW q \in Requests, NEW s \in Suggestions, NEW how \in {"approving", "dismissing"}, BeginDecision(q, s, how)
      PROVE  ImprovementIInv'
  BY <1>5, DecisionBegins
<1>6. ASSUME NEW q \in Requests, ChangeMemory(q) \/ Refused(q) \/ RecordDecision(q) PROVE ImprovementIInv'
  BY <1>6, DecisionGoesOn
<1> QED BY <1>1, <1>2, <1>3, <1>4, <1>5, <1>6, <1>7 DEF ImprovementNext

\* For any runs, any number of sweeps and of requests under way together and any
\* labels the owner gives in between: a suggestion is made at most once for each
\* sweep that overlaps, the undecided ones are within the limit for each, what was
\* decided is offered again only after an overlap, and every change of the memory
\* is accounted for (improvement-service.ts).
THEOREM ImprovementHolds == ImprovementSpec => []ImprovementInv
<1>1. ImprovementIInv => ImprovementInv
  <2> SUFFICES ASSUME ImprovementIInv PROVE ImprovementInv
    OBVIOUS
  <2>T. ImprovementTypes /\ SweepsAreCareful /\ OfferedAgain /\ RequestsAccount
    BY DEF ImprovementIInv
  <2>1. \A p \in Sweepers : sweep[p].todo \subseteq Suggestions /\ sweep[p].pending \in Nat
    BY <2>T DEF ImprovementTypes, SweepType
  <2>2. \A q \in Requests : request[q].step \in {"idle", "approving", "applied", "dismissing"}
    BY <2>T DEF ImprovementTypes, Deciding, NoRequest
  <2>3. ImprovementTypeOK
    BY <2>T, <2>1, <2>2 DEF ImprovementTypeOK, ImprovementTypes
  <2>4. ChangesAreAccounted
    BY <2>T DEF ChangesAreAccounted, RequestsAccount, AppliersOf
  <2>5. SuggestedOnce
    <3>1. ASSUME NEW s \in Suggestions PROVE suggested[s] <= Cardinality(Sweepers)
      <4>1. Cardinality(Holders(s)) \in Nat /\ Cardinality(Sweepers) \in Nat
        BY SomeSweepers DEF Holders
      <4>2. suggested[s] + Cardinality(Holders(s)) <= Cardinality(Sweepers) /\ suggested[s] \in Nat
        BY <2>T DEF SweepsAreCareful, ImprovementTypes
      <4> QED BY <4>1, <4>2
    <3> QED BY <3>1 DEF SuggestedOnce
  <2>6. PendingIsBounded
    <3>1. Cardinality(Room) \in Nat /\ Cardinality(Places) \in Nat
      BY SomePlaces, FS_CardinalityType DEF Room
    <3>2. Cardinality(Pending) \in Nat /\ Cardinality(Pending) + Cardinality(Room) <= Cardinality(Places)
      BY <2>T, FS_CardinalityType DEF SweepsAreCareful
    <3>3. IsFiniteSet(1 .. MaxPending) /\ Cardinality(1 .. MaxPending) = MaxPending
      BY ImprovementAssumption, FS_Interval
    <3>4. Cardinality(Places) = Cardinality(Sweepers) * MaxPending
      BY <3>3, ImprovementAssumption, FS_Product DEF Places
    <3> QED BY <3>1, <3>2, <3>4 DEF PendingIsBounded
  <2>7. DecidedStaysDecided
    BY <2>T DEF DecidedStaysDecided, OfferedAgain, ImprovementTypes
  <2> QED BY <2>3, <2>4, <2>5, <2>6, <2>7 DEF ImprovementInv
<1> QED BY <1>1, ImprovementBegins, ImprovementGoesOn, PTL DEF ImprovementSpec

\* A change of the memory or of the settings that takes several writes is
\* accounted for at every one of them, whatever sweeps and requests overlap; what is
\* suggested grows with no more than the sweeps that do.
THEOREM ChangesHold == ImprovementSpec /\ ReviewSpec => []ChangesInv
  BY ImprovementHolds, ReviewHolds, PTL DEF ChangesInv

-----------------------------------------------------------------------------
(* MemoryContext.                                                            *)

\* What holds at first and at each step of a count holds to its end.
LEMMA Counting ==
  ASSUME NEW n \in Nat, NEW P, 0 \in P, \A i \in 1..n : i - 1 \in P => i \in P
  PROVE  \A i \in 0..n : i \in P
<1> DEFINE Bad == {i \in 0..n : i \notin P}
<1> SUFFICES ASSUME Bad # {} PROVE FALSE
  OBVIOUS
<1>1. Bad \subseteq Nat
  OBVIOUS
<1>2. PICK m \in Bad : \A y \in Bad : m <= y
  BY <1>1, LeastNumber
<1>3. m # 0
  OBVIOUS
<1>4. m \in 1..n /\ m - 1 \in 0..n /\ ~(m <= m - 1)
  BY <1>3
<1> QED
  BY <1>2, <1>4

\* A loop whose steps stay in a set has a function of what it comes to.
Iterates(f, n, start, step) == f = [i \in 0..n |-> IF i = 0 THEN start ELSE step[<<i, f[i - 1]>>]]

LEMMA LoopIs ==
  ASSUME NEW n \in Nat, NEW S, NEW start \in S, NEW step,
         \A i \in 1..n, x \in S : step[<<i, x>>] \in S
  PROVE  \E f : Iterates(f, n, start, step) /\ \A i \in 0..n : f[i] \in S
<1> DEFINE Is(f, m) == f = [i \in 0..m |-> IF i = 0 THEN start ELSE step[<<i, f[i - 1]>>]]
           Comes(m) == \E f : Is(f, m) /\ \A i \in 0..m : f[i] \in S
           P == {m \in 0..n : Comes(m)}
<1>1. 0 \in P
  <2> DEFINE g == [i \in 0..0 |-> start]
  <2>1. \A i \in 0..0 : i = 0
    OBVIOUS
  <2>2. g = [i \in 0..0 |-> IF i = 0 THEN start ELSE step[<<i, g[i - 1]>>]] /\ \A i \in 0..0 : g[i] \in S
    BY <2>1
  <2> HIDE DEF g
  <2> QED
    BY <2>2
<1>2. ASSUME NEW m \in 1..n, m - 1 \in P PROVE m \in P
  <2>1. m - 1 \in 0..n /\ m \in 0..n /\ m # 0
    OBVIOUS
  <2>2. PICK f : Is(f, m - 1) /\ \A i \in 0..(m - 1) : f[i] \in S
    BY <1>2
  <2> DEFINE next == step[<<m, f[m - 1]>>]
             g == [i \in 0..m |-> IF i = m THEN next ELSE f[i]]
  <2>3. next \in S
    <3>1. f[m - 1] \in S
      BY <2>1, <2>2
    <3> QED
      BY <3>1
  <2> HIDE DEF next
  <2>4. ASSUME NEW i \in 0..m
        PROVE  g[i] \in S /\ g[i] = IF i = 0 THEN start ELSE step[<<i, g[i - 1]>>]
    <3>1. CASE i = m
      <4>1. g[i] = next /\ g[i - 1] = f[m - 1]
        BY <3>1, <2>1
      <4> QED
        BY <4>1, <3>1, <2>1, <2>3 DEF next
    <3>2. CASE i # m
      <4>1. i \in 0..(m - 1) /\ (i # 0 => i - 1 \in 0..(m - 1) /\ i - 1 # m /\ i - 1 \in 0..m)
        BY <3>2, <2>1
      <4>2. g[i] = f[i] /\ (i # 0 => g[i - 1] = f[i - 1])
        BY <3>2, <4>1
      <4>3. f[i] = IF i = 0 THEN start ELSE step[<<i, f[i - 1]>>]
        BY <2>2, <4>1
      <4> QED
        BY <2>2, <4>1, <4>2, <4>3
    <3> QED
      BY <3>1, <3>2
  <2>5. g = [i \in 0..m |-> g[i]]
    OBVIOUS
  <2> HIDE DEF g
  <2>6. Is(g, m)
    BY <2>4, <2>5
  <2>7. Comes(m)
    BY <2>4, <2>6
  <2> QED
    BY <2>1, <2>7
<1> HIDE DEF P
<1>3. n \in P
  <2>1. n \in 0..n
    OBVIOUS
  <2> QED
    BY <1>1, <1>2, <2>1, Counting
<1> QED
  BY <1>3 DEF P, Iterates

\* A finite set that is not empty has an element ahead of all others, when of two
\* one is ahead and what is ahead of something is ahead of what that is ahead of.
LEMMA FirstIs ==
  ASSUME NEW S, IsFiniteSet(S), S # {}, NEW R,
         \A x, y \in S : x = y \/ <<x, y>> \in R \/ <<y, x>> \in R,
         \A x, y, z \in S : <<x, y>> \in R /\ <<y, z>> \in R => <<x, z>> \in R
  PROVE  \E x \in S : \A y \in S \ {x} : <<x, y>> \in R
<1> DEFINE First(T) == \E x \in T : \A y \in T \ {x} : <<x, y>> \in R
           Bad == {c \in Nat : \E T \in SUBSET S : T # {} /\ Cardinality(T) = c /\ ~First(T)}
<1> HIDE DEF First
<1>1. ASSUME NEW T \in SUBSET S PROVE IsFiniteSet(T) /\ Cardinality(T) \in Nat
  BY <1>1, FS_Subset, FS_CardinalityType
<1>2. Bad = {}
  <2> SUFFICES ASSUME Bad # {} PROVE FALSE
    OBVIOUS
  <2>1. PICK c \in Bad : \A d \in Bad : c <= d
    <3>1. Bad \subseteq Nat
      OBVIOUS
    <3> HIDE DEF Bad
    <3> QED
      BY <3>1, LeastNumber
  <2>2. PICK T \in SUBSET S : T # {} /\ Cardinality(T) = c /\ ~First(T)
    OBVIOUS
  <2>3. PICK x \in T : TRUE
    BY <2>2
  <2> DEFINE U == T \ {x}
  <2>4. U \in SUBSET S /\ Cardinality(U) = c - 1 /\ c - 1 \in Nat
    <3>1. IsFiniteSet(T) /\ IsFiniteSet(U)
      BY <1>1
    <3>2. Cardinality(U) = Cardinality(T) - 1
      BY <2>2, <3>1, FS_RemoveElement
    <3> QED
      BY <1>1, <2>2, <3>2
  <2>5. CASE U = {}
    <3>1. First(T)
      BY <2>5 DEF First
    <3> QED
      BY <2>2, <3>1
  <2>6. CASE U # {}
    <3>1. First(U)
      <4>1. ~(c <= c - 1)
        BY <2>4
      <4>2. c - 1 \notin Bad
        BY <2>1, <4>1
      <4> QED
        BY <2>4, <2>6, <4>2
    <3>2. PICK b \in U : \A y \in U \ {b} : <<b, y>> \in R
      BY <3>1 DEF First
    <3>3. x \in S /\ b \in S /\ x # b /\ T \subseteq S
      BY <2>2
    <3>4. CASE <<b, x>> \in R
      <4>1. First(T)
        BY <3>2, <3>3, <3>4 DEF First
      <4> QED
        BY <2>2, <4>1
    <3>5. CASE <<x, b>> \in R
      <4>1. \A y \in T \ {x} : <<x, y>> \in R
        BY <3>2, <3>3, <3>5
      <4>2. First(T)
        BY <4>1 DEF First
      <4> QED
        BY <2>2, <4>2
    <3> QED
      BY <3>3, <3>4, <3>5
  <2> QED
    BY <2>5, <2>6
<1>3. First(S)
  BY <1>1, <1>2
<1> QED
  BY <1>3 DEF First

LEMMA ItemsAre == ASSUME NEW T, NEW s \in Seq(T) PROVE ToSet(s) \subseteq T /\ IsFiniteSet(ToSet(s))
<1> DEFINE f == [i \in 1..Len(s) |-> s[i]]
<1>1. IsFiniteSet(1..Len(s)) /\ DOMAIN s = 1..Len(s)
  BY FS_Interval
<1>2. f \in Surjection(1..Len(s), ToSet(s))
  BY <1>1 DEF Surjection, ToSet
<1> QED
  BY <1>1, <1>2, FS_Surjection DEF ToSet

LEMMA ScoresAre ==
  ASSUME ContextTypeOK, NEW q \in DOMAIN Questions, NEW m \in Memories
  PROVE  /\ Score(q, m) \in Nat /\ m \in Nat
         /\ Questions[q][m] \in Nat
         /\ Score(q, m) >= Questions[q][m] /\ Score(q, m) <= Questions[q][m] + UsageCap
<1>1. Boost(uses[m]) \in 0..UsageCap
  BY ContextAssumption DEF ContextTypeOK, Boost
<1>2. Questions[q][m] \in Nat
  BY ContextAssumption
<1> QED
  BY <1>1, <1>2, ContextAssumption DEF Score

LEMMA MatchesAre ==
  ASSUME ContextTypeOK, NEW q \in DOMAIN Questions
  PROVE  Matching(q) \subseteq Memories /\ IsFiniteSet(Matching(q))
<1>1. ToSet(told) \subseteq Memories /\ IsFiniteSet(ToSet(told))
  BY ItemsAre DEF ContextTypeOK
<1>2. Matching(q) \subseteq ToSet(told)
  BY DEF ContextTypeOK, Matching
<1> QED
  BY <1>1, <1>2, FS_Subset

LEMMA AheadOrders ==
  ASSUME ContextTypeOK, NEW q \in DOMAIN Questions,
         NEW m \in Memories, NEW n \in Memories, NEW o \in Memories
  PROVE  /\ m = n \/ Ahead(q, m, n) \/ Ahead(q, n, m)
         /\ Ahead(q, m, n) /\ Ahead(q, n, o) => Ahead(q, m, o)
<1>1. /\ Score(q, m) \in Nat /\ Score(q, n) \in Nat /\ Score(q, o) \in Nat
      /\ m \in Nat /\ n \in Nat /\ o \in Nat
  BY ScoresAre
<1>2. Preferred(m) \in BOOLEAN /\ Preferred(n) \in BOOLEAN /\ Preferred(o) \in BOOLEAN
  BY DEF Preferred
<1> QED
  BY <1>1, <1>2 DEF Ahead

LEMMA BestIs ==
  ASSUME ContextTypeOK, NEW q \in DOMAIN Questions, NEW T \in SUBSET Matching(q), T # {}
  PROVE  Best(q, T) \in T /\ \A n \in T \ {Best(q, T)} : Ahead(q, Best(q, T), n)
<1> DEFINE R == {p \in T \X T : Ahead(q, p[1], p[2])}
<1>1. T \subseteq Memories /\ IsFiniteSet(T)
  BY MatchesAre, FS_Subset
<1>2. \A x, y \in T : <<x, y>> \in R <=> Ahead(q, x, y)
  OBVIOUS
<1> HIDE DEF R
<1>3. \A x, y \in T : x = y \/ <<x, y>> \in R \/ <<y, x>> \in R
  BY <1>1, <1>2, AheadOrders
<1>4. \A x, y, z \in T : <<x, y>> \in R /\ <<y, z>> \in R => <<x, z>> \in R
  BY <1>1, <1>2, AheadOrders
<1>5. \E x \in T : \A y \in T \ {x} : <<x, y>> \in R
  BY <1>1, <1>3, <1>4, FirstIs
<1>6. \E x \in T : \A y \in T \ {x} : Ahead(q, x, y)
  BY <1>2, <1>5
<1> QED
  BY <1>6 DEF Best

LEMMA RankedIs ==
  ASSUME ContextTypeOK, NEW q \in DOMAIN Questions, NEW limit \in Nat
  PROVE  /\ Ranked(q, limit) \in Seq(Matching(q))
         /\ \A m \in ToSet(Ranked(q, limit)), n \in Matching(q) \ ToSet(Ranked(q, limit)) : Ahead(q, m, n)
<1> DEFINE M == Matching(q)
           many == Cardinality(M)
           last == IF many < limit THEN many ELSE limit
           next(T) == T \ {Best(q, T)}
           Is(f) == f = [i \in 0..last |-> IF i = 0 THEN M ELSE next(f[i - 1])]
           left == CHOOSE f : Is(f)
           best(i) == Best(q, left[i - 1])
<1>1. IsFiniteSet(M) /\ many \in Nat
  BY MatchesAre, FS_CardinalityType
<1>2. Ranked(q, limit) = [i \in 1..last |-> best(i)]
  BY DEF Ranked
<1> HIDE DEF many
<1>3. last \in Nat /\ last <= many
  BY <1>1
<1> HIDE DEF last, M, next
<1>4. Is(left)
  <2> DEFINE step == [p \in (1..last) \X SUBSET M |-> next(p[2])]
  <2>1. \A i \in 1..last, T \in SUBSET M : step[<<i, T>>] = next(T)
    OBVIOUS
  <2>2. \A T \in SUBSET M : next(T) \in SUBSET M
    BY DEF next
  <2> HIDE DEF step
  <2>3. PICK f : /\ f = [i \in 0..last |-> IF i = 0 THEN M ELSE step[<<i, f[i - 1]>>]]
                 /\ \A i \in 0..last : f[i] \in SUBSET M
    <3> DEFINE S == SUBSET M
    <3>1. M \in S
      OBVIOUS
    <3>2. \A i \in 1..last, T \in S : step[<<i, T>>] \in S
      BY <2>1, <2>2
    <3> HIDE DEF S
    <3>3. \E f : Iterates(f, last, M, step) /\ \A i \in 0..last : f[i] \in S
      BY <1>3, <3>1, <3>2, LoopIs
    <3> QED
      BY <3>3 DEF S, Iterates
  <2>4. \A i \in 0..last : f[i] = IF i = 0 THEN M ELSE next(f[i - 1])
    <3> TAKE i \in 0..last
    <3>1. i # 0 => i \in 1..last /\ i - 1 \in 0..last
      BY <1>3
    <3>2. f[i] = IF i = 0 THEN M ELSE step[<<i, f[i - 1]>>]
      BY <2>3
    <3> QED
      BY <2>1, <2>3, <3>1, <3>2
  <2>5. Is(f)
    BY <2>3, <2>4
  <2> QED
    BY <2>5
<1> HIDE DEF left
<1>5. ASSUME NEW i \in 1..last, left[i - 1] \in SUBSET M, Cardinality(left[i - 1]) = many - (i - 1)
      PROVE  /\ best(i) \in left[i - 1] /\ left[i] = left[i - 1] \ {best(i)}
             /\ \A n \in left[i - 1] \ {best(i)} : Ahead(q, best(i), n)
  <2>1. left[i - 1] # {}
    <3>1. many - (i - 1) # 0
      BY <1>1, <1>3
    <3> QED
      BY <1>5, <3>1, FS_EmptySet
  <2>2. left[i] = next(left[i - 1])
    <3>1. i \in 0..last /\ i # 0
      OBVIOUS
    <3> QED
      BY <1>4, <3>1
  <2> QED
    BY <1>5, <2>1, <2>2, BestIs DEF M, next
<1> DEFINE Right(i) == /\ left[i] \in SUBSET M /\ Cardinality(left[i]) = many - i
                       /\ \A n \in M : n \in left[i] \/ \E k \in 1..i : best(k) = n
           P == {i \in 0..last : Right(i)}
<1>6. 0 \in P
  <2>1. left[0] = M
    <3>1. 0 \in 0..last
      BY <1>3
    <3> QED
      BY <1>4, <3>1
  <2> QED
    BY <1>1, <1>3, <2>1 DEF many
<1>7. ASSUME NEW i \in 1..last, i - 1 \in P PROVE i \in P
  <2>1. Right(i - 1)
    BY <1>7
  <2>2. best(i) \in left[i - 1] /\ left[i] = left[i - 1] \ {best(i)}
    BY <1>5, <2>1
  <2> HIDE DEF best
  <2>3. Cardinality(left[i]) = many - i
    <3>1. IsFiniteSet(left[i - 1])
      BY <1>1, <2>1, FS_Subset
    <3>2. Cardinality(left[i]) = Cardinality(left[i - 1]) - 1
      BY <2>2, <3>1, FS_RemoveElement
    <3> QED
      BY <1>1, <2>1, <3>2
  <2>4. ASSUME NEW n \in M, n \notin left[i] PROVE \E k \in 1..i : best(k) = n
    <3>1. n \in left[i - 1] => n = best(i)
      BY <2>2, <2>4
    <3>2. i \in 1..i /\ 1..(i - 1) \subseteq 1..i
      OBVIOUS
    <3> QED
      BY <2>1, <3>1, <3>2
  <2>5. i \in 0..last
    OBVIOUS
  <2> QED
    BY <2>1, <2>2, <2>3, <2>4, <2>5
<1> HIDE DEF P
<1>8. \A i \in 0..last : Right(i)
  <2>1. \A i \in 0..last : i \in P
    BY <1>3, <1>6, <1>7, Counting
  <2> QED
    BY <2>1 DEF P
<1> HIDE DEF Right
<1>9. ASSUME NEW i \in 1..last
      PROVE  /\ best(i) \in M
             /\ \A n \in left[i - 1] \ {best(i)} : Ahead(q, best(i), n)
             /\ \A n \in M : n \in left[i - 1] \/ \E k \in 1..last : best(k) = n
  <2>1. Right(i - 1) /\ 1..(i - 1) \subseteq 1..last
    <3>1. i - 1 \in 0..last /\ 1..(i - 1) \subseteq 1..last
      BY <1>3
    <3> QED
      BY <1>8, <3>1
  <2> QED
    BY <1>5, <2>1 DEF Right
<1> DEFINE r == Ranked(q, limit)
<1> HIDE DEF best
<1>10. r = [i \in 1..last |-> best(i)]
  BY <1>2
<1>11. r \in Seq(M)
  BY <1>3, <1>9, <1>10
<1>12. DOMAIN r = 1..last /\ ToSet(r) = {best(i) : i \in 1..last}
  BY <1>10 DEF ToSet
<1> HIDE DEF r
<1>13. ASSUME NEW m \in ToSet(r), NEW n \in M \ ToSet(r) PROVE Ahead(q, m, n)
  <2>1. PICK i \in 1..last : m = best(i)
    BY <1>12
  <2>2. n # best(i) /\ ~ \E k \in 1..last : best(k) = n
    BY <1>12, <2>1
  <2>3. n \in left[i - 1]
    BY <1>9, <2>2
  <2> QED
    BY <1>9, <2>1, <2>2, <2>3
<1> QED
  BY <1>11, <1>13 DEF r, M

\* A filter keeps what is at its places, and nothing else.
LEMMA PickedFrom ==
  ASSUME NEW T, NEW s \in Seq(T), NEW places
  PROVE  /\ Picked(s, places) \in Seq(T)
         /\ ToSet(Picked(s, places)) = {s[i] : i \in places \cap DOMAIN s}
<1> DEFINE U == {s[i] : i \in places \cap DOMAIN s}
           p == Picked(s, places)
<1>1. DOMAIN s = 1..Len(s)
  OBVIOUS
<1>2. \A i \in places \cap (1..Len(s)) : s[i] \in U
  BY <1>1
<1> HIDE DEF U
<1>3. Keeps(p, s, places, U)
  BY <1>2, PickedOf
<1>4. Keeps(p, s, places, T)
  BY PickedIs
<1> HIDE DEF p
<1>5. p \in Seq(U) /\ p \in Seq(T) /\ DOMAIN p = 1..Len(p)
  BY <1>3, <1>4 DEF Keeps
<1>6. ToSet(p) \subseteq U
  BY <1>5, ItemsAre
<1>7. U \subseteq ToSet(p)
  <2> SUFFICES ASSUME NEW i \in places \cap DOMAIN s PROVE s[i] \in ToSet(p)
    BY DEF U
  <2>1. \E k \in 1..Len(p) : p[k] = s[i]
    BY <1>1, <1>3 DEF Keeps
  <2> QED
    BY <1>5, <2>1 DEF ToSet
<1> QED
  BY <1>5, <1>6, <1>7 DEF p, U

\* A step of the loop that drops restatements.
LEMMA KeptIs ==
  ASSUME NEW T, NEW kept \in Seq(T), NEW c \in T
  PROVE  /\ Kept(kept, c) \in Seq(T)
         /\ \A x \in T : (\A y \in T : {y.id, x.id} \notin Restates) /\ (x = c \/ x \in ToSet(kept))
                            => x \in ToSet(Kept(kept, c))
<1> DEFINE same == {k \in DOMAIN kept : {kept[k].id, c.id} \in Restates}
           least == Min(same)
           after == Append(kept, c)
           put == [kept EXCEPT ![least] = c]
<1>1. DOMAIN kept = 1..Len(kept) /\ Len(kept) \in Nat /\ \A k \in DOMAIN kept : kept[k] \in T
  OBVIOUS
<1>2. Kept(kept, c) = IF same = {} THEN after ELSE IF c.score > kept[least].score THEN put ELSE kept
  BY DEF Kept
<1>3. same # {} => least \in same
  <2>1. same \subseteq Nat
    BY <1>1
  <2> HIDE DEF same
  <2> QED
    BY <2>1, LeastIs
<1> HIDE DEF least
<1>4. same # {} => put \in Seq(T) /\ DOMAIN put = DOMAIN kept /\ put[least] = c /\ \A k \in DOMAIN kept : k # least => put[k] = kept[k]
  <2> SUFFICES ASSUME same # {} PROVE put \in Seq(T) /\ DOMAIN put = DOMAIN kept /\ put[least] = c /\ \A k \in DOMAIN kept : k # least => put[k] = kept[k]
    OBVIOUS
  <2>1. least \in 1..Len(kept)
    BY <1>1, <1>3
  <2> HIDE DEF same
  <2> QED
    BY <2>1
<1>5. /\ after \in Seq(T) /\ DOMAIN after = 1..(Len(kept) + 1)
      /\ after[Len(kept) + 1] = c /\ \A k \in 1..Len(kept) : after[k] = kept[k]
  BY Extends
<1> HIDE DEF put, after
<1>6. ASSUME NEW x \in T, \A y \in T : {y.id, x.id} \notin Restates, x = c \/ x \in ToSet(kept)
      PROVE  x \in ToSet(Kept(kept, c))
  <2>1. CASE same = {}
    <3>1. x \in ToSet(after)
      <4>1. CASE x = c
        BY <1>1, <1>5, <4>1 DEF ToSet
      <4>2. CASE x \in ToSet(kept)
        <5>1. PICK k \in 1..Len(kept) : x = kept[k]
          BY <1>1, <4>2 DEF ToSet
        <5>2. k \in DOMAIN after /\ after[k] = x
          BY <1>1, <1>5, <5>1
        <5> QED
          BY <5>2 DEF ToSet
      <4> QED
        BY <1>6, <4>1, <4>2
    <3> QED
      BY <1>2, <2>1, <3>1
  <2>2. CASE same # {}
    <3>1. least \in DOMAIN kept /\ {kept[least].id, c.id} \in Restates /\ kept[least] \in T
      BY <1>1, <1>3, <2>2
    <3>2. x # c
      BY <1>6, <3>1
    <3>3. {kept[least].id, c.id} = {c.id, kept[least].id}
      OBVIOUS
    <3>4. x # kept[least]
      BY <1>6, <3>1, <3>3
    <3>5. PICK k \in DOMAIN kept : x = kept[k]
      BY <1>6, <3>2 DEF ToSet
    <3>6. x \in ToSet(put)
      BY <1>4, <2>2, <3>4, <3>5 DEF ToSet
    <3>7. x \in ToSet(kept)
      BY <3>5 DEF ToSet
    <3> QED
      BY <1>2, <2>2, <3>6, <3>7
  <2> QED
    BY <2>1, <2>2
<1>7. Kept(kept, c) \in Seq(T)
  BY <1>2, <1>4, <1>5
<1> QED
  BY <1>6, <1>7

LEMMA DedupeIs ==
  ASSUME NEW T, NEW s \in Seq(T)
  PROVE  /\ DedupeContext(s) \in Seq(T)
         /\ \A x \in ToSet(s) : (\A y \in T : {y.id, x.id} \notin Restates) => x \in ToSet(DedupeContext(s))
<1> DEFINE n == Len(s)
           Is(f) == f = [i \in 0..n |-> IF i = 0 THEN <<>> ELSE Kept(f[i - 1], s[i])]
           kept == CHOOSE f : Is(f)
<1>1. DedupeContext(s) = kept[n]
  BY DEF DedupeContext, Looped
<1>2. n \in Nat /\ DOMAIN s = 1..n /\ \A i \in 1..n : s[i] \in T
  OBVIOUS
<1> HIDE DEF n
<1>3. Is(kept) /\ \A i \in 0..n : kept[i] \in Seq(T)
  <2> DEFINE S == Seq(T)
             step == [p \in (1..n) \X S |-> Kept(p[2], s[p[1]])]
  <2>1. \A i \in 1..n, q \in S : step[<<i, q>>] = Kept(q, s[i])
    OBVIOUS
  <2>2. \A i \in 1..n, q \in S : step[<<i, q>>] \in S
    BY <1>2, <2>1, KeptIs
  <2> HIDE DEF step
  <2>3. <<>> \in S
    OBVIOUS
  <2> HIDE DEF S
  <2>4. PICK f : Iterates(f, n, <<>>, step) /\ \A i \in 0..n : f[i] \in S
    BY <1>2, <2>2, <2>3, LoopIs
  <2>5. \A i \in 0..n : f[i] = IF i = 0 THEN <<>> ELSE Kept(f[i - 1], s[i])
    <3> TAKE i \in 0..n
    <3>1. i # 0 => i \in 1..n /\ i - 1 \in 0..n
      BY <1>2
    <3>2. f[i] = IF i = 0 THEN <<>> ELSE step[<<i, f[i - 1]>>]
      BY <2>4 DEF Iterates
    <3> QED
      BY <2>1, <2>4, <3>1, <3>2
  <2>6. Is(f)
    BY <2>4, <2>5 DEF Iterates
  <2>7. Is(kept)
    BY <2>6
  <2> HIDE DEF kept
  <2> DEFINE P == {i \in 0..n : kept[i] \in S}
  <2>8. 0 \in P
    BY <1>2, <2>3, <2>7
  <2>9. ASSUME NEW i \in 1..n, i - 1 \in P PROVE i \in P
    <3>1. kept[i - 1] \in S /\ i \in 0..n /\ i # 0
      BY <2>9
    <3>2. kept[i] = Kept(kept[i - 1], s[i])
      BY <2>7, <3>1
    <3> QED
      BY <1>2, <3>1, <3>2, KeptIs DEF S
  <2> HIDE DEF P
  <2>10. \A i \in 0..n : i \in P
    BY <1>2, <2>8, <2>9, Counting
  <2> QED
    BY <2>7, <2>10 DEF P, S
<1> HIDE DEF kept
<1>4. ASSUME NEW x \in ToSet(s), \A y \in T : {y.id, x.id} \notin Restates
      PROVE  x \in ToSet(kept[n])
  <2>1. PICK j \in 1..n : x = s[j]
    BY <1>2 DEF ToSet
  <2> DEFINE P == {i \in 0..n : j <= i => x \in ToSet(kept[i])}
  <2>2. 0 \in P
    BY <1>2
  <2>3. ASSUME NEW i \in 1..n, i - 1 \in P PROVE i \in P
    <3>1. i \in 0..n /\ i # 0 /\ i - 1 \in 0..n /\ (j <= i => j = i \/ j <= i - 1)
      BY <1>2
    <3>2. kept[i] = Kept(kept[i - 1], s[i])
      BY <1>3, <3>1
    <3>3. s[i] \in T /\ x \in T /\ kept[i - 1] \in Seq(T)
      BY <1>2, <1>3, <2>1, <3>1
    <3>4. j <= i => x = s[i] \/ x \in ToSet(kept[i - 1])
      BY <2>1, <2>3, <3>1
    <3>5. j <= i => x \in ToSet(kept[i])
      BY <1>4, <3>2, <3>3, <3>4, KeptIs
    <3> QED
      BY <3>1, <3>5
  <2> HIDE DEF P
  <2>4. n \in P
    <3>1. n \in 0..n
      BY <1>2
    <3> QED
      BY <1>2, <2>2, <2>3, <3>1, Counting
  <2>5. j <= n
    BY <1>2
  <2> QED
    BY <2>4, <2>5 DEF P
<1>5. n \in 0..n
  BY <1>2
<1> QED
  BY <1>1, <1>3, <1>4, <1>5

\* The length of a context, line by line.
Lengths(f, s) == f = [i \in 0..Len(s) |-> IF i = 0 THEN 0 ELSE f[i - 1] + Library[s[i].id].size + 1]

LEMMA LengthIs ==
  ASSUME NEW T, \A c \in T : Library[c.id].size \in Nat, NEW s \in Seq(T)
  PROVE  \E f : Lengths(f, s) /\ Length(s) = f[Len(s)] /\ \A i \in 0..Len(s) : f[i] \in Nat
<1> DEFINE n == Len(s)
           step == [p \in (1..n) \X Nat |-> p[2] + Library[s[p[1]].id].size + 1]
           length == CHOOSE f : Lengths(f, s)
<1>1. n \in Nat /\ \A i \in 1..n : Library[s[i].id].size \in Nat
  OBVIOUS
<1>2. \A i \in 1..n, x \in Nat : step[<<i, x>>] = x + Library[s[i].id].size + 1
  OBVIOUS
<1> HIDE DEF step
<1>3. \A i \in 1..n, x \in Nat : step[<<i, x>>] \in Nat
  <2> SUFFICES ASSUME NEW i \in 1..n, NEW x \in Nat PROVE step[<<i, x>>] \in Nat
    OBVIOUS
  <2>1. Library[s[i].id].size \in Nat
    BY <1>1
  <2> QED
    BY <1>2, <2>1
<1>4. Length(s) = length[n]
  BY DEF Length, Looped, Lengths
<1> HIDE DEF n
<1>5. PICK f : Iterates(f, n, 0, step) /\ \A i \in 0..n : f[i] \in Nat
  BY <1>1, <1>3, LoopIs
<1>6. \A i \in 0..n : f[i] = IF i = 0 THEN 0 ELSE f[i - 1] + Library[s[i].id].size + 1
  <2> TAKE i \in 0..n
  <2>1. i # 0 => i \in 1..n /\ i - 1 \in 0..n
    BY <1>1
  <2>2. f[i] = IF i = 0 THEN 0 ELSE step[<<i, f[i - 1]>>]
    BY <1>5 DEF Iterates
  <2> QED
    BY <1>2, <1>5, <2>1, <2>2
<1>7. Lengths(f, s)
  BY <1>5, <1>6 DEF Iterates, Lengths, n
<1>8. Lengths(length, s)
  BY <1>7
<1> HIDE DEF length
<1> DEFINE P == {i \in 0..n : length[i] \in Nat}
<1>9. 0 \in P
  BY <1>1, <1>8 DEF Lengths, n
<1>10. ASSUME NEW i \in 1..n, i - 1 \in P PROVE i \in P
  <2>1. length[i - 1] \in Nat /\ i \in 0..n /\ i # 0
    BY <1>10
  <2>2. length[i] = length[i - 1] + Library[s[i].id].size + 1
    BY <1>8, <2>1 DEF Lengths, n
  <2> QED
    BY <1>1, <2>1, <2>2
<1> HIDE DEF P
<1>11. \A i \in 0..n : i \in P
  BY <1>1, <1>9, <1>10, Counting
<1> QED
  BY <1>4, <1>8, <1>11 DEF P, n

LEMMA LengthGrows ==
  ASSUME NEW T, \A c \in T : Library[c.id].size \in Nat, NEW s \in Seq(T), NEW c \in T
  PROVE  /\ Length(s) \in Nat /\ Length(<<>>) = 0
         /\ Length(Append(s, c)) = Length(s) + Library[c.id].size + 1
<1> DEFINE n == Len(s)
           t == Append(s, c)
<1>1. n \in Nat /\ t \in Seq(T) /\ Len(t) = n + 1 /\ t[n + 1] = c /\ \A i \in 1..n : t[i] = s[i]
  BY Extends
<1> HIDE DEF t
<1>2. PICK f : Lengths(f, s) /\ Length(s) = f[n] /\ \A i \in 0..n : f[i] \in Nat
  BY LengthIs
<1>3. PICK g : Lengths(g, t) /\ Length(t) = g[n + 1]
  <2>1. \E g : Lengths(g, t) /\ Length(t) = g[Len(t)]
    BY <1>1, LengthIs
  <2> QED
    BY <1>1, <2>1
<1> HIDE DEF n
<1> DEFINE P == {i \in 0..n : f[i] = g[i]}
<1>4. 0 \in P
  <2>1. 0 \in 0..Len(s) /\ 0 \in 0..Len(t)
    BY <1>1 DEF n
  <2>2. f[0] = 0 /\ g[0] = 0
    BY <1>2, <1>3, <2>1 DEF Lengths
  <2> QED
    BY <1>1, <2>2
<1>5. ASSUME NEW i \in 1..n, i - 1 \in P PROVE i \in P
  <2>1. i \in 0..n /\ i \in 0..(n + 1) /\ i # 0 /\ f[i - 1] = g[i - 1]
    BY <1>1, <1>5
  <2>2. f[i] = f[i - 1] + Library[s[i].id].size + 1
    BY <1>2, <2>1 DEF Lengths, n
  <2>3. g[i] = g[i - 1] + Library[t[i].id].size + 1
    BY <1>1, <1>3, <2>1 DEF Lengths
  <2> QED
    BY <1>1, <2>1, <2>2, <2>3
<1> HIDE DEF P
<1>6. n \in P
  <2>1. n \in 0..n
    BY <1>1
  <2> QED
    BY <1>1, <1>4, <1>5, <2>1, Counting
<1>7. g[n + 1] = g[n] + Library[c.id].size + 1
  <2>1. n + 1 \in 0..(n + 1) /\ n + 1 # 0 /\ n + 1 - 1 = n
    BY <1>1
  <2>2. g[n + 1] = g[n + 1 - 1] + Library[t[n + 1].id].size + 1
    BY <1>1, <1>3, <2>1 DEF Lengths
  <2> QED
    BY <1>1, <2>1, <2>2
<1>8. Length(<<>>) = 0
  <2>1. <<>> \in Seq(T) /\ Len(<<>>) = 0 /\ 0 \in 0..0
    OBVIOUS
  <2>2. PICK h : Lengths(h, <<>>) /\ Length(<<>>) = h[Len(<<>>)]
    BY <2>1, LengthIs
  <2>3. h[0] = 0
    BY <2>1, <2>2 DEF Lengths
  <2> QED
    BY <2>1, <2>2, <2>3
<1>9. f[n] \in Nat
  <2>1. n \in 0..n
    BY <1>1
  <2> QED
    BY <1>2, <2>1
<1> QED
  BY <1>2, <1>3, <1>6, <1>7, <1>8, <1>9 DEF P, t

\* What the builder has filled so far: lines of T, counted, within the budget.
Accounts(T) == [lines : Seq(T), used : Nat, class : Nat]
Full(acc, T) ==
  /\ acc \in Accounts(T)
  /\ acc.used = Length(acc.lines)
  /\ acc.used <= MaxCharacters + 1
  /\ Len(acc.lines) <= MaxItems
  /\ acc.lines = <<>> => acc.class = 0

LEMMA AdmittedIs ==
  ASSUME NEW T, \A c \in T : Library[c.id].size \in Nat, NEW acc, Full(acc, T), NEW c \in T, NEW share \in Int
  PROVE  /\ Full(Admitted(acc, c, share), T)
         /\ ToSet(acc.lines) \subseteq ToSet(Admitted(acc, c, share).lines)
         /\ acc.lines # <<>> \/ (Library[c.id].size <= share /\ Library[c.id].size <= MaxCharacters)
               => Admitted(acc, c, share).lines # <<>>
<1> DEFINE size == Library[c.id].size
           more == [lines |-> Append(acc.lines, c), used |-> acc.used + size + 1, class |-> acc.class + size + 1]
           stays == Len(acc.lines) >= MaxItems \/ acc.class + size > share \/ acc.used + size > MaxCharacters
<1>1. Admitted(acc, c, share) = IF stays THEN acc ELSE more
  BY DEF Admitted
<1>2. size \in Nat /\ acc.lines \in Seq(T) /\ acc.used \in Nat /\ acc.class \in Nat /\ Len(acc.lines) \in Nat
  BY DEF Full, Accounts
<1>3. /\ Append(acc.lines, c) \in Seq(T) /\ Len(Append(acc.lines, c)) = Len(acc.lines) + 1
      /\ Length(Append(acc.lines, c)) = Length(acc.lines) + size + 1
      /\ \A i \in 1..Len(acc.lines) : Append(acc.lines, c)[i] = acc.lines[i]
  <2>1. ASSUME NEW s \in Seq(T)
        PROVE  /\ Append(s, c) \in Seq(T) /\ Len(Append(s, c)) = Len(s) + 1
               /\ Length(Append(s, c)) = Length(s) + size + 1
               /\ \A i \in 1..Len(s) : Append(s, c)[i] = s[i]
    BY Extends, LengthGrows
  <2> QED
    BY <1>2, <2>1
<1> DEFINE lines == Append(acc.lines, c)
<1> HIDE DEF size, lines
<1>4. lines # <<>>
  BY <1>2, <1>3 DEF lines
<1>5. ToSet(acc.lines) \subseteq ToSet(lines)
  <2>1. DOMAIN acc.lines = 1..Len(acc.lines) /\ DOMAIN lines = 1..(Len(acc.lines) + 1)
    BY <1>2, <1>3 DEF lines
  <2>2. 1..Len(acc.lines) \subseteq 1..(Len(acc.lines) + 1)
    BY <1>2
  <2> QED
    BY <1>3, <2>1, <2>2 DEF ToSet, lines
<1>6. more.lines = lines /\ more.used = acc.used + size + 1 /\ more \in Accounts(T)
  BY <1>2, <1>3 DEF lines, Accounts
<1>7. CASE stays
  <2>1. acc.lines = <<>> /\ size <= share /\ size <= MaxCharacters => FALSE
    <3> SUFFICES ASSUME acc.lines = <<>>, size <= share, size <= MaxCharacters PROVE FALSE
      OBVIOUS
    <3>1. Len(acc.lines) = 0
      OBVIOUS
    <3>2. acc.used = 0
      <4>1. Length(<<>>) = 0
        BY <1>2, LengthGrows
      <4> QED
        BY <4>1 DEF Full
    <3>3. acc.class = 0
      BY DEF Full
    <3> QED
      BY <1>2, <1>7, <3>1, <3>2, <3>3, ContextAssumption
  <2> QED
    BY <1>1, <1>7, <2>1 DEF size
<1>8. CASE ~stays
  <2>1. Full(more, T)
    <3>1. acc.used + size + 1 <= MaxCharacters + 1 /\ Len(lines) <= MaxItems
      BY <1>2, <1>3, <1>8, ContextAssumption DEF lines
    <3> QED
      BY <1>3, <1>4, <1>6, <3>1 DEF Full, lines
  <2> QED
    BY <1>1, <1>4, <1>5, <1>6, <1>8, <2>1
<1> QED
  BY <1>7, <1>8

\* What the loop over the pool of one class comes to.
Pooled(pool, start, share) == Looped(Len(pool), start, LAMBDA acc, i : Admitted(acc, pool[i], share))

LEMMA PooledIs ==
  ASSUME NEW T, \A c \in T : Library[c.id].size \in Nat, NEW pool \in Seq(T),
         NEW start, Full(start, T), NEW share \in Int
  PROVE  /\ Full(Pooled(pool, start, share), T)
         /\ ToSet(start.lines) \subseteq ToSet(Pooled(pool, start, share).lines)
         /\ \A c \in ToSet(pool) : Library[c.id].size <= share /\ Library[c.id].size <= MaxCharacters
                => Pooled(pool, start, share).lines # <<>>
<1> DEFINE n == Len(pool)
           Is(f) == f = [i \in 0..n |-> IF i = 0 THEN start ELSE Admitted(f[i - 1], pool[i], share)]
           acc == CHOOSE f : Is(f)
<1>1. Pooled(pool, start, share) = acc[n]
  BY DEF Pooled, Looped
<1>2. n \in Nat /\ DOMAIN pool = 1..n /\ \A i \in 1..n : pool[i] \in T
  OBVIOUS
<1> HIDE DEF n
<1>3. Is(acc) /\ \A i \in 0..n : Full(acc[i], T)
  <2> DEFINE S == {a \in Accounts(T) : Full(a, T)}
             step == [p \in (1..n) \X S |-> Admitted(p[2], pool[p[1]], share)]
  <2>0. \A a : a \in S <=> Full(a, T)
    BY DEF Full
  <2>1. \A i \in 1..n, a \in S : step[<<i, a>>] = Admitted(a, pool[i], share)
    OBVIOUS
  <2> HIDE DEF step, S
  <2>2. \A i \in 1..n, a \in S : step[<<i, a>>] \in S
    BY <1>2, <2>0, <2>1, AdmittedIs
  <2>3. start \in S
    BY <2>0
  <2>4. PICK f : Iterates(f, n, start, step) /\ \A i \in 0..n : f[i] \in S
    BY <1>2, <2>2, <2>3, LoopIs
  <2>5. \A i \in 0..n : f[i] = IF i = 0 THEN start ELSE Admitted(f[i - 1], pool[i], share)
    <3> TAKE i \in 0..n
    <3>1. i # 0 => i \in 1..n /\ i - 1 \in 0..n
      BY <1>2
    <3>2. f[i] = IF i = 0 THEN start ELSE step[<<i, f[i - 1]>>]
      BY <2>4 DEF Iterates
    <3> QED
      BY <2>1, <2>4, <3>1, <3>2
  <2>6. Is(f)
    BY <2>4, <2>5 DEF Iterates
  <2>7. Is(acc)
    BY <2>6
  <2> HIDE DEF acc
  <2> DEFINE P == {i \in 0..n : Full(acc[i], T)}
  <2>8. 0 \in P
    BY <1>2, <2>7
  <2>9. ASSUME NEW i \in 1..n, i - 1 \in P PROVE i \in P
    <3>1. Full(acc[i - 1], T) /\ i \in 0..n /\ i # 0
      BY <2>9
    <3>2. acc[i] = Admitted(acc[i - 1], pool[i], share)
      BY <2>7, <3>1
    <3> QED
      BY <1>2, <3>1, <3>2, AdmittedIs
  <2> HIDE DEF P
  <2>10. \A i \in 0..n : i \in P
    BY <1>2, <2>8, <2>9, Counting
  <2> QED
    BY <2>7, <2>10 DEF P
<1> HIDE DEF acc
<1>4. acc[0] = start
  BY <1>2, <1>3
<1>5. ASSUME NEW i \in 1..n
      PROVE  /\ ToSet(acc[i - 1].lines) \subseteq ToSet(acc[i].lines)
             /\ acc[i - 1].lines # <<>> => acc[i].lines # <<>>
             /\ Library[pool[i].id].size <= share /\ Library[pool[i].id].size <= MaxCharacters => acc[i].lines # <<>>
  <2>1. i \in 0..n /\ i # 0 /\ i - 1 \in 0..n
    BY <1>2
  <2>2. acc[i] = Admitted(acc[i - 1], pool[i], share) /\ Full(acc[i - 1], T)
    BY <1>3, <2>1
  <2> QED
    BY <1>2, <2>2, AdmittedIs
<1>6. n \in 0..n
  BY <1>2
<1>7. ToSet(start.lines) \subseteq ToSet(acc[n].lines)
  <2> DEFINE P == {i \in 0..n : ToSet(start.lines) \subseteq ToSet(acc[i].lines)}
  <2>1. 0 \in P
    BY <1>2, <1>4
  <2>2. ASSUME NEW i \in 1..n, i - 1 \in P PROVE i \in P
    <3>1. i \in 0..n /\ ToSet(start.lines) \subseteq ToSet(acc[i - 1].lines)
      BY <1>2, <2>2
    <3>2. ToSet(acc[i - 1].lines) \subseteq ToSet(acc[i].lines)
      BY <1>5
    <3> QED
      BY <3>1, <3>2
  <2> HIDE DEF P
  <2>3. n \in P
    BY <1>2, <1>6, <2>1, <2>2, Counting
  <2> QED
    BY <2>3 DEF P
<1>8. ASSUME NEW c \in ToSet(pool), Library[c.id].size <= share, Library[c.id].size <= MaxCharacters
      PROVE  acc[n].lines # <<>>
  <2>1. PICK j \in 1..n : c = pool[j]
    BY <1>2 DEF ToSet
  <2> DEFINE P == {i \in 0..n : j <= i => acc[i].lines # <<>>}
  <2>2. 0 \in P
    BY <1>2
  <2>3. ASSUME NEW i \in 1..n, i - 1 \in P PROVE i \in P
    <3>1. i \in 0..n /\ (j <= i => j = i \/ j <= i - 1)
      BY <1>2
    <3>2. j <= i => acc[i].lines # <<>>
      BY <1>5, <1>8, <2>1, <2>3, <3>1
    <3> QED
      BY <3>1, <3>2
  <2> HIDE DEF P
  <2>4. n \in P
    BY <1>2, <1>6, <2>2, <2>3, Counting
  <2>5. j <= n
    BY <1>2
  <2> QED
    BY <2>4, <2>5 DEF P
<1> QED
  BY <1>1, <1>3, <1>6, <1>7, <1>8

\* The sizes of candidates that come from a recall.
Sized(T) == \A c \in T : c.id \in Memories

LEMMA SizesAre == ASSUME NEW T, Sized(T) PROVE \A c \in T : Library[c.id].size \in Nat
  BY ContextAssumption DEF Sized

LEMMA SharesAre ==
  /\ \A k \in 1..4 : Remaining(k) \in Nat \ {0} /\ Weight(Kinds[k]) \in {50, 25, 20, 5}
  /\ Remaining(1) = 100 /\ Weight(Kinds[1]) = 50
<1>1. Weight(Kinds[1]) = 50 /\ Weight(Kinds[2]) = 25 /\ Weight(Kinds[3]) = 20 /\ Weight(Kinds[4]) = 5
  BY DEF Weight, Kinds
<1>2. Remaining(1) = 100 /\ Remaining(2) = 50 /\ Remaining(3) = 25 /\ Remaining(4) = 5
  BY <1>1 DEF Remaining
<1>3. \A k \in 1..4 : k = 1 \/ k = 2 \/ k = 3 \/ k = 4
  OBVIOUS
<1> QED
  BY <1>1, <1>2, <1>3

ShareOf(filled, k) == ((MaxCharacters - filled.used) * Weight(Kinds[k])) \div Remaining(k)
PoolOf(k, relevant) == Picked(relevant, {i \in DOMAIN relevant : Kind(relevant[i]) = Kinds[k]})

LEMMA FillIs ==
  ASSUME NEW T, Sized(T), NEW filled, Full(filled, T), NEW k \in 1..4, NEW relevant \in Seq(T)
  PROVE  /\ Full(Fill(filled, k, relevant), T)
         /\ ToSet(filled.lines) \subseteq ToSet(Fill(filled, k, relevant).lines)
<1> DEFINE start == [lines |-> filled.lines, used |-> filled.used, class |-> 0]
           pool == PoolOf(k, relevant)
           share == ShareOf(filled, k)
<1>1. Fill(filled, k, relevant) = Pooled(pool, start, share)
  BY DEF Fill, Pooled, PoolOf, ShareOf
<1>2. pool \in Seq(T)
  BY PickedFrom DEF PoolOf
<1>3. share \in Int
  <2>1. filled.used \in Nat /\ MaxCharacters \in Nat
    BY ContextAssumption DEF Full, Accounts
  <2> DEFINE a == (MaxCharacters - filled.used) * Weight(Kinds[k])
  <2>2. a \in Int
    <3>1. \A x \in Int : x * 50 \in Int /\ x * 25 \in Int /\ x * 20 \in Int /\ x * 5 \in Int
      OBVIOUS
    <3>2. MaxCharacters - filled.used \in Int
      BY <2>1
    <3>3. Weight(Kinds[k]) = 50 \/ Weight(Kinds[k]) = 25 \/ Weight(Kinds[k]) = 20 \/ Weight(Kinds[k]) = 5
      BY SharesAre
    <3> QED
      BY <3>1, <3>2, <3>3
  <2> HIDE DEF a
  <2>3. a \div Remaining(k) \in Int
    BY <2>2, SharesAre
  <2> QED
    BY <2>3 DEF ShareOf, a
<1>4. Full(start, T)
  BY DEF Full, Accounts
<1>5. start.lines = filled.lines
  OBVIOUS
<1> HIDE DEF start, pool, share
<1> QED
  BY <1>1, <1>2, <1>3, <1>4, <1>5, PooledIs, SizesAre

LEMMA NothingIsFull == ASSUME NEW T, Sized(T), NEW c \in T PROVE Full(NoLines, T)
<1>1. Length(<<>>) = 0
  <2>1. <<>> \in Seq(T)
    OBVIOUS
  <2> QED
    BY <2>1, LengthGrows, SizesAre
<1>2. Len(<<>>) = 0
  OBVIOUS
<1> QED
  BY <1>1, <1>2, ContextAssumption DEF Full, Accounts, NoLines

\* The builder's text: candidates, within the budget; with a preference that fits
\* half of it, one of them.
LEMMA FilledIs ==
  ASSUME NEW T, Sized(T), NEW relevant \in Seq(T), relevant # <<>>
  PROVE  /\ Filled(relevant) \in Seq(T)
         /\ Len(Filled(relevant)) <= MaxItems /\ Length(Filled(relevant)) <= MaxCharacters + 1
         /\ (\E p \in ToSet(relevant) : Kind(p) = Kinds[1] /\ 2 * Library[p.id].size <= MaxCharacters)
               => \E c \in ToSet(Filled(relevant)) : Kind(c) = Kinds[1]
<1> DEFINE one == Fill(NoLines, 1, relevant)
           two == Fill(one, 2, relevant)
           three == Fill(two, 3, relevant)
           four == Fill(three, 4, relevant)
<1>1. relevant[1] \in T
  OBVIOUS
<1>0. 1 \in 1..4 /\ 2 \in 1..4 /\ 3 \in 1..4 /\ 4 \in 1..4
  OBVIOUS
<1> HIDE DEF one, two, three, four
<1>2. Full(NoLines, T)
  BY <1>1, NothingIsFull
<1>3. Full(one, T)
  BY <1>0, <1>2, FillIs DEF one
<1>4. Full(two, T) /\ ToSet(one.lines) \subseteq ToSet(two.lines)
  BY <1>0, <1>3, FillIs DEF two
<1>5. Full(three, T) /\ ToSet(two.lines) \subseteq ToSet(three.lines)
  BY <1>0, <1>4, FillIs DEF three
<1>6. Full(four, T) /\ ToSet(three.lines) \subseteq ToSet(four.lines)
  BY <1>0, <1>5, FillIs DEF four
<1>7. Filled(relevant) = four.lines
  BY DEF Filled, four, three, two, one
<1>8. ASSUME NEW p \in ToSet(relevant), Kind(p) = Kinds[1], 2 * Library[p.id].size <= MaxCharacters
      PROVE  \E c \in ToSet(four.lines) : Kind(c) = Kinds[1]
  <2> DEFINE U == {c \in T : Kind(c) = Kinds[1]}
             places == {i \in DOMAIN relevant : Kind(relevant[i]) = Kinds[1]}
             pool == PoolOf(1, relevant)
             share == ShareOf(NoLines, 1)
  <2>1. DOMAIN relevant = 1..Len(relevant) /\ \A i \in DOMAIN relevant : relevant[i] \in T
    OBVIOUS
  <2>2. p \in T /\ p \in U
    BY <1>8, <2>1 DEF ToSet
  <2>3. pool \in Seq(U)
    <3>1. \A i \in places \cap (1..Len(relevant)) : relevant[i] \in U
      BY <2>1
    <3> HIDE DEF U
    <3>2. Keeps(Picked(relevant, places), relevant, places, U)
      BY <3>1, PickedOf
    <3> QED
      BY <3>2 DEF Keeps, PoolOf
  <2>4. p \in ToSet(pool)
    <3>1. PICK i \in DOMAIN relevant : p = relevant[i]
      BY DEF ToSet
    <3>2. i \in places
      BY <1>8, <3>1
    <3>3. ToSet(Picked(relevant, places)) = {relevant[j] : j \in places \cap DOMAIN relevant}
      BY PickedFrom
    <3> QED
      BY <3>1, <3>2, <3>3 DEF PoolOf
  <2>5. Sized(U)
    BY DEF Sized
  <2>6. Full(NoLines, U)
    BY <2>2, <2>5, NothingIsFull
  <2>7. one = Pooled(pool, NoLines, share)
    BY DEF one, Fill, Pooled, PoolOf, ShareOf, NoLines
  <2>8. share \in Int /\ Library[p.id].size <= share /\ Library[p.id].size <= MaxCharacters
    <3>1. share = (MaxCharacters * 50) \div 100
      <4>1. MaxCharacters - NoLines.used = MaxCharacters
        BY ContextAssumption DEF NoLines
      <4> QED
        BY <4>1, SharesAre DEF ShareOf
    <3>2. Library[p.id].size \in Nat /\ MaxCharacters \in Nat
      BY <2>2, SizesAre, ContextAssumption
    <3> QED
      BY <1>8, <3>1, <3>2
  <2> HIDE DEF U, pool, share
  <2>9. Full(one, U) /\ one.lines # <<>>
    BY <2>3, <2>4, <2>5, <2>6, <2>7, <2>8, PooledIs, SizesAre
  <2>10. PICK c \in U : c \in ToSet(one.lines)
    <3>1. one.lines \in Seq(U)
      BY <2>9 DEF Full, Accounts
    <3> DEFINE s == one.lines
    <3>2. s \in Seq(U) /\ s # <<>>
      BY <2>9, <3>1
    <3> HIDE DEF s
    <3>3. 1 \in DOMAIN s /\ s[1] \in U
      BY <3>2
    <3> QED
      BY <3>3 DEF ToSet, s
  <2> QED
    BY <1>4, <1>5, <1>6, <2>10 DEF U
<1>9. four.lines \in Seq(T) /\ Len(four.lines) <= MaxItems /\ Length(four.lines) <= MaxCharacters + 1
  BY <1>6 DEF Full, Accounts
<1> QED
  BY <1>7, <1>8, <1>9

LEMMA ListOf == ASSUME NEW T, NEW s \in Seq(T) PROVE s \in Seq(ToSet(s))
<1>1. DOMAIN s = 1..Len(s) /\ Len(s) \in Nat /\ s = [i \in 1..Len(s) |-> s[i]]
  OBVIOUS
<1>2. \A i \in 1..Len(s) : s[i] \in ToSet(s)
  BY <1>1 DEF ToSet
<1> DEFINE U == ToSet(s)
<1> HIDE DEF U
<1>3. \A i \in 1..Len(s) : s[i] \in U
  BY <1>2 DEF U
<1>4. s \in [1..Len(s) -> U]
  BY <1>1, <1>3
<1>5. s \in Seq(U)
  BY <1>1, <1>4
<1> QED
  BY <1>5 DEF U

\* What the builder takes for relevant: nothing that a scoring candidate replaces,
\* and every scoring candidate that nothing restates or replaces.
LEMMA RelevantIs ==
  ASSUME NEW T, NEW s \in Seq(T)
  PROVE  /\ Relevant(s) \in Seq(T)
         /\ \A c \in ToSet(Relevant(s)), n \in ToSet(s) : n.score >= MinScore => ~Replaces(n, c)
         /\ \A p \in ToSet(s) :
              /\ p.score >= MinScore
              /\ \A n \in ToSet(s) : {n.id, p.id} \notin Restates /\ ~Replaces(n, p)
              => p \in ToSet(Relevant(s))
<1> DEFINE scoring == Scoring(s)
           lasting == ApplySupersedes(scoring)
           kept == DedupeContext(lasting)
           U == ToSet(lasting)
<1>1. scoring \in Seq(T) /\ ToSet(scoring) = {s[i] : i \in {k \in DOMAIN s : s[k].score >= MinScore} \cap DOMAIN s}
  BY PickedFrom DEF Scoring
<1>2. ToSet(scoring) = {c \in ToSet(s) : c.score >= MinScore}
  BY <1>1 DEF ToSet
<1>3. /\ lasting \in Seq(T)
      /\ ToSet(lasting) = {scoring[i] : i \in {k \in DOMAIN scoring : ~\E n \in ToSet(scoring) : Replaces(n, scoring[k])} \cap DOMAIN scoring}
  BY <1>1, PickedFrom DEF ApplySupersedes
<1>4. U = {c \in ToSet(scoring) : ~\E n \in ToSet(scoring) : Replaces(n, c)}
  BY <1>3 DEF ToSet
<1> HIDE DEF scoring
<1>5. lasting \in Seq(U) /\ U \subseteq T
  BY <1>3, ListOf, ItemsAre
<1> HIDE DEF lasting
<1>6. kept \in Seq(U) /\ \A x \in U : (\A y \in U : {y.id, x.id} \notin Restates) => x \in ToSet(kept)
  <2> DEFINE V == ToSet(lasting)
  <2>1. lasting \in Seq(V)
    BY <1>5
  <2> HIDE DEF V
  <2>2. DedupeContext(lasting) \in Seq(V)
    BY <2>1, DedupeIs
  <2>3. \A x \in ToSet(lasting) : (\A y \in V : {y.id, x.id} \notin Restates) => x \in ToSet(DedupeContext(lasting))
    BY <2>1, DedupeIs
  <2> QED
    BY <2>2, <2>3 DEF V
<1>7. Relevant(s) = kept
  BY DEF Relevant, lasting, scoring
<1> HIDE DEF kept, U
<1>8. ToSet(kept) \subseteq U /\ kept \in Seq(T)
  <2>1. ToSet(kept) \subseteq U
    BY <1>6, ItemsAre
  <2>2. kept \in Seq(T)
    BY <1>5, <1>6
  <2> QED
    BY <2>1, <2>2
<1> QED
  BY <1>2, <1>4, <1>6, <1>7, <1>8

\* The best of the relevant candidates is one of them.
LEMMA BestLineIs ==
  ASSUME NEW T, \A c \in T : c.score \in Nat, NEW s \in Seq(T), s # <<>>
  PROVE  Min({i \in DOMAIN s : \A k \in DOMAIN s : s[i].score >= s[k].score}) \in DOMAIN s
<1> DEFINE D == 1..Len(s)
           score(i) == s[i].score
           R == {p \in D \X D : score(p[1]) >= score(p[2])}
           tops == {i \in DOMAIN s : \A k \in DOMAIN s : s[i].score >= s[k].score}
<1>1. DOMAIN s = D /\ IsFiniteSet(D) /\ D # {} /\ D \subseteq Nat /\ \A i \in D : score(i) \in Nat
  <2>1. Len(s) \in Nat /\ Len(s) # 0 /\ DOMAIN s = D /\ \A i \in D : s[i] \in T
    OBVIOUS
  <2>2. IsFiniteSet(D)
    BY <2>1, FS_Interval
  <2>3. 1 \in D
    BY <2>1
  <2>4. \A i \in D : score(i) \in Nat
    BY <2>1
  <2> QED
    BY <2>1, <2>2, <2>3, <2>4
<1>2. \A i, k \in D : <<i, k>> \in R <=> score(i) >= score(k)
  OBVIOUS
<1>6. tops = {i \in D : \A k \in D : score(i) >= score(k)}
  BY <1>1
<1> HIDE DEF R, D, score, tops
<1>3. \A i, k \in D : i = k \/ <<i, k>> \in R \/ <<k, i>> \in R
  <2> TAKE i, k \in D
  <2>1. score(i) \in Nat /\ score(k) \in Nat
    BY <1>1
  <2>2. score(i) >= score(k) \/ score(k) >= score(i)
    BY <2>1
  <2> QED
    BY <1>2, <2>2
<1>4. \A i, k, l \in D : <<i, k>> \in R /\ <<k, l>> \in R => <<i, l>> \in R
  <2> TAKE i, k, l \in D
  <2>1. score(i) \in Nat /\ score(k) \in Nat /\ score(l) \in Nat
    BY <1>1
  <2>2. score(i) >= score(k) /\ score(k) >= score(l) => score(i) >= score(l)
    BY <2>1
  <2> QED
    BY <1>2, <2>2
<1>5. PICK i \in D : \A k \in D \ {i} : <<i, k>> \in R
  <2>1. IsFiniteSet(D) /\ D # {}
    BY <1>1
  <2>2. \E i \in D : \A k \in D \ {i} : <<i, k>> \in R
    BY <1>3, <1>4, <2>1, FirstIs
  <2> QED
    BY <2>2
<1>7. i \in tops /\ tops \subseteq Nat /\ tops \subseteq D
  <2>1. score(i) >= score(i)
    BY <1>1
  <2>2. \A k \in D : score(i) >= score(k)
    BY <1>2, <1>5, <2>1
  <2> QED
    BY <1>1, <1>6, <2>2
<1>8. Min(tops) \in tops
  BY <1>7, LeastIs
<1> QED
  BY <1>1, <1>7, <1>8 DEF tops

LEMMA BuiltIs ==
  ASSUME NEW T, Sized(T), \A c \in T : c.score \in Nat, NEW s \in Seq(T)
  PROVE  /\ Built(s) \in Seq(ToSet(Relevant(s)))
         /\ Len(Built(s)) <= MaxItems
         /\ Len(Built(s)) > 1 => Length(Built(s)) <= MaxCharacters + 1
         /\ (\E p \in ToSet(Relevant(s)) : Kind(p) = Kinds[1] /\ 2 * Library[p.id].size <= MaxCharacters)
               => \E c \in ToSet(Built(s)) : Kind(c) = Kinds[1]
<1> DEFINE relevant == Relevant(s)
           U == ToSet(relevant)
           best == Min({i \in DOMAIN relevant : \A k \in DOMAIN relevant : relevant[i].score >= relevant[k].score})
<1>1. relevant \in Seq(T)
  BY RelevantIs
<1>2. relevant \in Seq(U) /\ U \subseteq T
  BY <1>1, ListOf, ItemsAre
<1>3. Sized(U) /\ \A c \in U : c.score \in Nat
  BY <1>2 DEF Sized
<1>4. Built(s) = IF relevant = <<>> THEN <<>> ELSE IF Filled(relevant) = <<>> THEN <<relevant[best]>> ELSE Filled(relevant)
  BY DEF Built
<1>5. MaxItems \in Nat /\ MaxItems >= 1
  BY ContextAssumption
<1> HIDE DEF relevant
<1>6. CASE relevant = <<>>
  <2>1. Built(s) = <<>> /\ U = {}
    BY <1>4, <1>6 DEF ToSet
  <2> QED
    BY <1>5, <2>1 DEF relevant
<1>7. CASE relevant # <<>>
  <2> DEFINE V == ToSet(relevant)
  <2>0. relevant \in Seq(V) /\ Sized(V)
    BY <1>2, <1>3
  <2> HIDE DEF V
  <2>1. /\ Filled(relevant) \in Seq(V)
        /\ Len(Filled(relevant)) <= MaxItems /\ Length(Filled(relevant)) <= MaxCharacters + 1
        /\ (\E p \in ToSet(relevant) : Kind(p) = Kinds[1] /\ 2 * Library[p.id].size <= MaxCharacters)
               => \E c \in ToSet(Filled(relevant)) : Kind(c) = Kinds[1]
    BY <1>7, <2>0, FilledIs
  <2>2. CASE Filled(relevant) = <<>>
    <3>1. Built(s) = <<relevant[best]>>
      BY <1>4, <1>7, <2>2
    <3>2. best \in DOMAIN relevant
      BY <1>2, <1>3, <1>7, BestLineIs
    <3> HIDE DEF best
    <3>3. relevant[best] \in U
      BY <3>2 DEF ToSet
    <3> DEFINE line == <<relevant[best]>>
    <3>4. line \in Seq(U) /\ Len(line) = 1
      BY <3>3
    <3>5. ToSet(Filled(relevant)) = {}
      BY <2>2 DEF ToSet
    <3> HIDE DEF line
    <3> QED
      BY <1>5, <2>1, <3>1, <3>4, <3>5 DEF relevant, line
  <2>3. CASE Filled(relevant) # <<>>
    <3>1. Built(s) = Filled(relevant)
      BY <1>4, <1>7, <2>3
    <3> QED
      BY <2>1, <3>1 DEF relevant, V
  <2> QED
    BY <2>2, <2>3
<1> QED
  BY <1>6, <1>7

LEMMA KindsOfPreferences == \A c : Kind(c) = Kinds[1] <=> c.type = "preference"
  BY DEF Kind, Kinds

\* What a recall finds, and what becomes of it.
MatchesOf(path, q) == Ranked(q, MaxResults[path])
CandidatesOf(path, q) == [i \in DOMAIN MatchesOf(path, q) |-> Candidate(path, q, MatchesOf(path, q)[i])]
ContextOf(path, q) == Handed(path, CandidatesOf(path, q))

\* One memory takes the place of another.
Supersedes(n, m) ==
  /\ Library[n].type = Library[m].type
  /\ Library[n].replaces /\ ~Library[m].replaces
  /\ Later(n, m)
  /\ Library[n].subject \cap Library[m].subject # {}

LEMMA KnownReplaces == \A n, m : Replaces(KnownOf(n), KnownOf(m)) <=> Supersedes(n, m)
  BY DEF Replaces, KnownOf, Candidate, Supersedes

LEMMA CandidatesReplace ==
  ASSUME NEW q, NEW n, NEW m
  PROVE  Replaces(Candidate("evaluation", q, n), Candidate("evaluation", q, m)) <=> Supersedes(n, m)
  BY DEF Replaces, Candidate, Supersedes

LEMMA RecallNeverBuries ==
  ASSUME ContextTypeOK, NEW path \in Paths, NEW q \in DOMAIN Questions
  PROVE  /\ MatchesOf(path, q) \in Seq(Matching(q))
         /\ \A m \in ToSet(MatchesOf(path, q)), n \in Matching(q) \ ToSet(MatchesOf(path, q)) :
              Questions[q][n] <= Questions[q][m] + UsageCap
<1> DEFINE found == MatchesOf(path, q)
<1>1. /\ found \in Seq(Matching(q))
      /\ \A m \in ToSet(found), n \in Matching(q) \ ToSet(found) : Ahead(q, m, n)
  <2>1. MaxResults[path] \in Nat
    BY ContextAssumption
  <2> QED
    BY <2>1, RankedIs DEF MatchesOf
<1> HIDE DEF found
<1>2. ASSUME NEW m \in ToSet(found), NEW n \in Matching(q) \ ToSet(found)
      PROVE  Questions[q][n] <= Questions[q][m] + UsageCap
  <2>1. m \in Memories /\ n \in Memories
    BY <1>1, ItemsAre, MatchesAre
  <2>2. Score(q, m) >= Score(q, n)
    <3>1. Score(q, m) \in Nat /\ Score(q, n) \in Nat
      BY <2>1, ScoresAre
    <3> QED
      BY <1>1, <3>1 DEF Ahead
  <2>3. /\ Score(q, n) >= Questions[q][n] /\ Score(q, m) <= Questions[q][m] + UsageCap
        /\ Score(q, m) \in Nat /\ Score(q, n) \in Nat /\ Questions[q][n] \in Nat /\ Questions[q][m] \in Nat
    BY <2>1, ScoresAre
  <2> QED
    BY <2>2, <2>3, ContextAssumption
<1> QED
  BY <1>1, <1>2 DEF found

LEMMA CandidatesAre ==
  ASSUME ContextTypeOK, NEW path \in Paths, NEW q \in DOMAIN Questions
  PROVE  LET T == {Candidate(path, q, m) : m \in ToSet(MatchesOf(path, q))}
         IN  /\ CandidatesOf(path, q) \in Seq(T) /\ ToSet(CandidatesOf(path, q)) = T
             /\ Sized(T) /\ \A c \in T : c.score \in Nat
<1> DEFINE found == MatchesOf(path, q)
           T == {Candidate(path, q, m) : m \in ToSet(found)}
           list == CandidatesOf(path, q)
<1>1. found \in Seq(Matching(q)) /\ DOMAIN found = 1..Len(found) /\ Len(found) \in Nat
  BY RecallNeverBuries
<1>2. list = [i \in 1..Len(found) |-> Candidate(path, q, found[i])]
  BY <1>1 DEF CandidatesOf
<1>3. \A m \in ToSet(found) : m \in Memories
  BY <1>1, ItemsAre, MatchesAre
<1> HIDE DEF found, list
<1>4. \A i \in 1..Len(found) : Candidate(path, q, found[i]) \in T
  BY <1>1 DEF ToSet
<1>5. \A c \in T : \E m \in ToSet(found) : c.id = m /\ c.score = Score(q, m)
  BY DEF Candidate
<1>6. \A c \in T : c.id \in Memories /\ c.score \in Nat
  BY <1>3, <1>5, ScoresAre
<1>7. ToSet(list) = T
  <2>1. ToSet(list) = {Candidate(path, q, found[i]) : i \in 1..Len(found)}
    BY <1>2 DEF ToSet
  <2>2. ToSet(found) = {found[i] : i \in 1..Len(found)}
    BY <1>1 DEF ToSet
  <2> QED
    BY <2>1, <2>2
<1> HIDE DEF T
<1>8. list \in Seq(T)
  <2>1. list \in [1..Len(found) -> T]
    BY <1>2, <1>4
  <2> QED
    BY <1>1, <2>1
<1>9. Sized(T)
  BY <1>6 DEF Sized
<1> QED
  BY <1>6, <1>7, <1>8, <1>9 DEF T, found, list

LEMMA ContextIs ==
  ASSUME ContextTypeOK, NEW path \in Paths, NEW q \in DOMAIN Questions
  PROVE  /\ \A c \in ToSet(ContextOf(path, q)) : c.id \in ToSet(MatchesOf(path, q))
         /\ path # "dispatch" =>
              /\ Len(ContextOf(path, q)) <= MaxItems
              /\ Len(ContextOf(path, q)) > 1 => Length(ContextOf(path, q)) <= MaxCharacters + 1
<1> DEFINE T == {Candidate(path, q, m) : m \in ToSet(MatchesOf(path, q))}
           list == CandidatesOf(path, q)
<1>1. list \in Seq(T) /\ Sized(T) /\ \A c \in T : c.score \in Nat
  BY CandidatesAre
<1>2. \A c \in T : c.id \in ToSet(MatchesOf(path, q))
  BY DEF Candidate
<1> HIDE DEF T, list
<1>3. /\ Built(list) \in Seq(ToSet(Relevant(list))) /\ Len(Built(list)) <= MaxItems
      /\ Len(Built(list)) > 1 => Length(Built(list)) <= MaxCharacters + 1
  BY <1>1, BuiltIs
<1>4. ToSet(Built(list)) \subseteq T
  <2>1. ToSet(Relevant(list)) \subseteq T
    BY <1>1, RelevantIs, ItemsAre
  <2> DEFINE U == ToSet(Relevant(list))
  <2> HIDE DEF U
  <2>2. Built(list) \in Seq(U)
    BY <1>3 DEF U
  <2>3. ToSet(Built(list)) \subseteq U
    BY <2>2, ItemsAre
  <2> QED
    BY <2>1, <2>3 DEF U
<1>5. ToSet(list) \subseteq T
  BY <1>1, ItemsAre
<1>6. ContextOf(path, q) = IF path = "dispatch" THEN list ELSE Built(list)
  BY DEF ContextOf, Handed, list
<1> QED
  BY <1>2, <1>3, <1>4, <1>5, <1>6

\* The two statements about what the evaluation is shown.
LEMMA EvaluationIs ==
  ASSUME ContextTypeOK, NEW q \in DOMAIN Questions
  PROVE  LET path == "evaluation" found == ToSet(MatchesOf(path, q)) shown == {c.id : c \in ToSet(ContextOf(path, q))}
         IN  /\ \A m \in shown, n \in found : Questions[q][n] >= MinScore => ~Supersedes(n, m)
             /\ \A p \in found :
                  /\ Preferred(p) /\ Questions[q][p] >= MinScore /\ 2 * Library[p].size <= MaxCharacters
                  /\ \A n \in found : {n, p} \notin Restates /\ ~Supersedes(n, p)
                  => \E m \in shown : Preferred(m)
<1> DEFINE path == "evaluation"
           found == ToSet(MatchesOf(path, q))
           of(m) == Candidate(path, q, m)
           T == {of(m) : m \in found}
           list == CandidatesOf(path, q)
           relevant == Relevant(list)
<1>0. path \in Paths
  BY DEF Paths
<1>1. list \in Seq(T) /\ ToSet(list) = T /\ Sized(T) /\ \A c \in T : c.score \in Nat
  BY <1>0, CandidatesAre
<1>2. found \subseteq Memories
  <2>1. MatchesOf(path, q) \in Seq(Matching(q))
    BY <1>0, RecallNeverBuries
  <2> QED
    BY <2>1, ItemsAre, MatchesAre
<1>3. \A m \in found : Questions[q][m] >= MinScore => of(m).score >= MinScore
  <2> SUFFICES ASSUME NEW m \in found, Questions[q][m] >= MinScore PROVE Score(q, m) >= MinScore
    BY DEF Candidate
  <2>1. Score(q, m) >= Questions[q][m] /\ Score(q, m) \in Nat /\ Questions[q][m] \in Nat
    BY <1>2, ScoresAre
  <2> QED
    BY <2>1, ContextAssumption
<1>4. \A m : of(m).id = m /\ of(m).type = Library[m].type
  BY DEF Candidate
<1>5. \A n, m : Replaces(of(n), of(m)) <=> Supersedes(n, m)
  BY CandidatesReplace
<1>6. ContextOf(path, q) = Built(list)
  BY DEF ContextOf, Handed
<1> HIDE DEF path, list, of, found, T
<1>7. /\ relevant \in Seq(T)
      /\ \A c \in ToSet(relevant), n \in ToSet(list) : n.score >= MinScore => ~Replaces(n, c)
      /\ \A p \in ToSet(list) :
           /\ p.score >= MinScore
           /\ \A n \in ToSet(list) : {n.id, p.id} \notin Restates /\ ~Replaces(n, p)
           => p \in ToSet(relevant)
  BY <1>1, RelevantIs
<1>8. /\ Built(list) \in Seq(ToSet(relevant))
      /\ (\E p \in ToSet(relevant) : Kind(p) = Kinds[1] /\ 2 * Library[p.id].size <= MaxCharacters)
               => \E c \in ToSet(Built(list)) : Kind(c) = Kinds[1]
  BY <1>1, BuiltIs
<1> HIDE DEF relevant
<1>9. ToSet(Built(list)) \subseteq ToSet(relevant) /\ ToSet(relevant) \subseteq T
  <2> DEFINE U == ToSet(relevant)
  <2>1. U \subseteq T
    BY <1>7, ItemsAre
  <2> HIDE DEF U
  <2>2. Built(list) \in Seq(U)
    BY <1>8 DEF U
  <2>3. ToSet(Built(list)) \subseteq U
    BY <2>2, ItemsAre
  <2> QED
    BY <2>1, <2>3 DEF U
<1>10. ASSUME NEW c \in ToSet(Built(list)), NEW n \in found, Questions[q][n] >= MinScore
       PROVE  ~Supersedes(n, c.id)
  <2>1. PICK m \in found : c = of(m)
    BY <1>9 DEF T
  <2>2. of(n) \in ToSet(list) /\ of(n).score >= MinScore
    BY <1>1, <1>3, <1>10 DEF T
  <2>3. ~Replaces(of(n), of(m))
    BY <1>7, <1>9, <2>1, <2>2
  <2> QED
    BY <1>4, <1>5, <2>1, <2>3
<1>11. ASSUME NEW p \in found, Preferred(p), Questions[q][p] >= MinScore, 2 * Library[p].size <= MaxCharacters,
              \A n \in found : {n, p} \notin Restates /\ ~Supersedes(n, p)
       PROVE  \E c \in ToSet(Built(list)) : Preferred(c.id)
  <2>1. of(p) \in ToSet(list) /\ of(p).score >= MinScore /\ of(p).id = p /\ of(p).type = "preference"
    BY <1>1, <1>3, <1>4, <1>11 DEF T, Preferred
  <2>2. ASSUME NEW d \in ToSet(list) PROVE {d.id, of(p).id} \notin Restates /\ ~Replaces(d, of(p))
    <3>1. PICK n \in found : d = of(n)
      BY <1>1 DEF T
    <3> QED
      BY <1>4, <1>5, <1>11, <3>1
  <2>3. of(p) \in ToSet(relevant)
    BY <1>7, <2>1, <2>2
  <2>4. Kind(of(p)) = Kinds[1] /\ 2 * Library[of(p).id].size <= MaxCharacters
    BY <1>11, <2>1, KindsOfPreferences
  <2>5. PICK c \in ToSet(Built(list)) : Kind(c) = Kinds[1]
    BY <1>8, <2>3, <2>4
  <2>6. PICK m \in found : c = of(m)
    BY <1>9, <2>5 DEF T
  <2>7. Preferred(c.id)
    BY <1>4, <2>5, <2>6, KindsOfPreferences DEF Preferred
  <2> QED
    BY <2>7
<1> QED
  BY <1>6, <1>10, <1>11 DEF path, found

\* What happened before does not move in the order of what happened.
LEMMA LaterStands ==
  ASSUME ContextTypeOK, NEW x \in Memories \ ToSet(told), told' = Append(told, x),
         NEW n \in ToSet(told), NEW m \in ToSet(told)
  PROVE  Later(n, m)' <=> Later(n, m)
<1>1. /\ DOMAIN told = 1..Len(told) /\ Len(told) \in Nat
      /\ DOMAIN told' = 1..(Len(told) + 1) /\ told'[Len(told) + 1] = x /\ \A i \in 1..Len(told) : told'[i] = told[i]
  <2>1. told \in Seq(Memories)
    BY DEF ContextTypeOK
  <2> QED
    BY <2>1, Extends
<1>2. \A i \in DOMAIN told' : i \in DOMAIN told \/ told'[i] = x
  BY <1>1
<1>3. n # x /\ m # x
  OBVIOUS
<1>4. \A i \in DOMAIN told : i \in DOMAIN told' /\ told'[i] = told[i]
  BY <1>1
<1> QED
  BY <1>2, <1>3, <1>4 DEF Later

\* While nothing is recalled, what the last recall was given stays right.
LEMMA AnswerStands ==
  ASSUME ContextInv, ContextTypeOK', UNCHANGED answer,
         \A n, m \in ToSet(told) : Later(n, m)' <=> Later(n, m)
  PROVE  ContextInv'
<1>1. ContextTypeOK /\ ToSet(answer.matches) \subseteq ToSet(told) /\ Shown \subseteq ToSet(answer.matches)
  BY DEF ContextInv, ContextTypeOK
<1>2. UsageNeverBuries'
  BY DEF ContextInv, UsageNeverBuries
<1>3. ContextFitsTheBudget'
  BY DEF ContextInv, ContextFitsTheBudget
<1>4. \A n, m \in ToSet(answer.matches) : Supersedes(n, m)' <=> Supersedes(n, m)
  BY <1>1 DEF Supersedes
<1>5. \A n, m : Replaces(KnownOf(n), KnownOf(m)) <=> Supersedes(n, m)
  BY KnownReplaces
<1>6. (\A n, m : Replaces(KnownOf(n), KnownOf(m)) <=> Supersedes(n, m))'
  BY KnownReplaces, PTL
<1>7. \A n, m \in ToSet(answer.matches) : Replaces(KnownOf(n), KnownOf(m))' <=> Replaces(KnownOf(n), KnownOf(m))
  BY <1>4, <1>5, <1>6
<1>8. /\ Shown' = Shown /\ ToSet(answer'.matches) = ToSet(answer.matches) /\ answer'.path = answer.path
      /\ \A m : Relates(m)' <=> Relates(m)
  BY DEF Shown, Relates
<1>9. PreferenceIsShown'
  <2>1. PreferenceIsShown
    BY DEF ContextInv
  <2> QED
    BY <1>7, <1>8, <2>1 DEF PreferenceIsShown
<1>10. ReplacedIsRetired'
  <2>1. ReplacedIsRetired
    BY DEF ContextInv
  <2> QED
    BY <1>1, <1>7, <1>8, <2>1 DEF ReplacedIsRetired
<1> QED
  BY <1>2, <1>3, <1>9, <1>10 DEF ContextInv

LEMMA RememberIsRight == ASSUME ContextInv, NEW x \in Memories, Remember(x) PROVE ContextInv'
<1>1. /\ x \notin ToSet(told) /\ told' = Append(told, x) /\ active' = active \cup {x}
      /\ UNCHANGED <<uses, answer, recalls, archivals>>
  BY DEF Remember
<1>2. ContextTypeOK /\ told \in Seq(Memories)
  BY DEF ContextInv, ContextTypeOK
<1>3. ToSet(told') = ToSet(told) \cup {x} /\ told' \in Seq(Memories)
  <2>1. /\ DOMAIN told = 1..Len(told) /\ Len(told) \in Nat /\ told' \in Seq(Memories)
        /\ DOMAIN told' = 1..(Len(told) + 1) /\ told'[Len(told) + 1] = x /\ \A i \in 1..Len(told) : told'[i] = told[i]
    BY <1>1, <1>2, Extends
  <2>2. DOMAIN told' = DOMAIN told \cup {Len(told) + 1}
    BY <2>1
  <2> QED
    BY <2>1, <2>2 DEF ToSet
<1>4. ContextTypeOK'
  BY <1>1, <1>2, <1>3 DEF ContextTypeOK, Shown
<1>5. \A n, m \in ToSet(told) : Later(n, m)' <=> Later(n, m)
  BY <1>1, <1>2, LaterStands
<1> QED
  BY <1>1, <1>4, <1>5, AnswerStands

LEMMA ArchiveIsRight == ASSUME ContextInv, NEW x \in Memories, Archive(x) \/ Restore(x) PROVE ContextInv'
<1>0. ContextTypeOK
  BY DEF ContextInv
<1>2. UNCHANGED <<told, answer>>
  BY DEF Archive, Restore
<1>4. UNCHANGED <<uses, recalls>> /\ active' \subseteq ToSet(told)
  BY <1>0 DEF Archive, Restore, ContextTypeOK
<1>5. archivals' \in 0..MaxArchivals
  BY <1>0, ContextAssumption DEF Archive, Restore, ContextTypeOK
<1>6. Shown' = Shown
  BY <1>2 DEF Shown
<1>1. ContextTypeOK'
  BY <1>0, <1>2, <1>4, <1>5, <1>6 DEF ContextTypeOK
<1>3. \A n, m \in ToSet(told) : Later(n, m)' <=> Later(n, m)
  BY <1>2 DEF Later
<1> QED
  BY <1>1, <1>2, <1>3, AnswerStands

LEMMA RecallIsRight ==
  ASSUME ContextInv, NEW path \in Paths, NEW q \in DOMAIN Questions, Recall(path, q)
  PROVE  ContextInv'
<1> DEFINE found == MatchesOf(path, q)
           context == ContextOf(path, q)
<1>1. ContextTypeOK
  BY DEF ContextInv
<1>2. /\ answer' = [path |-> path, question |-> q, library |-> active, matches |-> found, context |-> context]
      /\ uses' = Used(found) /\ recalls < MaxRecalls /\ recalls' = recalls + 1 /\ UNCHANGED <<told, active, archivals>>
  BY DEF Recall, MatchesOf, CandidatesOf, ContextOf
<1>3. /\ found \in Seq(Matching(q))
      /\ \A m \in ToSet(found), n \in Matching(q) \ ToSet(found) : Questions[q][n] <= Questions[q][m] + UsageCap
  BY <1>1, RecallNeverBuries
<1>4. /\ \A c \in ToSet(context) : c.id \in ToSet(found)
      /\ path # "dispatch" =>
              /\ Len(context) <= MaxItems
              /\ Len(context) > 1 => Length(context) <= MaxCharacters + 1
  BY <1>1, ContextIs
<1>5. path = "evaluation" =>
        /\ \A m \in {c.id : c \in ToSet(context)}, n \in ToSet(found) : Questions[q][n] >= MinScore => ~Supersedes(n, m)
        /\ \A p \in ToSet(found) :
             /\ Preferred(p) /\ Questions[q][p] >= MinScore /\ 2 * Library[p].size <= MaxCharacters
             /\ \A n \in ToSet(found) : {n, p} \notin Restates /\ ~Supersedes(n, p)
             => \E m \in {c.id : c \in ToSet(context)} : Preferred(m)
  BY <1>1, EvaluationIs
<1> HIDE DEF found, context
<1>6. ToSet(found) \subseteq Matching(q)
  BY <1>3, ItemsAre
<1>7. /\ answer'.path = path /\ answer'.question = q /\ answer'.library = active
      /\ answer'.matches = found /\ answer'.context = context
  BY <1>2
<1>8. Shown' = {c.id : c \in ToSet(context)}
  BY <1>7 DEF Shown
<1>9. ContextTypeOK'
  <2>1. uses' \in [Memories -> Nat] /\ \A m \in Memories : uses'[m] \in UsedBefore[m]..(UsedBefore[m] + recalls')
    <3>1. recalls \in Nat /\ uses \in [Memories -> Nat] /\ UsedBefore \in [Memories -> Nat]
      BY <1>1, ContextAssumption DEF ContextTypeOK
    <3>2. \A m \in Memories : uses[m] \in UsedBefore[m]..(UsedBefore[m] + recalls)
      BY <1>1 DEF ContextTypeOK
    <3>3. uses' = [m \in Memories |-> IF m \in ToSet(found) THEN uses[m] + 1 ELSE uses[m]]
      BY <1>2 DEF Used
    <3>4. ASSUME NEW m \in Memories PROVE uses'[m] \in Nat /\ uses'[m] \in UsedBefore[m]..(UsedBefore[m] + recalls')
      <4>1. uses[m] \in Nat /\ UsedBefore[m] \in Nat /\ uses[m] \in UsedBefore[m]..(UsedBefore[m] + recalls)
        BY <3>1, <3>2
      <4>2. uses'[m] = uses[m] + 1 \/ uses'[m] = uses[m]
        BY <3>3
      <4> QED
        BY <1>2, <3>1, <4>1, <4>2
    <3> QED
      BY <3>3, <3>4
  <2>2. recalls' \in 0..MaxRecalls /\ archivals' \in 0..MaxArchivals /\ told' \in Seq(Memories) /\ active' \subseteq ToSet(told')
    BY <1>1, <1>2, ContextAssumption DEF ContextTypeOK
  <2>3. ToSet(found) \subseteq active /\ active \subseteq ToSet(told')
    BY <1>1, <1>2, <1>6 DEF Matching, ContextTypeOK
  <2>4. Shown' \subseteq ToSet(found)
    BY <1>4, <1>8
  <2> QED
    BY <1>7, <2>1, <2>2, <2>3, <2>4 DEF ContextTypeOK
<1>10. UsageNeverBuries'
  <2>1. ASSUME NEW m \in ToSet(found), NEW n \in active \ ToSet(found), n \in Found[q], ~Library[n].secret
        PROVE  Questions[q][n] <= Questions[q][m] + UsageCap
    <3>1. n \in Matching(q)
      BY <2>1 DEF Matching
    <3> QED
      BY <1>3, <3>1
  <2> QED
    BY <1>7, <2>1 DEF UsageNeverBuries
<1>11. ContextFitsTheBudget'
  BY <1>4, <1>7 DEF ContextFitsTheBudget
<1>12. \A n, m : Supersedes(n, m)' <=> Supersedes(n, m)
  BY <1>2 DEF Supersedes, Later
<1>13. (\A n, m : Replaces(KnownOf(n), KnownOf(m)) <=> Supersedes(n, m))'
  BY KnownReplaces, PTL
<1>14. \A n, m : Replaces(KnownOf(n), KnownOf(m))' <=> Supersedes(n, m)
  BY <1>12, <1>13
<1>15. \A m : Relates(m)' <=> m \in ToSet(found) /\ Questions[q][m] >= MinScore
  BY <1>7 DEF Relates
<1>16. PreferenceIsShown'
  BY <1>5, <1>7, <1>8, <1>14, <1>15 DEF PreferenceIsShown
<1>17. ReplacedIsRetired'
  BY <1>5, <1>7, <1>8, <1>14, <1>15 DEF ReplacedIsRetired
<1> QED
  BY <1>9, <1>10, <1>11, <1>16, <1>17 DEF ContextInv

LEMMA ContextBegins == ContextInit => ContextInv
<1> SUFFICES ASSUME ContextInit PROVE ContextInv
  OBVIOUS
<1>1. /\ answer.path = "none" /\ answer.matches = <<>> /\ answer.library = {} /\ answer.context = <<>>
      /\ told = <<>> /\ active = {} /\ uses = UsedBefore /\ recalls = 0 /\ archivals = 0
  BY DEF ContextInit, Nothing
<1>2. ToSet(answer.matches) = {} /\ Shown = {}
  BY <1>1 DEF ToSet, Shown
<1>3. Len(answer.context) = 0
  BY <1>1
<1>4. ContextTypeOK
  <2>1. told \in Seq(Memories)
    BY <1>1
  <2>2. \A m \in Memories : uses[m] \in UsedBefore[m]..(UsedBefore[m] + recalls)
    BY <1>1, ContextAssumption
  <2> QED
    BY <1>1, <1>2, <2>1, <2>2, ContextAssumption DEF ContextTypeOK
<1>5. UsageNeverBuries /\ PreferenceIsShown /\ ReplacedIsRetired
  BY <1>2 DEF UsageNeverBuries, PreferenceIsShown, ReplacedIsRetired
<1>6. ContextFitsTheBudget
  BY <1>3, ContextAssumption DEF ContextFitsTheBudget
<1> QED
  BY <1>4, <1>5, <1>6 DEF ContextInv

LEMMA ContextStep == ContextInv /\ [ContextNext]_contextVars => ContextInv'
<1> SUFFICES ASSUME ContextInv, [ContextNext]_contextVars PROVE ContextInv'
  OBVIOUS
<1>1. CASE UNCHANGED contextVars
  <2>1. ContextTypeOK' /\ UNCHANGED <<told, answer>>
    BY <1>1 DEF contextVars, ContextInv, ContextTypeOK, Shown
  <2>2. \A n, m \in ToSet(told) : Later(n, m)' <=> Later(n, m)
    BY <2>1 DEF Later
  <2> QED
    BY <2>1, <2>2, AnswerStands
<1>2. ASSUME NEW m \in Memories, Remember(m) PROVE ContextInv'
  BY <1>2, RememberIsRight
<1>3. ASSUME NEW m \in Memories, Archive(m) \/ Restore(m) PROVE ContextInv'
  BY <1>3, ArchiveIsRight
<1>4. ASSUME NEW path \in Paths, NEW q \in DOMAIN Questions, Recall(path, q) PROVE ContextInv'
  BY <1>4, RecallIsRight
<1> QED
  BY <1>1, <1>2, <1>3, <1>4 DEF ContextNext

\* Whatever was recalled before, use never buries a better match, the context keeps
\* to its budget without crowding preferences out, and nothing is shown that a
\* recalled statement replaces (md-memory-store.ts, memory-context-builder.ts,
\* conflict.ts).
THEOREM ContextHolds == ContextSpec => []ContextInv
<1>1. ContextInit => ContextInv
  BY ContextBegins
<1>2. ContextInv /\ [ContextNext]_contextVars => ContextInv'
  BY ContextStep
<1> QED
  BY <1>1, <1>2, PTL DEF ContextSpec
=============================================================================

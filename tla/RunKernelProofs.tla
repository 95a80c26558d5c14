-------------------------- MODULE RunKernelProofs --------------------------
(***************************************************************************)
(* Proofs about RunKernel, for every number of steps and every set of      *)
(* consumers, planners, approvers, rejecters and reviewers, and however    *)
(* often they crash or stall: no worker is started on a step that needs    *)
(* the owner's approval before that approval is in the journal, and no run *)
(* is completed before every step has its evidence there.                  *)
(* The argument is that a projection, however old, never knows of more     *)
(* approvals and of more evidence than the journal, which only grows; and  *)
(* that whoever is about to pass a verdict once had a projection with the  *)
(* evidence of every step.                                                 *)
(***************************************************************************)
EXTENDS RunKernel, TLAPS, WellFoundedInduction

ApprovedSteps == StepsOf(journal, "approved")
EvidencedSteps == StepsOf(journal, "evidence")
AllDone == Steps \subseteq EvidencedSteps

IsJournal == \E S : journal \in Seq(S)

\* An event about an approval or an evidence is nothing but that.
Shapes == \A i \in DOMAIN journal : \A t \in {"approved", "evidence"} :
  journal[i].type = t => journal[i] = StepEvent(t, journal[i].step)

SoundView(v) ==
  v.seen \in Nat /\ v.approvals \subseteq ApprovedSteps /\ v.evidence \subseteq EvidencedSteps

SoundExec(w) ==
  /\ w.at = "starting" /\ w.step \in NeedsApproval => w.step \in ApprovedSteps
  /\ w.at \in {"verifying", "reviewed"} => AllDone

\* A run that is judged, or left to the owner's judgement, has its evidence.
Verdicts == {"completed", "waiting_review"}
JudgedOnEvidence == \A i \in DOMAIN journal :
  journal[i].type = "status" /\ journal[i].status \in Verdicts =>
    \A s \in Steps : \E j \in 1..(i - 1) : journal[j] = StepEvent("evidence", s)

Findings == DOMAIN found = Consumers /\ \A c \in Consumers : found[c].to \in {"none", "failed", "queued"}

Actors == Executors \cup Rejecters \cup Reviewers

Sound ==
  /\ IsJournal /\ Shapes /\ Findings
  /\ DOMAIN view = Actors /\ DOMAIN exec = Actors
  /\ \A a \in Actors : SoundView(view[a]) /\ SoundExec(exec[a])
  /\ ApprovalBeforeWork /\ JudgedOnEvidence

-----------------------------------------------------------------------------
(* Two kinds of steps: some look at the journal, the others record one event *)
(* that they may record.                                                     *)

Looked(a) == view'[a] \in {view[a], EmptyView, Refreshed(view[a]), Truth}
Followed(a, e) == view'[a] \in {view[a], EmptyView, Applied(view[a], e)}
Moved(x) == exec'[x] = exec[x] \/ SoundExec(exec'[x])
SameActors == DOMAIN view' = DOMAIN view /\ DOMAIN exec' = DOMAIN exec

Fit(e) ==
  /\ \A t \in {"approved", "evidence"} : e.type = t => e = StepEvent(t, e.step)
  /\ e.type = "started" /\ e.step \in NeedsApproval => e.step \in ApprovedSteps
  /\ e.type = "status" /\ e.status \in Verdicts => AllDone

Looks == journal' = journal /\ SameActors /\ \A a \in Actors : Looked(a) /\ Moved(a)
Records(e) ==
  journal' = Append(journal, e) /\ Fit(e) /\ SameActors /\ \A a \in Actors : Followed(a, e) /\ Moved(a)
Reads == Looks \/ \E e : Records(e)

-----------------------------------------------------------------------------
(* Sets of natural numbers, and the last status of a sequence of events. *)

LEMMA Smallest ==
  ASSUME NEW S, S \subseteq Nat, S # {}
  PROVE  \E x \in S : \A y \in S : x <= y
<1> DEFINE R == OpToRel(<, Nat)
<1>1. IsWellFoundedOn(R, Nat)
  BY NatLessThanWellFounded
<1>2. \A x, y \in Nat : y < x => <<y, x>> \in R
  BY DEF OpToRel
<1> HIDE DEF R
<1>3. \E x \in S : \A y \in S : ~ (<<y, x>> \in R)
  BY <1>1, WFMin
<1>4. PICK x \in S : \A y \in S : ~ (<<y, x>> \in R)
  BY <1>3
<1>5. ASSUME NEW y \in S PROVE x <= y
  <2>1. x \in Nat /\ y \in Nat
    OBVIOUS
  <2>2. ~(y < x)
    BY <1>2, <1>4, <2>1
  <2> QED
    BY <2>1, <2>2
<1> QED
  BY <1>5

LEMMA Largest ==
  ASSUME NEW n \in Nat, NEW S, S \subseteq 0..n, S # {}
  PROVE  \E x \in S : \A y \in S : y <= x
<1> DEFINE T == {m \in Nat : n - m \in S}
<1>1. \A x \in S : x \in Nat /\ n - x \in T
  OBVIOUS
<1>2. T \subseteq Nat /\ T # {}
  BY <1>1
<1>3. PICK z \in T : \A y \in T : z <= y
  BY <1>2, Smallest
<1>4. ASSUME NEW y \in S PROVE y <= n - z
  <2>1. z <= n - y /\ y \in Nat /\ z \in Nat
    BY <1>1, <1>3
  <2> QED
    BY <2>1
<1>5. n - z \in S
  OBVIOUS
<1> QED
  BY <1>4, <1>5

LEMMA LastMarkIsLast ==
  ASSUME NEW events, NEW k \in Nat
  PROVE  LET i == LastMark(events, k)
         IN /\ i \in 0..k
            /\ \A j \in (i + 1)..k : events[j].type # "status"
            /\ i = 0 \/ events[i].type = "status"
<1> DEFINE S == {i \in 0..k : i = 0 \/ events[i].type = "status"}
<1>1. S \subseteq 0..k /\ 0 \in S
  OBVIOUS
<1>2. PICK i \in S : \A y \in S : y <= i
  BY <1>1, Largest
<1>3. ASSUME NEW j \in (i + 1)..k PROVE events[j].type # "status"
  BY <1>2
<1>4. \E m \in 0..k : /\ \A j \in (m + 1)..k : events[j].type # "status"
                      /\ m = 0 \/ events[m].type = "status"
  BY <1>3
<1> QED
  BY <1>4 DEF LastMark

LEMMA Grown ==
  ASSUME NEW s, NEW S, s \in Seq(S), NEW e
  PROVE  /\ Append(s, e) \in Seq(S \cup {e})
         /\ Len(s) \in Nat /\ DOMAIN s = 1..Len(s)
         /\ DOMAIN Append(s, e) = 1..(Len(s) + 1)
         /\ \A i \in 1..Len(s) : Append(s, e)[i] = s[i]
         /\ Append(s, e)[Len(s) + 1] = e
  <1>1. s \in Seq(S \cup {e})
    OBVIOUS
  <1> QED
    BY <1>1

LEMMA StepsGrow ==
  ASSUME IsJournal, NEW e, journal' = Append(journal, e), NEW t
  PROVE  /\ StepsOf(journal, t) \subseteq StepsOf(journal', t)
         /\ e.type = t => e.step \in StepsOf(journal', t)
<1>1. PICK S : journal \in Seq(S)
  BY DEF IsJournal
<1> QED
  BY <1>1, Grown DEF StepsOf

LEMMA StepsOfSuffix ==
  ASSUME NEW s, NEW S, s \in Seq(S), NEW k \in Nat, NEW t
  PROVE  StepsOf(SubSeq(s, k + 1, Len(s)), t) \subseteq StepsOf(s, t)
  BY DEF StepsOf

LEMMA RefreshedIsSound ==
  ASSUME IsJournal, NEW v, SoundView(v)
  PROVE  SoundView(Refreshed(v))
<1>1. PICK S : journal \in Seq(S)
  BY DEF IsJournal
<1> DEFINE tail == SubSeq(journal, v.seen + 1, Len(journal))
<1>2. /\ StepsOf(tail, "approved") \subseteq ApprovedSteps
      /\ StepsOf(tail, "evidence") \subseteq EvidencedSteps
  BY <1>1, StepsOfSuffix DEF SoundView, ApprovedSteps, EvidencedSteps
<1>3. Len(tail) \in Nat
  BY <1>1 DEF SoundView
<1>4. /\ Refreshed(v).seen = v.seen + Len(tail)
      /\ Refreshed(v).approvals = v.approvals \cup StepsOf(tail, "approved")
      /\ Refreshed(v).evidence = v.evidence \cup StepsOf(tail, "evidence")
  BY DEF Refreshed, Reduce
<1> QED
  BY <1>2, <1>3, <1>4 DEF SoundView

LEMMA EmptyIsSound == SoundView(EmptyView)
  BY DEF SoundView, EmptyView

LEMMA OneEvent ==
  ASSUME NEW e, NEW t, NEW s \in StepsOf(<<e>>, t)
  PROVE  e.type = t /\ s = e.step
  BY DEF StepsOf

\* What a writer makes of its own event is in the journal by then.
LEMMA AppliedIsSound ==
  ASSUME IsJournal, NEW v, SoundView(v), NEW e, journal' = Append(journal, e)
  PROVE  /\ Applied(v, e).seen \in Nat
         /\ Applied(v, e).approvals \subseteq ApprovedSteps'
         /\ Applied(v, e).evidence \subseteq EvidencedSteps'
<1>1. PICK S : journal \in Seq(S)
  BY DEF IsJournal
<1> DEFINE w == Reduce(v, <<e>>)
<1>2. /\ w.approvals = v.approvals \cup StepsOf(<<e>>, "approved")
      /\ w.evidence = v.evidence \cup StepsOf(<<e>>, "evidence")
  BY DEF Reduce
<1>3. /\ StepsOf(<<e>>, "approved") \subseteq ApprovedSteps'
      /\ StepsOf(<<e>>, "evidence") \subseteq EvidencedSteps'
  BY OneEvent, StepsGrow DEF ApprovedSteps, EvidencedSteps
<1>4. v.approvals \subseteq ApprovedSteps' /\ v.evidence \subseteq EvidencedSteps'
  BY StepsGrow DEF SoundView, ApprovedSteps, EvidencedSteps
<1>5. w.approvals \subseteq ApprovedSteps' /\ w.evidence \subseteq EvidencedSteps'
  BY <1>2, <1>3, <1>4
<1>6. Len(journal) + 1 \in Nat
  BY <1>1
<1>7. CASE CanReplay(w)
  <2>1. Applied(v, e) = [w EXCEPT !.seen = Len(journal) + 1]
    BY <1>7 DEF Applied
  <2>2. [w EXCEPT !.seen = Len(journal) + 1].seen = Len(journal) + 1
        /\ [w EXCEPT !.seen = Len(journal) + 1].approvals = w.approvals
        /\ [w EXCEPT !.seen = Len(journal) + 1].evidence = w.evidence
    BY DEF Reduce
  <2> QED
    BY <2>1, <2>2, <1>5, <1>6
<1>8. CASE ~CanReplay(w)
  BY <1>4, <1>8 DEF Applied, SoundView
<1> QED
  BY <1>7, <1>8

\* A run under review was left to its owner by a verdict on its evidence.
LEMMA ReviewedOnEvidence ==
  ASSUME IsJournal, Shapes, JudgedOnEvidence, Truth.status = "waiting_review"
  PROVE  AllDone
<1>1. PICK S : journal \in Seq(S)
  BY DEF IsJournal
<1>2. SubSeq(journal, 0 + 1, Len(journal)) = journal /\ Len(journal) \in Nat /\ DOMAIN journal = 1..Len(journal)
  BY <1>1
<1>3. Truth = Reduce(EmptyView, journal)
  BY <1>2 DEF Truth, Refreshed, EmptyView
<1> DEFINE i == LastMark(journal, Len(journal))
<1>4. StatusAfter(EmptyView, journal, Len(journal)) = "waiting_review"
  BY <1>3 DEF Reduce, Broken
<1>5. i # 0 /\ journal[i].status = "waiting_review"
  BY <1>4 DEF StatusAfter, EmptyView
<1>6. i \in DOMAIN journal /\ journal[i].type = "status"
  BY <1>2, <1>5, LastMarkIsLast
<1>7. ASSUME NEW s \in Steps PROVE s \in EvidencedSteps
  <2>1. PICK j \in 1..(i - 1) : journal[j] = StepEvent("evidence", s)
    BY <1>5, <1>6 DEF JudgedOnEvidence, Verdicts
  <2>2. j \in DOMAIN journal /\ journal[j].type = "evidence" /\ journal[j].step = s
    BY <1>2, <1>6, <2>1 DEF StepEvent
  <2> QED
    BY <2>2 DEF EvidencedSteps, StepsOf
<1> QED
  BY <1>7 DEF AllDone

LEMMA LooksKeeps ==
  ASSUME Sound, Looks, Findings'
  PROVE  Sound'
<1>1. /\ IsJournal' /\ Shapes' /\ ApprovalBeforeWork' /\ JudgedOnEvidence'
      /\ ApprovedSteps' = ApprovedSteps /\ EvidencedSteps' = EvidencedSteps
  BY DEF Sound, Looks, IsJournal, Shapes, ApprovalBeforeWork, JudgedOnEvidence, ApprovedSteps, EvidencedSteps
<1>2. ASSUME NEW a \in Actors PROVE SoundView(view'[a])
  BY <1>2, RefreshedIsSound, EmptyIsSound DEF Sound, Looks, Looked, Truth
<1>3. ASSUME NEW a \in Actors PROVE SoundExec(exec'[a])
  BY DEF Sound, Looks, Moved
<1>4. \A a \in Actors : SoundView(view[a])' /\ SoundExec(exec[a])'
  BY <1>1, <1>2, <1>3 DEF SoundView, SoundExec, AllDone
<1> QED
  BY <1>1, <1>4 DEF Sound, Looks, SameActors

LEMMA RecordsKeeps ==
  ASSUME Sound, NEW e, Records(e), Findings'
  PROVE  Sound'
<1>0. PICK S : journal \in Seq(S)
  BY DEF Sound, IsJournal
<1> DEFINE n == Len(journal) + 1
<1>a. journal' = Append(journal, e)
  BY DEF Records
<1>b. journal' \in Seq(S \cup {e})
  BY <1>0, <1>a, Grown
<1>c. IsJournal'
  BY <1>b DEF IsJournal
<1>1. /\ n \in Nat /\ DOMAIN journal = 1..Len(journal) /\ DOMAIN journal' = 1..n
      /\ journal'[n] = e /\ \A i \in DOMAIN journal : journal'[i] = journal[i]
  BY <1>0, <1>a, Grown
<1>2. Shapes'
  BY <1>1 DEF Sound, Shapes, Records, Fit
<1>3. ApprovedSteps \subseteq ApprovedSteps' /\ EvidencedSteps \subseteq EvidencedSteps'
  BY StepsGrow DEF Sound, Records, ApprovedSteps, EvidencedSteps
<1>4. ApprovalBeforeWork'
  <2> SUFFICES ASSUME NEW i \in 1..n, journal'[i].type = "started", journal'[i].step \in NeedsApproval
               PROVE  \E j \in 1..(i - 1) : journal'[j] = StepEvent("approved", journal'[i].step)
    BY <1>1 DEF ApprovalBeforeWork
  <2>1. CASE i # n
    <3>1. i \in DOMAIN journal /\ journal'[i] = journal[i]
      BY <1>1, <2>1
    <3>2. PICK j \in 1..(i - 1) : journal[j] = StepEvent("approved", journal[i].step)
      BY <3>1 DEF Sound, ApprovalBeforeWork
    <3> QED
      BY <1>1, <3>1, <3>2
  <2>2. CASE i = n
    <3>1. e.step \in ApprovedSteps /\ journal'[i] = e
      BY <1>1, <2>2 DEF Records, Fit
    <3>2. PICK j \in DOMAIN journal : journal[j].type = "approved" /\ journal[j].step = e.step
      BY <3>1 DEF ApprovedSteps, StepsOf
    <3>3. journal[j] = StepEvent("approved", e.step)
      BY <3>2 DEF Sound, Shapes
    <3> QED
      BY <1>1, <2>2, <3>1, <3>3
  <2> QED
    BY <2>1, <2>2
<1>5. JudgedOnEvidence'
  <2> SUFFICES ASSUME NEW i \in 1..n, journal'[i].type = "status", journal'[i].status \in Verdicts,
                      NEW s \in Steps
               PROVE  \E j \in 1..(i - 1) : journal'[j] = StepEvent("evidence", s)
    BY <1>1 DEF JudgedOnEvidence
  <2>1. CASE i # n
    <3>1. i \in DOMAIN journal /\ journal'[i] = journal[i]
      BY <1>1, <2>1
    <3>2. PICK j \in 1..(i - 1) : journal[j] = StepEvent("evidence", s)
      BY <3>1 DEF Sound, JudgedOnEvidence
    <3> QED
      BY <1>1, <3>1, <3>2
  <2>2. CASE i = n
    <3>1. s \in EvidencedSteps
      BY <1>1, <2>2 DEF Records, Fit, AllDone
    <3>2. PICK j \in DOMAIN journal : journal[j].type = "evidence" /\ journal[j].step = s
      BY <3>1 DEF EvidencedSteps, StepsOf
    <3>3. journal[j] = StepEvent("evidence", s)
      BY <3>2 DEF Sound, Shapes
    <3> QED
      BY <1>1, <2>2, <3>3
  <2> QED
    BY <2>1, <2>2
<1>6. ASSUME NEW a \in Actors PROVE SoundView(view[a])'
  <2>1. view'[a] \in {view[a], EmptyView, Applied(view[a], e)}
    BY DEF Records, Followed
  <2>2. IsJournal /\ SoundView(view[a]) /\ journal' = Append(journal, e)
    BY DEF Sound, Records
  <2>3. /\ Applied(view[a], e).seen \in Nat
        /\ Applied(view[a], e).approvals \subseteq ApprovedSteps'
        /\ Applied(view[a], e).evidence \subseteq EvidencedSteps'
    BY <2>2, AppliedIsSound
  <2> QED
    BY <1>3, <2>1, <2>2, <2>3 DEF SoundView, EmptyView
<1>7. ASSUME NEW a \in Actors PROVE SoundExec(exec[a])'
  BY <1>3 DEF Sound, Records, Moved, SoundExec, AllDone
<1> QED
  BY <1>c, <1>2, <1>4, <1>5, <1>6, <1>7 DEF Sound, Records, SameActors

-----------------------------------------------------------------------------
(* What the actions do to the executors, to the projections and to what a    *)
(* recovery found.                                                           *)

LEMMA OneGoes ==
  ASSUME Sound, NEW x, NEW where, NEW step, Goto(x, where, step),
         where = "starting" /\ step \in NeedsApproval => step \in ApprovedSteps,
         where \in {"verifying", "reviewed"} => AllDone
  PROVE  DOMAIN exec' = DOMAIN exec /\ \A a \in Actors : Moved(a)
<1>1. SoundExec([at |-> where, step |-> step])
  BY DEF SoundExec
<1> QED
  BY <1>1 DEF Sound, Goto, Moved

LEMMA NobodyGoes ==
  ASSUME UNCHANGED exec
  PROVE  DOMAIN exec' = DOMAIN exec /\ \A a \in Actors : Moved(a)
  BY DEF Moved

LEMMA OneLooksAgain ==
  ASSUME Sound, NEW x, NEW v, v \in {view[x], EmptyView, Refreshed(view[x]), Truth},
         view' = [view EXCEPT ![x] = v]
  PROVE  DOMAIN view' = DOMAIN view /\ \A a \in Actors : Looked(a)
  BY DEF Sound, Looked

LEMMA NobodyLooks ==
  ASSUME UNCHANGED view
  PROVE  /\ DOMAIN view' = DOMAIN view
         /\ \A a \in Actors : Looked(a)
         /\ \A e : \A a \in Actors : Followed(a, e)
  BY DEF Looked, Followed

LEMMA OneWrites ==
  ASSUME Sound, NEW x, NEW e, Write(x, e)
  PROVE  DOMAIN view' = DOMAIN view /\ \A a \in Actors : Followed(a, e)
  BY DEF Sound, Write, Followed

LEMMA OneEnds ==
  ASSUME Sound, NEW x, Ends(x)
  PROVE  /\ SameActors
         /\ \A a \in Actors : Looked(a) /\ Moved(a)
         /\ \A e : \A a \in Actors : Followed(a, e)
<1>1. DOMAIN exec' = DOMAIN exec /\ \A a \in Actors : Moved(a)
  BY OneGoes DEF Ends
<1>2. DOMAIN view' = DOMAIN view /\ \A a \in Actors : Looked(a)
  BY OneLooksAgain DEF Ends
<1>3. \A e : \A a \in Actors : Followed(a, e)
  BY DEF Ends, Sound, Followed
<1> QED
  BY <1>1, <1>2, <1>3 DEF SameActors

LEMMA StatusFits ==
  ASSUME NEW s, s \in Verdicts => AllDone, NEW step
  PROVE  Fit(StatusEvent(s, step))
  BY DEF Fit, StatusEvent

LEMMA StatusIsRecorded ==
  ASSUME Sound, NEW x, NEW s, s \in Verdicts => AllDone,
         NEW step, NEW next, ChangeStatus(x, s, step, next),
         next = "starting" /\ step \in NeedsApproval => step \in ApprovedSteps,
         next \in {"verifying", "reviewed"} => AllDone
  PROVE  Reads
<1>1. DOMAIN exec' = DOMAIN exec /\ \A a \in Actors : Moved(a)
  <2>1. CASE Goto(x, next, step)
    BY <2>1, OneGoes
  <2>2. CASE Goto(x, "releasing", 0)
    BY <2>2, OneGoes
  <2> QED
    BY <2>1, <2>2 DEF ChangeStatus
<1>2. Write(x, StatusEvent(s, step))
  BY DEF ChangeStatus
<1>3. Records(StatusEvent(s, step))
  BY <1>1, <1>2, OneWrites, StatusFits DEF Records, SameActors, Write
<1> QED
  BY <1>3 DEF Reads

LEMMA FindingsKept ==
  ASSUME Findings, [Next]_vars
  PROVE  Findings'
<1>1. CASE UNCHANGED found
  BY <1>1 DEF Findings
<1>2. ASSUME NEW c, NEW w, found' = [found EXCEPT ![c] = w], w.to \in {"none", "failed", "queued"}
      PROVE  Findings'
  BY <1>2 DEF Findings
<1>3. ASSUME NEW c, Tick(c) PROVE Findings'
  BY <1>1, <1>2, <1>3 DEF Tick, TickRefresh, ClaimOrphan, InspectPlan, InspectRun, RecordRecovery,
    ReleaseOrphan, ClaimQueued, Dispatch, Drop, NoFinding
<1>4. ASSUME NEW x, Crash(x) PROVE Findings'
  BY <1>1, <1>2, <1>4 DEF Crash, NoFinding
<1>5. ASSUME NEW x, \/ ExecuteDirect(x) \/ Execute(x) \/ Plan(x) \/ StartApproval(x) \/ GrantApproval(x)
                    \/ StartRejection(x) \/ Reject(x) \/ ClaimReview(x) \/ Review(x)
      PROVE  UNCHANGED found
  BY <1>5 DEF ExecuteDirect, ClaimDirect, RefreshDirect, Execute, Fenced, Decide, StartWork, Work,
    RecordEvidence, FailStep, RecordVerdict, Release, Plan, AttachPlan, AbandonPlan, StartApproval,
    GrantApproval, StartRejection, Reject, ClaimReview, Review, RefreshReview, RecordReview
<1>6. CASE Cancel \/ Age \/ Stall \/ Expire \/ UNCHANGED vars
  BY <1>1, <1>6 DEF Cancel, Age, Stall, Expire, vars
<1> QED
  BY <1>1, <1>3, <1>4, <1>5, <1>6 DEF Next

\* The steps of the plan, the decisions of the owner.
LEMMA OwnersStep ==
  ASSUME Sound, NEW x, AttachPlan(x) \/ AbandonPlan(x) \/ StartApproval(x) \/ GrantApproval(x)
                       \/ StartRejection(x) \/ Reject(x)
  PROVE  Reads
<1>1. CASE AttachPlan(x)
  <2>1. CASE Ends(x) /\ UNCHANGED journal
    BY <2>1, OneEnds DEF Reads, Looks
  <2>2. CASE Ends(x) /\ journal' = Append(journal, StatusEvent("queued", 0))
    BY <2>2, OneEnds, StatusFits DEF Verdicts, Reads, Records
  <2>3. CASE Write(x, StatusEvent("queued", 0)) /\ Goto(x, "granted", 0)
    BY <2>3, OneWrites, OneGoes, StatusFits DEF Verdicts, Reads, Records, SameActors, Write
  <2> QED
    BY <1>1, <2>1, <2>2, <2>3 DEF AttachPlan, Write
<1>2. CASE AbandonPlan(x) \/ Reject(x)
  <2>1. Ends(x) /\ (UNCHANGED journal \/ journal' = Append(journal, StatusEvent("failed", 0)))
    BY <1>2 DEF AbandonPlan, Reject
  <2> QED
    BY <2>1, OneEnds, StatusFits DEF Verdicts, Reads, Looks, Records
<1>3. CASE StartApproval(x)
  <2>1. Goto(x, "granting", Truth.active) /\ view' = [view EXCEPT ![x] = Truth] /\ UNCHANGED journal
    BY <1>3 DEF StartApproval
  <2> QED
    BY <2>1, OneGoes, OneLooksAgain DEF Reads, Looks, SameActors
<1>4. CASE StartRejection(x)
  <2>1. Goto(x, "rejecting", 0) /\ view' = [view EXCEPT ![x] = Truth] /\ UNCHANGED journal
    BY <1>4 DEF StartRejection
  <2> QED
    BY <2>1, OneGoes, OneLooksAgain DEF Reads, Looks, SameActors
<1>5. CASE GrantApproval(x)
  <2> DEFINE e == StepEvent("approved", exec[x].step)
  <2>1. CASE Ends(x) /\ UNCHANGED journal
    BY <2>1, OneEnds DEF Reads, Looks
  <2>2. CASE Write(x, e) /\ Goto(x, "granted", 0)
    <3>1. Fit(e)
      BY DEF Fit, StepEvent
    <3> QED
      BY <2>2, <3>1, OneWrites, OneGoes DEF Reads, Records, SameActors, Write
  <2> QED
    BY <1>5, <2>1, <2>2 DEF GrantApproval
<1> QED
  BY <1>1, <1>2, <1>3, <1>4, <1>5

\* Executions: a worker is started where the projection knows of the approval.
LEMMA ExecutionsStep ==
  ASSUME Sound, NEW x \in Actors, ClaimDirect(x) \/ RefreshDirect(x) \/ Execute(x)
  PROVE  Reads
<1>1. CASE ClaimDirect(x)
  <2>1. CASE Ends(x)
    BY <1>1, <2>1, OneEnds DEF ClaimDirect, Reads, Looks
  <2>2. CASE Goto(x, "claimed", 0) /\ UNCHANGED view
    BY <1>1, <2>2, OneGoes, NobodyLooks DEF ClaimDirect, Reads, Looks, SameActors
  <2> QED
    BY <1>1, <2>1, <2>2 DEF ClaimDirect
<1>2. CASE RefreshDirect(x)
  <2>1. UNCHANGED journal
    BY <1>2 DEF RefreshDirect
  <2>2. CASE view' = [view EXCEPT ![x] = Refreshed(view[x])] /\ Goto(x, "deciding", 0)
    BY <2>1, <2>2, OneGoes, OneLooksAgain DEF Reads, Looks, SameActors
  <2>3. CASE UNCHANGED view /\ Goto(x, "releasing", 0)
    BY <2>1, <2>3, OneGoes, NobodyLooks DEF Reads, Looks, SameActors
  <2> QED
    BY <1>2, <2>2, <2>3 DEF RefreshDirect
<1>3. CASE Fenced(x)
  BY <1>3, OneGoes, NobodyLooks DEF Fenced, Reads, Looks, SameActors
<1>4. CASE Decide(x)
  <2> DEFINE v == view[x]
             step == Min(Steps \ v.evidence)
  <2>1. v.approvals \subseteq ApprovedSteps
    BY DEF Sound, SoundView
  <2>a. CASE Steps \ v.evidence = {} /\ ChangeStatus(x, "verifying", 0, "verifying")
    <3>1. AllDone
      BY <2>a DEF Sound, SoundView, AllDone
    <3> QED
      BY <2>a, <3>1, StatusIsRecorded DEF Verdicts
  <2>2. PICK s, t, next : \/ Steps \ v.evidence = {} /\ ChangeStatus(x, "verifying", 0, "verifying")
                          \/ /\ ChangeStatus(x, s, t, next) /\ s \notin Verdicts
                             /\ next \notin {"verifying", "reviewed"}
                             /\ next = "starting" => t = step /\ (step \in NeedsApproval => step \in v.approvals)
                          \/ Goto(x, "starting", step) /\ UNCHANGED <<journal, view>> /\ (step \in NeedsApproval => step \in v.approvals)
    BY <1>4 DEF Decide, Verdicts
  <2>3. CASE /\ ChangeStatus(x, s, t, next) /\ s \notin Verdicts
             /\ next \notin {"verifying", "reviewed"}
             /\ next = "starting" => t = step /\ (step \in NeedsApproval => step \in v.approvals)
    BY <2>1, <2>3, StatusIsRecorded
  <2>4. CASE Goto(x, "starting", step) /\ UNCHANGED <<journal, view>> /\ (step \in NeedsApproval => step \in v.approvals)
    BY <2>1, <2>4, OneGoes, NobodyLooks DEF Reads, Looks, SameActors
  <2> QED
    BY <2>a, <2>2, <2>3, <2>4
<1>5. CASE StartWork(x)
  <2> DEFINE e == StepEvent("started", exec[x].step)
  <2>1. Fit(e)
    BY <1>5 DEF Fit, StepEvent, StartWork, At, Sound, SoundExec
  <2>2. Goto(x, "working", exec[x].step) /\ Write(x, e)
    BY <1>5 DEF StartWork
  <2>3. DOMAIN exec' = DOMAIN exec /\ \A a \in Actors : Moved(a)
    BY <2>2, OneGoes
  <2> QED
    BY <2>1, <2>2, <2>3, OneWrites DEF Reads, Records, SameActors, Write
<1>6. CASE Work(x)
  BY <1>6, OneGoes, NobodyLooks DEF Work, Reads, Looks, SameActors
<1>7. CASE RecordEvidence(x)
  <2> DEFINE e == StepEvent("evidence", exec[x].step)
  <2>1. Fit(e)
    BY DEF Fit, StepEvent
  <2>2. Goto(x, "deciding", 0) /\ Write(x, e)
    BY <1>7 DEF RecordEvidence
  <2> QED
    BY <2>1, <2>2, OneGoes, OneWrites DEF Reads, Records, SameActors, Write
<1>8. CASE FailStep(x)
  BY <1>8, StatusIsRecorded DEF FailStep, Verdicts
<1>9. CASE RecordVerdict(x)
  <2>1. AllDone
    BY <1>9 DEF Sound, SoundExec, RecordVerdict, At
  <2> QED
    BY <1>9, <2>1, StatusIsRecorded DEF RecordVerdict
<1>10. CASE Release(x)
  <2>1. CASE Ends(x)
    BY <1>10, <2>1, OneEnds DEF Release, Reads, Looks
  <2>2. CASE Goto(x, "idle", 0) /\ UNCHANGED view
    BY <1>10, <2>2, OneGoes, NobodyLooks DEF Release, Reads, Looks, SameActors
  <2> QED
    BY <1>10, <2>1, <2>2 DEF Release
<1> QED
  BY <1>1, <1>2, <1>3, <1>4, <1>5, <1>6, <1>7, <1>8, <1>9, <1>10 DEF Execute

LEMMA ReviewsStep ==
  ASSUME Sound, NEW x \in Actors, ClaimReview(x) \/ Review(x)
  PROVE  Reads
<1>1. CASE ClaimReview(x)
  BY <1>1, OneGoes, NobodyLooks DEF ClaimReview, Reads, Looks, SameActors
<1>2. CASE RefreshReview(x)
  <2>1. PICK where : Goto(x, where, 0) /\ where \notin {"starting", "verifying"} /\ (where = "reviewed" => AllDone)
    BY <1>2, ReviewedOnEvidence DEF RefreshReview, Sound
  <2>2. view' = [view EXCEPT ![x] = Truth] /\ UNCHANGED journal
    BY <1>2 DEF RefreshReview
  <2> QED
    BY <2>1, <2>2, OneGoes, OneLooksAgain DEF Reads, Looks, SameActors
<1>3. CASE RecordReview(x)
  <2>1. CASE \E s \in {"completed", "failed"} : ChangeStatus(x, s, 0, "releasing")
    <3>1. AllDone
      BY <1>3 DEF Sound, SoundExec, RecordReview, At
    <3> QED
      BY <2>1, <3>1, StatusIsRecorded
  <2>2. CASE Goto(x, "releasing", 0) /\ UNCHANGED <<journal, view>>
    BY <2>2, OneGoes, NobodyLooks DEF Reads, Looks, SameActors
  <2> QED
    BY <1>3, <2>1, <2>2 DEF RecordReview
<1> QED
  BY <1>1, <1>2, <1>3, ExecutionsStep DEF Review, Execute

\* The tick of a consumer looks, or records what its recovery found.
LEMMA TicksStep ==
  ASSUME Sound, NEW c \in Consumers, Tick(c)
  PROVE  Reads
<1>1. CASE /\ UNCHANGED <<journal, exec>>
           /\ UNCHANGED view \/ view' = [view EXCEPT ![c] = Refreshed(view[c])]
  BY <1>1, NobodyGoes, NobodyLooks, OneLooksAgain DEF Reads, Looks, SameActors
<1>2. CASE RecordRecovery(c)
  <2> DEFINE e == StatusEvent(found[c].to, IF found[c].base # 0 THEN 0 ELSE view[c].active)
  <2>1. UNCHANGED exec /\ (Write(c, e) \/ UNCHANGED <<journal, view>>)
    BY <1>2 DEF RecordRecovery
  <2>2. CASE Write(c, e)
    <3>1. found[c].to \notin Verdicts
      BY DEF Sound, Findings, Verdicts
    <3> QED
      BY <2>1, <2>2, <3>1, NobodyGoes, OneWrites, StatusFits DEF Reads, Records, SameActors, Write
  <2> QED
    BY <1>1, <2>1, <2>2
<1>3. CASE Dispatch(c)
  <2>1. UNCHANGED journal /\ (UNCHANGED view \/ view' = [view EXCEPT ![c] = Refreshed(view[c])])
    BY <1>3 DEF Dispatch
  <2>2. Goto(c, "deciding", 0) \/ UNCHANGED exec
    BY <1>3 DEF Dispatch
  <2> QED
    BY <2>1, <2>2, OneGoes, NobodyGoes, NobodyLooks, OneLooksAgain DEF Reads, Looks, SameActors
<1>4. CASE TickRefresh(c) \/ InspectPlan(c) \/ InspectRun(c)
  BY <1>1, <1>4 DEF TickRefresh, InspectPlan, InspectRun
<1>5. CASE ClaimOrphan(c) \/ ReleaseOrphan(c) \/ ClaimQueued(c) \/ Drop(c)
  BY <1>1, <1>5 DEF ClaimOrphan, ReleaseOrphan, ClaimQueued, Drop
<1> QED
  BY <1>2, <1>3, <1>4, <1>5 DEF Tick

LEMMA RestStep ==
  ASSUME Sound, Cancel \/ Age \/ Stall \/ Expire \/ (\E x \in Actors : Crash(x)) \/ UNCHANGED vars
  PROVE  Reads
<1>1. CASE Cancel
  BY <1>1, NobodyGoes, NobodyLooks, StatusFits DEF Cancel, Verdicts, Reads, Records, SameActors
<1>2. CASE Age \/ Stall \/ Expire \/ UNCHANGED vars
  BY <1>2, NobodyGoes, NobodyLooks DEF Age, Stall, Expire, vars, Reads, Looks, SameActors
<1>3. ASSUME NEW x \in Actors, Crash(x) PROVE Reads
  <2>1. PICK where : Goto(x, where, 0) /\ where \notin {"starting", "verifying", "reviewed"}
    BY <1>3 DEF Crash
  <2>2. view' = [view EXCEPT ![x] = EmptyView] /\ UNCHANGED journal
    BY <1>3 DEF Crash
  <2> QED
    BY <2>1, <2>2, OneGoes, OneLooksAgain DEF Reads, Looks, SameActors
<1> QED
  BY <1>1, <1>2, <1>3

LEMMA SoundAtFirst ==
  ASSUME Init
  PROVE  Sound
<1> DEFINE e == StatusEvent("planning", 0)
<1>1. journal = <<e>> /\ <<e>> \in Seq({e}) /\ DOMAIN <<e>> = 1..1 /\ <<e>>[1] = e
  BY DEF Init
<1>2. e.type = "status"
  BY DEF StatusEvent
<1>3. IsJournal
  BY <1>1 DEF IsJournal
<1>4. Shapes /\ ApprovalBeforeWork /\ JudgedOnEvidence
  BY <1>1, <1>2 DEF Shapes, ApprovalBeforeWork, JudgedOnEvidence, Verdicts, StatusEvent
<1>5. ASSUME NEW a \in Actors PROVE SoundView(view[a])
  <2>1. view[a] \in {Truth, EmptyView}
    BY <1>5 DEF Init, Actors
  <2> QED
    BY <2>1, <1>3, RefreshedIsSound, EmptyIsSound DEF Truth
<1>6. ASSUME NEW a \in Actors PROVE SoundExec(exec[a])
  BY <1>6 DEF Init, Actors, SoundExec
<1>7. DOMAIN view = Actors /\ DOMAIN exec = Actors /\ Findings
  BY DEF Init, Actors, Findings, NoFinding
<1> QED
  BY <1>3, <1>4, <1>5, <1>6, <1>7 DEF Sound

LEMMA SoundStays ==
  ASSUME Sound, [Next]_vars
  PROVE  Sound'
<1>0. Findings'
  BY FindingsKept DEF Sound
<1>1. Direct \subseteq Actors /\ Consumers \subseteq Actors /\ Reviewers \subseteq Actors
  BY DEF Direct, Actors, Executors
<1>2. CASE \E c \in Consumers : Tick(c)
  BY <1>0, <1>2, TicksStep, LooksKeeps, RecordsKeeps DEF Reads
<1>3. CASE \/ \E c \in Consumers : Execute(c)
           \/ \E x \in Direct : ExecuteDirect(x)
  BY <1>0, <1>1, <1>3, ExecutionsStep, LooksKeeps, RecordsKeeps DEF Reads, ExecuteDirect
<1>4. CASE \/ \E p \in Planners : Plan(p)
           \/ \E a \in Approvers : StartApproval(a) \/ GrantApproval(a)
           \/ \E x \in Rejecters : StartRejection(x) \/ Reject(x)
  BY <1>0, <1>4, OwnersStep, LooksKeeps, RecordsKeeps DEF Reads, Plan
<1>5. CASE \E r \in Reviewers : ClaimReview(r) \/ Review(r)
  BY <1>0, <1>1, <1>5, ReviewsStep, LooksKeeps, RecordsKeeps DEF Reads
<1>6. CASE Cancel \/ Age \/ Stall \/ Expire \/ (\E x \in Actors : Crash(x)) \/ UNCHANGED vars
  BY <1>0, <1>6, RestStep, LooksKeeps, RecordsKeeps DEF Reads
<1> QED
  BY <1>2, <1>3, <1>4, <1>5, <1>6 DEF Next, Actors

LEMMA AlwaysSound == Spec => []Sound
  BY SoundAtFirst, SoundStays, PTL DEF Spec

\* Whoever decided, whenever, and whatever happened to it since: no worker is
\* started on a step the owner has to approve without that approval in the
\* journal before it (executeOwned in runtime.ts).
THEOREM ApprovalsComeFirst == Spec => []ApprovalBeforeWork
<1>1. Sound => ApprovalBeforeWork
  BY DEF Sound
<1> QED
  BY <1>1, AlwaysSound, PTL

\* A run is completed, by its executor or by the owner's review, only when the
\* evidence of every step is in the journal, from whatever projection the
\* verdict was passed (executeOwned and reviewVerificationOwned in runtime.ts).
THEOREM VerdictsComeLast == Spec => []CompletedHasEvidence
<1>1. Sound => CompletedHasEvidence
  BY DEF Sound, JudgedOnEvidence, Verdicts, CompletedHasEvidence
<1> QED
  BY <1>1, AlwaysSound, PTL
=============================================================================

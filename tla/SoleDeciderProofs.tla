------------------------- MODULE SoleDeciderProofs -------------------------
(***************************************************************************)
(* Proofs about RunKernel where one process decides for the owner: there   *)
(* is one approver and no rejecter, or no approver, and no planner works   *)
(* on a plan that the queue may stop for approval.  Then, for every number *)
(* of steps and of consumers and however often they crash or stall, the    *)
(* journal is one sequential history.                                      *)
(*                                                                         *)
(* The argument: an actor writes with the whole journal in its projection, *)
(* either because it holds the claim, and whoever may write without it is  *)
(* excluded by the status of the run, or because its write is conditional  *)
(* on that status.  What it writes is a legal successor of that status.    *)
(***************************************************************************)
EXTENDS RunKernelProofs, FiniteSetTheorems

\* The hypotheses.  Without the first a run that goes back to the queue with
\* the evidence of every step records `verifying` after `queued`; without the
\* second an approval, or a planner, goes on from what another process decided.
SoleDecider ==
  /\ External # {} \/ RetrySafe # Steps
  /\ \/ NeedsApproval = {}
     \/ /\ Planners = Proposers
        /\ Approvers = {} \/ (Rejecters = {} /\ \A a, b \in Approvers : a = b)

-----------------------------------------------------------------------------
(* What the journal says after its first k events, and now.                  *)

ActiveAfter(events, k) == LET i == LastMark(events, k) IN IF i = 0 THEN 0 ELSE events[i].step
StepsAfter(events, k, t) == {events[i].step : i \in {m \in 1..k : events[m].type = t}}

ViewAfter(events, k) ==
  [seen |-> k, status |-> StatusAfter(EmptyView, events, k), active |-> ActiveAfter(events, k),
   approvals |-> StepsAfter(events, k, "approved"), evidence |-> StepsAfter(events, k, "evidence")]

Now == ViewAfter(journal, Len(journal))

\* What an event makes of a projection that accepts it.
Told(v, e) ==
  [seen |-> v.seen + 1,
   status |-> IF e.type = "status" THEN e.status ELSE v.status,
   active |-> IF e.type = "status" THEN e.step ELSE v.active,
   approvals |-> IF e.type = "approved" THEN v.approvals \cup {e.step} ELSE v.approvals,
   evidence |-> IF e.type = "evidence" THEN v.evidence \cup {e.step} ELSE v.evidence]

LEMMA MarkIs ==
  ASSUME NEW events, NEW k \in Nat, NEW i \in 0..k,
         \A j \in (i + 1)..k : events[j].type # "status",
         i = 0 \/ events[i].type = "status"
  PROVE  LastMark(events, k) = i
<1> DEFINE m == LastMark(events, k)
<1>1. /\ m \in 0..k
      /\ \A j \in (m + 1)..k : events[j].type # "status"
      /\ m = 0 \/ events[m].type = "status"
  BY LastMarkIsLast
<1> HIDE DEF m
<1>2. ~(m < i) /\ ~(i < m)
  BY <1>1
<1>3. m = i
  BY <1>1, <1>2
<1> QED
  BY <1>3 DEF m

LEMMA SameMark ==
  ASSUME NEW f, NEW g, NEW k \in Nat, \A i \in 1..k : f[i] = g[i]
  PROVE  LastMark(f, k) = LastMark(g, k)
<1> DEFINE m == LastMark(g, k)
<1>1. /\ m \in 0..k
      /\ \A j \in (m + 1)..k : g[j].type # "status"
      /\ m = 0 \/ g[m].type = "status"
  BY LastMarkIsLast
<1> HIDE DEF m
<1>2. \A j \in (m + 1)..k : f[j].type # "status"
  BY <1>1
<1>3. m = 0 \/ f[m].type = "status"
  BY <1>1
<1>4. LastMark(f, k) = m
  BY <1>1, <1>2, <1>3, MarkIs
<1> QED
  BY <1>4 DEF m

\* The past stays as it is.
LEMMA PastStays ==
  ASSUME NEW S, NEW s \in Seq(S), NEW e, NEW k \in 0..Len(s)
  PROVE  ViewAfter(Append(s, e), k) = ViewAfter(s, k)
<1> DEFINE t == Append(s, e)
           m == LastMark(s, k)
<1>1. k \in Nat /\ \A i \in 1..k : t[i] = s[i]
  BY Grown
<1>2. LastMark(t, k) = m
  BY <1>1, SameMark
<1>3. m \in 0..k
  BY <1>1, LastMarkIsLast
<1> HIDE DEF t, m
<1>4. m # 0 => t[m] = s[m]
  BY <1>1, <1>3
<1>5. StatusAfter(EmptyView, t, k) = StatusAfter(EmptyView, s, k) /\ ActiveAfter(t, k) = ActiveAfter(s, k)
  BY <1>2, <1>4 DEF StatusAfter, ActiveAfter, m
<1>6. ASSUME NEW u PROVE StepsAfter(t, k, u) = StepsAfter(s, k, u)
  <2>1. {j \in 1..k : t[j].type = u} = {j \in 1..k : s[j].type = u}
    BY <1>1
  <2> QED
    BY <1>1, <2>1 DEF StepsAfter
<1>7. ViewAfter(t, k) = ViewAfter(s, k)
  BY <1>5, <1>6 DEF ViewAfter
<1> QED
  BY <1>7 DEF t

LEMMA NextIsTold ==
  ASSUME NEW S, NEW s \in Seq(S), NEW e
  PROVE  ViewAfter(Append(s, e), Len(s) + 1) = Told(ViewAfter(s, Len(s)), e)
<1> DEFINE t == Append(s, e)
           n == Len(s)
           m == LastMark(s, n)
<1>1. /\ n \in Nat /\ Len(t) = n + 1
      /\ \A i \in 1..n : t[i] = s[i]
      /\ t[n + 1] = e
  BY Grown
<1>2. /\ m \in 0..n
      /\ \A j \in (m + 1)..n : s[j].type # "status"
      /\ m = 0 \/ s[m].type = "status"
  BY <1>1, LastMarkIsLast
<1> HIDE DEF t, n, m
<1>3. LastMark(t, n + 1) = IF e.type = "status" THEN n + 1 ELSE m
  <2>1. CASE e.type = "status"
    <3>1. /\ n + 1 \in Nat /\ n + 1 \in 0..(n + 1)
          /\ \A j \in ((n + 1) + 1)..(n + 1) : t[j].type # "status"
          /\ t[n + 1].type = "status"
      BY <1>1, <2>1
    <3>2. LastMark(t, n + 1) = n + 1
      BY <3>1, MarkIs
    <3> QED
      BY <2>1, <3>2
  <2>2. CASE e.type # "status"
    <3>1. m \in 0..(n + 1) /\ n + 1 \in Nat
      BY <1>1, <1>2
    <3>2. ASSUME NEW j \in (m + 1)..(n + 1) PROVE t[j].type # "status"
      <4>1. j = n + 1 \/ (j \in (m + 1)..n /\ j \in 1..n)
        BY <1>1, <1>2
      <4>2. CASE j = n + 1
        BY <1>1, <2>2, <4>2
      <4>3. CASE j \in (m + 1)..n /\ j \in 1..n
        BY <1>1, <1>2, <4>3
      <4> QED
        BY <4>1, <4>2, <4>3
    <3>3. m = 0 \/ t[m].type = "status"
      BY <1>1, <1>2
    <3>4. LastMark(t, n + 1) = m
      BY <3>1, <3>2, <3>3, MarkIs
    <3> QED
      BY <2>2, <3>4
  <2> QED
    BY <2>1, <2>2
<1>4. ASSUME NEW u
      PROVE  StepsAfter(t, n + 1, u) = IF e.type = u THEN StepsAfter(s, n, u) \cup {e.step} ELSE StepsAfter(s, n, u)
  <2>1. {j \in 1..(n + 1) : t[j].type = u} =
          IF e.type = u THEN {j \in 1..n : s[j].type = u} \cup {n + 1} ELSE {j \in 1..n : s[j].type = u}
    BY <1>1
  <2>2. \A j \in {i \in 1..n : s[i].type = u} : t[j].step = s[j].step
    BY <1>1
  <2> QED
    BY <1>1, <2>1, <2>2 DEF StepsAfter
<1>5. m # 0 => t[m] = s[m]
  BY <1>1, <1>2
<1>6. n + 1 # 0
  BY <1>1
<1>7. ActiveAfter(t, n + 1) = IF e.type = "status" THEN e.step ELSE ActiveAfter(s, n)
  BY <1>1, <1>3, <1>5, <1>6 DEF ActiveAfter, m
<1>8. StatusAfter(EmptyView, t, n + 1) =
        IF e.type = "status" THEN e.status ELSE StatusAfter(EmptyView, s, n)
  BY <1>1, <1>3, <1>5, <1>6 DEF StatusAfter, m
<1>9. ViewAfter(t, n + 1) = Told(ViewAfter(s, n), e)
  BY <1>4, <1>7, <1>8 DEF ViewAfter, Told
<1> QED
  BY <1>9 DEF t, n

\* What a projection of the first k events reads behind them.
LEMMA CatchingUp ==
  ASSUME NEW S, NEW s \in Seq(S), NEW k \in 0..Len(s)
  PROVE  LET tail == SubSeq(s, k + 1, Len(s))
             v == ViewAfter(s, k)
         IN /\ k + Len(tail) = Len(s)
            /\ \A i \in 0..Len(tail) : StatusAfter(v, tail, i) = StatusAfter(EmptyView, s, k + i)
            /\ (IF LastMark(tail, Len(tail)) = 0 THEN v.active ELSE tail[LastMark(tail, Len(tail))].step)
                 = ActiveAfter(s, Len(s))
            /\ \A u : StepsAfter(s, k, u) \cup StepsOf(tail, u) = StepsAfter(s, Len(s), u)
<1> DEFINE tail == SubSeq(s, k + 1, Len(s))
           v == ViewAfter(s, k)
           m == LastMark(s, k)
<1>1. /\ k \in Nat /\ Len(s) \in Nat /\ k <= Len(s)
      /\ Len(tail) = Len(s) - k /\ DOMAIN tail = 1..(Len(s) - k)
      /\ \A i \in 1..(Len(s) - k) : tail[i] = s[k + i]
  OBVIOUS
<1>2. /\ m \in 0..k
      /\ \A j \in (m + 1)..k : s[j].type # "status"
      /\ m = 0 \/ s[m].type = "status"
  BY <1>1, LastMarkIsLast
<1> HIDE DEF tail, m
<1>3. ASSUME NEW i \in 0..(Len(s) - k)
      PROVE  LastMark(s, k + i) = IF LastMark(tail, i) = 0 THEN m ELSE k + LastMark(tail, i)
  <2> DEFINE j == LastMark(tail, i)
  <2>1. /\ j \in 0..i
        /\ \A l \in (j + 1)..i : tail[l].type # "status"
        /\ j = 0 \/ tail[j].type = "status"
    BY LastMarkIsLast
  <2> HIDE DEF j
  <2>2. ASSUME NEW l \in (k + j + 1)..(k + i) PROVE s[l].type # "status"
    <3>1. l - k \in (j + 1)..i /\ l - k \in 1..(Len(s) - k) /\ k + (l - k) = l
      BY <1>1, <2>1
    <3> QED
      BY <1>1, <2>1, <3>1
  <2>3. CASE j = 0
    <3>1. m \in 0..(k + i) /\ k + i \in Nat
      BY <1>1, <1>2
    <3>2. ASSUME NEW l \in (m + 1)..(k + i) PROVE s[l].type # "status"
      <4>1. l \in (m + 1)..k \/ l \in (k + j + 1)..(k + i)
        BY <1>1, <1>2, <2>3
      <4> QED
        BY <1>2, <2>2, <4>1
    <3>3. LastMark(s, k + i) = m
      BY <1>2, <3>1, <3>2, MarkIs
    <3> QED
      BY <2>3, <3>3 DEF j
  <2>4. CASE j # 0
    <3>1. k + j \in 0..(k + i) /\ k + i \in Nat /\ j \in 1..(Len(s) - k)
      BY <1>1, <2>1, <2>4
    <3>2. s[k + j].type = "status"
      BY <1>1, <2>1, <2>4, <3>1
    <3>3. LastMark(s, k + i) = k + j
      BY <2>2, <3>1, <3>2, MarkIs
    <3> QED
      BY <2>4, <3>3 DEF j
  <2> QED
    BY <2>3, <2>4
<1>4. ASSUME NEW i \in 0..(Len(s) - k)
      PROVE  LET j == LastMark(tail, i)
             IN  j # 0 => k + j # 0 /\ tail[j] = s[k + j]
  <2>1. LastMark(tail, i) \in 0..i
    BY LastMarkIsLast
  <2> QED
    BY <1>1, <2>1
<1>5. v.status = StatusAfter(EmptyView, s, k) /\ v.active = ActiveAfter(s, k)
  BY DEF ViewAfter
<1> HIDE DEF v
<1>6. ASSUME NEW i \in 0..(Len(s) - k)
      PROVE  StatusAfter(v, tail, i) = StatusAfter(EmptyView, s, k + i)
  BY <1>3, <1>4, <1>5 DEF StatusAfter, m
<1>7. k + (Len(s) - k) = Len(s) /\ Len(s) - k \in 0..(Len(s) - k)
  BY <1>1
<1>8. (IF LastMark(tail, Len(s) - k) = 0 THEN v.active ELSE tail[LastMark(tail, Len(s) - k)].step)
        = ActiveAfter(s, k + (Len(s) - k))
  BY <1>3, <1>4, <1>5, <1>7 DEF ActiveAfter, m
<1>9. ASSUME NEW u PROVE StepsAfter(s, k, u) \cup StepsOf(tail, u) = StepsAfter(s, Len(s), u)
  <2>1. StepsOf(tail, u) = {s[k + i].step : i \in {l \in 1..(Len(s) - k) : s[k + l].type = u}}
    BY <1>1 DEF StepsOf
  <2>2. StepsOf(tail, u) \subseteq StepsAfter(s, Len(s), u) /\ StepsAfter(s, k, u) \subseteq StepsAfter(s, Len(s), u)
    BY <1>1, <2>1 DEF StepsAfter
  <2>3. ASSUME NEW i \in 1..Len(s), s[i].type = u PROVE s[i].step \in StepsAfter(s, k, u) \cup StepsOf(tail, u)
    <3>1. i \in 1..k \/ (i - k \in 1..(Len(s) - k) /\ k + (i - k) = i)
      BY <1>1
    <3> QED
      BY <2>1, <2>3, <3>1 DEF StepsAfter
  <2>4. StepsAfter(s, Len(s), u) \subseteq StepsAfter(s, k, u) \cup StepsOf(tail, u)
    BY <2>3 DEF StepsAfter
  <2> QED
    BY <2>2, <2>4
<1> QED
  BY <1>1, <1>6, <1>7, <1>8, <1>9 DEF tail, v

\* Every recorded status is a legal successor of the one before it.
Legal == \A k \in DOMAIN journal :
  journal[k].type = "status" => MayFollow(StatusAfter(EmptyView, journal, k - 1), journal[k].status)

\* A projection of the journal as it is, or as it was.
Faithful(v) == \E k \in 0..Len(journal) : v = ViewAfter(journal, k)

LEMMA EmptyIsFaithful ==
  ASSUME NEW S, journal \in Seq(S)
  PROVE  EmptyView = ViewAfter(journal, 0) /\ Faithful(EmptyView)
<1>1. LastMark(journal, 0) = 0
  BY LastMarkIsLast
<1>2. \A t : StepsAfter(journal, 0, t) = {}
  BY DEF StepsAfter
<1>3. ViewAfter(journal, 0) = [seen |-> 0, status |-> "created", active |-> 0, approvals |-> {}, evidence |-> {}]
  BY <1>1, <1>2 DEF ViewAfter, StatusAfter, ActiveAfter, EmptyView
<1>4. 0 \in 0..Len(journal)
  OBVIOUS
<1> QED
  BY <1>3, <1>4 DEF EmptyView, Faithful

LEMMA EmptyAlwaysFits == journal \in Seq(Event) => Faithful(EmptyView)
  BY EmptyIsFaithful

LEMMA NowIsFaithful ==
  ASSUME NEW S, journal \in Seq(S)
  PROVE  Faithful(Now)
  BY DEF Faithful, Now

\* Whoever refreshes a faithful projection of a legal journal knows it all.
LEMMA RefreshedIsNow ==
  ASSUME NEW S, journal \in Seq(S), Legal, NEW v, Faithful(v)
  PROVE  Refreshed(v) = Now
<1>1. PICK k \in 0..Len(journal) : v = ViewAfter(journal, k)
  BY DEF Faithful
<1> DEFINE tail == SubSeq(journal, k + 1, Len(journal))
<1>2. /\ k \in Nat /\ Len(journal) \in Nat /\ DOMAIN journal = 1..Len(journal)
      /\ Len(tail) \in Nat /\ DOMAIN tail = 1..Len(tail)
      /\ \A i \in 1..Len(tail) : tail[i] = journal[k + i]
  OBVIOUS
<1>3. /\ k + Len(tail) = Len(journal)
      /\ \A i \in 0..Len(tail) : StatusAfter(v, tail, i) = StatusAfter(EmptyView, journal, k + i)
      /\ (IF LastMark(tail, Len(tail)) = 0 THEN v.active ELSE tail[LastMark(tail, Len(tail))].step)
           = ActiveAfter(journal, Len(journal))
      /\ \A u : StepsAfter(journal, k, u) \cup StepsOf(tail, u) = StepsAfter(journal, Len(journal), u)
  BY <1>1, CatchingUp
<1>4. v.seen = k /\ v.approvals = StepsAfter(journal, k, "approved") /\ v.evidence = StepsAfter(journal, k, "evidence")
  BY <1>1 DEF ViewAfter
<1>5. Refreshed(v) = Reduce(v, tail)
  BY <1>4 DEF Refreshed
<1> HIDE DEF tail
<1>6. ASSUME NEW i \in DOMAIN tail, tail[i].type = "status"
      PROVE  MayFollow(StatusAfter(v, tail, i - 1), tail[i].status)
  <2>1. k + i \in DOMAIN journal /\ tail[i] = journal[k + i]
    BY <1>2, <1>3
  <2>2. MayFollow(StatusAfter(EmptyView, journal, (k + i) - 1), journal[k + i].status)
    BY <1>6, <2>1 DEF Legal
  <2>3. i - 1 \in 0..Len(tail) /\ k + (i - 1) = (k + i) - 1
    BY <1>2
  <2>4. StatusAfter(v, tail, i - 1) = StatusAfter(EmptyView, journal, (k + i) - 1)
    BY <1>3, <2>3
  <2> QED
    BY <2>1, <2>2, <2>4
<1>7. StatusAfter(v, tail, Len(tail)) = StatusAfter(EmptyView, journal, Len(journal))
  BY <1>2, <1>3
<1>8. /\ Reduce(v, tail).seen = Len(journal)
      /\ Reduce(v, tail).status = StatusAfter(EmptyView, journal, Len(journal))
      /\ Reduce(v, tail).active = ActiveAfter(journal, Len(journal))
      /\ Reduce(v, tail).approvals = StepsAfter(journal, Len(journal), "approved")
      /\ Reduce(v, tail).evidence = StepsAfter(journal, Len(journal), "evidence")
  BY <1>3, <1>4, <1>6, <1>7 DEF Reduce
<1>9. Reduce(v, tail) = [seen |-> Reduce(v, tail).seen, status |-> Reduce(v, tail).status,
                         active |-> Reduce(v, tail).active, approvals |-> Reduce(v, tail).approvals,
                         evidence |-> Reduce(v, tail).evidence]
  BY DEF Reduce
<1> QED
  BY <1>5, <1>8, <1>9 DEF Now, ViewAfter

\* Whoever knows it all and records a legal event knows it all.
LEMMA AppliedIsNow ==
  ASSUME NEW S, journal \in Seq(S), NEW e, journal' = Append(journal, e),
         e.type = "status" => MayFollow(Now.status, e.status) /\ e.status # Broken,
         Now.status # Broken
  PROVE  Applied(Now, e) = Now'
<1> DEFINE n == Len(journal)
<1>1. n \in Nat /\ Len(journal') = n + 1
  BY Grown
<1>2. Now' = Told(Now, e)
  BY <1>1, NextIsTold DEF Now
<1>3. Len(<<e>>) = 1 /\ DOMAIN <<e>> = 1..1 /\ <<e>>[1] = e
  OBVIOUS
<1>4. LastMark(<<e>>, 0) = 0
  BY LastMarkIsLast
<1>5. LastMark(<<e>>, 1) = IF e.type = "status" THEN 1 ELSE 0
  BY <1>3, MarkIs
<1>6. Now.seen = n
  BY DEF Now, ViewAfter
<1>7. \A t : StepsOf(<<e>>, t) = IF e.type = t THEN {e.step} ELSE {}
  BY <1>3 DEF StepsOf
<1> DEFINE v == Now
<1> HIDE DEF v
<1>8. StatusAfter(v, <<e>>, 0) = v.status /\ StatusAfter(v, <<e>>, 1) = IF e.type = "status" THEN e.status ELSE v.status
  BY <1>3, <1>4, <1>5 DEF StatusAfter
<1>9. e.type = "status" => MayFollow(v.status, e.status) /\ e.status # Broken
  BY DEF v
<1>10. \A k \in DOMAIN <<e>> : <<e>>[k].type = "status" => MayFollow(StatusAfter(v, <<e>>, k - 1), <<e>>[k].status)
  BY <1>3, <1>8, <1>9
<1>b. PICK w : w = Reduce(v, <<e>>)
  OBVIOUS
<1>c. /\ w.seen = v.seen + 1
      /\ w.status = IF e.type = "status" THEN e.status ELSE v.status
      /\ w.active = IF e.type = "status" THEN e.step ELSE v.active
      /\ w.approvals = IF e.type = "approved" THEN v.approvals \cup {e.step} ELSE v.approvals
      /\ w.evidence = IF e.type = "evidence" THEN v.evidence \cup {e.step} ELSE v.evidence
  BY <1>3, <1>5, <1>7, <1>8, <1>10, <1>b DEF Reduce
<1>d. w = [seen |-> w.seen, status |-> w.status, active |-> w.active, approvals |-> w.approvals, evidence |-> w.evidence]
  BY <1>b DEF Reduce
<1>11. Reduce(v, <<e>>) = Told(v, e)
  BY <1>b, <1>c, <1>d DEF Told
<1>a. v.status # Broken /\ v.seen = n
  BY <1>6 DEF v
<1>12. CanReplay(Told(v, e))
  BY <1>9, <1>a DEF CanReplay, Told
<1>13. [Told(v, e) EXCEPT !.seen = n + 1] = Told(v, e)
  <2>1. PICK st, ac, ap, ev : Told(v, e) = [seen |-> n + 1, status |-> st, active |-> ac, approvals |-> ap, evidence |-> ev]
    BY <1>a DEF Told
  <2> QED
    BY <2>1
<1>14. Applied(v, e) = Told(v, e)
  BY <1>11, <1>12, <1>13 DEF Applied
<1> QED
  BY <1>2, <1>14 DEF v

-----------------------------------------------------------------------------
(* The inductive invariant: the journal.                                     *)

St == Now.status
Remaining == Steps \ Now.evidence
NextStep == Min(Remaining)
Permitted(s) == s \in NeedsApproval => s \in Now.approvals
Unsafe == {s \in Steps : s \notin RetrySafe \/ External # {}}

\* The journal is legal, and over with the end of the run.
Orderly ==
  /\ journal \in Seq(Event) /\ Len(journal) > 0
  /\ Legal
  /\ \A i \in DOMAIN journal :
       journal[i].type = "status" /\ journal[i].status \in Terminal => i = Len(journal)
  /\ St # "created"
  /\ St = "planning" => Len(journal) = 1 /\ Started = {}

\* The work in it: what has evidence was begun; what was begun and not put back
\* into the queue has evidence, but for the step somebody works on.
Accounted ==
  /\ Now.evidence \subseteq Started
  /\ St \in {"planning", "queued", "waiting_approval"} => Remaining # {} /\ Begun \subseteq Now.evidence
  /\ St = "waiting_approval" => Now.active = NextStep /\ NextStep \in NeedsApproval
  /\ \A s \in Unsafe : s \in Started => s \in Begun
  /\ StartedOncePerDispatch

History == Orderly /\ Accounted

\* The events that may come next, one for every action of RunContract.
Fits(e) ==
  \/ \E s \in RunStatuses, step \in 0..NumSteps :
       /\ e = StatusEvent(s, step)
       /\ \/ s = "queued" /\ St = "planning"
          \/ s = "queued" /\ St = "running" /\ External = {} /\ Started \subseteq RetrySafe
          \/ s = "running" /\ St \in {"queued", "waiting_approval"} /\ Remaining # {} /\ Permitted(NextStep)
          \/ /\ s = "waiting_approval" /\ St \in {"queued", "running"} /\ Begun \subseteq Now.evidence
             /\ Remaining # {} /\ step = NextStep /\ NextStep \in NeedsApproval \ Now.approvals
          \/ s = "verifying" /\ St = "running" /\ Remaining = {}
          \/ s = "waiting_review" /\ St = "verifying"
          \/ s = "completed" /\ St \in {"verifying", "waiting_review"}
          \/ s \in {"failed", "cancelled"} /\ St \notin Terminal
  \/ e = StepEvent("approved", Now.active) /\ St = "waiting_approval"
  \/ /\ e = StepEvent("started", NextStep) /\ St = "running"
     /\ Remaining # {} /\ NextStep \notin Begun /\ Permitted(NextStep)
  \/ /\ e = StepEvent("evidence", NextStep) /\ St = "running"
     /\ Remaining # {} /\ NextStep \in Begun

Tells(e) == journal' = Append(journal, e) /\ Fits(e)

LEMMA MinIsIn ==
  ASSUME NEW S, S \subseteq Nat, S # {}
  PROVE  Min(S) \in S
  BY Smallest DEF Min

LEMMA Transitions ==
  ASSUME NEW from \in RunStatuses, NEW to
  PROVE  /\ from = "created"  => (MayFollow(from, to) <=> to \in {"planning", "cancelled"})
         /\ from = "planning" => (MayFollow(from, to) <=> to \in {"queued", "failed", "cancelled"})
         /\ from = "queued"   => (MayFollow(from, to) <=> to \in {"running", "waiting_approval", "failed", "cancelled"})
         /\ from = "running"  => (MayFollow(from, to) <=> to \in {"waiting_approval", "verifying", "failed", "cancelled", "queued"})
         /\ from = "waiting_approval" => (MayFollow(from, to) <=> to \in {"running", "failed", "cancelled"})
         /\ from = "verifying" => (MayFollow(from, to) <=> to \in {"completed", "waiting_review", "failed", "cancelled"})
         /\ from = "waiting_review" => (MayFollow(from, to) <=> to \in {"completed", "failed", "cancelled"})
  BY DEF MayFollow, allowedTransitions, RunStatuses

LEMMA EventShapes ==
  ASSUME NEW e \in Event
  PROVE  /\ e.type \in {"status", "approved", "started", "evidence"}
         /\ e.type = "status" => e.status \in RunStatuses /\ e.step \in 0..NumSteps
         /\ e.type # "status" => e.step \in Steps
<1>1. CASE e \in [type : {"status"}, status : RunStatuses, step : 0..NumSteps]
  BY <1>1
<1>2. CASE e \in [type : {"approved", "started", "evidence"}, step : Steps]
  BY <1>2
<1> QED
  BY <1>1, <1>2 DEF Event

\* Projections of the journal have their type.
LEMMA ViewsAreTyped ==
  ASSUME journal \in Seq(Event), NEW k \in 0..Len(journal)
  PROVE  ViewAfter(journal, k) \in Projection
<1>1. \A i \in 1..k : journal[i] \in Event
  OBVIOUS
<1>2. /\ StepsAfter(journal, k, "approved") \subseteq Steps
      /\ StepsAfter(journal, k, "evidence") \subseteq Steps
  BY <1>1, EventShapes DEF StepsAfter
<1> DEFINE m == LastMark(journal, k)
<1>3. m \in 0..k /\ (m = 0 \/ journal[m].type = "status")
  BY LastMarkIsLast
<1>4. m # 0 => journal[m].status \in RunStatuses /\ journal[m].step \in 0..NumSteps
  BY <1>1, <1>3, EventShapes
<1>5. StatusAfter(EmptyView, journal, k) \in RunStatuses
  BY <1>4 DEF StatusAfter, EmptyView, RunStatuses
<1>6. ActiveAfter(journal, k) \in 0..NumSteps
  BY <1>4, KernelConstants DEF ActiveAfter
<1>7. k \in Nat
  OBVIOUS
<1> QED
  BY <1>2, <1>5, <1>6, <1>7 DEF ViewAfter, Projection

LEMMA NowIsTyped ==
  ASSUME journal \in Seq(Event)
  PROVE  /\ Now \in Projection
         /\ St \in RunStatuses /\ Now.active \in 0..NumSteps
         /\ Now.approvals \subseteq Steps /\ Now.evidence \subseteq Steps
         /\ Remaining \subseteq Steps
         /\ Remaining # {} => NextStep \in Remaining /\ NextStep \in Steps
         /\ Started \subseteq Steps /\ Begun \subseteq Started
<1>1. Now \in Projection
  BY ViewsAreTyped DEF Now
<1>2. /\ St \in RunStatuses /\ Now.active \in 0..NumSteps
      /\ Now.approvals \subseteq Steps /\ Now.evidence \subseteq Steps
  BY <1>1 DEF Projection, St
<1>3. Remaining \subseteq Steps
  BY DEF Remaining
<1>4. Remaining \subseteq Nat
  BY <1>3 DEF Steps
<1>5. Remaining # {} => NextStep \in Remaining
  BY <1>4, MinIsIn DEF NextStep
<1>6. \A i \in DOMAIN journal : journal[i] \in Event
  OBVIOUS
<1>7. Started \subseteq Steps
  BY <1>6, EventShapes DEF Started, StepsOf
<1>8. Begun \subseteq Started
  BY DEF Begun, Started, StepsOf
<1> QED
  BY <1>1, <1>2, <1>3, <1>5, <1>7, <1>8

\* The last recorded status is that of the projections.
LEMMA RecordedIsNow ==
  ASSUME Orderly
  PROVE  /\ LastStatus \in DOMAIN journal /\ RecordedStatus = St /\ journal[LastStatus].step = Now.active
         /\ journal[LastStatus].type = "status"
<1> DEFINE m == LastMark(journal, Len(journal))
<1>1. Len(journal) \in Nat /\ DOMAIN journal = 1..Len(journal)
  BY DEF Orderly
<1>2. m \in 0..Len(journal) /\ (m = 0 \/ journal[m].type = "status")
  BY <1>1, LastMarkIsLast
<1>3. St = (IF m = 0 THEN "created" ELSE journal[m].status) /\ Now.active = (IF m = 0 THEN 0 ELSE journal[m].step)
  BY DEF St, Now, ViewAfter, StatusAfter, ActiveAfter, EmptyView
<1>4. m # 0
  BY <1>3 DEF Orderly
<1> QED
  BY <1>1, <1>2, <1>3, <1>4 DEF LastStatus, RecordedStatus

\* What an event that fits does to the status, and to the set of the begun.
LEMMA FittingEvents ==
  ASSUME History, NEW e, Fits(e)
  PROVE  /\ e \in Event
         /\ e.type = "status" =>
              /\ e = StatusEvent(e.status, e.step)
              /\ MayFollow(St, e.status) /\ e.status # Broken /\ e.status \notin {"created", "planning"}
              /\ e.status = "queued" => St = "planning" \/ (External = {} /\ Started \subseteq RetrySafe)
              /\ e.status = "waiting_approval" =>
                   /\ Remaining # {} /\ Begun \subseteq Now.evidence
                   /\ e.step = NextStep /\ NextStep \in NeedsApproval
         /\ e.type = "approved" => St = "waiting_approval"
         /\ e.type = "started" => St = "running" /\ Remaining # {} /\ e.step = NextStep /\ e.step \notin Begun
         /\ e.type = "evidence" => St = "running" /\ Remaining # {} /\ e.step = NextStep /\ e.step \in Begun
<1>1. /\ St \in RunStatuses
      /\ Remaining # {} => NextStep \in Steps
      /\ St = "waiting_approval" => Now.active \in Steps
  BY NowIsTyped DEF History, Orderly, Accounted
<1>2. CASE \E s \in RunStatuses, step \in 0..NumSteps :
             /\ e = StatusEvent(s, step)
             /\ \/ s = "queued" /\ St = "planning"
                \/ s = "queued" /\ St = "running" /\ External = {} /\ Started \subseteq RetrySafe
                \/ s = "running" /\ St \in {"queued", "waiting_approval"} /\ Remaining # {} /\ Permitted(NextStep)
                \/ /\ s = "waiting_approval" /\ St \in {"queued", "running"} /\ Begun \subseteq Now.evidence
                   /\ Remaining # {} /\ step = NextStep /\ NextStep \in NeedsApproval \ Now.approvals
                \/ s = "verifying" /\ St = "running" /\ Remaining = {}
                \/ s = "waiting_review" /\ St = "verifying"
                \/ s = "completed" /\ St \in {"verifying", "waiting_review"}
                \/ s \in {"failed", "cancelled"} /\ St \notin Terminal
  <2>1. PICK s \in RunStatuses, step \in 0..NumSteps :
             /\ e = StatusEvent(s, step)
             /\ \/ s = "queued" /\ St = "planning"
                \/ s = "queued" /\ St = "running" /\ External = {} /\ Started \subseteq RetrySafe
                \/ s = "running" /\ St \in {"queued", "waiting_approval"} /\ Remaining # {} /\ Permitted(NextStep)
                \/ /\ s = "waiting_approval" /\ St \in {"queued", "running"} /\ Begun \subseteq Now.evidence
                   /\ Remaining # {} /\ step = NextStep /\ NextStep \in NeedsApproval \ Now.approvals
                \/ s = "verifying" /\ St = "running" /\ Remaining = {}
                \/ s = "waiting_review" /\ St = "verifying"
                \/ s = "completed" /\ St \in {"verifying", "waiting_review"}
                \/ s \in {"failed", "cancelled"} /\ St \notin Terminal
    BY <1>2
  <2>2. e \in Event /\ e.type = "status" /\ e.status = s /\ e.step = step
    BY <2>1 DEF StatusEvent, Event
  <2>3. /\ s # Broken /\ s \notin {"created", "planning"}
        /\ s = "queued" => St = "planning" \/ (External = {} /\ Started \subseteq RetrySafe)
        /\ s = "waiting_approval" =>
             /\ Remaining # {} /\ Begun \subseteq Now.evidence
             /\ step = NextStep /\ NextStep \in NeedsApproval
    BY <2>1 DEF RunStatuses, Broken
  <2>4. MayFollow(St, s)
    <3>1. CASE s \in {"failed", "cancelled"} /\ St \notin Terminal
      BY <1>1, <3>1, Transitions DEF RunStatuses, Terminal, History, Orderly
    <3> QED
      BY <1>1, <2>1, <3>1, Transitions
  <2> QED
    BY <2>1, <2>2, <2>3, <2>4
<1>3. CASE e = StepEvent("approved", Now.active) /\ St = "waiting_approval"
  BY <1>1, <1>3 DEF StepEvent, Event
<1>4. CASE /\ e = StepEvent("started", NextStep) /\ St = "running"
           /\ Remaining # {} /\ NextStep \notin Begun /\ Permitted(NextStep)
  BY <1>1, <1>4 DEF StepEvent, Event
<1>5. CASE /\ e = StepEvent("evidence", NextStep) /\ St = "running"
           /\ Remaining # {} /\ NextStep \in Begun
  BY <1>1, <1>5 DEF StepEvent, Event
<1> QED
  BY <1>2, <1>3, <1>4, <1>5 DEF Fits

LEMMA NowNext ==
  ASSUME journal \in Seq(Event), NEW e, journal' = Append(journal, e)
  PROVE  Now' = Told(Now, e)
<1>1. Len(journal) \in Nat /\ Len(journal') = Len(journal) + 1
  BY Grown
<1> QED
  BY <1>1, NextIsTold DEF Now

LEMMA StartedNext ==
  ASSUME journal \in Seq(Event), NEW e, journal' = Append(journal, e)
  PROVE  Started' = IF e.type = "started" THEN Started \cup {e.step} ELSE Started
<1>1. /\ Len(journal) \in Nat /\ DOMAIN journal = 1..Len(journal) /\ DOMAIN journal' = 1..(Len(journal) + 1)
      /\ \A i \in 1..Len(journal) : journal'[i] = journal[i]
      /\ journal'[Len(journal) + 1] = e
  BY Grown
<1>2. {i \in DOMAIN journal' : journal'[i].type = "started"} =
        IF e.type = "started" THEN {i \in DOMAIN journal : journal[i].type = "started"} \cup {Len(journal) + 1}
        ELSE {i \in DOMAIN journal : journal[i].type = "started"}
  BY <1>1
<1>3. \A i \in {i \in DOMAIN journal : journal[i].type = "started"} : journal'[i].step = journal[i].step
  BY <1>1
<1> QED
  BY <1>1, <1>2, <1>3 DEF Started, StepsOf

LEMMA BegunNext ==
  ASSUME journal \in Seq(Event), NEW e, journal' = Append(journal, e)
  PROVE  Begun' = IF e.type = "status" /\ e.status = "queued" THEN {}
                  ELSE IF e.type = "started" THEN Begun \cup {e.step} ELSE Begun
<1> DEFINE n == Len(journal)
           A == {k \in 1..n : /\ journal[k].type = "started"
                              /\ \A m \in k..n : journal[m].type = "status" => journal[m].status # "queued"}
           B == {k \in 1..(n + 1) : /\ journal'[k].type = "started"
                                    /\ \A m \in k..(n + 1) : journal'[m].type = "status" => journal'[m].status # "queued"}
<1>1. /\ n \in Nat /\ DOMAIN journal = 1..n /\ DOMAIN journal' = 1..(n + 1) /\ Len(journal') = n + 1
      /\ \A i \in 1..n : journal'[i] = journal[i]
      /\ journal'[n + 1] = e
  BY Grown
<1>2. Begun = {journal[i].step : i \in A}
  BY <1>1 DEF Begun
<1>3. Begun' = {journal'[i].step : i \in B}
  BY <1>1 DEF Begun
<1> HIDE DEF n
<1>4. CASE e.type = "status" /\ e.status = "queued"
  <2>1. B = {}
    <3>1. ASSUME NEW k \in 1..(n + 1) PROVE n + 1 \in k..(n + 1)
      BY <1>1
    <3> QED
      BY <1>1, <1>4, <3>1
  <2> QED
    BY <1>3, <1>4, <2>1
<1>5. CASE ~(e.type = "status" /\ e.status = "queued")
  <2>1. ASSUME NEW k \in 1..n
        PROVE  k \in B <=> k \in A
    <3>1. \A m \in k..(n + 1) : m = n + 1 \/ (m \in k..n /\ m \in 1..n)
      BY <1>1
    <3>2. k \in 1..(n + 1) /\ \A m \in k..n : m \in k..(n + 1)
      BY <1>1
    <3> QED
      BY <1>1, <1>5, <3>1, <3>2
  <2>2. n + 1 \in B <=> e.type = "started"
    <3>1. n + 1 \in 1..(n + 1) /\ \A m \in (n + 1)..(n + 1) : m = n + 1
      BY <1>1
    <3> QED
      BY <1>1, <1>5, <3>1
  <2>3. /\ B \subseteq 1..(n + 1) /\ A \subseteq 1..n
        /\ \A k \in 1..(n + 1) : k \in 1..n \/ k = n + 1
    BY <1>1
  <2> HIDE DEF A, B
  <2>4. B = IF e.type = "started" THEN A \cup {n + 1} ELSE A
    <3>1. n + 1 \in 1..(n + 1) /\ \A k \in 1..n : k \in 1..(n + 1)
      BY <1>1
    <3>2. \A k : k \in A => k \in B
      BY <2>1, <2>3
    <3>3. \A k : k \in B => k \in A \/ (k = n + 1 /\ e.type = "started")
      BY <2>1, <2>2, <2>3
    <3> QED
      BY <2>2, <3>2, <3>3
  <2>5. \A i \in A : journal'[i].step = journal[i].step
    BY <1>1, <2>3
  <2>6. {journal'[i].step : i \in B} = IF e.type = "started" THEN {journal[i].step : i \in A} \cup {e.step}
                                       ELSE {journal[i].step : i \in A}
    <3>1. CASE e.type = "started"
      <4>1. B = A \cup {n + 1} /\ journal'[n + 1].step = e.step
        BY <1>1, <2>4, <3>1
      <4>2. {journal'[i].step : i \in A \cup {n + 1}} = {journal'[i].step : i \in A} \cup {journal'[n + 1].step}
        OBVIOUS
      <4>3. {journal'[i].step : i \in A} = {journal[i].step : i \in A}
        BY <2>5
      <4> QED
        BY <3>1, <4>1, <4>2, <4>3
    <3>2. CASE e.type # "started"
      BY <2>4, <2>5, <3>2
    <3> QED
      BY <3>1, <3>2
  <2> QED
    BY <1>2, <1>3, <1>5, <2>6
<1> QED
  BY <1>4, <1>5

LEMMA Next1 ==
  ASSUME journal \in Seq(Event), NEW e, journal' = Append(journal, e)
  PROVE  /\ St' = (IF e.type = "status" THEN e.status ELSE St)
         /\ Now'.status = St' /\ Now.status = St
         /\ Now'.active = (IF e.type = "status" THEN e.step ELSE Now.active)
         /\ Now'.approvals = (IF e.type = "approved" THEN Now.approvals \cup {e.step} ELSE Now.approvals)
         /\ Now'.evidence = (IF e.type = "evidence" THEN Now.evidence \cup {e.step} ELSE Now.evidence)
         /\ e.type # "evidence" => Remaining' = Remaining /\ NextStep' = NextStep
         /\ e.type = "evidence" => Remaining' = Remaining \ {e.step}
<1>1. Now' = Told(Now, e)
  BY NowNext
<1>2. /\ Now'.status = (IF e.type = "status" THEN e.status ELSE St)
      /\ Now'.active = (IF e.type = "status" THEN e.step ELSE Now.active)
      /\ Now'.approvals = (IF e.type = "approved" THEN Now.approvals \cup {e.step} ELSE Now.approvals)
      /\ Now'.evidence = (IF e.type = "evidence" THEN Now.evidence \cup {e.step} ELSE Now.evidence)
  BY <1>1 DEF Told, St
<1>3. St' = Now'.status
  BY DEF St
<1>4. Remaining' = Steps \ Now'.evidence
  BY DEF Remaining
<1>5. e.type # "evidence" => Remaining' = Remaining
  BY <1>2, <1>4 DEF Remaining
<1>6. e.type # "evidence" => NextStep' = NextStep
  BY <1>5 DEF NextStep
<1>7. e.type = "evidence" => Remaining' = Remaining \ {e.step}
  BY <1>2, <1>4 DEF Remaining
<1> QED
  BY <1>2, <1>3, <1>5, <1>6, <1>7 DEF St

LEMMA OrderlyGoesOn ==
  ASSUME History, NEW e, Tells(e)
  PROVE  Orderly'
<1> DEFINE n == Len(journal)
<1>1. journal \in Seq(Event) /\ journal' = Append(journal, e) /\ Orderly /\ e \in Event
  BY FittingEvents DEF History, Tells, Orderly
<1>2. /\ n \in Nat /\ n > 0 /\ DOMAIN journal = 1..n /\ DOMAIN journal' = 1..(n + 1) /\ Len(journal') = n + 1
      /\ \A i \in 1..n : journal'[i] = journal[i]
      /\ journal'[n + 1] = e
  BY <1>1, Grown DEF Orderly
<1>3. journal' \in Seq(Event)
  BY <1>1
<1>4. /\ e.type = "status" => MayFollow(St, e.status) /\ e.status \notin {"created", "planning"}
      /\ e.type = "approved" => St = "waiting_approval"
      /\ e.type \in {"started", "evidence"} => St = "running"
      /\ e.type \in {"status", "approved", "started", "evidence"}
  BY <1>1, FittingEvents, EventShapes DEF Tells
<1>5. \A k \in 0..n : StatusAfter(EmptyView, journal', k) = StatusAfter(EmptyView, journal, k)
  <2>1. ASSUME NEW k \in 0..n PROVE ViewAfter(journal', k) = ViewAfter(journal, k)
    BY <1>1, PastStays
  <2> QED
    BY <2>1 DEF ViewAfter
<1>6. StatusAfter(EmptyView, journal, n) = St
  BY DEF St, Now, ViewAfter
<1>7. Legal'
  <2> SUFFICES ASSUME NEW k \in 1..(n + 1), journal'[k].type = "status"
               PROVE  MayFollow(StatusAfter(EmptyView, journal', k - 1), journal'[k].status)
    BY <1>2 DEF Legal
  <2>1. k - 1 \in 0..n
    BY <1>2
  <2>2. CASE k = n + 1
    <3>1. k - 1 = n
      BY <1>2, <2>2
    <3> QED
      BY <1>2, <1>4, <1>5, <1>6, <2>1, <2>2, <3>1
  <2>3. CASE k \in 1..n
    BY <1>1, <1>2, <1>5, <2>1, <2>3 DEF Orderly, Legal
  <2> QED
    BY <1>2, <2>2, <2>3
<1>8. St \notin Terminal
  <2>1. St \in RunStatuses
    BY <1>1, NowIsTyped
  <2>2. ~\E t \in RunStatuses : St \in Terminal /\ MayFollow(St, t)
    BY <2>1 DEF MayFollow, allowedTransitions, Terminal
  <2>3. e.type = "status" => e.status \in RunStatuses
    BY <1>1, EventShapes
  <2> QED
    BY <1>4, <2>2, <2>3 DEF Terminal
<1>9. ASSUME NEW i \in 1..(n + 1), journal'[i].type = "status", journal'[i].status \in Terminal
      PROVE  i = n + 1
  <2>1. CASE i \in 1..n
    <3>1. i = n
      BY <1>1, <1>2, <1>9, <2>1 DEF Orderly
    <3>2. LastMark(journal, n) = n
      <4>1. n \in 0..n /\ \A j \in (n + 1)..n : journal[j].type # "status"
        BY <1>2
      <4> QED
        BY <1>2, <1>9, <2>1, <3>1, <4>1, MarkIs
    <3>3. St = journal[n].status
      BY <1>2, <1>6, <3>2 DEF StatusAfter
    <3> QED
      BY <1>2, <1>8, <1>9, <2>1, <3>1, <3>3
  <2> QED
    BY <1>2, <2>1
<1>10. St' \notin {"created", "planning"}
  <2>1. St' = IF e.type = "status" THEN e.status ELSE St
    BY <1>1, Next1
  <2>2. e.type # "status" => St \in {"waiting_approval", "running"}
    BY <1>4
  <2> QED
    BY <1>4, <2>1, <2>2
<1>11. Len(journal') > 0
  BY <1>2
<1> QED
  BY <1>2, <1>3, <1>7, <1>9, <1>10, <1>11 DEF Orderly

LEMMA AccountedGoesOn ==
  ASSUME SoleDecider, History, NEW e, Tells(e)
  PROVE  Accounted'
<1>1. journal \in Seq(Event) /\ journal' = Append(journal, e) /\ Orderly /\ Accounted
  BY DEF History, Tells, Orderly
<1>2. e \in Event /\ e.type \in {"status", "approved", "started", "evidence"}
  BY FittingEvents, EventShapes DEF Tells
<1>3. /\ e.type = "status" =>
              /\ MayFollow(St, e.status) /\ e.status \notin {"created", "planning"}
              /\ e.status = "queued" => St = "planning" \/ (External = {} /\ Started \subseteq RetrySafe)
              /\ e.status = "waiting_approval" =>
                   /\ Remaining # {} /\ Begun \subseteq Now.evidence
                   /\ e.step = NextStep /\ NextStep \in NeedsApproval
      /\ e.type = "approved" => St = "waiting_approval"
      /\ e.type = "started" => St = "running" /\ Remaining # {} /\ e.step = NextStep /\ e.step \notin Begun
      /\ e.type = "evidence" => St = "running" /\ Remaining # {} /\ e.step = NextStep /\ e.step \in Begun
  BY FittingEvents DEF Tells
<1>4. /\ St' = (IF e.type = "status" THEN e.status ELSE St)
      /\ Now'.active = (IF e.type = "status" THEN e.step ELSE Now.active)
      /\ Now'.evidence = (IF e.type = "evidence" THEN Now.evidence \cup {e.step} ELSE Now.evidence)
      /\ e.type # "evidence" => Remaining' = Remaining /\ NextStep' = NextStep
  BY <1>1, Next1
<1>5. Started' = IF e.type = "started" THEN Started \cup {e.step} ELSE Started
  BY <1>1, StartedNext
<1>6. Begun' = IF e.type = "status" /\ e.status = "queued" THEN {}
               ELSE IF e.type = "started" THEN Begun \cup {e.step} ELSE Begun
  BY <1>1, BegunNext
<1>7. Begun \subseteq Started /\ Started \subseteq Steps /\ St \in RunStatuses
  BY <1>1, NowIsTyped
<1>8. Now'.evidence \subseteq Started'
  BY <1>1, <1>3, <1>4, <1>5, <1>7 DEF Accounted
<1>9. St' \in {"planning", "queued", "waiting_approval"} => Remaining' # {} /\ Begun' \subseteq Now'.evidence
  <2>1. CASE e.type = "status" /\ e.status = "queued"
    <3>1. Remaining # {}
      <4>1. CASE St = "planning"
        BY <1>1, <4>1 DEF Accounted
      <4>2. CASE External = {} /\ Started \subseteq RetrySafe
        <5>1. RetrySafe # Steps /\ RetrySafe \subseteq Steps
          BY <4>2, KernelConstants DEF SoleDecider
        <5> QED
          BY <1>1, <4>2, <5>1 DEF Accounted, Remaining
      <4> QED
        BY <1>3, <2>1, <4>1, <4>2
    <3> QED
      BY <1>4, <1>6, <2>1, <3>1
  <2>2. CASE e.type = "status" /\ e.status = "waiting_approval"
    BY <1>3, <1>4, <1>6, <2>2
  <2>3. CASE e.type = "approved"
    BY <1>1, <1>3, <1>4, <1>6, <2>3 DEF Accounted
  <2> QED
    BY <1>2, <1>3, <1>4, <2>1, <2>2, <2>3
<1>10. St' = "waiting_approval" => Now'.active = NextStep' /\ NextStep' \in NeedsApproval
  BY <1>1, <1>2, <1>3, <1>4 DEF Accounted
<1>11. ASSUME NEW s \in Unsafe, s \in Started' PROVE s \in Begun'
  <2>1. CASE e.type = "status" /\ e.status = "queued"
    <3>1. s \in Started
      BY <1>5, <1>11, <2>1
    <3>2. s \in RetrySafe => External # {}
      BY DEF Unsafe
    <3> QED
      BY <1>1, <1>3, <2>1, <3>1, <3>2 DEF Orderly
  <2> QED
    BY <1>1, <1>5, <1>6, <1>11, <2>1 DEF Accounted
<1>12. StartedOncePerDispatch'
  <2> DEFINE n == Len(journal)
  <2>1. /\ n \in Nat /\ DOMAIN journal = 1..n /\ DOMAIN journal' = 1..(n + 1)
        /\ \A i \in 1..n : journal'[i] = journal[i]
        /\ journal'[n + 1] = e
    BY <1>1, Grown
  <2> SUFFICES ASSUME NEW i \in 1..(n + 1), NEW j \in 1..(n + 1), i < j,
                      journal'[i].type = "started", journal'[j] = journal'[i]
               PROVE  \E k \in i..j : journal'[k].type = "status" /\ journal'[k].status = "queued"
    BY <2>1 DEF StartedOncePerDispatch
  <2>2. i \in 1..n /\ journal'[i] = journal[i]
    BY <2>1
  <2>3. CASE j \in 1..n
    <3>1. PICK k \in i..j : journal[k].type = "status" /\ journal[k].status = "queued"
      BY <1>1, <2>1, <2>2, <2>3 DEF Accounted, StartedOncePerDispatch
    <3>2. k \in 1..n
      BY <2>1, <2>2, <2>3
    <3> QED
      BY <2>1, <3>1, <3>2
  <2>4. CASE j = n + 1
    <3>1. journal[i] = e /\ e.type = "started" /\ e.step \notin Begun
      BY <1>3, <2>1, <2>2, <2>4
    <3>2. PICK k \in i..n : journal[k].type = "status" /\ journal[k].status = "queued"
      BY <2>1, <2>2, <3>1 DEF Begun
    <3>3. k \in 1..n /\ k \in i..j
      BY <2>1, <2>2, <2>4
    <3> QED
      BY <2>1, <3>2, <3>3
  <2> QED
    BY <2>1, <2>3, <2>4
<1> QED
  BY <1>8, <1>9, <1>10, <1>11, <1>12 DEF Accounted, Unsafe

LEMMA HistoryGoesOn ==
  ASSUME SoleDecider, History, NEW e, Tells(e)
  PROVE  History'
  BY OrderlyGoesOn, AccountedGoesOn DEF History

-----------------------------------------------------------------------------
(* The inductive invariant: the actors.                                      *)

Working == {"starting", "working", "worked"}
Busy == {"deciding", "verifying"} \cup Working
TickPlaces == {"idle", "refreshed", "orphaned plan", "orphaned run",
               "recording", "recovered", "scan", "claimed", "dropping"}
Owners == Executors \cup Reviewers \cup {Nobody} \cup {Recovery(c) : c \in Consumers}

\* Where an actor of each kind can be.
Placed(x) ==
  /\ exec[x].step \in 0..NumSteps
  /\ exec[x].at \in Working \cup {"granting"} => exec[x].step \in Steps
  /\ x \in Consumers => exec[x].at \in {"idle", "releasing"} \cup Busy
  /\ x \in Planners => exec[x].at \in {"planning", "granted", "claimed", "releasing", "done"} \cup Busy
  /\ x \in Proposers => exec[x].at \in {"planning", "done"}
  /\ x \in Approvers => exec[x].at \in {"idle", "granting", "granted", "claimed", "releasing", "done"} \cup Busy
  /\ x \in Rejecters => exec[x].at \in {"idle", "rejecting", "done"}
  /\ x \in Reviewers => exec[x].at \in {"idle", "reviewing", "reviewed", "releasing", "done"}

\* An executor with the claim knows the whole journal, and is where it says.
Attentive(x) ==
  Holds(x) /\ exec[x].at \in Busy =>
    /\ view[x] = Now
    /\ exec[x].at = "deciding" =>
         /\ Begun \subseteq Now.evidence
         /\ \/ St \in {"queued", "running"}
            \/ St = "waiting_approval" /\ x \in Approvers /\ Now.active \in Now.approvals
    /\ exec[x].at \in Working =>
         /\ St = "running" /\ Remaining # {} /\ exec[x].step = NextStep
         /\ exec[x].at = "starting" => Begun \subseteq Now.evidence /\ Permitted(NextStep)
         /\ exec[x].at # "starting" => NextStep \in Begun /\ Begun \subseteq Now.evidence \cup {NextStep}
    /\ exec[x].at = "verifying" => St = "verifying"

\* So does a reviewer.
Reviewing(r) == Holds(r) /\ exec[r].at = "reviewed" => view[r] = Now /\ St = "waiting_review"

\* Whoever decides without the claim finds the run as it saw it, or over.
Planned(p) == exec[p].at = "planning" => view[p] = ViewAfter(journal, 1)

Deciding(a) ==
  /\ exec[a].at \in {"granting", "rejecting"} => view[a].status = "waiting_approval"
  /\ a \in Approvers /\ exec[a].at \in {"granting", "granted", "claimed"} =>
       /\ St \in {"waiting_approval"} \cup Terminal
       /\ St = "waiting_approval" =>
            IF exec[a].at = "granting" THEN view[a] = Now /\ exec[a].step = Now.active
            ELSE Now.active \in Now.approvals

\* What is carried out was begun.
Begins(x) == exec[x].at \in {"working", "worked"} => exec[x].step \in Started

\* A recovery that still holds its claim, or whose condition still holds.
Recovering(c) ==
  tick[c] = "recording" =>
    /\ found[c].to \in {"failed", "queued"}
    /\ found[c].base # 0 /\ Len(journal) = found[c].base =>
         view[c] = Now /\ St = "planning" /\ found[c].to = "failed"
    /\ found[c].base = 0 /\ Holds(Recovery(c)) =>
         /\ view[c] = Now /\ St \in InFlight
         /\ found[c].to = "queued" => St = "running" /\ External = {} /\ Started \subseteq RetrySafe

Ticking(c) ==
  /\ tick[c] \in TickPlaces
  /\ found[c].to \in {"none", "failed", "queued"} /\ found[c].base \in 0..Len(journal)
  /\ tick[c] \in {"claimed", "dropping"} => exec[c].at = "idle"
  /\ Recovering(c)

Own(a) ==
  /\ Placed(a) /\ Faithful(view[a])
  /\ Attentive(a) /\ Reviewing(a) /\ Planned(a) /\ Deciding(a) /\ Begins(a)
  /\ a \in Consumers => Ticking(a)

Shaped ==
  /\ DOMAIN view = Actors /\ DOMAIN exec = Actors /\ DOMAIN tick = Consumers /\ DOMAIN found = Consumers
  /\ claim \in [owner : Owners, live : BOOLEAN]
  /\ faults \in [crashes : Nat, stalls : Nat]

\* What may not be repeated was carried out once, or one worker is about to.
Performed ==
  /\ performed \in [Steps -> Nat]
  /\ \A s \in Steps : performed[s] > 0 => s \in Started
  /\ \A s \in Unsafe :
       /\ performed[s] <= 1
       /\ \A x \in Executors : exec[x].at = "working" /\ exec[x].step = s =>
            performed[s] = 0 /\ \A y \in Executors : exec[y].at = "working" /\ exec[y].step = s => y = x

\* While nothing failed, a run in flight has somebody who works on it.
Faultless == faults.crashes = 0 /\ faults.stalls = 0
Engaged(x) == Holds(x) /\ exec[x].at \in Busy
Owned == Faultless /\ St \in InFlight => \E x \in Executors : Engaged(x)

KernelInv ==
  /\ Shaped /\ History /\ Performed /\ Owned
  /\ \A a \in Actors : Own(a)

-----------------------------------------------------------------------------
(* Steps, from the point of view of an actor that does not take them.        *)

\* A step keeps the invariant, and records one fitting event or none.
Proceeds == KernelInv' /\ (journal' = journal \/ \E e : Tells(e))

Undisturbed(o) ==
  /\ view'[o] = view[o] /\ exec'[o] = exec[o]
  /\ o \in Consumers => tick'[o] = tick[o] /\ found'[o] = found[o]

\* No claim passes to it.
GainsNothing(o) ==
  /\ Holds(o)' => Holds(o)
  /\ o \in Consumers => (Holds(Recovery(o))' => Holds(Recovery(o)))

\* It is not about to write under the claim.
Passive(o) ==
  /\ ~(Holds(o)' /\ exec[o].at \in Busy \cup {"reviewed"})
  /\ o \in Consumers => ~(Holds(Recovery(o))' /\ tick[o] = "recording" /\ found[o].base = 0)

LEMMA SameHistory ==
  ASSUME journal' = journal
  PROVE  /\ Now' = Now /\ St' = St /\ Remaining' = Remaining /\ NextStep' = NextStep
         /\ Begun' = Begun /\ Started' = Started
         /\ \A v : Faithful(v) => Faithful(v)'
         /\ ViewAfter(journal, 1)' = ViewAfter(journal, 1)
         /\ \A s : Permitted(s)' <=> Permitted(s)
         /\ History => History'
<1>1. Now' = Now /\ Begun' = Begun /\ Started' = Started
  BY DEF Now, Begun, Started
<1>2. St' = St /\ Remaining' = Remaining
  BY <1>1 DEF St, Remaining
<1>3. NextStep' = NextStep
  BY <1>2 DEF NextStep
<1>4. History => History'
  BY <1>1, <1>2, <1>3 DEF History, Orderly, Accounted, Legal, StartedOncePerDispatch
<1>5. \A v : Faithful(v) => Faithful(v)'
  BY DEF Faithful
<1>6. ViewAfter(journal, 1)' = ViewAfter(journal, 1)
  OBVIOUS
<1>7. \A s : Permitted(s)' <=> Permitted(s)
  BY <1>1 DEF Permitted
<1> QED
  BY <1>1, <1>2, <1>3, <1>4, <1>5, <1>6, <1>7

LEMMA Waiting ==
  ASSUME NEW o \in Actors, Own(o), journal' = journal, Undisturbed(o), GainsNothing(o)
  PROVE  Own(o)'
<1>1. /\ Now' = Now /\ St' = St /\ Remaining' = Remaining /\ NextStep' = NextStep
      /\ Begun' = Begun /\ Started' = Started
      /\ Faithful(view[o]) => Faithful(view[o])'
      /\ ViewAfter(journal, 1)' = ViewAfter(journal, 1)
      /\ Permitted(NextStep)' <=> Permitted(NextStep)
  BY SameHistory DEF Undisturbed, Faithful, Permitted
<1>2. Placed(o)' /\ Faithful(view[o])'
  BY <1>1 DEF Own, Placed, Undisturbed
<1>3. Attentive(o)'
  BY <1>1 DEF Own, Attentive, Undisturbed, GainsNothing
<1>4. Reviewing(o)'
  BY <1>1 DEF Own, Reviewing, Undisturbed, GainsNothing
<1>5. Planned(o)'
  BY <1>1 DEF Own, Planned, Undisturbed
<1>6. Deciding(o)'
  BY <1>1 DEF Own, Deciding, Undisturbed
<1>7. Begins(o)'
  BY <1>1 DEF Own, Begins, Undisturbed
<1>8. ASSUME o \in Consumers PROVE Ticking(o)'
  <2>1. Recovering(o)'
    BY <1>1, <1>8 DEF Own, Ticking, Recovering, Undisturbed, GainsNothing
  <2> QED
    BY <1>8, <2>1 DEF Own, Ticking, Undisturbed
<1> QED
  BY <1>2, <1>3, <1>4, <1>5, <1>6, <1>7, <1>8 DEF Own

LEMMA Growing ==
  ASSUME History, NEW e, journal' = Append(journal, e)
  PROVE  /\ Len(journal') = Len(journal) + 1 /\ Len(journal) \in Nat \ {0}
         /\ \A k \in 0..Len(journal) : ViewAfter(journal', k) = ViewAfter(journal, k)
         /\ \A v : Faithful(v) => \E k \in 0..Len(journal') : v = ViewAfter(journal', k)
         /\ Started \subseteq Started'
<1>1. journal \in Seq(Event) /\ Len(journal) > 0
  BY DEF History, Orderly
<1>2. Len(journal') = Len(journal) + 1 /\ Len(journal) \in Nat \ {0}
  BY <1>1, Grown
<1>3. ASSUME NEW k \in 0..Len(journal) PROVE ViewAfter(journal', k) = ViewAfter(journal, k)
  BY <1>1, PastStays
<1>4. ASSUME NEW v, Faithful(v) PROVE \E k \in 0..Len(journal') : v = ViewAfter(journal', k)
  <2>1. PICK k \in 0..Len(journal) : v = ViewAfter(journal, k)
    BY <1>4 DEF Faithful
  <2>2. k \in 0..Len(journal') /\ v = ViewAfter(journal', k)
    BY <1>2, <1>3, <2>1
  <2> QED
    BY <2>2
<1>5. Started \subseteq Started'
  BY <1>1, StartedNext
<1> QED
  BY <1>2, <1>3, <1>4, <1>5

\* The others learn that the run is over, or learn nothing that matters yet.
LEMMA Listening ==
  ASSUME History, NEW o \in Actors, Own(o), NEW e, Tells(e), Undisturbed(o), Passive(o),
         o \in Approvers /\ St = "waiting_approval" => e.type = "status" /\ e.status \in Terminal
  PROVE  Own(o)'
<1>0. journal' = Append(journal, e) /\ journal \in Seq(Event)
  BY DEF Tells, History, Orderly
<1>1. /\ Len(journal') = Len(journal) + 1 /\ Len(journal) \in Nat \ {0}
      /\ ViewAfter(journal', 1) = ViewAfter(journal, 1)
      /\ Faithful(view[o]) => \E k \in 0..Len(journal') : view[o] = ViewAfter(journal', k)
      /\ Started \subseteq Started'
  <2>1. Len(journal) \in Nat \ {0} => 1 \in 0..Len(journal)
    OBVIOUS
  <2> QED
    BY <1>0, <2>1, Growing
<1>2. Placed(o)' /\ Faithful(view[o])'
  BY <1>1 DEF Own, Placed, Undisturbed, Faithful
<1>3. Attentive(o)' /\ Reviewing(o)'
  BY DEF Attentive, Reviewing, Undisturbed, Passive
<1>4. Planned(o)'
  BY <1>1 DEF Own, Planned, Undisturbed
<1>5. Deciding(o)'
  <2>1. CASE o \in Approvers /\ exec[o].at \in {"granting", "granted", "claimed"}
    <3>1. St \in {"waiting_approval"} \cup Terminal
      BY <2>1 DEF Own, Deciding
    <3>2. St \notin Terminal
      <4>1. e.type = "status" => MayFollow(St, e.status) /\ e \in Event
        BY FittingEvents DEF Tells
      <4>2. e.type # "status" => St \in {"waiting_approval", "running"}
        BY EventShapes, FittingEvents DEF Tells
      <4>3. St \in RunStatuses
        BY <1>0, NowIsTyped
      <4>4. ASSUME St \in Terminal, NEW t \in RunStatuses PROVE ~MayFollow(St, t)
        BY <4>3, <4>4 DEF MayFollow, allowedTransitions, Terminal
      <4>5. e.type = "status" => e.status \in RunStatuses
        BY <4>1, EventShapes
      <4> QED
        BY <4>1, <4>2, <4>4, <4>5 DEF Terminal
    <3>3. St' \in Terminal
      BY <1>0, <2>1, <3>1, <3>2, Next1
    <3> QED
      BY <3>3 DEF Own, Deciding, Undisturbed, Terminal
  <2> QED
    BY <2>1 DEF Own, Deciding, Undisturbed
<1>6. Begins(o)'
  BY <1>1 DEF Own, Begins, Undisturbed
<1>7. ASSUME o \in Consumers PROVE Ticking(o)'
  <2>1. found[o].base \in 0..Len(journal)
    BY <1>7 DEF Own, Ticking
  <2>2. found[o].base \in 0..Len(journal') /\ Len(journal') # found[o].base
    BY <1>1, <2>1
  <2>3. Recovering(o)'
    BY <1>7, <2>2 DEF Own, Ticking, Recovering, Undisturbed, Passive
  <2> QED
    BY <1>7, <2>2, <2>3 DEF Own, Ticking, Undisturbed
<1> QED
  BY <1>2, <1>3, <1>4, <1>5, <1>6, <1>7 DEF Own

-----------------------------------------------------------------------------
(* Steps, from the point of view of the actor that takes them.               *)

SameDomains == /\ DOMAIN view' = DOMAIN view /\ DOMAIN exec' = DOMAIN exec
               /\ DOMAIN tick' = DOMAIN tick /\ DOMAIN found' = DOMAIN found
OnlyBy(w) == SameDomains /\ \A o \in Actors : o # w => Undisturbed(o)

\* The claim is left alone, given up or lost, or taken by the actor itself.
ClaimBy(w) ==
  \/ claim' = claim \/ claim' = [claim EXCEPT !.live = FALSE] \/ claim' = [claim EXCEPT !.owner = Nobody]
  \/ w \in Executors \cup Reviewers /\ claim' = [owner |-> w, live |-> TRUE]
  \/ w \in Consumers /\ claim' = [owner |-> Recovery(w), live |-> TRUE]

Works(w) == exec'[w].at = "working" => exec[w].at = "working" /\ exec'[w].step = exec[w].step

\* Nobody who is engaged stops being so, unless something failed.
Lasting == \A x \in Executors : Engaged(x) => Engaged(x)'

LEMMA Kinds ==
  /\ Executors \subseteq Actors /\ Consumers \subseteq Actors /\ Consumers \subseteq Executors
  /\ Nobody \notin Actors
  /\ \A c \in Consumers : Recovery(c) \notin Actors /\ Recovery(c) # Nobody
  /\ \A c, d : Recovery(c) = Recovery(d) => c = d
  /\ Proposers \subseteq Planners
  /\ \A x \in Consumers : x \notin Planners \cup Approvers \cup Rejecters \cup Reviewers
  /\ \A x \in Planners : x \notin Approvers \cup Rejecters \cup Reviewers
  /\ \A x \in Approvers : x \notin Rejecters \cup Reviewers
  /\ \A x \in Rejecters : x \notin Reviewers
  /\ Actors = Consumers \cup Planners \cup Approvers \cup Rejecters \cup Reviewers
  /\ Executors = Consumers \cup Planners \cup Approvers
<1>1. \A c, d : Recovery(c) = Recovery(d) => c = d
  BY DEF Recovery
<1>2. Nobody \notin Actors /\ \A c \in Consumers : Recovery(c) \notin Actors /\ Recovery(c) # Nobody
  BY DistinctOwners DEF Actors
<1>3. /\ \A x \in Consumers : x \notin Planners \cup Approvers \cup Rejecters \cup Reviewers
      /\ \A x \in Planners : x \notin Approvers \cup Rejecters \cup Reviewers
      /\ \A x \in Approvers : x \notin Rejecters \cup Reviewers
      /\ \A x \in Rejecters : x \notin Reviewers
  BY DistinctOwners
<1>4. /\ Actors = Consumers \cup Planners \cup Approvers \cup Rejecters \cup Reviewers
      /\ Executors = Consumers \cup Planners \cup Approvers
  BY DEF Actors, Executors, Direct
<1> QED
  BY <1>1, <1>2, <1>3, <1>4, KernelConstants

LEMMA ClaimsPass ==
  ASSUME Shaped, NEW w, ClaimBy(w)
  PROVE  /\ claim' \in [owner : Owners, live : BOOLEAN]
         /\ \A o \in Actors : o # w => GainsNothing(o)
<1>1. /\ claim \in [owner : Owners, live : BOOLEAN] /\ Nobody \in Owners
      /\ \A x \in Executors \cup Reviewers : x \in Owners
      /\ \A c \in Consumers : Recovery(c) \in Owners
  BY DEF Shaped, Owners
<1>2. claim' \in [owner : Owners, live : BOOLEAN]
  <2>1. CASE claim' \in {claim, [claim EXCEPT !.live = FALSE], [claim EXCEPT !.owner = Nobody]}
    BY <1>1, <2>1
  <2>2. CASE \E id \in Owners : claim' = [owner |-> id, live |-> TRUE]
    BY <2>2
  <2> QED
    BY <1>1, <2>1, <2>2 DEF ClaimBy
<1>3. ASSUME NEW o \in Actors, o # w, NEW id, id = o \/ (o \in Consumers /\ id = Recovery(o)), Holds(id)'
      PROVE  Holds(id)
  <2>1. /\ id # Nobody
        /\ w \in Executors \cup Reviewers => id # w
        /\ w \in Consumers => id # Recovery(w)
    <3>1. w \in Executors \cup Reviewers => w \in Actors
      BY Kinds
    <3> QED
      BY <1>3, <3>1, Kinds
  <2> QED
    BY <1>1, <1>3, <2>1 DEF ClaimBy, Holds
<1>4. ASSUME NEW o \in Actors, o # w PROVE GainsNothing(o)
  <2>1. Holds(o)' => Holds(o)
    BY <1>3, <1>4
  <2>2. ASSUME o \in Consumers, Holds(Recovery(o))' PROVE Holds(Recovery(o))
    BY <1>3, <1>4, <2>2
  <2> QED
    BY <2>1, <2>2 DEF GainsNothing
<1> QED
  BY <1>2, <1>4

LEMMA PerformedKept ==
  ASSUME Performed, performed' = performed, Started \subseteq Started',
         NEW w, OnlyBy(w), w \in Actors => Works(w)
  PROVE  Performed'
<1>1. ASSUME NEW x \in Executors, exec'[x].at = "working"
      PROVE  exec[x].at = "working" /\ exec'[x].step = exec[x].step
  BY <1>1, Kinds DEF OnlyBy, Undisturbed, Works
<1>2. ASSUME NEW s \in Unsafe, NEW x \in Executors, exec'[x].at = "working", exec'[x].step = s
      PROVE  performed[s] = 0 /\ \A y \in Executors : exec'[y].at = "working" /\ exec'[y].step = s => y = x
  BY <1>1, <1>2 DEF Performed
<1> QED
  BY <1>2 DEF Performed, Unsafe

\* A step that records nothing.
LEMMA QuietStep ==
  ASSUME KernelInv, journal' = journal, NEW w, OnlyBy(w), ClaimBy(w),
         faults' \in [crashes : Nat, stalls : Nat],
         ~Faultless' \/ (faults' = faults /\ Lasting),
         w \in Actors => Own(w)',
         Performed'
  PROVE  Proceeds
<1>1. Shaped'
  BY ClaimsPass DEF KernelInv, Shaped, OnlyBy, SameDomains
<1>2. History' /\ St' = St
  BY SameHistory DEF KernelInv
<1>3. Owned'
  <2>1. CASE Faultless' /\ St' \in InFlight
    <3>1. Faultless /\ Lasting
      BY <2>1 DEF Faultless
    <3>2. PICK x \in Executors : Engaged(x)
      BY <1>2, <2>1, <3>1 DEF KernelInv, Owned
    <3>3. Engaged(x)'
      BY <3>1, <3>2 DEF Lasting
    <3> QED
      BY <3>3 DEF Owned
  <2> QED
    BY <2>1 DEF Owned
<1>4. ASSUME NEW o \in Actors, o # w PROVE Own(o)'
  BY <1>4, ClaimsPass, Waiting DEF KernelInv, OnlyBy
<1>5. \A o \in Actors : Own(o)'
  BY <1>4
<1> QED
  BY <1>1, <1>2, <1>3, <1>5 DEF KernelInv, Proceeds

\* A step that records an event.
LEMMA TellingStep ==
  ASSUME SoleDecider, KernelInv, NEW e, Tells(e), NEW w, OnlyBy(w),
         claim' \in [owner : Owners, live : BOOLEAN], faults' = faults,
         \A o \in Actors : o # w => Passive(o),
         St = "waiting_approval" => w \in Approvers \/ (e.type = "status" /\ e.status \in Terminal),
         St' \in InFlight => w \in Executors /\ Engaged(w)',
         w \in Actors => Own(w)',
         Performed'
  PROVE  Proceeds
<1>1. Shaped'
  BY DEF KernelInv, Shaped, OnlyBy, SameDomains
<1>2. History'
  BY HistoryGoesOn DEF KernelInv
<1>3. Owned'
  BY DEF Owned
<1>4. ASSUME NEW o \in Actors, o # w PROVE Own(o)'
  <2>1. o \in Approvers /\ St = "waiting_approval" => e.type = "status" /\ e.status \in Terminal
    <3>1. ASSUME o \in Approvers, St = "waiting_approval", w \in Approvers PROVE FALSE
      <4>1. NeedsApproval # {}
        BY <3>1 DEF KernelInv, History, Accounted
      <4> QED
        BY <1>4, <3>1, <4>1 DEF SoleDecider
    <3> QED
      BY <3>1
  <2> QED
    BY <1>4, <2>1, Listening DEF KernelInv, OnlyBy
<1>5. \A o \in Actors : Own(o)'
  BY <1>4
<1> QED
  BY <1>1, <1>2, <1>3, <1>5 DEF KernelInv, Proceeds

\* Who holds the claim writes alone,
LEMMA AloneUnderTheClaim ==
  ASSUME claim' = claim, NEW w \in Actors, Holds(w) \/ (w \in Consumers /\ Holds(Recovery(w)))
  PROVE  \A o \in Actors : o # w => Passive(o)
<1>1. ASSUME NEW o \in Actors, o # w PROVE ~Holds(o)' /\ (o \in Consumers => ~Holds(Recovery(o))')
  BY <1>1, Kinds DEF Holds
<1> QED
  BY <1>1 DEF Passive

\* and so does who decides on a run that waits for a plan or for its owner.
LEMMA AloneByTheStatus ==
  ASSUME SoleDecider, KernelInv, claim' = claim, NEW w \in Actors,
         St = "planning" \/ (St = "waiting_approval" /\ w \in Approvers \cup Rejecters)
  PROVE  \A o \in Actors : o # w => Passive(o)
<1>1. ASSUME NEW o \in Actors, o # w, Holds(o), exec[o].at \in Busy PROVE FALSE
  <2>1. Attentive(o)
    BY DEF KernelInv, Own
  <2>2. St = "waiting_approval" /\ o \in Approvers
    BY <1>1, <2>1 DEF Attentive, Busy, Working
  <2>3. NeedsApproval # {}
    BY <2>2 DEF KernelInv, History, Accounted
  <2> QED
    BY <1>1, <2>2, <2>3 DEF SoleDecider
<1>2. ASSUME NEW o \in Actors, Holds(o), exec[o].at = "reviewed" PROVE FALSE
  BY <1>2 DEF KernelInv, Own, Reviewing
<1>3. ASSUME NEW o \in Consumers, Holds(Recovery(o)), tick[o] = "recording", found[o].base = 0 PROVE FALSE
  BY <1>3, Kinds DEF KernelInv, Own, Ticking, Recovering, InFlight
<1>4. ASSUME NEW o \in Actors PROVE (Holds(o)' <=> Holds(o)) /\ (Holds(Recovery(o))' <=> Holds(Recovery(o)))
  BY DEF Holds
<1> QED
  BY <1>1, <1>2, <1>3, <1>4 DEF Passive

-----------------------------------------------------------------------------
(* What the parts of the actions do.                                         *)

LEMMA Goes ==
  ASSUME Shaped, NEW x \in Actors, NEW where, NEW step, Goto(x, where, step)
  PROVE  /\ DOMAIN exec' = DOMAIN exec
         /\ exec'[x].at = where /\ exec'[x].step = step
         /\ \A o \in Actors : o # x => exec'[o] = exec[o]
<1>1. exec' = [exec EXCEPT ![x] = [at |-> where, step |-> step]] /\ DOMAIN exec = Actors
  BY DEF Goto, Shaped
<1>2. exec'[x] = [at |-> where, step |-> step]
  BY <1>1
<1> QED
  BY <1>1, <1>2

LEMMA Looking ==
  ASSUME Shaped, NEW x \in Actors, NEW v, view' = [view EXCEPT ![x] = v]
  PROVE  /\ DOMAIN view' = DOMAIN view
         /\ view'[x] = v
         /\ \A o \in Actors : o # x => view'[o] = view[o]
  BY DEF Shaped

\* Whoever ends forgets everything.
LEMMA Ending ==
  ASSUME Shaped, NEW x \in Actors, x \notin Consumers, Ends(x), UNCHANGED <<tick, found>>, History'
  PROVE  OnlyBy(x) /\ Own(x)' /\ exec'[x].at = "done" /\ Works(x)
<1>1. /\ Goto(x, "done", 0) /\ view' = [view EXCEPT ![x] = EmptyView]
  BY DEF Ends
<1>a. /\ DOMAIN exec' = DOMAIN exec /\ exec'[x].at = "done" /\ exec'[x].step = 0
      /\ \A o \in Actors : o # x => exec'[o] = exec[o]
  BY <1>1, Goes
<1>b. /\ DOMAIN view' = DOMAIN view /\ view'[x] = EmptyView
      /\ \A o \in Actors : o # x => view'[o] = view[o]
  BY <1>1, Looking
<1>2. OnlyBy(x) /\ view'[x] = EmptyView /\ exec'[x].at = "done" /\ exec'[x].step = 0
  BY <1>a, <1>b DEF OnlyBy, SameDomains, Undisturbed
<1>3. Placed(x)'
  BY <1>2, Kinds, KernelConstants DEF Placed, Working, Busy
<1>4. Faithful(view[x])'
  <2>1. (journal \in Seq(Event))'
    BY DEF History, Orderly
  <2>2. Faithful(EmptyView)'
    BY <2>1, EmptyAlwaysFits, PTL
  <2> QED
    BY <1>2, <2>2 DEF Faithful
<1> QED
  BY <1>2, <1>3, <1>4 DEF Own, Attentive, Reviewing, Planned, Deciding, Begins, Working, Busy, Works

\* A refreshed projection is the whole journal.
LEMMA Refreshing ==
  ASSUME KernelInv, NEW x \in Actors
  PROVE  Refreshed(view[x]) = Now /\ Truth = Now /\ CanReplay(Now) /\ Faithful(Now) /\ Faithful(EmptyView)
<1>1. journal \in Seq(Event) /\ Legal
  BY DEF KernelInv, History, Orderly
<1>2. Faithful(view[x])
  BY DEF KernelInv, Own
<1>3. Faithful(EmptyView) /\ Faithful(Now)
  BY <1>1, EmptyIsFaithful, NowIsFaithful
<1>4. St \in RunStatuses
  BY <1>1, NowIsTyped
<1>5. CanReplay(Now)
  BY <1>4 DEF CanReplay, St, RunStatuses, Broken
<1> QED
  BY <1>1, <1>2, <1>3, <1>5, RefreshedIsNow DEF Truth

\* Whoever records an event with the whole journal in its projection has the
\* whole journal in it afterwards.
LEMMA Writing ==
  ASSUME KernelInv, NEW x \in Actors, view[x] = Now, NEW e, Fits(e), Write(x, e)
  PROVE  /\ Tells(e) /\ journal' = Append(journal, e) /\ view'[x] = Now'
         /\ DOMAIN view' = DOMAIN view
         /\ \A o \in Actors : o # x => view'[o] = view[o]
<1>1. journal' = Append(journal, e) /\ view' = [view EXCEPT ![x] = Applied(view[x], e)]
  BY DEF Write
<1>2. journal \in Seq(Event) /\ History
  BY DEF KernelInv, History, Orderly
<1>3. Now.status \in RunStatuses
  BY <1>2, NowIsTyped DEF St
<1>4. e.type = "status" => MayFollow(Now.status, e.status) /\ e.status # Broken
  BY <1>2, FittingEvents DEF St
<1>5. Applied(Now, e) = Now'
  BY <1>1, <1>2, <1>3, <1>4, AppliedIsNow DEF RunStatuses, Broken
<1> QED
  BY <1>1, <1>5, Looking DEF Tells, KernelInv

LEMMA StatusTold ==
  ASSUME KernelInv, NEW x \in Actors, view[x] = Now, NEW s, NEW step, NEW next,
         ChangeStatus(x, s, step, next), Fits(StatusEvent(s, step))
  PROVE  Write(x, StatusEvent(s, step)) /\ Goto(x, next, step)
<1>1. StatusEvent(s, step).type = "status" /\ StatusEvent(s, step).status = s
  BY DEF StatusEvent
<1>2. MayFollow(Now.status, s)
  BY <1>1, FittingEvents DEF KernelInv, St
<1> QED
  BY <1>2 DEF ChangeStatus

\* The tick of a consumer while its execution moves on.
LEMMA TickStays ==
  ASSUME NEW x \in Actors, Own(x), exec[x].at # "idle", UNCHANGED <<tick, found>>,
         \/ journal' = journal /\ view'[x] = view[x] /\ (Holds(Recovery(x))' => Holds(Recovery(x)))
         \/ History /\ (\E e : journal' = Append(journal, e)) /\ claim' = claim /\ Holds(x)
  PROVE  x \in Consumers => Ticking(x)'
<1> SUFFICES ASSUME x \in Consumers PROVE Ticking(x)'
  OBVIOUS
<1>1. Ticking(x)
  BY DEF Own
<1>2. CASE journal' = journal /\ view'[x] = view[x] /\ (Holds(Recovery(x))' => Holds(Recovery(x)))
  <2>1. Now' = Now /\ St' = St /\ Started' = Started
    BY <1>2, SameHistory
  <2>2. Recovering(x)'
    BY <1>1, <1>2, <2>1 DEF Ticking, Recovering
  <2> QED
    BY <1>1, <1>2, <2>2 DEF Ticking
<1>3. CASE History /\ (\E e : journal' = Append(journal, e)) /\ claim' = claim /\ Holds(x)
  <2>1. Len(journal') = Len(journal) + 1 /\ Len(journal) \in Nat \ {0}
    BY <1>3, Growing
  <2>2. ~Holds(Recovery(x))'
    BY <1>3, Kinds DEF Holds
  <2>3. found[x].base \in 0..Len(journal') /\ Len(journal') # found[x].base
    BY <1>1, <2>1 DEF Ticking
  <2>4. Recovering(x)'
    BY <1>1, <2>2, <2>3 DEF Ticking, Recovering
  <2> QED
    BY <1>1, <2>3, <2>4 DEF Ticking
<1> QED
  BY <1>2, <1>3

\* An executor that arrives where its execution goes on, or where it gives up.
LEMMA Arriving ==
  ASSUME NEW x \in Actors, Placed(x)', Faithful(view[x])', Attentive(x)', Begins(x)',
         exec'[x].at \in Busy \cup {"releasing", "idle", "done"}, x \in Consumers => Ticking(x)'
  PROVE  Own(x)'
<1>1. Reviewing(x)' /\ Planned(x)' /\ Deciding(x)'
  BY DEF Reviewing, Planned, Deciding, Busy, Working
<1> QED
  BY <1>1 DEF Own

LEMMA Proceeding ==
  ASSUME NEW x \in Actors, Placed(x), exec[x].at \in Busy \cup {"claimed"},
         exec'[x].at \in Busy \cup {"releasing"}, exec'[x].step \in 0..NumSteps,
         exec'[x].at \in Working => exec'[x].step \in Steps
  PROVE  Placed(x)' /\ x \in Executors
<1>1. x \in Executors /\ x \notin Proposers
  BY Kinds DEF Placed, Busy, Working
<1> QED
  BY <1>1, Kinds DEF Placed, Busy, Working

-----------------------------------------------------------------------------
(* Executions.                                                               *)

\* What an executor that holds the claim knows.
LEMMA Knowing ==
  ASSUME KernelInv, NEW x \in Actors, Holds(x), exec[x].at \in Busy
  PROVE  /\ view[x] = Now /\ x \in Executors
         /\ St = "waiting_approval" => x \in Approvers
         /\ exec[x].at = "deciding" =>
              /\ Begun \subseteq Now.evidence
              /\ \/ St \in {"queued", "running"}
                 \/ St = "waiting_approval" /\ x \in Approvers /\ Now.active \in Now.approvals
         /\ exec[x].at \in Working =>
              /\ St = "running" /\ Remaining # {} /\ exec[x].step = NextStep
              /\ exec[x].at = "starting" => Begun \subseteq Now.evidence /\ Permitted(NextStep)
              /\ exec[x].at # "starting" => NextStep \in Begun /\ Begun \subseteq Now.evidence \cup {NextStep}
         /\ exec[x].at = "verifying" => St = "verifying"
<1>1. Attentive(x) /\ Placed(x)
  BY DEF KernelInv, Own
<1>2. x \in Executors
  BY <1>1, Kinds DEF Placed, Busy, Working
<1>3. St = "waiting_approval" => x \in Approvers
  BY <1>1 DEF Attentive, Busy, Working
<1> QED
  BY <1>1, <1>2, <1>3 DEF Attentive

\* An executor records an event and goes on to where that event leads.
LEMMA ExecutorTells ==
  ASSUME SoleDecider, KernelInv, NEW x \in Actors, Holds(x), exec[x].at \in Busy,
         NEW e, Fits(e), Write(x, e),
         NEW where \in Busy \cup {"releasing"}, NEW step \in 0..NumSteps, Goto(x, where, step),
         UNCHANGED <<claim, tick, found, faults>>,
         where \in Working => step \in Steps,
         St' \in InFlight => where # "releasing",
         where = "deciding" => (Begun \subseteq Now.evidence)' /\ St' \in {"queued", "running"},
         where \in Working =>
           /\ St' = "running" /\ Remaining' # {} /\ step = NextStep'
           /\ where = "starting" => (Begun \subseteq Now.evidence /\ Permitted(NextStep))'
           /\ where # "starting" => (NextStep \in Begun /\ Begun \subseteq Now.evidence \cup {NextStep})',
         where = "verifying" => St' = "verifying",
         where \in {"working", "worked"} => step \in Started',
         Performed'
  PROVE  Proceeds
<1>1. view[x] = Now /\ x \in Executors /\ (St = "waiting_approval" => x \in Approvers)
  BY Knowing
<1>2. /\ Tells(e) /\ journal' = Append(journal, e) /\ view'[x] = Now'
      /\ DOMAIN view' = DOMAIN view
      /\ \A o \in Actors : o # x => view'[o] = view[o]
  BY <1>1, Writing
<1>3. /\ DOMAIN exec' = DOMAIN exec
      /\ exec'[x].at = where /\ exec'[x].step = step
      /\ \A o \in Actors : o # x => exec'[o] = exec[o]
  BY Goes DEF KernelInv
<1>4. OnlyBy(x)
  BY <1>2, <1>3 DEF OnlyBy, SameDomains, Undisturbed
<1>5. Holds(x)'
  BY DEF Holds
<1>6. History /\ History' /\ Own(x)
  BY <1>2, HistoryGoesOn DEF KernelInv
<1>7. Placed(x)'
  BY <1>3, <1>6, Proceeding DEF Own
<1>8. Faithful(view[x])'
  <2>1. Now' = ViewAfter(journal', Len(journal')) /\ Len(journal') \in 0..Len(journal')
    BY <1>2, <1>6, Growing DEF Now
  <2> QED
    BY <1>2, <2>1 DEF Faithful
<1>9. Attentive(x)'
  BY <1>2, <1>3 DEF Attentive
<1>10. Begins(x)'
  BY <1>3 DEF Begins
<1>11. x \in Consumers => Ticking(x)'
  BY <1>2, <1>6, TickStays DEF Busy, Working
<1>12. Own(x)'
  BY <1>3, <1>7, <1>8, <1>9, <1>10, <1>11, Arriving
<1>13. St' \in InFlight => Engaged(x)'
  BY <1>3, <1>5 DEF Engaged
<1>14. \A o \in Actors : o # x => Passive(o)
  BY AloneUnderTheClaim
<1>15. claim' \in [owner : Owners, live : BOOLEAN]
  BY DEF KernelInv, Shaped
<1> QED
  BY <1>1, <1>2, <1>4, <1>12, <1>13, <1>14, <1>15, TellingStep

\* A status that leads out of the loop, or to its next place.
LEMMA ExecutorTellsStatus ==
  ASSUME SoleDecider, KernelInv, NEW x \in Actors, Holds(x), exec[x].at \in Busy,
         NEW s, NEW step \in 0..NumSteps, Fits(StatusEvent(s, step)),
         NEW where, ChangeStatus(x, s, step, where),
         UNCHANGED <<claim, tick, found, performed, faults>>,
         \/ where = "releasing" /\ s \notin InFlight
         \/ where = "verifying" /\ s = "verifying"
         \/ /\ where = "starting" /\ s = "running" /\ step = NextStep /\ Remaining # {}
            /\ Permitted(NextStep) /\ Begun \subseteq Now.evidence
  PROVE  Proceeds
<1> DEFINE e == StatusEvent(s, step)
<1>1. view[x] = Now
  BY Knowing
<1>2. Write(x, e) /\ Goto(x, where, step)
  BY <1>1, StatusTold
<1>3. e.type = "status" /\ e.status = s /\ e.step = step
  BY DEF StatusEvent
<1> HIDE DEF e
<1>4. journal' = Append(journal, e) /\ journal \in Seq(Event) /\ Tells(e)
  BY <1>1, <1>2, Writing DEF KernelInv, History, Orderly, e
<1>5. /\ St' = s /\ Remaining' = Remaining /\ NextStep' = NextStep
      /\ Now'.evidence = Now.evidence /\ Now'.approvals = Now.approvals
      /\ Started' = Started
      /\ s # "queued" => Begun' = Begun
  BY <1>3, <1>4, Next1, StartedNext, BegunNext
<1>6. Permitted(NextStep) => Permitted(NextStep)'
  BY <1>5 DEF Permitted
<1>7. Remaining # {} => NextStep \in Steps
  BY <1>4, NowIsTyped
<1>8. where \in Busy \cup {"releasing"} /\ (where \in Working => where = "starting")
  BY DEF Busy, Working
<1>9. OnlyBy(x) /\ Works(x)
  <2>1. /\ DOMAIN exec' = DOMAIN exec
        /\ exec'[x].at = where /\ exec'[x].step = step
        /\ \A o \in Actors : o # x => exec'[o] = exec[o]
    BY <1>2, Goes DEF KernelInv
  <2>2. DOMAIN view' = DOMAIN view /\ \A o \in Actors : o # x => view'[o] = view[o]
    BY <1>1, <1>2, Writing DEF e
  <2> QED
    BY <2>1, <2>2, <1>8 DEF OnlyBy, SameDomains, Undisturbed, Works
<1>10. Performed'
  BY <1>5, <1>9, PerformedKept DEF KernelInv
<1>11. /\ where \in Working => step \in Steps
       /\ St' \in InFlight => where # "releasing"
       /\ where = "deciding" => (Begun \subseteq Now.evidence)' /\ St' \in {"queued", "running"}
       /\ where = "verifying" => St' = "verifying"
       /\ where \in {"working", "worked"} => step \in Started'
  BY <1>5, <1>7 DEF Busy, Working
<1>12. where \in Working =>
         /\ St' = "running" /\ Remaining' # {} /\ step = NextStep'
         /\ where = "starting" => (Begun \subseteq Now.evidence /\ Permitted(NextStep))'
         /\ where # "starting" => (NextStep \in Begun /\ Begun \subseteq Now.evidence \cup {NextStep})'
  BY <1>5, <1>6, <1>8
<1> QED
  BY <1>2, <1>8, <1>10, <1>11, <1>12, ExecutorTells DEF e

LEMMA DecideStep ==
  ASSUME SoleDecider, KernelInv, NEW x \in Actors, Decide(x)
  PROVE  Proceeds
<1>1. /\ Holds(x) /\ exec[x].at = "deciding" /\ exec[x].at \in Busy
      /\ UNCHANGED <<claim, tick, found, performed, faults>>
  BY DEF Decide, At, Busy
<1>2. /\ view[x] = Now /\ x \in Executors /\ Begun \subseteq Now.evidence
      /\ \/ St \in {"queued", "running"}
         \/ St = "waiting_approval" /\ x \in Approvers /\ Now.active \in Now.approvals
  BY <1>1, Knowing
<1>3. journal \in Seq(Event) /\ Accounted /\ Shaped
  BY DEF KernelInv, History, Orderly
<1>4. /\ Remaining \subseteq Steps
      /\ Remaining # {} => NextStep \in Remaining /\ NextStep \in Steps /\ NextStep \in 0..NumSteps
      /\ 0 \in 0..NumSteps
  BY <1>3, NowIsTyped, KernelConstants DEF Steps
<1>5. /\ view[x].evidence = Now.evidence /\ view[x].approvals = Now.approvals /\ view[x].status = St
      /\ Steps \ view[x].evidence = Remaining /\ Min(Steps \ view[x].evidence) = NextStep
  BY <1>2 DEF St, Remaining, NextStep
<1>6. \/ Remaining = {} /\ ChangeStatus(x, "verifying", 0, "verifying")
      \/ Remaining # {} /\ ChangeStatus(x, "failed", NextStep, "releasing")
      \/ /\ Remaining # {} /\ NextStep \in NeedsApproval \ Now.approvals
         /\ ChangeStatus(x, "waiting_approval", NextStep, "releasing")
      \/ Remaining # {} /\ Permitted(NextStep) /\ St # "running" /\ ChangeStatus(x, "running", NextStep, "starting")
      \/ /\ Remaining # {} /\ Permitted(NextStep) /\ St = "running"
         /\ Goto(x, "starting", NextStep) /\ UNCHANGED <<journal, view>>
  BY <1>5 DEF Decide, Permitted
<1>7. CASE Remaining = {} /\ ChangeStatus(x, "verifying", 0, "verifying")
  <2>1. St = "running"
    BY <1>2, <1>3, <1>7 DEF Accounted
  <2>2. Fits(StatusEvent("verifying", 0))
    BY <1>4, <1>7, <2>1 DEF Fits, RunStatuses
  <2> QED
    BY <1>1, <1>4, <1>7, <2>2, ExecutorTellsStatus
<1>8. CASE Remaining # {} /\ ChangeStatus(x, "failed", NextStep, "releasing")
  <2>1. Fits(StatusEvent("failed", NextStep))
    BY <1>2, <1>4, <1>8 DEF Fits, RunStatuses, Terminal
  <2> QED
    BY <1>1, <1>4, <1>8, <2>1, ExecutorTellsStatus DEF InFlight
<1>9. CASE /\ Remaining # {} /\ NextStep \in NeedsApproval \ Now.approvals
           /\ ChangeStatus(x, "waiting_approval", NextStep, "releasing")
  <2>1. St \in {"queued", "running"}
    BY <1>2, <1>3, <1>9 DEF Accounted
  <2>2. Fits(StatusEvent("waiting_approval", NextStep))
    BY <1>2, <1>4, <1>9, <2>1 DEF Fits, RunStatuses
  <2> QED
    BY <1>1, <1>4, <1>9, <2>2, ExecutorTellsStatus DEF InFlight
<1>10. CASE Remaining # {} /\ Permitted(NextStep) /\ St # "running" /\ ChangeStatus(x, "running", NextStep, "starting")
  <2>1. Fits(StatusEvent("running", NextStep))
    BY <1>2, <1>4, <1>10 DEF Fits, RunStatuses
  <2> QED
    BY <1>1, <1>2, <1>4, <1>10, <2>1, ExecutorTellsStatus
<1>11. CASE /\ Remaining # {} /\ Permitted(NextStep) /\ St = "running"
            /\ Goto(x, "starting", NextStep) /\ UNCHANGED <<journal, view>>
  <2>1. /\ DOMAIN exec' = DOMAIN exec
        /\ exec'[x].at = "starting" /\ exec'[x].step = NextStep
        /\ \A o \in Actors : o # x => exec'[o] = exec[o]
    BY <1>3, <1>11, Goes
  <2>2. OnlyBy(x) /\ Works(x) /\ ClaimBy(x)
    BY <1>1, <1>11, <2>1 DEF OnlyBy, SameDomains, Undisturbed, Works, ClaimBy
  <2>3. /\ Now' = Now /\ St' = St /\ Remaining' = Remaining /\ NextStep' = NextStep
        /\ Begun' = Begun /\ Started' = Started /\ (Permitted(NextStep) => Permitted(NextStep)')
        /\ Faithful(view[x]) => Faithful(view[x])'
    BY <1>11, SameHistory DEF Permitted, Faithful
  <2>4. Own(x)
    BY DEF KernelInv
  <2>5. Placed(x)'
    BY <1>1, <1>4, <1>11, <2>1, <2>4, Proceeding DEF Own, Busy, Working
  <2>6. Attentive(x)'
    BY <1>2, <1>11, <2>1, <2>3 DEF Attentive
  <2>7. Begins(x)'
    BY <2>1 DEF Begins
  <2>8. x \in Consumers => Ticking(x)'
    BY <1>1, <1>11, <2>4, TickStays DEF Holds
  <2>9. Own(x)'
    BY <2>1, <2>3, <2>4, <2>5, <2>6, <2>7, <2>8, Arriving DEF Busy, Working, Own
  <2>10. Performed'
    BY <1>1, <2>2, <2>3, PerformedKept DEF KernelInv
  <2>11. Lasting
    <3>1. ASSUME NEW y \in Executors, Engaged(y) PROVE Engaged(y)'
      <4>1. y = x
        BY <1>1, <3>1 DEF Engaged, Holds
      <4> QED
        BY <1>1, <2>1, <4>1 DEF Engaged, Holds, Busy, Working
    <3> QED
      BY <3>1 DEF Lasting
  <2>12. faults' \in [crashes : Nat, stalls : Nat] /\ faults' = faults
    BY <1>1, <1>3 DEF Shaped
  <2> QED
    BY <1>11, <2>2, <2>9, <2>10, <2>11, <2>12, QuietStep
<1> QED
  BY <1>6, <1>7, <1>8, <1>9, <1>10, <1>11

LEMMA StartWorkStep ==
  ASSUME SoleDecider, KernelInv, NEW x \in Actors, StartWork(x)
  PROVE  Proceeds
<1> DEFINE e == StepEvent("started", exec[x].step)
<1>1. /\ Holds(x) /\ exec[x].at = "starting" /\ exec[x].at \in Busy
      /\ UNCHANGED <<claim, tick, found, performed, faults>>
      /\ Write(x, e) /\ Goto(x, "working", exec[x].step)
  BY DEF StartWork, At, Busy, Working
<1>2. /\ view[x] = Now /\ x \in Executors
      /\ St = "running" /\ Remaining # {} /\ exec[x].step = NextStep
      /\ Begun \subseteq Now.evidence /\ Permitted(NextStep)
  BY <1>1, Knowing DEF Working
<1>3. journal \in Seq(Event) /\ Accounted /\ Shaped /\ Performed
  BY DEF KernelInv, History, Orderly
<1>4. /\ NextStep \in Remaining /\ NextStep \in Steps /\ NextStep \in 0..NumSteps
      /\ NextStep \notin Begun
  BY <1>2, <1>3, NowIsTyped DEF Steps, Remaining
<1>5. Fits(e)
  BY <1>2, <1>4 DEF Fits
<1>6. e.type = "started" /\ e.step = NextStep
  BY <1>2 DEF StepEvent
<1> HIDE DEF e
<1>7. journal' = Append(journal, e) /\ Tells(e)
  BY <1>1, <1>2, <1>5, Writing
<1>8. /\ St' = St /\ Remaining' = Remaining /\ NextStep' = NextStep /\ Now'.evidence = Now.evidence
      /\ Begun' = Begun \cup {NextStep} /\ Started' = Started \cup {NextStep}
  BY <1>3, <1>6, <1>7, Next1, StartedNext, BegunNext
<1>9. /\ DOMAIN exec' = DOMAIN exec
      /\ exec'[x].at = "working" /\ exec'[x].step = NextStep
      /\ \A o \in Actors : o # x => exec'[o] = exec[o]
  BY <1>1, <1>2, <1>3, Goes
<1>10. Performed'
  <2>1. ASSUME NEW s \in Unsafe, s \in Begun \/ s = NextStep PROVE s = NextStep \/ s \in Now.evidence
    BY <1>2, <2>1
  <2>2. ASSUME NextStep \in Unsafe
        PROVE  performed[NextStep] = 0 /\ \A y \in Executors : y # x => ~(exec[y].at = "working" /\ exec[y].step = NextStep)
    <3>1. NextStep \notin Started
      BY <1>3, <1>4, <2>2 DEF Accounted
    <3>2. ASSUME NEW y \in Executors, exec[y].at = "working", exec[y].step = NextStep PROVE FALSE
      <4>1. Begins(y)
        BY <3>2, Kinds DEF KernelInv, Own
      <4> QED
        BY <3>1, <3>2, <4>1 DEF Begins
    <3>3. performed[NextStep] = 0
      BY <1>3, <1>4, <3>1 DEF Performed
    <3> QED
      BY <3>2, <3>3
  <2>3. ASSUME NEW s \in Unsafe, NEW y \in Executors, exec'[y].at = "working", exec'[y].step = s
        PROVE  performed[s] = 0 /\ \A z \in Executors : exec'[z].at = "working" /\ exec'[z].step = s => z = y
    <3>1. CASE s = NextStep
      <4>1. \A z \in Executors : exec'[z].at = "working" /\ exec'[z].step = s => z = x
        BY <1>9, <2>2, <2>3, <3>1, Kinds
      <4> QED
        BY <2>2, <2>3, <3>1, <4>1
    <3>2. CASE s # NextStep
      <4>1. \A z \in Executors : exec'[z].at = "working" /\ exec'[z].step = s => exec[z].at = "working" /\ exec[z].step = s
        BY <1>9, <3>2, Kinds
      <4> QED
        BY <1>3, <2>3, <4>1 DEF Performed
    <3> QED
      BY <3>1, <3>2
  <2> QED
    BY <1>1, <1>3, <1>8, <2>3 DEF Performed, Unsafe
<1>11. "working" \in Busy \cup {"releasing"} /\ "working" \in Working
  BY DEF Busy, Working
<1> QED
  BY <1>1, <1>2, <1>4, <1>5, <1>8, <1>10, <1>11, ExecutorTells

LEMMA RecordEvidenceStep ==
  ASSUME SoleDecider, KernelInv, NEW x \in Actors, RecordEvidence(x)
  PROVE  Proceeds
<1> DEFINE e == StepEvent("evidence", exec[x].step)
<1>1. /\ Holds(x) /\ exec[x].at = "worked" /\ exec[x].at \in Busy
      /\ UNCHANGED <<claim, tick, found, performed, faults>>
      /\ Write(x, e) /\ Goto(x, "deciding", 0)
  BY DEF RecordEvidence, At, Busy, Working
<1>2. /\ view[x] = Now /\ x \in Executors
      /\ St = "running" /\ Remaining # {} /\ exec[x].step = NextStep
      /\ NextStep \in Begun /\ Begun \subseteq Now.evidence \cup {NextStep}
  BY <1>1, Knowing DEF Working
<1>3. journal \in Seq(Event) /\ Shaped /\ 0 \in 0..NumSteps
  BY KernelConstants DEF KernelInv, History, Orderly
<1>4. Fits(e)
  BY <1>2 DEF Fits
<1>5. e.type = "evidence" /\ e.step = NextStep
  BY <1>2 DEF StepEvent
<1> HIDE DEF e
<1>6. journal' = Append(journal, e) /\ Tells(e) /\ DOMAIN view' = DOMAIN view
      /\ \A o \in Actors : o # x => view'[o] = view[o]
  BY <1>1, <1>2, <1>4, Writing
<1>7. /\ St' = St /\ Now'.evidence = Now.evidence \cup {NextStep}
      /\ Begun' = Begun /\ Started' = Started
  BY <1>3, <1>5, <1>6, Next1, StartedNext, BegunNext
<1>8. /\ DOMAIN exec' = DOMAIN exec
      /\ exec'[x].at = "deciding"
      /\ \A o \in Actors : o # x => exec'[o] = exec[o]
  BY <1>1, <1>3, Goes
<1>9. OnlyBy(x) /\ Works(x)
  BY <1>1, <1>6, <1>8 DEF OnlyBy, SameDomains, Undisturbed, Works
<1>10. Performed'
  BY <1>1, <1>7, <1>9, PerformedKept DEF KernelInv
<1>11. "deciding" \in Busy \cup {"releasing"} /\ "deciding" \notin Working
  BY DEF Busy, Working
<1> QED
  BY <1>1, <1>2, <1>3, <1>4, <1>7, <1>10, <1>11, ExecutorTells

LEMMA FailStepStep ==
  ASSUME SoleDecider, KernelInv, NEW x \in Actors, FailStep(x)
  PROVE  Proceeds
<1>1. /\ Holds(x) /\ exec[x].at \in Working /\ exec[x].at \in Busy
      /\ UNCHANGED <<claim, tick, found, performed, faults>>
      /\ ChangeStatus(x, "failed", exec[x].step, "releasing")
  BY DEF FailStep, Busy, Working
<1>2. St = "running" /\ exec[x].step \in 0..NumSteps
  BY <1>1, Knowing DEF KernelInv, Own, Placed, Working
<1>3. Fits(StatusEvent("failed", exec[x].step))
  BY <1>2 DEF Fits, RunStatuses, Terminal
<1> QED
  BY <1>1, <1>2, <1>3, ExecutorTellsStatus DEF InFlight

LEMMA RecordVerdictStep ==
  ASSUME SoleDecider, KernelInv, NEW x \in Actors, RecordVerdict(x)
  PROVE  Proceeds
<1>1. /\ Holds(x) /\ exec[x].at = "verifying" /\ exec[x].at \in Busy
      /\ UNCHANGED <<claim, tick, found, performed, faults>>
  BY DEF RecordVerdict, At, Busy
<1>2. PICK s \in {"completed", "failed", "waiting_review"} : ChangeStatus(x, s, 0, "releasing")
  BY DEF RecordVerdict
<1>3. St = "verifying" /\ 0 \in 0..NumSteps
  BY <1>1, Knowing, KernelConstants
<1>4. Fits(StatusEvent(s, 0))
  BY <1>2, <1>3 DEF Fits, RunStatuses, Terminal
<1>5. s \notin InFlight
  BY <1>2 DEF InFlight
<1> QED
  BY <1>1, <1>2, <1>3, <1>4, <1>5, ExecutorTellsStatus

\* Steps that leave those alone who work.
LEMMA Lasts ==
  ASSUME NEW x, OnlyBy(x), x \in Executors => (Engaged(x) => Engaged(x)'),
         \/ claim' = claim \/ ~claim.live \/ claim.owner = Nobody
         \/ claim.owner = x /\ ~Engaged(x)
         \/ x \in Consumers /\ claim.owner = Recovery(x)
  PROVE  Lasting
<1>1. ASSUME NEW y \in Executors, y # x, Engaged(y) PROVE Engaged(y)'
  <2>1. claim' = claim
    BY <1>1, Kinds DEF Engaged, Holds
  <2>2. exec'[y] = exec[y]
    BY <1>1, Kinds DEF OnlyBy, Undisturbed
  <2> QED
    BY <1>1, <2>1, <2>2 DEF Engaged, Holds
<1> QED
  BY <1>1 DEF Lasting

\* A step of an actor that records nothing and begins no work.
LEMMA QuietMove ==
  ASSUME KernelInv, journal' = journal, NEW x \in Actors, OnlyBy(x), ClaimBy(x),
         UNCHANGED <<performed, faults>>, Works(x), Lasting, Own(x)'
  PROVE  Proceeds
<1>1. faults' \in [crashes : Nat, stalls : Nat]
  BY DEF KernelInv, Shaped
<1>2. Performed'
  BY SameHistory, PerformedKept DEF KernelInv
<1> QED
  BY <1>1, <1>2, QuietStep

\* A process other than a consumer's ends without a word.
LEMMA QuietEnd ==
  ASSUME KernelInv, journal' = journal, NEW x \in Actors, x \notin Consumers, Ends(x), ClaimBy(x),
         UNCHANGED <<tick, found, performed, faults>>, ~Engaged(x),
         claim' = claim \/ claim.owner = x
  PROVE  Proceeds
<1>1. OnlyBy(x) /\ Own(x)' /\ Works(x)
  BY SameHistory, Ending DEF KernelInv
<1> QED
  BY <1>1, Lasts, QuietMove

\* The place of an actor changes, and nothing it knows.
LEMMA Moving ==
  ASSUME KernelInv, NEW x \in Actors, NEW where, NEW step, Goto(x, where, step), UNCHANGED <<view, tick, found>>
  PROVE  /\ OnlyBy(x) /\ exec'[x].at = where /\ exec'[x].step = step /\ Own(x)
         /\ journal' = journal => Faithful(view[x])'
<1>1. /\ DOMAIN exec' = DOMAIN exec
      /\ exec'[x].at = where /\ exec'[x].step = step
      /\ \A o \in Actors : o # x => exec'[o] = exec[o]
  BY Goes DEF KernelInv
<1>2. OnlyBy(x)
  BY <1>1 DEF OnlyBy, SameDomains, Undisturbed
<1>3. Own(x)
  BY DEF KernelInv
<1>4. journal' = journal => Faithful(view[x])'
  BY <1>3, SameHistory DEF Own, Faithful
<1> QED
  BY <1>1, <1>2, <1>3, <1>4

LEMMA FencedStep ==
  ASSUME KernelInv, NEW x \in Actors, Fenced(x)
  PROVE  Proceeds
<1>1. /\ exec[x].at \in Busy /\ ~Holds(x) /\ Goto(x, "releasing", 0)
      /\ UNCHANGED <<journal, claim, view, tick, found, performed, faults>>
  BY DEF Fenced, Busy, Working
<1>2. /\ OnlyBy(x) /\ exec'[x].at = "releasing" /\ exec'[x].step = 0 /\ Own(x)
      /\ Faithful(view[x])'
  BY <1>1, Moving
<1>3. Placed(x)'
  BY <1>1, <1>2, Proceeding, KernelConstants DEF Own, Busy, Working
<1>4. x \in Consumers => Ticking(x)'
  BY <1>1, <1>2, TickStays DEF Holds, Busy, Working
<1>5. Own(x)'
  BY <1>2, <1>3, <1>4, Arriving DEF Attentive, Begins, Busy, Working
<1>6. ClaimBy(x) /\ Works(x) /\ Lasting
  BY <1>1, <1>2, Lasts DEF ClaimBy, Works, Engaged
<1> QED
  BY <1>1, <1>2, <1>5, <1>6, QuietMove

LEMMA ReleaseStep ==
  ASSUME KernelInv, NEW x \in Actors, Release(x)
  PROVE  Proceeds
<1>1. /\ exec[x].at = "releasing"
      /\ UNCHANGED <<journal, tick, found, performed, faults>>
      /\ claim' = IF claim.owner = x THEN [claim EXCEPT !.live = FALSE] ELSE claim
      /\ IF x \in Consumers THEN Goto(x, "idle", 0) /\ UNCHANGED view ELSE Ends(x)
  BY DEF Release, At
<1>2. ClaimBy(x) /\ ~Engaged(x) /\ (claim' = claim \/ claim.owner = x)
  BY <1>1 DEF ClaimBy, Engaged, Busy, Working
<1>3. CASE x \notin Consumers
  BY <1>1, <1>2, <1>3, QuietEnd
<1>4. CASE x \in Consumers
  <2>1. /\ OnlyBy(x) /\ exec'[x].at = "idle" /\ exec'[x].step = 0 /\ Own(x)
        /\ Faithful(view[x])'
    BY <1>1, <1>4, Moving
  <2>2. Placed(x)'
    BY <1>4, <2>1, Kinds, KernelConstants DEF Placed, Busy, Working
  <2>3. Holds(Recovery(x))' => Holds(Recovery(x))
    <3>1. claim \in [owner : Owners, live : BOOLEAN]
      BY DEF KernelInv, Shaped
    <3> QED
      BY <1>1, <3>1 DEF Holds
  <2>4. Ticking(x)'
    BY <1>1, <1>4, <2>1, <2>3, TickStays
  <2>5. Own(x)'
    BY <2>1, <2>2, <2>4, Arriving DEF Attentive, Begins, Busy, Working
  <2>6. Works(x) /\ Lasting
    BY <1>2, <2>1, Lasts DEF Works
  <2> QED
    BY <1>1, <1>2, <2>1, <2>5, <2>6, QuietMove
<1> QED
  BY <1>3, <1>4

LEMMA ClaimDirectStep ==
  ASSUME KernelInv, NEW x \in Actors, x \in Direct, ClaimDirect(x)
  PROVE  Proceeds
<1>1. /\ exec[x].at = "granted" /\ x \notin Consumers /\ ~Engaged(x) /\ x \in Executors
      /\ UNCHANGED <<journal, tick, found, performed, faults>>
  BY Kinds DEF ClaimDirect, At, Engaged, Busy, Working, Direct
<1>2. CASE Ends(x) /\ UNCHANGED claim
  BY <1>1, <1>2, QuietEnd DEF ClaimBy
<1>3. CASE ~claim.live /\ claim' = [owner |-> x, live |-> TRUE] /\ Goto(x, "claimed", 0) /\ UNCHANGED view
  <2>1. /\ OnlyBy(x) /\ exec'[x].at = "claimed" /\ exec'[x].step = 0 /\ Own(x)
        /\ Faithful(view[x])'
    BY <1>1, <1>3, Moving
  <2>2. Placed(x)'
    BY <1>1, <2>1, Kinds, KernelConstants DEF Own, Placed, Busy, Working
  <2>3. Deciding(x)'
    BY <1>1, <1>3, <2>1, SameHistory DEF Own, Deciding
  <2>4. Own(x)'
    BY <1>1, <2>1, <2>2, <2>3 DEF Own, Attentive, Reviewing, Planned, Begins, Busy, Working
  <2>5. ClaimBy(x) /\ Works(x) /\ Lasting
    BY <1>1, <1>3, <2>1, Lasts DEF ClaimBy, Works
  <2> QED
    BY <1>1, <2>1, <2>4, <2>5, QuietMove
<1> QED
  BY <1>2, <1>3 DEF ClaimDirect

LEMMA RefreshDirectStep ==
  ASSUME SoleDecider, KernelInv, NEW x \in Actors, x \in Direct, RefreshDirect(x)
  PROVE  Proceeds
<1>1. /\ exec[x].at = "claimed" /\ x \notin Consumers /\ ~Engaged(x)
      /\ UNCHANGED <<journal, claim, tick, found, performed, faults>>
  BY Kinds DEF RefreshDirect, At, Engaged, Busy, Working, Direct
<1>2. Refreshed(view[x]) = Now /\ Faithful(Now)
  BY Refreshing
<1>3. Own(x) /\ Shaped /\ Accounted
  BY DEF KernelInv, History
<1>4. CASE St \in {"queued", "waiting_approval"} /\ view' = [view EXCEPT ![x] = Now] /\ Goto(x, "deciding", 0)
  <2>1. /\ DOMAIN exec' = DOMAIN exec
        /\ exec'[x].at = "deciding" /\ exec'[x].step = 0
        /\ \A o \in Actors : o # x => exec'[o] = exec[o]
    BY <1>3, <1>4, Goes
  <2>2. /\ DOMAIN view' = DOMAIN view /\ view'[x] = Now
        /\ \A o \in Actors : o # x => view'[o] = view[o]
    BY <1>3, <1>4, Looking
  <2>3. OnlyBy(x) /\ ClaimBy(x) /\ Works(x)
    BY <1>1, <2>1, <2>2 DEF OnlyBy, SameDomains, Undisturbed, ClaimBy, Works
  <2>4. /\ Now' = Now /\ St' = St /\ Begun' = Begun /\ Faithful(view[x])'
    BY <1>1, <1>2, <2>2, SameHistory DEF Faithful
  <2>5. Placed(x)'
    BY <1>1, <1>3, <2>1, Proceeding, KernelConstants DEF Own, Busy, Working
  <2>6. St = "waiting_approval" => x \in Approvers /\ Now.active \in Now.approvals
    <3>1. ASSUME St = "waiting_approval" PROVE x \in Approvers
      <4>1. NeedsApproval # {}
        BY <1>3, <3>1 DEF Accounted
      <4> QED
        BY <1>1, <1>3, <4>1 DEF SoleDecider, Direct, Own, Placed
    <3> QED
      BY <1>1, <1>3, <3>1 DEF Own, Deciding
  <2>7. Attentive(x)'
    BY <1>3, <1>4, <2>1, <2>2, <2>4, <2>6 DEF Attentive, Accounted, Working
  <2>8. Own(x)'
    BY <1>1, <2>1, <2>4, <2>5, <2>7, Arriving DEF Begins, Busy
  <2>9. Lasting
    BY <1>1, <2>3, Lasts
  <2> QED
    BY <1>1, <2>3, <2>8, <2>9, QuietMove
<1>5. CASE Goto(x, "releasing", 0) /\ UNCHANGED view
  <2>1. /\ OnlyBy(x) /\ exec'[x].at = "releasing" /\ exec'[x].step = 0
        /\ Faithful(view[x])'
    BY <1>1, <1>5, Moving
  <2>2. Placed(x)'
    BY <1>1, <1>3, <2>1, Proceeding, KernelConstants DEF Own, Busy, Working
  <2>3. Own(x)'
    BY <1>1, <2>1, <2>2, Arriving DEF Attentive, Begins, Busy, Working
  <2>4. ClaimBy(x) /\ Works(x) /\ Lasting
    BY <1>1, <2>1, Lasts DEF ClaimBy, Works
  <2> QED
    BY <1>1, <2>1, <2>3, <2>4, QuietMove
<1> QED
  BY <1>2, <1>4, <1>5 DEF RefreshDirect, St

LEMMA WorkStep ==
  ASSUME KernelInv, NEW x \in Actors, Work(x)
  PROVE  Proceeds
<1> DEFINE s == exec[x].step
<1>1. /\ exec[x].at = "working" /\ exec[x].at \in Busy
      /\ performed' = [performed EXCEPT ![s] = @ + 1] /\ Goto(x, "worked", s)
      /\ UNCHANGED <<journal, claim, view, tick, found, faults>>
  BY DEF Work, At, Busy, Working
<1>2. /\ OnlyBy(x) /\ exec'[x].at = "worked" /\ exec'[x].step = s /\ Own(x)
      /\ Faithful(view[x])'
  BY <1>1, Moving
<1>3. s \in Steps /\ s \in 0..NumSteps /\ s \in Started
  BY <1>1, <1>2 DEF Own, Placed, Begins, Working
<1>4. Placed(x)' /\ x \in Executors
  BY <1>1, <1>2, <1>3, Proceeding DEF Own, Busy, Working
<1>5. x \in Consumers => Ticking(x)'
  BY <1>1, <1>2, TickStays DEF Holds
<1>6. /\ Now' = Now /\ St' = St /\ Remaining' = Remaining /\ NextStep' = NextStep
      /\ Begun' = Begun /\ Started' = Started
  BY <1>1, SameHistory
<1>7. Attentive(x)'
  BY <1>1, <1>2, <1>6 DEF Own, Attentive, Holds, Busy, Working
<1>8. Begins(x)'
  BY <1>2, <1>3, <1>6 DEF Begins
<1>9. Own(x)'
  BY <1>2, <1>4, <1>5, <1>7, <1>8, Arriving DEF Busy, Working
<1>10. Lasting /\ ClaimBy(x)
  BY <1>1, <1>2, Lasts DEF Engaged, Holds, Busy, Working, ClaimBy
<1>11. Performed'
  <2>1. performed \in [Steps -> Nat] /\ Performed
    BY DEF KernelInv, Performed
  <2>2. performed' \in [Steps -> Nat] /\ \A t \in Steps : performed'[t] = IF t = s THEN performed[t] + 1 ELSE performed[t]
    BY <1>1, <1>3, <2>1
  <2>3. \A t \in Steps : performed'[t] > 0 => t \in Started'
    BY <1>3, <1>6, <2>1, <2>2 DEF Performed
  <2>4. s \in Unsafe => performed[s] = 0 /\ \A y \in Executors : exec[y].at = "working" /\ exec[y].step = s => y = x
    BY <1>1, <1>4, <2>1 DEF Performed
  <2>5. \A y \in Executors : exec'[y].at = "working" => y # x /\ exec'[y] = exec[y]
    BY <1>2, Kinds DEF OnlyBy, Undisturbed
  <2>6. Unsafe \subseteq Steps
    BY DEF Unsafe
  <2>7. ASSUME NEW t \in Unsafe
        PROVE  /\ performed'[t] <= 1
               /\ \A y \in Executors : exec'[y].at = "working" /\ exec'[y].step = t =>
                    performed'[t] = 0 /\ \A z \in Executors : exec'[z].at = "working" /\ exec'[z].step = t => z = y
    <3>1. CASE t = s
      <4>1. performed'[t] = 1
        BY <1>3, <2>2, <2>4, <3>1
      <4>2. \A y \in Executors : ~(exec'[y].at = "working" /\ exec'[y].step = t)
        BY <2>4, <2>5, <3>1
      <4> QED
        BY <4>1, <4>2
    <3>2. CASE t # s
      <4>1. performed'[t] = performed[t]
        BY <2>2, <2>6, <3>2
      <4> QED
        BY <2>1, <2>5, <4>1 DEF Performed
    <3> QED
      BY <3>1, <3>2
  <2> QED
    BY <2>2, <2>3, <2>7 DEF Performed, Unsafe
<1>12. faults' \in [crashes : Nat, stalls : Nat] /\ faults' = faults
  BY <1>1 DEF KernelInv, Shaped
<1> QED
  BY <1>1, <1>2, <1>9, <1>10, <1>11, <1>12, QuietStep

-----------------------------------------------------------------------------
(* The plan, the owner's decisions, the reviews.                             *)

\* A step of an actor that records an event, whose own part is known.
LEMMA TellingMove ==
  ASSUME SoleDecider, KernelInv, NEW e, Tells(e), NEW w \in Actors, OnlyBy(w),
         UNCHANGED <<claim, performed, faults>>, Works(w), Own(w)',
         \/ Holds(w) \/ (w \in Consumers /\ Holds(Recovery(w)))
         \/ St = "planning" \/ (St = "waiting_approval" /\ w \in Approvers \cup Rejecters),
         St = "waiting_approval" => w \in Approvers \/ (e.type = "status" /\ e.status \in Terminal),
         St' \notin InFlight
  PROVE  Proceeds
<1>1. \A o \in Actors : o # w => Passive(o)
  BY AloneUnderTheClaim, AloneByTheStatus
<1>2. Started \subseteq Started'
  BY Growing DEF KernelInv, Tells
<1>3. Performed'
  BY <1>2, PerformedKept DEF KernelInv
<1>4. claim' \in [owner : Owners, live : BOOLEAN]
  BY DEF KernelInv, Shaped
<1> QED
  BY <1>1, <1>3, <1>4, TellingStep

\* What the conditional writes look at.
LEMMA Recorded ==
  ASSUME KernelInv
  PROVE  RecordedStatus = St /\ journal[LastStatus].step = Now.active /\ 0 \in 0..NumSteps /\ Shaped /\ History
  BY RecordedIsNow, KernelConstants DEF KernelInv, History

\* A conditional write of a process that ends with it.
LEMMA LastWord ==
  ASSUME SoleDecider, KernelInv, NEW x \in Actors, x \notin Consumers, Ends(x),
         NEW s, Fits(StatusEvent(s, 0)), s \in {"queued", "failed"},
         St = "planning" \/ (St = "waiting_approval" /\ x \in Rejecters /\ s = "failed"),
         journal' = Append(journal, StatusEvent(s, 0)),
         UNCHANGED <<claim, tick, found, performed, faults>>
  PROVE  Proceeds
<1> DEFINE e == StatusEvent(s, 0)
<1>1. e.type = "status" /\ e.status = s
  BY DEF StatusEvent
<1>2. Tells(e) /\ journal' = Append(journal, e) /\ journal \in Seq(Event) /\ Shaped
  BY DEF Tells, KernelInv, History, Orderly
<1> HIDE DEF e
<1>3. History'
  BY <1>2, HistoryGoesOn DEF KernelInv
<1>4. St' = s
  BY <1>1, <1>2, Next1
<1>5. OnlyBy(x) /\ Own(x)' /\ Works(x)
  BY <1>2, <1>3, Ending
<1> QED
  BY <1>1, <1>2, <1>4, <1>5, TellingMove DEF InFlight, Terminal

LEMMA PlanStep ==
  ASSUME SoleDecider, KernelInv, NEW p \in Planners, AttachPlan(p) \/ AbandonPlan(p)
  PROVE  Proceeds
<1>1. /\ exec[p].at = "planning" /\ p \in Actors /\ p \notin Consumers /\ p \notin Approvers
      /\ UNCHANGED <<claim, tick, found, performed, faults>>
  BY Kinds DEF AttachPlan, AbandonPlan, At
<1>2. RecordedStatus = St /\ 0 \in 0..NumSteps /\ Shaped /\ History
  BY Recorded
<1>3. ~Engaged(p) /\ Own(p)
  BY <1>1 DEF Engaged, Busy, Working, KernelInv
<1>4. CASE Ends(p) /\ journal' = journal
  BY <1>1, <1>3, <1>4, QuietEnd DEF ClaimBy
<1>5. CASE Ends(p) /\ St = "planning" /\ \E s \in {"queued", "failed"} : journal' = Append(journal, StatusEvent(s, 0))
  <2>1. PICK s \in {"queued", "failed"} : journal' = Append(journal, StatusEvent(s, 0))
    BY <1>5
  <2>2. Fits(StatusEvent(s, 0))
    BY <1>2, <1>5, <2>1 DEF Fits, RunStatuses, Terminal
  <2> QED
    BY <1>1, <1>5, <2>1, <2>2, LastWord
<1>6. CASE /\ St = "planning" /\ Write(p, StatusEvent("queued", 0))
           /\ p \notin Proposers /\ Goto(p, "granted", 0)
  <2> DEFINE e == StatusEvent("queued", 0)
  <2>1. Fits(e)
    BY <1>2, <1>6 DEF Fits, RunStatuses
  <2>2. e.type = "status" /\ e.status = "queued"
    BY DEF StatusEvent
  <2>3. view[p] = Now
    <3>1. view[p] = ViewAfter(journal, 1) /\ Len(journal) = 1
      BY <1>1, <1>2, <1>3, <1>6 DEF Own, Planned, History, Orderly
    <3> QED
      BY <3>1 DEF Now
  <2>a. Write(p, e)
    BY <1>6
  <2> HIDE DEF e
  <2>4. /\ Tells(e) /\ journal' = Append(journal, e) /\ view'[p] = Now' /\ DOMAIN view' = DOMAIN view
        /\ \A o \in Actors : o # p => view'[o] = view[o]
    BY <1>1, <2>a, <2>1, <2>3, Writing
  <2>5. /\ DOMAIN exec' = DOMAIN exec
        /\ exec'[p].at = "granted" /\ exec'[p].step = 0
        /\ \A o \in Actors : o # p => exec'[o] = exec[o]
    BY <1>1, <1>2, <1>6, Goes
  <2>6. OnlyBy(p) /\ Works(p)
    BY <1>1, <2>4, <2>5 DEF OnlyBy, SameDomains, Undisturbed, Works
  <2>7. St' = "queued"
    BY <1>2, <2>2, <2>4, Next1 DEF History, Orderly
  <2>8. Faithful(view[p])'
    <3>1. Now' = ViewAfter(journal', Len(journal')) /\ Len(journal') \in 0..Len(journal')
      BY <1>2, <2>4, Growing DEF Now
    <3> QED
      BY <2>4, <3>1 DEF Faithful
  <2>9. Placed(p)'
    BY <1>1, <1>2, <1>6, <2>5, Kinds DEF Placed, Working, Busy
  <2>10. Own(p)'
    BY <1>1, <2>5, <2>8, <2>9 DEF Own, Attentive, Reviewing, Planned, Deciding, Begins, Working, Busy
  <2> QED
    BY <1>1, <1>6, <2>4, <2>6, <2>7, <2>10, TellingMove DEF InFlight
<1>7. \/ Ends(p) /\ journal' = journal
      \/ Ends(p) /\ St = "planning" /\ \E s \in {"queued", "failed"} : journal' = Append(journal, StatusEvent(s, 0))
      \/ St = "planning" /\ Write(p, StatusEvent("queued", 0)) /\ p \notin Proposers /\ Goto(p, "granted", 0)
  BY <1>2 DEF AttachPlan, AbandonPlan, Write
<1> QED
  BY <1>4, <1>5, <1>6, <1>7

\* Whoever starts to decide has just read the journal.
LEMMA StartDecisionStep ==
  ASSUME KernelInv, NEW a,
         \/ a \in Approvers /\ StartApproval(a)
         \/ a \in Rejecters /\ StartRejection(a)
  PROVE  Proceeds
<1>1. /\ exec[a].at = "idle" /\ a \notin Consumers /\ ~Engaged(a) /\ a \in Actors
      /\ UNCHANGED <<journal, claim, tick, found, performed, faults>>
  BY Kinds DEF StartApproval, StartRejection, At, Engaged, Busy, Working
<1>2. Truth = Now /\ Faithful(Now) /\ Shaped /\ Accounted
  BY <1>1, Refreshing DEF KernelInv, History
<1>3. PICK where \in {"granting", "rejecting"}, step \in {0, Now.active} :
        /\ St = "waiting_approval" /\ Now.active # 0 /\ view' = [view EXCEPT ![a] = Now] /\ Goto(a, where, step)
        /\ where = "granting" => a \in Approvers /\ step = Now.active
        /\ where = "rejecting" => a \in Rejecters
  BY <1>2 DEF StartApproval, StartRejection, St
<1>4. /\ DOMAIN exec' = DOMAIN exec
      /\ exec'[a].at = where /\ exec'[a].step = step
      /\ \A o \in Actors : o # a => exec'[o] = exec[o]
  BY <1>1, <1>2, <1>3, Goes
<1>5. /\ DOMAIN view' = DOMAIN view /\ view'[a] = Now
      /\ \A o \in Actors : o # a => view'[o] = view[o]
  BY <1>1, <1>2, <1>3, Looking
<1>6. OnlyBy(a) /\ ClaimBy(a) /\ Works(a)
  BY <1>1, <1>3, <1>4, <1>5 DEF OnlyBy, SameDomains, Undisturbed, ClaimBy, Works
<1>7. Now' = Now /\ St' = St /\ Faithful(view[a])'
  BY <1>1, <1>2, <1>5, SameHistory DEF Faithful
<1>8. Placed(a)'
  <2>1. Now.active \in 0..NumSteps /\ (Now.active # 0 => Now.active \in Steps) /\ 0 \in 0..NumSteps
    BY NowIsTyped, KernelConstants DEF Steps, KernelInv, History, Orderly
  <2> QED
    BY <1>3, <1>4, <2>1, Kinds DEF Placed, Working, Busy
<1>9. Now.status = St
  BY DEF St
<1>10. Own(a)'
  BY <1>1, <1>3, <1>4, <1>5, <1>7, <1>8, <1>9, Kinds DEF Own, Attentive, Reviewing, Planned, Deciding, Begins, Working, Busy
<1>11. Lasting
  BY <1>1, <1>6, Lasts
<1> QED
  BY <1>1, <1>6, <1>10, <1>11, QuietMove

LEMMA GrantStep ==
  ASSUME SoleDecider, KernelInv, NEW a \in Approvers, GrantApproval(a)
  PROVE  Proceeds
<1>1. /\ exec[a].at = "granting" /\ a \in Actors /\ a \notin Consumers /\ ~Engaged(a)
      /\ UNCHANGED <<claim, tick, found, performed, faults>>
  BY Kinds DEF GrantApproval, At, Engaged, Busy, Working
<1>2. RecordedStatus = St /\ 0 \in 0..NumSteps /\ Shaped /\ History
  BY Recorded
<1>3. /\ view[a].status = "waiting_approval"
      /\ St = "waiting_approval" => view[a] = Now /\ exec[a].step = Now.active
  BY <1>1 DEF KernelInv, Own, Deciding
<1>4. CASE Ends(a) /\ journal' = journal
  BY <1>1, <1>4, QuietEnd DEF ClaimBy
<1>5. CASE St = "waiting_approval" /\ Write(a, StepEvent("approved", exec[a].step)) /\ Goto(a, "granted", 0)
  <2> DEFINE e == StepEvent("approved", exec[a].step)
  <2>1. Fits(e) /\ Write(a, e)
    BY <1>3, <1>5 DEF Fits
  <2>2. e.type = "approved" /\ e.step = Now.active
    BY <1>3, <1>5 DEF StepEvent
  <2> HIDE DEF e
  <2>4. /\ Tells(e) /\ journal' = Append(journal, e) /\ view'[a] = Now' /\ DOMAIN view' = DOMAIN view
        /\ \A o \in Actors : o # a => view'[o] = view[o]
    BY <1>1, <1>3, <1>5, <2>1, Writing
  <2>5. /\ DOMAIN exec' = DOMAIN exec
        /\ exec'[a].at = "granted" /\ exec'[a].step = 0
        /\ \A o \in Actors : o # a => exec'[o] = exec[o]
    BY <1>1, <1>2, <1>5, Goes
  <2>6. OnlyBy(a) /\ Works(a)
    BY <1>1, <2>4, <2>5 DEF OnlyBy, SameDomains, Undisturbed, Works
  <2>7. St' = "waiting_approval" /\ Now'.active = Now.active /\ Now.active \in Now'.approvals
    BY <1>2, <1>5, <2>2, <2>4, Next1 DEF History, Orderly
  <2>8. Faithful(view[a])'
    <3>1. Now' = ViewAfter(journal', Len(journal')) /\ Len(journal') \in 0..Len(journal')
      BY <1>2, <2>4, Growing DEF Now
    <3> QED
      BY <2>4, <3>1 DEF Faithful
  <2>9. Placed(a)'
    BY <1>1, <1>2, <2>5, Kinds DEF Placed, Working, Busy
  <2>10. Own(a)'
    BY <1>1, <2>5, <2>7, <2>8, <2>9 DEF Own, Attentive, Reviewing, Planned, Deciding, Begins, Working, Busy
  <2> QED
    BY <1>1, <1>5, <2>4, <2>6, <2>7, <2>10, TellingMove DEF InFlight
<1> QED
  BY <1>2, <1>3, <1>4, <1>5 DEF GrantApproval

LEMMA RejectStep ==
  ASSUME SoleDecider, KernelInv, NEW x \in Rejecters, Reject(x)
  PROVE  Proceeds
<1>1. /\ exec[x].at = "rejecting" /\ x \in Actors /\ x \notin Consumers /\ ~Engaged(x) /\ Ends(x)
      /\ UNCHANGED <<claim, tick, found, performed, faults>>
      /\ journal' = journal \/ (RecordedStatus = view[x].status /\ journal' = Append(journal, StatusEvent("failed", 0)))
  BY Kinds DEF Reject, At, Engaged, Busy, Working
<1>2. RecordedStatus = St /\ 0 \in 0..NumSteps
  BY Recorded
<1>3. view[x].status = "waiting_approval"
  BY <1>1 DEF KernelInv, Own, Deciding
<1>4. CASE journal' = journal
  BY <1>1, <1>4, QuietEnd DEF ClaimBy
<1>5. CASE St = "waiting_approval" /\ journal' = Append(journal, StatusEvent("failed", 0))
  <2>1. Fits(StatusEvent("failed", 0))
    BY <1>2, <1>5 DEF Fits, RunStatuses, Terminal
  <2> QED
    BY <1>1, <1>5, <2>1, LastWord
<1> QED
  BY <1>1, <1>2, <1>3, <1>4, <1>5

LEMMA ReviewStep ==
  ASSUME SoleDecider, KernelInv, NEW r \in Reviewers, ClaimReview(r) \/ RefreshReview(r) \/ RecordReview(r)
  PROVE  Proceeds
<1>1. /\ r \in Actors /\ r \notin Consumers /\ r \notin Executors /\ r \notin Approvers
      /\ UNCHANGED <<tick, found, performed, faults>> /\ Own(r)
  BY Kinds DEF ClaimReview, RefreshReview, RecordReview, KernelInv
<1>2. RecordedStatus = St /\ 0 \in 0..NumSteps /\ Shaped /\ History
  BY Recorded
<1>3. ASSUME NEW where \in {"reviewing", "releasing"}, Goto(r, where, 0), UNCHANGED <<journal, view>>,
             claim' = claim \/ (~claim.live /\ claim' = [owner |-> r, live |-> TRUE])
      PROVE  Proceeds
  <2>1. /\ OnlyBy(r) /\ exec'[r].at = where /\ exec'[r].step = 0 /\ Faithful(view[r])'
    BY <1>1, <1>3, Moving
  <2>2. Placed(r)'
    BY <1>1, <1>2, <1>3, <2>1, Kinds DEF Placed, Busy, Working
  <2>3. Own(r)'
    BY <1>1, <1>3, <2>1, <2>2 DEF Own, Attentive, Reviewing, Planned, Deciding, Begins, Busy, Working
  <2>4. ClaimBy(r) /\ Works(r)
    BY <1>1, <1>3, <2>1 DEF ClaimBy, Works
  <2>5. Lasting
    BY <1>1, <1>3, <2>1, Lasts
  <2> QED
    BY <1>1, <1>3, <2>1, <2>3, <2>4, <2>5, QuietMove
<1>4. CASE ClaimReview(r)
  BY <1>3, <1>4 DEF ClaimReview
<1>5. CASE RefreshReview(r)
  <2>1. Truth = Now /\ Faithful(Now)
    BY <1>1, Refreshing
  <2>2. PICK where \in {"reviewed", "releasing"} :
          view' = [view EXCEPT ![r] = Now] /\ Goto(r, where, 0) /\ (where = "reviewed" => St = "waiting_review")
    BY <1>5, <2>1 DEF RefreshReview, St
  <2>3. UNCHANGED <<journal, claim>>
    BY <1>5 DEF RefreshReview
  <2>4. /\ DOMAIN exec' = DOMAIN exec
        /\ exec'[r].at = where /\ exec'[r].step = 0
        /\ \A o \in Actors : o # r => exec'[o] = exec[o]
    BY <1>1, <1>2, <2>2, Goes
  <2>5. /\ DOMAIN view' = DOMAIN view /\ view'[r] = Now
        /\ \A o \in Actors : o # r => view'[o] = view[o]
    BY <1>1, <1>2, <2>2, Looking
  <2>6. OnlyBy(r) /\ ClaimBy(r) /\ Works(r)
    BY <1>1, <2>2, <2>3, <2>4, <2>5 DEF OnlyBy, SameDomains, Undisturbed, ClaimBy, Works
  <2>7. Now' = Now /\ St' = St /\ Faithful(view[r])'
    BY <2>1, <2>3, <2>5, SameHistory DEF Faithful
  <2>8. Placed(r)'
    BY <1>1, <1>2, <2>4, Kinds DEF Placed, Busy, Working
  <2>9. Own(r)'
    BY <1>1, <2>2, <2>4, <2>5, <2>7, <2>8 DEF Own, Attentive, Reviewing, Planned, Deciding, Begins, Busy, Working
  <2>10. Lasting
    BY <1>1, <2>3, <2>6, Lasts
  <2> QED
    BY <1>1, <2>3, <2>6, <2>9, <2>10, QuietMove
<1>6. CASE RecordReview(r)
  <2>1. exec[r].at = "reviewed" /\ claim' = claim
    BY <1>6 DEF RecordReview, At
  <2>2. CASE Goto(r, "releasing", 0) /\ UNCHANGED <<journal, view>>
    BY <1>3, <2>1, <2>2
  <2>3. CASE Holds(r) /\ \E s \in {"completed", "failed"} : ChangeStatus(r, s, 0, "releasing")
    <3>1. PICK s \in {"completed", "failed"} : ChangeStatus(r, s, 0, "releasing")
      BY <2>3
    <3>2. view[r] = Now /\ St = "waiting_review"
      BY <1>1, <2>1, <2>3 DEF Own, Reviewing
    <3> DEFINE e == StatusEvent(s, 0)
    <3>3. Fits(e)
      BY <1>2, <3>1, <3>2 DEF Fits, RunStatuses, Terminal
    <3>4. e.type = "status" /\ e.status = s
      BY DEF StatusEvent
    <3>5. Write(r, e) /\ Goto(r, "releasing", 0)
      BY <1>1, <3>1, <3>2, <3>3, StatusTold
    <3> HIDE DEF e
    <3>6. /\ Tells(e) /\ journal' = Append(journal, e) /\ view'[r] = Now' /\ DOMAIN view' = DOMAIN view
          /\ \A o \in Actors : o # r => view'[o] = view[o]
      BY <1>1, <3>2, <3>3, <3>5, Writing
    <3>7. /\ DOMAIN exec' = DOMAIN exec
          /\ exec'[r].at = "releasing" /\ exec'[r].step = 0
          /\ \A o \in Actors : o # r => exec'[o] = exec[o]
      BY <1>1, <1>2, <3>5, Goes
    <3>8. OnlyBy(r) /\ Works(r)
      BY <1>1, <3>6, <3>7 DEF OnlyBy, SameDomains, Undisturbed, Works
    <3>9. St' = s
      BY <1>2, <3>4, <3>6, Next1 DEF History, Orderly
    <3>10. Faithful(view[r])'
      <4>1. Now' = ViewAfter(journal', Len(journal')) /\ Len(journal') \in 0..Len(journal')
        BY <1>2, <3>6, Growing DEF Now
      <4> QED
        BY <3>6, <4>1 DEF Faithful
    <3>11. Placed(r)'
      BY <1>1, <1>2, <3>7, Kinds DEF Placed, Working, Busy
    <3>12. Own(r)'
      BY <1>1, <3>7, <3>10, <3>11 DEF Own, Attentive, Reviewing, Planned, Deciding, Begins, Working, Busy
    <3> QED
      BY <1>1, <2>1, <2>3, <3>2, <3>6, <3>8, <3>9, <3>12, TellingMove DEF InFlight
  <2> QED
    BY <1>6, <2>2, <2>3 DEF RecordReview
<1> QED
  BY <1>4, <1>5, <1>6

-----------------------------------------------------------------------------
(* The ticks of the consumers, the owner's cancellation, the faults.         *)

LEMMA Ticks ==
  ASSUME Shaped, NEW c \in Consumers, NEW where, TickTo(c, where)
  PROVE  DOMAIN tick' = DOMAIN tick /\ tick'[c] = where /\ \A o \in Consumers : o # c => tick'[o] = tick[o]
  BY DEF Shaped, TickTo

LEMMA Finding ==
  ASSUME Shaped, NEW c \in Consumers, NEW w, found' = [found EXCEPT ![c] = w]
  PROVE  DOMAIN found' = DOMAIN found /\ found'[c] = w /\ \A o \in Consumers : o # c => found'[o] = found[o]
  BY DEF Shaped

\* The tick goes to a place where it has nothing to record.
LEMMA TickMove ==
  ASSUME KernelInv, NEW c \in Consumers, UNCHANGED <<journal, exec, performed, faults>>,
         view' = view \/ view' = [view EXCEPT ![c] = Now],
         NEW where \in TickPlaces \ {"recording"}, (tick' = tick /\ tick[c] = where) \/ TickTo(c, where),
         where \in {"claimed", "dropping"} => exec[c].at = "idle",
         UNCHANGED found,
         \/ claim' = claim
         \/ ~claim.live /\ claim' = [owner |-> Recovery(c), live |-> TRUE]
         \/ claim.owner = Recovery(c) /\ claim' = [claim EXCEPT !.live = FALSE]
         \/ claim.owner = c /\ exec[c].at = "idle" /\ claim' = [claim EXCEPT !.live = FALSE]
         \/ (claim.live => claim.owner = c) /\ exec[c].at = "idle" /\ claim' = [owner |-> c, live |-> TRUE]
  PROVE  Proceeds
<1>1. c \in Actors /\ c \in Executors /\ Shaped /\ Own(c)
  BY Kinds DEF KernelInv
<1>2. Faithful(Now)
  BY <1>1, Refreshing
<1>3. /\ DOMAIN tick' = DOMAIN tick /\ tick'[c] = where
      /\ \A o \in Consumers : o # c => tick'[o] = tick[o]
  BY <1>1, Ticks
<1>4. /\ DOMAIN view' = DOMAIN view /\ view'[c] \in {view[c], Now}
      /\ \A o \in Actors : o # c => view'[o] = view[o]
  BY <1>1, Looking
<1>5. OnlyBy(c) /\ Works(c)
  BY <1>3, <1>4 DEF OnlyBy, SameDomains, Undisturbed, Works
<1>6. ClaimBy(c)
  BY <1>1 DEF ClaimBy
<1>7. exec[c].at = "idle" => ~Engaged(c)
  BY DEF Engaged, Busy, Working
<1>8. Lasting
  <2>1. CASE (claim.live => claim.owner = c) /\ exec[c].at = "idle"
    BY <1>1, <1>5, <1>7, <2>1, Lasts
  <2>2. CASE claim' = claim
    BY <1>1, <1>5, <2>2, Lasts DEF Engaged, Holds
  <2>3. CASE claim.owner = Recovery(c)
    <3>1. ~Engaged(c)
      BY <1>1, <2>3, Kinds DEF Engaged, Holds
    <3> QED
      BY <1>1, <1>5, <2>3, <3>1, Lasts
  <2>4. CASE ~claim.live
    BY <1>1, <1>5, <2>4, Lasts DEF Engaged, Holds
  <2> QED
    BY <2>1, <2>2, <2>3, <2>4
<1>9. /\ Now' = Now /\ St' = St /\ Remaining' = Remaining /\ NextStep' = NextStep
      /\ Begun' = Begun /\ Started' = Started /\ (Permitted(NextStep)' <=> Permitted(NextStep))
      /\ Faithful(view[c])'
  <2>1. /\ Now' = Now /\ St' = St /\ Remaining' = Remaining /\ NextStep' = NextStep
        /\ Begun' = Begun /\ Started' = Started /\ \A v : Faithful(v) => Faithful(v)'
    BY SameHistory
  <2>2. Faithful(view[c])'
    <3>1. Faithful(view'[c])
      BY <1>1, <1>2, <1>4 DEF Own
    <3> QED
      BY <3>1 DEF Faithful
  <2>3. Permitted(NextStep)' <=> Permitted(NextStep)
    BY <2>1 DEF Permitted
  <2> QED
    BY <2>1, <2>2, <2>3
<1>10. Holds(c)' /\ exec[c].at \in Busy => Holds(c)
  <2>1. claim \in [owner : Owners, live : BOOLEAN]
    BY <1>1 DEF Shaped
  <2> QED
    BY <2>1, <1>1, Kinds DEF Holds, Busy, Working
<1>11. Attentive(c)'
  BY <1>1, <1>4, <1>9, <1>10 DEF Own, Attentive
<1>12. Placed(c)' /\ Begins(c)'
  BY <1>1, <1>9 DEF Own, Placed, Begins
<1>13. Reviewing(c)' /\ Planned(c)' /\ Deciding(c)'
  BY <1>1, Kinds DEF Own, Placed, Reviewing, Planned, Deciding, Busy, Working
<1>14. Ticking(c)'
  BY <1>1, <1>3 DEF Own, Ticking, Recovering
<1>15. Own(c)'
  BY <1>9, <1>11, <1>12, <1>13, <1>14 DEF Own
<1> QED
  BY <1>1, <1>5, <1>6, <1>8, <1>15, QuietMove

\* Without a claim of its own at stake, a tick may go on to record what it found.
LEMMA TickFinds ==
  ASSUME KernelInv, NEW c \in Consumers, UNCHANGED <<journal, claim, exec, performed, faults>>,
         view' = [view EXCEPT ![c] = Now], TickTo(c, "recording"),
         NEW to \in {"failed", "queued"}, NEW base \in 0..Len(journal),
         found' = [found EXCEPT ![c] = [to |-> to, base |-> base]],
         base # 0 => St = "planning" /\ to = "failed",
         base = 0 => /\ St \in InFlight
                     /\ to = "queued" => St = "running" /\ External = {} /\ Started \subseteq RetrySafe
  PROVE  Proceeds
<1>1. c \in Actors /\ c \in Executors /\ Shaped /\ Own(c)
  BY Kinds DEF KernelInv
<1>2. Faithful(Now)
  BY <1>1, Refreshing
<1>3. /\ DOMAIN tick' = DOMAIN tick /\ tick'[c] = "recording"
      /\ \A o \in Consumers : o # c => tick'[o] = tick[o]
  BY <1>1, Ticks
<1>4. /\ DOMAIN view' = DOMAIN view /\ view'[c] = Now
      /\ \A o \in Actors : o # c => view'[o] = view[o]
  BY <1>1, Looking
<1>5. /\ DOMAIN found' = DOMAIN found /\ found'[c] = [to |-> to, base |-> base]
      /\ \A o \in Consumers : o # c => found'[o] = found[o]
  BY <1>1, Finding
<1>6. found'[c].to = to /\ found'[c].base = base
  BY <1>5
<1>7. OnlyBy(c) /\ Works(c) /\ ClaimBy(c)
  BY <1>3, <1>4, <1>5 DEF OnlyBy, SameDomains, Undisturbed, Works, ClaimBy
<1>8. Lasting
  BY <1>7, Lasts DEF Engaged, Holds
<1>9. /\ Now' = Now /\ St' = St /\ Remaining' = Remaining /\ NextStep' = NextStep
      /\ Begun' = Begun /\ Started' = Started /\ (Permitted(NextStep)' <=> Permitted(NextStep))
      /\ Faithful(view[c])'
  BY <1>2, <1>4, SameHistory DEF Permitted, Faithful
<1>10. Attentive(c)'
  BY <1>1, <1>4, <1>9 DEF Own, Attentive, Holds
<1>11. Placed(c)' /\ Begins(c)'
  BY <1>1, <1>9 DEF Own, Placed, Begins
<1>12. Reviewing(c)' /\ Planned(c)' /\ Deciding(c)'
  BY <1>1, Kinds DEF Own, Placed, Reviewing, Planned, Deciding, Busy, Working
<1>13. Ticking(c)'
  <2>1. Recovering(c)'
    BY <1>4, <1>6, <1>9 DEF Recovering
  <2> QED
    BY <1>1, <1>3, <1>6, <2>1 DEF Own, Ticking, TickPlaces
<1>14. Own(c)'
  BY <1>9, <1>10, <1>11, <1>12, <1>13 DEF Own
<1> QED
  BY <1>1, <1>7, <1>8, <1>14, QuietMove

LEMMA TickQuietStep ==
  ASSUME KernelInv, NEW c \in Consumers,
         \/ TickRefresh(c) \/ ClaimOrphan(c) \/ InspectPlan(c) \/ InspectRun(c)
         \/ ReleaseOrphan(c) \/ ClaimQueued(c) \/ Drop(c)
  PROVE  Proceeds
<1>1. c \in Actors /\ Shaped /\ Own(c) /\ History
  BY Kinds DEF KernelInv
<1>2. Refreshed(view[c]) = Now /\ Truth = Now /\ CanReplay(Now)
  BY <1>1, Refreshing
<1>3. tick[c] \in {"claimed", "dropping"} => exec[c].at = "idle"
  BY <1>1 DEF Own, Ticking
<1>4. CASE TickRefresh(c)
  <2>1. UNCHANGED <<journal, claim, exec, found, performed, faults>>
    BY <1>4 DEF TickRefresh
  <2>2. PICK where \in {"refreshed", "scan", "idle"} : view' = [view EXCEPT ![c] = Now] /\ TickTo(c, where)
    BY <1>2, <1>4 DEF TickRefresh
  <2> QED
    BY <2>1, <2>2, TickMove DEF TickPlaces
<1>5. CASE ClaimOrphan(c)
  <2>1. UNCHANGED <<journal, view, exec, found, performed, faults>>
    BY <1>5 DEF ClaimOrphan
  <2>2. PICK where \in {"orphaned plan", "orphaned run", "scan"} :
          TickTo(c, where) /\ (claim' = claim \/ (~claim.live /\ claim' = [owner |-> Recovery(c), live |-> TRUE]))
    BY <1>5 DEF ClaimOrphan
  <2> QED
    BY <2>1, <2>2, TickMove DEF TickPlaces
<1>6. CASE ReleaseOrphan(c)
  <2>1. UNCHANGED <<journal, view, exec, found, performed, faults>> /\ TickTo(c, "scan")
    BY <1>6 DEF ReleaseOrphan
  <2>2. claim' = claim \/ (claim.owner = Recovery(c) /\ claim' = [claim EXCEPT !.live = FALSE])
    BY <1>6 DEF ReleaseOrphan
  <2> QED
    BY <2>1, <2>2, TickMove DEF TickPlaces
<1>7. CASE ClaimQueued(c)
  <2>1. UNCHANGED <<journal, view, exec, found, performed, faults>>
    BY <1>7 DEF ClaimQueued
  <2>2. CASE TickTo(c, "idle") /\ UNCHANGED claim
    BY <2>1, <2>2, TickMove DEF TickPlaces
  <2>3. CASE /\ TickTo(c, "claimed") /\ exec[c].at = "idle" /\ (claim.live => claim.owner = c)
             /\ claim' = [owner |-> c, live |-> TRUE]
    BY <2>1, <2>3, TickMove DEF TickPlaces
  <2> QED
    BY <1>7, <2>2, <2>3 DEF ClaimQueued, At
<1>8. CASE Drop(c)
  <2>1. UNCHANGED <<journal, view, exec, found, performed, faults>> /\ TickTo(c, "idle") /\ exec[c].at = "idle"
    BY <1>3, <1>8 DEF Drop, TickAt
  <2>2. claim' = claim \/ (claim.owner = c /\ claim' = [claim EXCEPT !.live = FALSE])
    BY <1>8 DEF Drop
  <2> QED
    BY <2>1, <2>2, TickMove DEF TickPlaces
<1>9. CASE InspectPlan(c)
  <2>1. UNCHANGED <<journal, claim, exec, performed, faults>> /\ view' = [view EXCEPT ![c] = Now]
    BY <1>2, <1>9 DEF InspectPlan
  <2>2. CASE TickTo(c, "recovered") /\ UNCHANGED found
    BY <2>1, <2>2, TickMove DEF TickPlaces
  <2>3. CASE /\ St = "planning" /\ found' = [found EXCEPT ![c] = [to |-> "failed", base |-> Len(journal)]]
             /\ TickTo(c, "recording")
    <3>1. Len(journal) \in 0..Len(journal) /\ Len(journal) # 0
      BY <1>1 DEF History, Orderly
    <3> QED
      BY <2>1, <2>3, <3>1, TickFinds
  <2> QED
    BY <1>2, <1>9, <2>2, <2>3 DEF InspectPlan, OrphanedPlanning, St
<1>10. CASE InspectRun(c)
  <2>1. UNCHANGED <<journal, claim, exec, performed, faults>> /\ view' = [view EXCEPT ![c] = Now]
    BY <1>2, <1>10 DEF InspectRun
  <2>2. CASE TickTo(c, "recovered") /\ UNCHANGED found
    BY <2>1, <2>2, TickMove DEF TickPlaces
  <2>3. CASE /\ St \in InFlight
             /\ \E to \in {"failed", "queued"} :
                  /\ found' = [found EXCEPT ![c] = [to |-> to, base |-> 0]]
                  /\ to = "queued" => St = "running" /\ External = {} /\ Started \subseteq RetrySafe
             /\ TickTo(c, "recording")
    <3>1. 0 \in 0..Len(journal)
      BY <1>1 DEF History, Orderly
    <3> QED
      BY <2>1, <2>3, <3>1, TickFinds
  <2> QED
    BY <1>2, <1>10, <2>2, <2>3 DEF InspectRun, InFlight, St
<1> QED
  BY <1>4, <1>5, <1>6, <1>7, <1>8, <1>9, <1>10

LEMMA DispatchStep ==
  ASSUME KernelInv, NEW c \in Consumers, Dispatch(c)
  PROVE  Proceeds
<1>1. c \in Actors /\ c \in Executors /\ Shaped /\ Own(c) /\ Accounted
  BY Kinds DEF KernelInv, History
<1>2. Refreshed(view[c]) = Now /\ CanReplay(Now) /\ Faithful(Now)
  BY <1>1, Refreshing
<1>3. exec[c].at = "idle" /\ UNCHANGED <<journal, claim, found, performed, faults>> /\ view' = [view EXCEPT ![c] = Now]
  BY <1>1, <1>2 DEF Dispatch, TickAt, Own, Ticking
<1>4. CASE TickTo(c, "dropping") /\ UNCHANGED exec
  BY <1>3, <1>4, TickMove DEF TickPlaces
<1>5. CASE St = "queued" /\ Goto(c, "deciding", 0) /\ TickTo(c, "idle")
  <2>1. /\ DOMAIN tick' = DOMAIN tick /\ tick'[c] = "idle"
        /\ \A o \in Consumers : o # c => tick'[o] = tick[o]
    BY <1>1, <1>5, Ticks
  <2>2. /\ DOMAIN view' = DOMAIN view /\ view'[c] = Now
        /\ \A o \in Actors : o # c => view'[o] = view[o]
    BY <1>1, <1>3, Looking
  <2>3. /\ DOMAIN exec' = DOMAIN exec
        /\ exec'[c].at = "deciding" /\ exec'[c].step = 0
        /\ \A o \in Actors : o # c => exec'[o] = exec[o]
    BY <1>1, <1>5, Goes
  <2>4. OnlyBy(c) /\ Works(c) /\ ClaimBy(c)
    BY <1>3, <2>1, <2>2, <2>3 DEF OnlyBy, SameDomains, Undisturbed, Works, ClaimBy
  <2>5. Lasting
    BY <1>3, <2>3, <2>4, Lasts DEF Engaged, Busy, Working
  <2>6. /\ Now' = Now /\ St' = St /\ Begun' = Begun /\ Faithful(view[c])'
    BY <1>2, <1>3, <2>2, SameHistory DEF Faithful
  <2>7. Placed(c)'
    BY <1>1, <2>3, Kinds, KernelConstants DEF Placed, Busy, Working
  <2>8. Attentive(c)'
    BY <1>1, <1>5, <2>2, <2>3, <2>6 DEF Attentive, Accounted, Working
  <2>9. Ticking(c)'
    BY <1>1, <1>3, <2>1 DEF Own, Ticking, Recovering, TickPlaces
  <2>10. Own(c)'
    BY <1>1, <2>3, <2>6, <2>7, <2>8, <2>9, Arriving DEF Begins, Busy
  <2> QED
    BY <1>1, <1>3, <2>4, <2>5, <2>10, QuietMove
<1> QED
  BY <1>2, <1>4, <1>5 DEF Dispatch, St

LEMMA RecordRecoveryStep ==
  ASSUME SoleDecider, KernelInv, NEW c \in Consumers, RecordRecovery(c)
  PROVE  Proceeds
<1>1. c \in Actors /\ c \in Executors /\ c \notin Approvers /\ Shaped /\ Own(c) /\ History
  BY Kinds DEF KernelInv
<1>2. /\ tick[c] = "recording" /\ UNCHANGED <<claim, exec, performed, faults>>
      /\ found' = [found EXCEPT ![c] = NoFinding] /\ TickTo(c, "recovered")
  BY DEF RecordRecovery, TickAt
<1>3. Recovering(c) /\ found[c].to \in {"failed", "queued"}
  BY <1>1, <1>2 DEF Own, Ticking, Recovering
<1>4. /\ DOMAIN tick' = DOMAIN tick /\ tick'[c] = "recovered"
      /\ \A o \in Consumers : o # c => tick'[o] = tick[o]
  BY <1>1, <1>2, Ticks
<1>5. /\ DOMAIN found' = DOMAIN found /\ found'[c] = NoFinding
      /\ \A o \in Consumers : o # c => found'[o] = found[o]
  BY <1>1, <1>2, Finding
<1>6. Len(journal') \in Nat => Ticking(c)'
  BY <1>4, <1>5 DEF Ticking, Recovering, NoFinding, TickPlaces
<1>7. Placed(c)'
  BY <1>1, <1>2 DEF Own, Placed
<1>8. Reviewing(c)' /\ Planned(c)' /\ Deciding(c)'
  BY <1>1, <1>2, Kinds DEF Own, Placed, Reviewing, Planned, Deciding, Busy, Working
<1>9. CASE UNCHANGED <<journal, view>>
  <2>1. OnlyBy(c) /\ Works(c) /\ ClaimBy(c)
    BY <1>2, <1>4, <1>5, <1>9 DEF OnlyBy, SameDomains, Undisturbed, Works, ClaimBy
  <2>2. Lasting
    BY <1>2, <2>1, Lasts DEF Engaged, Holds
  <2>3. /\ Now' = Now /\ St' = St /\ Remaining' = Remaining /\ NextStep' = NextStep
        /\ Begun' = Begun /\ Started' = Started /\ (Permitted(NextStep)' <=> Permitted(NextStep))
        /\ Faithful(view[c])'
    BY <1>1, <1>9, SameHistory DEF Permitted, Own, Faithful
  <2>4. Attentive(c)'
    BY <1>1, <1>2, <1>9, <2>3 DEF Own, Attentive, Holds
  <2>5. Begins(c)'
    BY <1>1, <1>2, <2>3 DEF Own, Begins
  <2>6. Ticking(c)'
    BY <1>1, <1>6, <1>9 DEF History, Orderly
  <2>7. Own(c)'
    BY <1>7, <1>8, <2>3, <2>4, <2>5, <2>6 DEF Own
  <2> QED
    BY <1>1, <1>2, <1>9, <2>1, <2>2, <2>7, QuietMove
<1>10. CASE /\ Holds(Recovery(c)) /\ (found[c].base # 0 => Len(journal) = found[c].base)
            /\ Write(c, StatusEvent(found[c].to, IF found[c].base # 0 THEN 0 ELSE view[c].active))
  <2>1. PICK step : step = IF found[c].base # 0 THEN 0 ELSE view[c].active
    OBVIOUS
  <2>2. /\ view[c] = Now
        /\ \/ St = "planning" /\ found[c].to = "failed"
           \/ St \in InFlight /\ (found[c].to = "queued" => St = "running" /\ External = {} /\ Started \subseteq RetrySafe)
    BY <1>3, <1>10, <1>2 DEF Recovering
  <2>3. step \in 0..NumSteps
    BY <1>1, <2>1, <2>2, NowIsTyped, KernelConstants DEF History, Orderly
  <2> DEFINE e == StatusEvent(found[c].to, step)
  <2>4. Fits(e)
    BY <1>3, <2>2, <2>3 DEF Fits, RunStatuses, Terminal, InFlight
  <2>5. e.type = "status" /\ e.status = found[c].to
    BY DEF StatusEvent
  <2>6. Write(c, e)
    BY <1>10, <2>1
  <2> HIDE DEF e
  <2>7. /\ Tells(e) /\ journal' = Append(journal, e) /\ view'[c] = Now' /\ DOMAIN view' = DOMAIN view
        /\ \A o \in Actors : o # c => view'[o] = view[o]
    BY <1>1, <2>2, <2>4, <2>6, Writing
  <2>8. OnlyBy(c) /\ Works(c)
    BY <1>2, <1>4, <1>5, <2>7 DEF OnlyBy, SameDomains, Undisturbed, Works
  <2>9. St' = found[c].to
    BY <1>1, <2>5, <2>7, Next1 DEF History, Orderly
  <2>10. /\ Len(journal') \in Nat /\ Started \subseteq Started'
         /\ Now' = ViewAfter(journal', Len(journal')) /\ Len(journal') \in 0..Len(journal')
    BY <1>1, <2>7, Growing DEF Now
  <2>11. Faithful(view[c])'
    BY <2>7, <2>10 DEF Faithful
  <2>12. Attentive(c)'
    BY <1>1, <1>2, <1>10, Kinds DEF Attentive, Holds
  <2>13. Begins(c)'
    BY <1>1, <1>2, <2>10 DEF Own, Begins
  <2>14. Own(c)'
    BY <1>6, <1>7, <1>8, <2>10, <2>11, <2>12, <2>13 DEF Own
  <2>15. St # "waiting_approval"
    BY <2>2 DEF InFlight
  <2> QED
    BY <1>1, <1>2, <1>3, <1>10, <2>7, <2>8, <2>9, <2>14, <2>15, TellingMove DEF InFlight
<1> QED
  BY <1>9, <1>10 DEF RecordRecovery

LEMMA CancelStep ==
  ASSUME SoleDecider, KernelInv, Cancel
  PROVE  Proceeds
<1> DEFINE e == StatusEvent("cancelled", Now.active)
<1>1. RecordedStatus = St /\ journal[LastStatus].step = Now.active /\ Shaped /\ History
  BY Recorded
<1>2. /\ St \notin Terminal /\ journal' = Append(journal, e)
      /\ claim' = [claim EXCEPT !.live = FALSE]
      /\ UNCHANGED <<view, tick, exec, found, performed, faults>>
  BY <1>1 DEF Cancel
<1>3. Now.active \in 0..NumSteps
  BY <1>1, NowIsTyped DEF History, Orderly
<1>4. Fits(e)
  BY <1>2, <1>3 DEF Fits, RunStatuses
<1>5. e.type = "status" /\ e.status = "cancelled"
  BY DEF StatusEvent
<1> HIDE DEF e
<1>6. Tells(e)
  BY <1>2, <1>4 DEF Tells
<1>7. St' = "cancelled"
  BY <1>1, <1>2, <1>5, Next1 DEF History, Orderly
<1>8. claim' \in [owner : Owners, live : BOOLEAN] /\ ~claim'.live
  BY <1>1, <1>2 DEF Shaped
<1>9. \A o \in Actors : Passive(o)
  BY <1>8 DEF Passive, Holds
<1>10. OnlyBy(Nobody) /\ Nobody \notin Actors
  BY <1>2, Kinds DEF OnlyBy, SameDomains, Undisturbed
<1>11. Started \subseteq Started'
  BY <1>1, <1>2, Growing
<1>12. Performed'
  BY <1>2, <1>10, <1>11, PerformedKept DEF KernelInv
<1> QED
  BY <1>2, <1>5, <1>6, <1>7, <1>8, <1>9, <1>10, <1>12, TellingStep DEF InFlight, Terminal

LEMMA CrashStep ==
  ASSUME KernelInv, NEW x \in Actors, Crash(x)
  PROVE  Proceeds
<1>1. Shaped /\ History /\ Own(x) /\ 0 \in 0..NumSteps
  BY KernelConstants DEF KernelInv
<1>2. /\ UNCHANGED <<journal, performed>> /\ view' = [view EXCEPT ![x] = EmptyView]
      /\ faults' = [faults EXCEPT !.crashes = @ + 1]
      /\ claim' = claim \/ claim' = [claim EXCEPT !.owner = Nobody]
  BY DEF Crash, Orphaned
<1>3. faults' \in [crashes : Nat, stalls : Nat] /\ ~Faultless'
  BY <1>1, <1>2 DEF Shaped, Faultless
<1>4. ClaimBy(x)
  BY <1>2 DEF ClaimBy
<1>5. OnlyBy(x) /\ Own(x)' /\ Works(x)
  <2>1. CASE x \notin Consumers
    <3>1. Ends(x) /\ UNCHANGED <<tick, found>>
      BY <1>2, <2>1 DEF Crash, Ends
    <3> QED
      BY <1>1, <1>2, <2>1, <3>1, SameHistory, Ending
  <2>2. CASE x \in Consumers
    <3>1. Goto(x, "idle", 0) /\ TickTo(x, "idle") /\ found' = [found EXCEPT ![x] = NoFinding]
      BY <2>2 DEF Crash
    <3>2. /\ DOMAIN tick' = DOMAIN tick /\ tick'[x] = "idle"
          /\ \A o \in Consumers : o # x => tick'[o] = tick[o]
      BY <1>1, <2>2, <3>1, Ticks
    <3>3. /\ DOMAIN found' = DOMAIN found /\ found'[x] = NoFinding
          /\ \A o \in Consumers : o # x => found'[o] = found[o]
      BY <1>1, <2>2, <3>1, Finding
    <3>4. /\ DOMAIN exec' = DOMAIN exec
          /\ exec'[x].at = "idle" /\ exec'[x].step = 0
          /\ \A o \in Actors : o # x => exec'[o] = exec[o]
      BY <1>1, <3>1, Goes
    <3>5. /\ DOMAIN view' = DOMAIN view /\ view'[x] = EmptyView
          /\ \A o \in Actors : o # x => view'[o] = view[o]
      BY <1>1, <1>2, Looking
    <3>6. OnlyBy(x) /\ Works(x)
      BY <3>2, <3>3, <3>4, <3>5 DEF OnlyBy, SameDomains, Undisturbed, Works
    <3>7. Faithful(view[x])'
      BY <1>2, <3>5, Refreshing DEF Faithful
    <3>8. Placed(x)'
      BY <1>1, <2>2, <3>4, Kinds DEF Placed, Busy, Working
    <3>9. Ticking(x)'
      BY <1>1, <1>2, <3>2, <3>3, <3>4 DEF Ticking, Recovering, NoFinding, TickPlaces, History, Orderly
    <3>10. Own(x)'
      BY <3>4, <3>7, <3>8, <3>9, Arriving DEF Attentive, Begins, Busy, Working
    <3> QED
      BY <3>6, <3>10
  <2> QED
    BY <2>1, <2>2
<1>6. Performed'
  BY <1>2, <1>5, SameHistory, PerformedKept DEF KernelInv
<1> QED
  BY <1>2, <1>3, <1>4, <1>5, <1>6, QuietStep

\* Time passes, leases run out.
LEMMA TimeStep ==
  ASSUME KernelInv, Age \/ Stall \/ Expire \/ UNCHANGED vars
  PROVE  Proceeds
<1>1. Shaped /\ Nobody \notin Actors
  BY Kinds DEF KernelInv
<1>2. /\ UNCHANGED <<journal, view, tick, exec, found, performed>>
      /\ claim' = claim \/ claim' = [claim EXCEPT !.live = FALSE]
      /\ \/ faults' = faults /\ (claim' = claim \/ claim.owner = Nobody)
         \/ faults' = [faults EXCEPT !.stalls = @ + 1]
  BY DEF Age, Stall, Expire, vars
<1>3. OnlyBy(Nobody) /\ ClaimBy(Nobody)
  BY <1>2 DEF OnlyBy, SameDomains, Undisturbed, ClaimBy
<1>4. Performed'
  BY <1>1, <1>2, <1>3, SameHistory, PerformedKept DEF KernelInv
<1>5. faults' \in [crashes : Nat, stalls : Nat]
  BY <1>1, <1>2 DEF Shaped
<1>6. ~Faultless' \/ (faults' = faults /\ Lasting)
  <2>1. CASE faults' = faults /\ (claim' = claim \/ claim.owner = Nobody)
    <3>1. Nobody \notin Executors
      BY Kinds
    <3> QED
      BY <1>3, <2>1, <3>1, Lasts
  <2>2. CASE faults' = [faults EXCEPT !.stalls = @ + 1]
    BY <1>1, <2>2 DEF Shaped, Faultless
  <2> QED
    BY <1>2, <2>1, <2>2
<1> QED
  BY <1>1, <1>2, <1>3, <1>4, <1>5, <1>6, QuietStep

-----------------------------------------------------------------------------
(* The invariant holds at first, and stays.                                  *)

LEMMA HistoryAtFirst ==
  ASSUME Init
  PROVE  /\ History /\ St = "planning" /\ Started = {} /\ Truth = Now
         /\ Now = ViewAfter(journal, 1) /\ Faithful(Now) /\ Faithful(EmptyView)
<1> DEFINE e == StatusEvent("planning", 0)
<1>1. journal = <<e>> /\ e.type = "status" /\ e.status = "planning" /\ e.step = 0
  BY DEF Init, StatusEvent
<1>2. e \in Event
  BY KernelConstants DEF StatusEvent, Event, RunStatuses
<1> HIDE DEF e
<1>3. journal \in Seq(Event) /\ Len(journal) = 1 /\ DOMAIN journal = 1..1 /\ journal[1] = e
  BY <1>1, <1>2
<1>4. LastMark(journal, 0) = 0
  BY LastMarkIsLast
<1>5. LastMark(journal, 1) = 1
  <2>1. 1 \in Nat /\ 1 \in 0..1 /\ \A j \in (1 + 1)..1 : journal[j].type # "status"
    OBVIOUS
  <2> QED
    BY <1>1, <1>3, <2>1, MarkIs
<1>6. Now = ViewAfter(journal, 1)
  BY <1>3 DEF Now
<1>7. St = "planning"
  BY <1>1, <1>3, <1>5, <1>6 DEF St, ViewAfter, StatusAfter
<1>8. Now.evidence = {}
  BY <1>1, <1>3, <1>6 DEF ViewAfter, StepsAfter
<1>9. Started = {}
  BY <1>1, <1>3 DEF Started, StepsOf
<1>10. Begun = {}
  BY <1>3, <1>9, NowIsTyped
<1>11. Remaining # {}
  BY <1>8, KernelConstants DEF Remaining, Steps
<1>12. Legal
  <2> SUFFICES ASSUME NEW k \in 1..1 PROVE MayFollow(StatusAfter(EmptyView, journal, k - 1), journal[k].status)
    BY <1>3 DEF Legal
  <2>1. k = 1 /\ k - 1 = 0
    OBVIOUS
  <2>2. StatusAfter(EmptyView, journal, 0) = "created"
    BY <1>4 DEF StatusAfter, EmptyView
  <2> QED
    BY <1>1, <1>3, <2>1, <2>2 DEF MayFollow, allowedTransitions, RunStatuses
<1>13. Orderly
  BY <1>1, <1>3, <1>7, <1>9, <1>12 DEF Orderly, Terminal
<1>14. Accounted
  BY <1>1, <1>3, <1>7, <1>8, <1>9, <1>10, <1>11 DEF Accounted, StartedOncePerDispatch
<1>15. Faithful(EmptyView) /\ Faithful(Now)
  BY <1>3, EmptyIsFaithful, NowIsFaithful
<1>16. Truth = Now
  BY <1>3, <1>12, <1>15, RefreshedIsNow DEF Truth
<1> QED
  BY <1>6, <1>7, <1>9, <1>13, <1>14, <1>15, <1>16 DEF History

LEMMA KernelInvAtFirst ==
  ASSUME Init
  PROVE  KernelInv
<1>1. /\ History /\ St = "planning" /\ Started = {} /\ Truth = Now
      /\ Now = ViewAfter(journal, 1) /\ Faithful(Now) /\ Faithful(EmptyView)
  BY HistoryAtFirst
<1>2. Shaped
  BY DEF Init, Shaped, Actors, Owners, NoFinding
<1>3. Performed
  <2>1. performed = [s \in Steps |-> 0] /\ \A x \in Executors : exec[x].at # "working"
    BY DEF Init, Executors
  <2>2. Unsafe \subseteq Steps
    BY DEF Unsafe
  <2> QED
    BY <2>1, <2>2 DEF Performed
<1>4. Owned
  BY <1>1 DEF Owned, InFlight
<1>5. ASSUME NEW a \in Actors PROVE Own(a)
  <2>1. /\ view[a] \in {Now, EmptyView} /\ (a \in Planners => view[a] = Now)
        /\ exec[a].at = (IF a \in Planners THEN "planning" ELSE "idle") /\ exec[a].step = 0
        /\ a \in Consumers => tick[a] = "idle" /\ found[a] = NoFinding
    BY <1>1, <1>5 DEF Init, Actors
  <2>2. Faithful(view[a])
    BY <1>1, <2>1
  <2>3. Placed(a)
    BY <2>1, Kinds, KernelConstants DEF Placed, Busy, Working
  <2>4. Attentive(a) /\ Reviewing(a) /\ Deciding(a) /\ Begins(a)
    BY <2>1 DEF Attentive, Reviewing, Deciding, Begins, Busy, Working
  <2>5. Planned(a)
    BY <1>1, <2>1 DEF Planned
  <2>6. ASSUME a \in Consumers PROVE Ticking(a)
    <3>1. Len(journal) \in Nat
      BY <1>1 DEF History, Orderly
    <3>2. found[a].to = "none" /\ found[a].base = 0 /\ tick[a] = "idle"
      BY <2>1, <2>6 DEF NoFinding
    <3>3. exec[a].at = "idle"
      BY <2>1, <2>6, Kinds
    <3>4. found[a].base \in 0..Len(journal)
      BY <3>1, <3>2
    <3>5. Recovering(a)
      BY <3>2 DEF Recovering
    <3> QED
      BY <3>2, <3>3, <3>4, <3>5 DEF Ticking, TickPlaces
  <2> QED
    BY <2>2, <2>3, <2>4, <2>5, <2>6 DEF Own
<1> QED
  BY <1>1, <1>2, <1>3, <1>4, <1>5 DEF KernelInv

LEMMA StepsProceed ==
  ASSUME SoleDecider, KernelInv, [Next]_vars
  PROVE  Proceeds
<1>1. /\ \A c \in Consumers : c \in Actors
      /\ \A x \in Direct : x \in Actors
      /\ \A r \in Reviewers : r \in Actors
  BY Kinds DEF Direct
<1>2. ASSUME NEW x \in Actors, Execute(x) PROVE Proceeds
  BY <1>2, FencedStep, DecideStep, StartWorkStep, WorkStep, RecordEvidenceStep, FailStepStep,
    RecordVerdictStep, ReleaseStep DEF Execute
<1>3. ASSUME NEW c \in Consumers, Tick(c) PROVE Proceeds
  BY <1>3, TickQuietStep, DispatchStep, RecordRecoveryStep DEF Tick
<1>4. ASSUME NEW x \in Direct, ExecuteDirect(x) PROVE Proceeds
  BY <1>1, <1>2, <1>4, ClaimDirectStep, RefreshDirectStep DEF ExecuteDirect
<1>5. ASSUME NEW p \in Planners, Plan(p) PROVE Proceeds
  BY <1>5, PlanStep DEF Plan
<1>6. ASSUME NEW a \in Approvers, StartApproval(a) \/ GrantApproval(a) PROVE Proceeds
  BY <1>6, GrantStep, StartDecisionStep
<1>7. ASSUME NEW x \in Rejecters, StartRejection(x) \/ Reject(x) PROVE Proceeds
  BY <1>7, RejectStep, StartDecisionStep
<1>8. ASSUME NEW r \in Reviewers, ClaimReview(r) \/ Review(r) PROVE Proceeds
  BY <1>1, <1>8, ReviewStep, ReleaseStep DEF Review
<1>9. CASE Cancel \/ Age \/ Stall \/ Expire \/ UNCHANGED vars
  BY <1>9, CancelStep, TimeStep
<1>10. ASSUME NEW x \in Executors \cup Rejecters \cup Reviewers, Crash(x) PROVE Proceeds
  BY <1>10, CrashStep DEF Actors
<1> QED
  BY <1>1, <1>2, <1>3, <1>4, <1>5, <1>6, <1>7, <1>8, <1>9, <1>10 DEF Next

-----------------------------------------------------------------------------
(* What follows.                                                             *)

LEMMA TruthIsNow == History => Truth = Now
<1>1. ASSUME History PROVE Truth = Now
  <2>1. journal \in Seq(Event) /\ Legal
    BY <1>1 DEF History, Orderly
  <2>2. Faithful(EmptyView)
    BY <2>1, EmptyAlwaysFits
  <2> QED
    BY <2>1, <2>2, RefreshedIsNow DEF Truth
<1> QED
  BY <1>1

\* The kernel's invariant, of every run decided by one process at a time
\* (the hypotheses, and what happens without them, are those of SoleDecider).
THEOREM AlwaysKernelInv ==
  ASSUME SoleDecider
  PROVE  Spec => []KernelInv
<1>1. Init => KernelInv
  BY KernelInvAtFirst
<1>2. KernelInv /\ [Next]_vars => KernelInv'
  BY StepsProceed DEF Proceeds
<1> QED
  BY <1>1, <1>2, PTL DEF Spec

\* Every projection an actor works from is one its reducer accepted, and a
\* replay of the journal from zero never meets a refused transition, so that
\* every runtime opened later can read the run (#applyEvent and refresh).
THEOREM JournalStaysReadable ==
  ASSUME SoleDecider
  PROVE  Spec => []Consistent
<1>1. ASSUME KernelInv PROVE Consistent
  <2>1. /\ journal \in Seq(Event) /\ DOMAIN view = Actors /\ DOMAIN exec = Actors
        /\ claim \in [owner : Owners, live : BOOLEAN] /\ performed \in [Steps -> Nat]
        /\ \A a \in Actors : Own(a)
    BY <1>1 DEF KernelInv, Shaped, History, Orderly, Performed
  <2>2. ASSUME NEW a \in Actors PROVE view[a] \in Projection
    BY <2>1, ViewsAreTyped DEF Own, Faithful
  <2>3. ASSUME NEW x \in Actors
        PROVE  /\ exec[x].at \in {"idle", "planning", "granting", "granted", "claimed",
                    "deciding", "starting", "working", "worked", "verifying",
                    "releasing", "rejecting", "reviewing", "reviewed", "done"}
               /\ exec[x].step \in 0..NumSteps
    <3>1. Placed(x)
      BY <2>1 DEF Own
    <3> QED
      BY <3>1, Kinds DEF Placed, Busy, Working
  <2>4. ASSUME NEW c \in Consumers PROVE tick[c] \in TickPlaces
    BY <2>1, Kinds DEF Own, Ticking
  <2>5. TypeOK
    BY <2>1, <2>2, <2>3, <2>4 DEF TypeOK, Owners, TickPlaces
  <2>6. Truth = Now /\ St \in RunStatuses
    BY <1>1, <2>1, TruthIsNow, NowIsTyped DEF KernelInv
  <2>7. JournalReplayable
    BY <2>6 DEF JournalReplayable, CanReplay, St, RunStatuses, Broken
  <2> QED
    BY <2>5, <2>7 DEF Consistent
<1> QED
  BY <1>1, AlwaysKernelInv, PTL

\* A step is started again only after the run went back to the queue: no two
\* executors carry out the same attempt (claimRun, startStep and recover).
THEOREM AttemptsAreExclusive ==
  ASSUME SoleDecider
  PROVE  Spec => []StartedOncePerDispatch
<1>1. KernelInv => StartedOncePerDispatch
  BY DEF KernelInv, History, Accounted
<1> QED
  BY <1>1, AlwaysKernelInv, PTL

\* After the owner rejected the approval a run was waiting for, no worker is
\* started (rejectApproval against whoever still executes the run).
THEOREM RejectionStands ==
  ASSUME SoleDecider
  PROVE  Spec => []RejectionIsFinal
<1>1. ASSUME KernelInv PROVE RejectionIsFinal
  <2>1. \A i \in DOMAIN journal :
          journal[i].type = "status" /\ journal[i].status = "failed" => i = Len(journal)
    BY <1>1 DEF KernelInv, History, Orderly, Terminal
  <2>2. Len(journal) \in Nat
    BY <1>1 DEF KernelInv, History, Orderly
  <2>3. \A j \in (Len(journal) + 1)..Len(journal) : FALSE
    BY <2>2
  <2> QED
    BY <2>1, <2>3 DEF RejectionIsFinal
<1> QED
  BY <1>1, AlwaysKernelInv, PTL

\* As long as nothing crashed or stalled, a run in flight is claimed by the
\* executor that works on it, which is what recovery takes for granted
\* (executeClaimingRun and recoverInterruptedRuns).
THEOREM WorkHasAnOwner ==
  ASSUME SoleDecider
  PROVE  Spec => []RunningIsOwned
<1>1. ASSUME KernelInv PROVE RunningIsOwned
  <2>1. RecordedStatus = St
    BY <1>1, RecordedIsNow DEF KernelInv, History
  <2>2. ASSUME NEW x \in Executors, Engaged(x)
        PROVE  Holds(x) /\ exec[x].at \in
                 {"deciding", "starting", "working", "worked", "verifying", "releasing"}
    BY <2>2 DEF Engaged, Busy, Working
  <2> QED
    BY <1>1, <2>1, <2>2 DEF KernelInv, Owned, Faultless, RunningIsOwned
<1> QED
  BY <1>1, AlwaysKernelInv, PTL

\* However often executors crash, stall and take the run over, a worker
\* carries out a step that must not be repeated at most once (executeOwned and
\* the recovery decision of recoverInterruptedRuns).
THEOREM UnsafeWorkIsDoneOnce ==
  ASSUME SoleDecider
  PROVE  Spec => []UnsafeAtMostOnce
<1>1. KernelInv => UnsafeAtMostOnce
  BY DEF KernelInv, Performed, Unsafe, UnsafeAtMostOnce
<1> QED
  BY <1>1, AlwaysKernelInv, PTL

\* The terminal status of a run is the last thing its journal says, whoever was
\* still executing, recovering, approving or cancelling it.
THEOREM TheEndIsTheEnd ==
  ASSUME SoleDecider
  PROVE  Spec => NothingAfterTheEnd
<1>1. ASSUME KernelInv, [Next]_vars, Ended PROVE journal' = journal
  <2> SUFFICES ASSUME NEW e, Tells(e), KernelInv' PROVE FALSE
    BY <1>1, StepsProceed DEF Proceeds
  <2>1. /\ LastStatus \in DOMAIN journal /\ journal[LastStatus].type = "status"
        /\ journal[LastStatus].status \in Terminal
    BY <1>1, RecordedIsNow DEF KernelInv, History, Ended, RecordedStatus
  <2>2. journal \in Seq(Event) /\ journal' = Append(journal, e)
    BY <1>1 DEF KernelInv, History, Orderly, Tells
  <2>3. \A i \in DOMAIN journal' :
          journal'[i].type = "status" /\ journal'[i].status \in Terminal => i = Len(journal')
    BY DEF KernelInv, History, Orderly
  <2>4. /\ Len(journal') = Len(journal) + 1 /\ Len(journal) \in Nat
        /\ DOMAIN journal = 1..Len(journal) /\ DOMAIN journal' = 1..(Len(journal) + 1)
        /\ \A i \in 1..Len(journal) : journal'[i] = journal[i]
    BY <2>2, Grown
  <2> QED
    BY <2>1, <2>3, <2>4
<1>2. KernelInv /\ [Next]_vars => (Ended => journal' = journal)
  BY <1>1
<1>3. Spec => [][Ended => journal' = journal]_vars
  BY <1>2, AlwaysKernelInv, PTL DEF Spec
<1> QED
  BY <1>3 DEF NothingAfterTheEnd

-----------------------------------------------------------------------------
(* The refinement: what the processes do to the journal is RunContract.      *)

\* The variables of RunContract, as the journal has them.
LEMMA ContractState ==
  ASSUME History
  PROVE  /\ Truth.status = St /\ Truth.active = Now.active
         /\ Truth.approvals = Now.approvals /\ Truth.evidence = Now.evidence
  BY TruthIsNow DEF St

LEMMA ContractSets ==
  ASSUME Truth.evidence = Now.evidence
  PROVE  /\ Contract!Steps = Steps
         /\ Contract!Left <=> Remaining # {}
         /\ Contract!Next1 = NextStep
  BY DEF Contract!Steps, Steps, Contract!Left, Contract!Next1, Contract!Min, Min, NextStep, Remaining

LEMMA ContractAtFirst ==
  ASSUME Init
  PROVE  Contract!Init
<1>1. History /\ St = "planning" /\ Started = {} /\ Now = ViewAfter(journal, 1)
  BY HistoryAtFirst
<1>2. Now.evidence = {} /\ Begun = {}
  BY <1>1, NowIsTyped DEF History, Orderly, Accounted
<1>3. Now.approvals = {}
  <2>1. \A i \in 1..1 : journal[i].type = "status"
    BY DEF Init, StatusEvent
  <2>2. StepsAfter(journal, 1, "approved") = {}
    BY <2>1 DEF StepsAfter
  <2> QED
    BY <1>1, <2>2 DEF ViewAfter
<1> QED
  BY <1>1, <1>2, <1>3, ContractState DEF Contract!Init

LEMMA ContractSteps ==
  ASSUME SoleDecider, KernelInv, [Next]_vars
  PROVE  [Contract!Next]_(Contract!contractVars)
<1>1. History /\ History' /\ (journal' = journal \/ \E e : Tells(e))
  BY StepsProceed DEF Proceeds, KernelInv
<1>2. /\ Truth.status = St /\ Truth.active = Now.active
      /\ Truth.approvals = Now.approvals /\ Truth.evidence = Now.evidence
  BY <1>1, ContractState
<1>3. /\ Truth'.status = St' /\ Truth'.active = Now'.active
      /\ Truth'.approvals = Now'.approvals /\ Truth'.evidence = Now'.evidence
  <2>1. (Truth = Now)'
    BY <1>1, TruthIsNow, PTL
  <2> QED
    BY <2>1 DEF St
<1>4. /\ Contract!Left <=> Remaining # {}
      /\ Contract!Next1 = NextStep
  BY <1>2, ContractSets
<1>5. CASE journal' = journal
  <2>1. Now' = Now /\ St' = St /\ Begun' = Begun
    BY <1>5, SameHistory
  <2> QED
    BY <1>2, <1>3, <2>1 DEF Contract!contractVars
<1>6. ASSUME NEW e, Tells(e) PROVE Contract!Next
  <2>1. journal \in Seq(Event) /\ journal' = Append(journal, e) /\ Fits(e)
    BY <1>1, <1>6 DEF History, Orderly, Tells
  <2>2. /\ St' = (IF e.type = "status" THEN e.status ELSE St)
        /\ Now'.active = (IF e.type = "status" THEN e.step ELSE Now.active)
        /\ Now'.approvals = (IF e.type = "approved" THEN Now.approvals \cup {e.step} ELSE Now.approvals)
        /\ Now'.evidence = (IF e.type = "evidence" THEN Now.evidence \cup {e.step} ELSE Now.evidence)
    BY <2>1, Next1
  <2>3. Begun' = IF e.type = "status" /\ e.status = "queued" THEN {}
                 ELSE IF e.type = "started" THEN Begun \cup {e.step} ELSE Begun
    BY <2>1, BegunNext
  <2>4. CASE e.type = "status"
    <3>1. PICK s \in RunStatuses, step \in 0..NumSteps :
             /\ e = StatusEvent(s, step)
             /\ \/ s = "queued" /\ St = "planning"
                \/ s = "queued" /\ St = "running" /\ External = {} /\ Started \subseteq RetrySafe
                \/ s = "running" /\ St \in {"queued", "waiting_approval"} /\ Remaining # {} /\ Permitted(NextStep)
                \/ /\ s = "waiting_approval" /\ St \in {"queued", "running"} /\ Begun \subseteq Now.evidence
                   /\ Remaining # {} /\ step = NextStep /\ NextStep \in NeedsApproval \ Now.approvals
                \/ s = "verifying" /\ St = "running" /\ Remaining = {}
                \/ s = "waiting_review" /\ St = "verifying"
                \/ s = "completed" /\ St \in {"verifying", "waiting_review"}
                \/ s \in {"failed", "cancelled"} /\ St \notin Terminal
      BY <2>1, <2>4 DEF Fits, StepEvent
    <3>2. /\ St' = s /\ Now'.active = step /\ Now'.approvals = Now.approvals /\ Now'.evidence = Now.evidence
          /\ Begun' = IF s = "queued" THEN {} ELSE Begun
      BY <2>2, <2>3, <3>1 DEF StatusEvent
    <3>3. ASSUME s # "waiting_approval", s = "queued" => Begun = {} PROVE Contract!Become(s)
      BY <1>2, <1>3, <3>2, <3>3 DEF Contract!Become
    <3>4. CASE s = "queued" /\ St = "planning"
      <4>1. Begun = {}
        BY <1>1, <3>4, NowIsTyped DEF History, Orderly
      <4> QED
        BY <1>2, <3>3, <3>4, <4>1 DEF Contract!Next, Contract!Queue
    <3>5. CASE s = "queued" /\ St = "running" /\ External = {} /\ Started \subseteq RetrySafe
      <4>1. Begun \subseteq RetrySafe
        BY <2>1, <3>5, NowIsTyped
      <4>2. Remaining # {}
        <5>1. Now.evidence \subseteq RetrySafe /\ RetrySafe \subseteq Steps /\ RetrySafe # Steps
          BY <1>1, <3>5, KernelConstants DEF History, Accounted, SoleDecider
        <5> QED
          BY <5>1 DEF Remaining
      <4> QED
        BY <1>2, <1>3, <1>4, <3>2, <3>5, <4>1, <4>2 DEF Contract!Next, Contract!Requeue
    <3>6. CASE s = "running" /\ St \in {"queued", "waiting_approval"} /\ Remaining # {} /\ Permitted(NextStep)
      <4>1. Contract!Permitted(NextStep)
        BY <1>2, <3>6 DEF Contract!Permitted, Permitted
      <4> QED
        BY <1>2, <1>4, <3>3, <3>6, <4>1 DEF Contract!Next, Contract!Run
    <3>7. CASE /\ s = "waiting_approval" /\ St \in {"queued", "running"} /\ Begun \subseteq Now.evidence
               /\ Remaining # {} /\ step = NextStep /\ NextStep \in NeedsApproval \ Now.approvals
      BY <1>2, <1>3, <1>4, <3>2, <3>7 DEF Contract!Next, Contract!Wait
    <3>8. CASE s = "verifying" /\ St = "running" /\ Remaining = {}
      BY <1>2, <1>4, <3>3, <3>8 DEF Contract!Next, Contract!Verify
    <3>9. CASE \/ s = "waiting_review" /\ St = "verifying"
               \/ s = "completed" /\ St \in {"verifying", "waiting_review"}
      BY <1>2, <3>3, <3>9 DEF Contract!Next, Contract!Judge
    <3>10. CASE s \in {"failed", "cancelled"} /\ St \notin Terminal
      BY <1>2, <3>3, <3>10 DEF Contract!Next, Contract!Fail, Contract!Cancel, Contract!Over, Terminal
    <3> QED
      BY <3>1, <3>4, <3>5, <3>6, <3>7, <3>8, <3>9, <3>10
  <2>5. CASE e = StepEvent("approved", Now.active) /\ St = "waiting_approval"
    <3>1. /\ St' = St /\ Now'.active = Now.active /\ Begun' = Begun
          /\ Now'.approvals = Now.approvals \cup {Now.active} /\ Now'.evidence = Now.evidence
      BY <2>2, <2>3, <2>5 DEF StepEvent
    <3> QED
      BY <1>2, <1>3, <2>5, <3>1 DEF Contract!Next, Contract!Approve
  <2>6. CASE /\ e = StepEvent("started", NextStep) /\ St = "running"
             /\ Remaining # {} /\ NextStep \notin Begun /\ Permitted(NextStep)
    <3>1. /\ St' = St /\ Now'.active = Now.active /\ Begun' = Begun \cup {NextStep}
          /\ Now'.approvals = Now.approvals /\ Now'.evidence = Now.evidence
      BY <2>2, <2>3, <2>6 DEF StepEvent
    <3>2. Contract!Permitted(NextStep)
      BY <1>2, <2>6 DEF Contract!Permitted, Permitted
    <3> QED
      BY <1>2, <1>3, <1>4, <2>6, <3>1, <3>2 DEF Contract!Next, Contract!Begin
  <2>7. CASE /\ e = StepEvent("evidence", NextStep) /\ St = "running"
             /\ Remaining # {} /\ NextStep \in Begun
    <3>1. /\ St' = St /\ Now'.active = Now.active /\ Begun' = Begun
          /\ Now'.approvals = Now.approvals /\ Now'.evidence = Now.evidence \cup {NextStep}
      BY <2>2, <2>3, <2>7 DEF StepEvent
    <3> QED
      BY <1>2, <1>3, <1>4, <2>7, <3>1 DEF Contract!Next, Contract!Finish
  <2> QED
    BY <2>1, <2>4, <2>5, <2>6, <2>7 DEF Fits, StatusEvent
<1> QED
  BY <1>1, <1>5, <1>6

\* The journal tells one sequential history: the one the abstract kernel,
\* without claims, leases, projections or processes, could have told.
THEOREM KernelKeepsItsContract ==
  ASSUME SoleDecider
  PROVE  Spec => ImplementsContract
<1>1. Init => Contract!Init
  BY ContractAtFirst
<1>2. KernelInv /\ [Next]_vars => [Contract!Next]_(Contract!contractVars)
  BY ContractSteps
<1>3. Spec => Contract!Init /\ [][Contract!Next]_(Contract!contractVars)
  BY <1>1, <1>2, AlwaysKernelInv, PTL DEF Spec
<1> QED
  BY <1>3 DEF ImplementsContract, Contract!Spec
=============================================================================

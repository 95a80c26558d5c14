----------------------- MODULE SubagentDispatchProofs -----------------------
(***************************************************************************)
(* Proofs about SubagentDispatch, for every finite set of work orders,     *)
(* every acyclic plan, every budget and every number of crashes: what      *)
(* DispatchInv says of the dispatched work, and that a run that is over is *)
(* not written to as long as its waves hold one task.                      *)
(*                                                                         *)
(* The inductive invariant has five parts: what the guard knows of the run *)
(* (Guarding), what has settled where the executor is (Settled), what each *)
(* order's starts amount to (Counted), that an order whose task or starts  *)
(* exist rests on finished work (Rests), and who is in the queue for the   *)
(* workspace (Queued).  A step of a task disturbs one order only, so the   *)
(* parts are kept order by order.                                          *)
(***************************************************************************)
EXTENDS SubagentDispatch, FiniteSetTheorems, SequenceTheorems, TLAPS

Over == {"none", "done"}
Working == {"entered", "attempting", "streaming", "completed", "caught"}
Tried == {"streaming", "completed", "caught"}
Active == {"loop", "awaiting", "stepFailed", "verifying"}

AllSafe(o) == \A i \in DOMAIN starts[o] : starts[o][i]

\* A crash interrupted the last attempt, and no task has taken it up yet.
Interrupted(o) == sub[o].status = "running" /\ task[o] \in {"none", "queued", "entered"}

Guarding ==
  /\ guarded <=> exec \in Active
  /\ status \in Terminal /\ guarded => aborted

Settled ==
  /\ exec = "loop" => \A o \in Orders : task[o] \in Over
  /\ exec = "awaiting" => \A o \in Orders \ wave : task[o] \in Over
  /\ exec = "awaiting" => \A o \in wave : task[o] # "none"
  /\ exec = "down" => \A o \in Orders : task[o] = "none"
  /\ exec = "verifying" \/ status \in {"completed", "waiting_review"} =>
       \A o \in Orders : Complete(o) /\ Idle(o)
  /\ exec \in {"stepFailed", "stopped"} /\ Cardinality(wave) <= 1 =>
       \A o \in Orders : Idle(o)

Told(o) ==
  /\ task[o] = "done" => Complete(o)
  /\ task[o] = "completed" => sub[o].status = "completed"
  /\ o \in verified => evidence[o] = "contract"
  /\ sub[o].status = "none" => starts[o] = <<>> /\ sub[o].attempt = 0
  /\ task[o] \in {"queued", "entered", "attempting"} => AllSafe(o)
  /\ task[o] = "none" /\ exec \notin {"down", "stopped"} => AllSafe(o)
  /\ task[o] \in Tried => starts[o] # <<>> /\ Last(starts[o]) = safe[o]
  /\ \A i \in DOMAIN starts[o] : ~starts[o][i] => i = Len(starts[o])

Budgeted(o) ==
  /\ sub[o].attempt <= MaxAttempts
  /\ Len(starts[o]) <= sub[o].attempt + crashes
  /\ Interrupted(o) => Len(starts[o]) + 1 <= sub[o].attempt + crashes
  /\ task[o] = "attempting" => Len(starts[o]) + 1 <= attempt[o] + crashes
  /\ task[o] \in Tried => sub[o].attempt = attempt[o]

Counted(o) == Told(o) /\ Budgeted(o)

Rests(o) ==
  task[o] # "none" \/ starts[o] # <<>> =>
    \A d \in dependsOn[o] : Complete(d) /\ Idle(d)

Queued ==
  /\ ~HasWorkspace => lock = <<>>
  /\ HasWorkspace =>
       /\ \A i, j \in 1..Len(lock) : lock[i] = lock[j] => i = j
       /\ \A o \in Orders : ~Idle(o) <=> \E i \in 1..Len(lock) : lock[i] = o
       /\ \A o \in Orders : task[o] \in Working => lock # <<>> /\ lock[1] = o

DispatchIInv ==
  /\ TypeOK
  /\ Guarding
  /\ Settled
  /\ \A o \in Orders : Counted(o)
  /\ \A o \in Orders : Rests(o)
  /\ Queued
-----------------------------------------------------------------------------
(* The queue for the workspace.                                              *)

\* SetToSeq lists a finite set, each element once.
LEMMA Listed ==
  ASSUME NEW S, IsFiniteSet(S)
  PROVE  /\ SetToSeq(S) \in Seq(S)
         /\ \A x \in S : \E i \in 1..Len(SetToSeq(S)) : SetToSeq(S)[i] = x
         /\ \A i, j \in 1..Len(SetToSeq(S)) : SetToSeq(S)[i] = SetToSeq(S)[j] => i = j
<1> DEFINE n == Cardinality(S)
           f == SetToSeq(S)
<1>1. n \in Nat /\ ExistsBijection(1..n, S)
  BY FS_CardinalityType
<1>2. \E b \in [1..n -> S] : IsInjective(b)
  BY <1>1 DEF ExistsBijection, Bijection, Injection
<1>3. f \in [1..n -> S] /\ IsInjective(f)
  BY <1>2 DEF SetToSeq
<1>4. IsFiniteSet(1..n) /\ Cardinality(1..n) = n
  BY <1>1, FS_Interval
<1> HIDE DEF f
<1>5. f \in Surjection(1..n, S)
  BY <1>3, <1>4, FS_Injection DEF Injection
<1>6. f \in Seq(S) /\ Len(f) = n
  BY <1>1, <1>3
<1>7. \A x \in S : \E i \in 1..n : f[i] = x
  BY <1>5 DEF Surjection
<1> QED
  BY <1>3, <1>6, <1>7 DEF f, IsInjective

-----------------------------------------------------------------------------
(* A step of a task.                                                         *)

SameOrder(p) ==
  /\ task'[p] = task[p] /\ attempt'[p] = attempt[p] /\ safe'[p] = safe[p]
  /\ sub'[p] = sub[p] /\ evidence'[p] = evidence[p] /\ starts'[p] = starts[p]
  /\ p \in verified' <=> p \in verified

\* The task goes on, or it has entered, settles and releases the workspace.
GoesOn(o) ==
  /\ ~Idle(o)' /\ task'[o] # "queued" /\ lock' = lock
  /\ task[o] = "queued" => Head(lock) = o
Settles(o) ==
  /\ task[o] \in Working /\ task'[o] \in {"done", "thrown"}
  /\ lock' = IF HasWorkspace THEN Tail(lock) ELSE lock

Local(o) ==
  /\ ~Idle(o)
  /\ UNCHANGED <<executor, status, setting>>
  /\ \A p \in Orders : p # o => SameOrder(p)
  /\ GoesOn(o) \/ Settles(o)

\* How EnterInterrupted and Catch end: nothing is recorded and the task throws;
\* the failure is recorded and the task throws; the work is reconciled; the
\* order is attempted (again).
GivesUp(o) == Settle(o, "thrown") /\ UNCHANGED <<journal, attempt, safe>>
Fails(o) ==
  /\ SetSub(o, "failed") /\ Settle(o, "thrown")
  /\ UNCHANGED <<status, evidence, verified, starts, attempt, safe>>
Reconciles(o) == Reconcile(o) /\ UNCHANGED <<status, starts, attempt, safe>>
Repeats(o) ==
  /\ AllSafe(o)' <=> AllSafe(o)
  /\ Goto(o, "attempting")
  /\ attempt' = [attempt EXCEPT ![o] =
       sub[o].attempt + (IF sub[o].status = "failed" THEN 1 ELSE 0)]
  /\ \E s \in Safety : safe' = [safe EXCEPT ![o] = s]
  /\ UNCHANGED journal
Retries(o) ==
  /\ safe[o] /\ attempt[o] < MaxAttempts
  /\ SetSub(o, "failed")
  /\ Goto(o, "attempting")
  /\ attempt' = [attempt EXCEPT ![o] = @ + 1]
  /\ \E s \in Safety : safe' = [safe EXCEPT ![o] = s]
  /\ UNCHANGED <<status, evidence, verified, starts>>

LEMMA InterruptedEnds ==
  ASSUME NEW o \in Orders, EnterInterrupted(o)
  PROVE  /\ task[o] = "entered" /\ sub[o].status \in {"running", "failed"}
         /\ UNCHANGED <<executor, heeds, setting>>
         /\ \/ GivesUp(o)
            \/ Writable /\ Fails(o)
            \/ Writable /\ Reconciles(o)
            \/ Repeats(o)
<1>1. PICK s \in Safety, v \in Recoveries :
     IF ~Last(starts[o]) \/ ~s \/ (v # "none" /\ ~Writable)
     THEN GivesUp(o)
     ELSE CASE v = "reconciled" -> Reconciles(o)
            [] v = "blocked" -> Fails(o)
            [] OTHER ->
                 /\ Goto(o, "attempting")
                 /\ attempt' = [attempt EXCEPT ![o] =
                      sub[o].attempt + (IF sub[o].status = "failed" THEN 1 ELSE 0)]
                 /\ safe' = [safe EXCEPT ![o] = s]
                 /\ UNCHANGED journal
  BY DEF EnterInterrupted, GivesUp, Fails, Reconciles
<1>2. UNCHANGED journal => (AllSafe(o)' <=> AllSafe(o))
  BY DEF journal, AllSafe
<1>3. task[o] = "entered" /\ sub[o].status \in {"running", "failed"}
  BY DEF EnterInterrupted
<1>4. UNCHANGED <<executor, heeds, setting>>
  BY DEF EnterInterrupted
<1> QED
  BY <1>1, <1>2, <1>3, <1>4 DEF Recoveries, Repeats

LEMMA CaughtEnds ==
  ASSUME NEW o \in Orders, Catch(o)
  PROVE  /\ task[o] = "caught" /\ UNCHANGED <<executor, heeds, setting>>
         /\ \/ GivesUp(o)
            \/ Writable /\ Fails(o)
            \/ Writable /\ Reconciles(o)
            \/ Writable /\ Retries(o)
  BY DEF Catch, GivesUp, Fails, Reconciles, Retries

\* The step of a task is of a task that runs, disturbs no other order and
\* nothing of the run or its executor, and releases the workspace as it ends.
LEMMA TaskStepIsLocal ==
  ASSUME TypeOK, NEW o \in Orders, TaskStep(o)
  PROVE  Local(o)
<1> USE DEF Local, SameOrder, GoesOn, Settles, Idle, Working, Goto, Settle, SetSub,
            Reconcile, TypeOK, journal, executor, setting
<1>1. CASE Acquire(o)
  BY <1>1 DEF Acquire
<1>2. CASE EnterCompleted(o)
  BY <1>2 DEF EnterCompleted
<1>3. CASE EnterFresh(o)
  BY <1>3 DEF EnterFresh
<1>4. /\ GivesUp(o) \/ Fails(o) \/ Reconciles(o) \/ Repeats(o) \/ Retries(o)
      /\ task[o] \in Working /\ UNCHANGED <<executor, setting>>
      => Local(o)
  <2>1. GivesUp(o) /\ task[o] \in Working /\ UNCHANGED <<executor, setting>> => Local(o)
    BY DEF GivesUp
  <2>2. Fails(o) /\ task[o] \in Working /\ UNCHANGED <<executor, setting>> => Local(o)
    BY DEF Fails
  <2>3. Reconciles(o) /\ task[o] \in Working /\ UNCHANGED <<executor, setting>> => Local(o)
    BY DEF Reconciles
  <2>4. Repeats(o) /\ task[o] \in Working /\ UNCHANGED <<executor, setting>> => Local(o)
    BY DEF Repeats
  <2>5. Retries(o) /\ task[o] \in Working /\ UNCHANGED <<executor, setting>> => Local(o)
    BY DEF Retries
  <2> QED
    BY <2>1, <2>2, <2>3, <2>4, <2>5
<1>5. CASE EnterRefused(o) \/ AttemptRefused(o)
  BY <1>5 DEF EnterRefused, AttemptRefused
<1>6. CASE BeginAttempt(o)
  BY <1>6 DEF BeginAttempt
<1>7. CASE StreamEvidence(o) \/ StreamCompleted(o) \/ StreamFailed(o)
  BY <1>7 DEF StreamEvidence, StreamCompleted, StreamFailed, Heard, tasks
<1>8. CASE VerifyOrder(o)
  BY <1>8 DEF VerifyOrder
<1>9. CASE EnterInterrupted(o)
  <2>1. task[o] \in Working /\ UNCHANGED <<executor, setting>>
    BY <1>9, InterruptedEnds
  <2> QED
    BY <1>4, <1>9, <2>1, InterruptedEnds DEF Local
<1>10. CASE Catch(o)
  <2>1. task[o] \in Working /\ UNCHANGED <<executor, setting>>
    BY <1>10, CaughtEnds
  <2> QED
    BY <1>4, <1>10, <2>1, CaughtEnds DEF Local
<1> QED
  BY <1>1, <1>2, <1>3, <1>5, <1>6, <1>7, <1>8, <1>9, <1>10 DEF TaskStep

\* The queue after a step of a task: the others keep their turn, and whoever
\* ends hands the workspace over.
LEMMA QueueMovesOn ==
  ASSUME TypeOK, Queued, NEW o \in Orders, Local(o)
  PROVE  lock' \in Seq(Orders) /\ Queued'
<1>0. /\ lock \in Seq(Orders) /\ ~Idle(o)
      /\ GoesOn(o) \/ Settles(o)
      /\ task[o] \in {"none", "queued", "entered", "attempting", "streaming",
                      "completed", "caught", "done", "thrown"}
  BY DEF TypeOK, Local
<1>1. \A p \in Orders : p # o => task'[p] = task[p]
  BY DEF SameOrder, Local
<1> USE <1>0 DEF Idle, Working
<1>2. CASE GoesOn(o)
  <2>1. lock' = lock /\ task'[o] \notin {"none", "done", "thrown", "queued"}
    BY <1>2 DEF GoesOn
  <2>2. CASE ~HasWorkspace
    BY <2>1, <2>2 DEF Queued
  <2>3. CASE HasWorkspace
    <3>1. \A p \in Orders : ~Idle(p)' <=> \E i \in 1..Len(lock) : lock[i] = p
      BY <1>1, <2>1, <2>3 DEF Queued
    <3>2. lock # <<>> /\ lock[1] = o
      <4>1. task[o] \in Working \/ task[o] = "queued"
        OBVIOUS
      <4>2. lock # <<>>
        BY <2>3 DEF Queued
      <4> QED
        BY <1>2, <2>3, <4>1, <4>2 DEF Queued, GoesOn
    <3>3. ASSUME NEW p \in Orders, task'[p] \in Working
          PROVE  lock[1] = p
      BY <1>1, <2>3, <3>2, <3>3 DEF Queued
    <3>4. \A i, j \in 1..Len(lock) : lock[i] = lock[j] => i = j
      BY <2>3 DEF Queued
    <3> HIDE DEF Idle, Working
    <3> QED
      BY <2>1, <2>3, <3>1, <3>2, <3>3, <3>4 DEF Queued
  <2> QED
    BY <2>2, <2>3
<1>3. CASE Settles(o) /\ ~HasWorkspace
  BY <1>3 DEF Settles, Queued
<1>4. CASE Settles(o) /\ HasWorkspace
  <2>1. task[o] \in Working /\ task'[o] \in {"done", "thrown"} /\ lock' = Tail(lock)
    BY <1>4 DEF Settles
  <2>2. lock # <<>> /\ lock[1] = o
    BY <1>4, <2>1 DEF Queued
  <2>3. /\ Tail(lock) \in Seq(Orders) /\ Len(Tail(lock)) = Len(lock) - 1
        /\ \A i \in 1..Len(Tail(lock)) : i + 1 \in 1..Len(lock) /\ Tail(lock)[i] = lock[i + 1]
    BY <2>2
  <2>4. \A i, j \in 1..Len(Tail(lock)) : Tail(lock)[i] = Tail(lock)[j] => i = j
    BY <1>4, <2>3 DEF Queued
  <2>5. ASSUME NEW p \in Orders
        PROVE  ~Idle(p)' <=> \E i \in 1..Len(Tail(lock)) : Tail(lock)[i] = p
    <3>1. CASE p = o
      <4>1. \A i \in 1..Len(Tail(lock)) : Tail(lock)[i] # o
        BY <1>4, <2>2, <2>3 DEF Queued
      <4> QED
        BY <2>1, <3>1, <4>1
    <3>2. CASE p # o
      <4>1. ~Idle(p)' <=> \E i \in 1..Len(lock) : lock[i] = p
        BY <1>1, <1>4, <3>2 DEF Queued
      <4>2. ASSUME NEW i \in 1..Len(lock), lock[i] = p
            PROVE  \E k \in 1..Len(Tail(lock)) : Tail(lock)[k] = p
        <5>1. i # 1 /\ i - 1 \in 1..Len(Tail(lock))
          BY <2>2, <2>3, <3>2, <4>2
        <5>2. Tail(lock)[i - 1] = lock[i]
          BY <2>3, <5>1
        <5> QED
          BY <4>2, <5>1, <5>2
      <4> QED
        BY <2>3, <4>1, <4>2
    <3> QED
      BY <3>1, <3>2
  <2>6. \A p \in Orders : task'[p] \notin Working
    <3>1. \A p \in Orders : p # o => task[p] \notin Working
      BY <1>4, <2>2 DEF Queued
    <3> QED
      BY <1>1, <2>1, <3>1
  <2> HIDE DEF Idle, Working
  <2> QED
    BY <1>4, <2>1, <2>3, <2>4, <2>5, <2>6 DEF Queued
<1> QED
  BY <1>2, <1>3, <1>4

\* A step of a task keeps the types.
LEMMA TaskTyping ==
  ASSUME TypeOK, Queued, NEW o \in Orders, TaskStep(o)
  PROVE  TypeOK'
<1>1. lock' \in Seq(Orders)
  BY TaskStepIsLocal, QueueMovesOn
<1>2. /\ UNCHANGED <<guarded, aborted, exec, wave, status, dependsOn, crashes>>
  BY TaskStepIsLocal DEF Local, executor, setting
<1> DEFINE
  Status == {"none", "running", "completed", "failed", "cancelled"}
  Where == {"none", "queued", "entered", "attempting", "streaming", "completed",
            "caught", "done", "thrown"}
  Rest ==
    /\ heeds' \subseteq Orders /\ verified' \subseteq Orders
    /\ task' \in [Orders -> Where]
    /\ attempt' \in [Orders -> Nat] /\ safe' \in [Orders -> BOOLEAN]
    /\ sub' \in [Orders -> [status : Status, attempt : Nat]]
    /\ evidence' \in [Orders -> Evidence]
    /\ starts' \in [Orders -> Seq(BOOLEAN)]
<1>3. Rest
  <2>0. /\ heeds \subseteq Orders /\ verified \subseteq Orders
        /\ task \in [Orders -> Where]
        /\ attempt \in [Orders -> Nat] /\ safe \in [Orders -> BOOLEAN]
        /\ sub \in [Orders -> [status : Status, attempt : Nat]]
        /\ evidence \in [Orders -> Evidence]
        /\ starts \in [Orders -> Seq(BOOLEAN)]
    BY DEF TypeOK
  <2> USE <2>0 DEF journal, tasks, Safety
  <2>a. ASSUME NEW w \in Where, Goto(o, w) \/ Settle(o, w)
        PROVE  task' \in [Orders -> Where]
    BY <2>a DEF Goto, Settle
  <2>b. ASSUME NEW w \in Status, SetSub(o, w)
        PROVE  sub' \in [Orders -> [status : Status, attempt : Nat]]
    BY <2>b DEF SetSub
  <2>c. "done" \in Where /\ "thrown" \in Where /\ "attempting" \in Where /\ "caught" \in Where
        /\ "entered" \in Where /\ "streaming" \in Where /\ "completed" \in Where
        /\ "failed" \in Status /\ "completed" \in Status /\ "running" \in Status
        /\ "contract" \in Evidence /\ "some" \in Evidence
    BY DEF Evidence
  <2> HIDE DEF Status, Where
  <2>1. CASE Acquire(o)
    BY <2>1, <2>a, <2>c DEF Acquire, journal
  <2>2. CASE EnterCompleted(o)
    <3>1. sub[o].attempt + 1 \in Nat
      OBVIOUS
    <3>2. UNCHANGED <<status, sub, evidence, starts, executor, heeds, setting>>
      BY <2>2 DEF EnterCompleted
    <3>3. verified' = verified \/ verified' = verified \cup {o}
      BY <2>2 DEF EnterCompleted
    <3>4. Settle(o, "thrown") \/ Settle(o, "done") \/ Goto(o, "attempting")
      BY <2>2 DEF EnterCompleted
    <3>5. \/ UNCHANGED <<attempt, safe>>
          \/ /\ attempt' = [attempt EXCEPT ![o] = sub[o].attempt + 1]
             /\ \E s \in Safety : safe' = [safe EXCEPT ![o] = s]
      BY <2>2 DEF EnterCompleted
    <3> QED
      BY <2>a, <2>c, <3>1, <3>2, <3>3, <3>4, <3>5
  <2>3. CASE EnterFresh(o)
    BY <2>3, <2>a, <2>c DEF EnterFresh
  <2>4. GivesUp(o) /\ UNCHANGED heeds => Rest
    BY <2>a, <2>c DEF GivesUp
  <2>5. Fails(o) /\ UNCHANGED heeds => Rest
    BY <2>a, <2>b, <2>c DEF Fails
  <2>6. Reconciles(o) /\ UNCHANGED heeds => Rest
    BY <2>a, <2>b, <2>c DEF Reconciles, Reconcile
  <2>7. Repeats(o) /\ UNCHANGED heeds => Rest
    <3>1. sub[o].attempt + (IF sub[o].status = "failed" THEN 1 ELSE 0) \in Nat
      OBVIOUS
    <3> QED
      BY <2>a, <2>c, <3>1 DEF Repeats
  <2>8. Retries(o) /\ UNCHANGED heeds => Rest
    <3>1. attempt[o] + 1 \in Nat
      OBVIOUS
    <3> QED
      BY <2>a, <2>b, <2>c, <3>1 DEF Retries
  <2>9. CASE EnterInterrupted(o)
    BY <2>4, <2>5, <2>6, <2>7, <2>9, InterruptedEnds
  <2>10. CASE Catch(o)
    BY <2>4, <2>5, <2>6, <2>8, <2>10, CaughtEnds
  <2>11. CASE EnterRefused(o) \/ AttemptRefused(o)
    BY <2>11, <2>a, <2>c DEF EnterRefused, AttemptRefused
  <2>12. CASE BeginAttempt(o)
    <3>1. starts' = [starts EXCEPT ![o] = Append(@, safe[o])] /\ safe[o] \in BOOLEAN
      BY <2>12 DEF BeginAttempt
    <3>2. starts' \in [Orders -> Seq(BOOLEAN)]
      BY <3>1
    <3>3. sub' \in [Orders -> [status : Status, attempt : Nat]]
      BY <2>12, <2>c DEF BeginAttempt
    <3> QED
      BY <2>12, <2>a, <2>c, <3>2, <3>3 DEF BeginAttempt
  <2>13. CASE StreamEvidence(o)
    BY <2>13, <2>c DEF StreamEvidence
  <2>14. CASE StreamCompleted(o) \/ StreamFailed(o)
    BY <2>14, <2>a, <2>b, <2>c DEF StreamCompleted, StreamFailed
  <2>15. CASE VerifyOrder(o)
    <3>1. Settle(o, "done") \/ Goto(o, "caught")
      BY <2>15 DEF VerifyOrder
    <3> QED
      BY <2>15, <2>a, <2>c, <3>1 DEF VerifyOrder
  <2> QED
    BY <2>1, <2>2, <2>3, <2>9, <2>10, <2>11, <2>12, <2>13, <2>14, <2>15 DEF TaskStep
<1> QED
  BY <1>1, <1>2, <1>3 DEF TypeOK

\* What TypeOK says of one order.
LEMMA OrderTypes ==
  ASSUME TypeOK, NEW o \in Orders
  PROVE  /\ attempt[o] \in Nat /\ safe[o] \in BOOLEAN
         /\ sub[o].attempt \in Nat
         /\ evidence[o] \in {"none", "some", "contract"}
         /\ starts[o] \in Seq(BOOLEAN)
         /\ crashes \in Nat
  BY DispatchConstants DEF TypeOK, Evidence

\* The sequence of starts with one more at its end.
LEMMA OneMore ==
  ASSUME NEW s \in Seq(BOOLEAN), NEW b \in BOOLEAN
  PROVE  /\ Len(Append(s, b)) = Len(s) + 1 /\ Append(s, b) # <<>>
         /\ Last(Append(s, b)) = b
         /\ DOMAIN Append(s, b) = 1..Len(s) + 1
         /\ \A i \in 1..Len(s) : Append(s, b)[i] = s[i]
  BY DEF Last

\* All starts are safe when the last one is and an unsafe one would be the last.
LEMMA LastSafe ==
  ASSUME NEW s \in Seq(BOOLEAN), s # <<>>, Last(s),
         \A i \in DOMAIN s : ~s[i] => i = Len(s)
  PROVE  \A i \in DOMAIN s : s[i]
  BY DEF Last

\* A step of the task of an order keeps what its starts amount to.
LEMMA TaskKeepsCount ==
  ASSUME TypeOK, NEW o \in Orders, Counted(o), TaskStep(o)
  PROVE  Counted(o)'
<1>1. crashes' = crashes
  BY TaskStepIsLocal DEF Local, setting
<1>2. /\ attempt[o] \in Nat /\ safe[o] \in BOOLEAN
      /\ sub[o].attempt \in Nat
      /\ evidence[o] \in {"none", "some", "contract"}
      /\ starts[o] \in Seq(BOOLEAN) /\ Len(starts[o]) \in Nat
      /\ crashes \in Nat
  BY OrderTypes
<1>3. /\ DOMAIN task = Orders /\ DOMAIN attempt = Orders /\ DOMAIN safe = Orders
      /\ DOMAIN sub = Orders /\ DOMAIN evidence = Orders /\ DOMAIN starts = Orders
      /\ sub[o].status \in {"none", "running", "completed", "failed", "cancelled"}
      /\ DOMAIN sub[o] = {"status", "attempt"}
  BY DEF TypeOK
<1>4. \A w : (Goto(o, w) => task'[o] = w) /\ (Settle(o, w) => task'[o] = w)
  BY <1>3 DEF Goto, Settle
<1>5. \A w : SetSub(o, w) => sub'[o].status = w /\ sub'[o].attempt = sub[o].attempt
  BY <1>3 DEF SetSub
<1> USE <1>1, <1>2 DEF Counted, Told, Budgeted, AllSafe, Interrupted, Complete, Tried
<1>6. CASE Acquire(o)
  BY <1>3, <1>4, <1>6 DEF Acquire, journal, executor
<1>7. CASE EnterCompleted(o)
  <2>1. /\ task[o] = "entered" /\ sub[o].status = "completed"
        /\ UNCHANGED <<sub, evidence, starts>>
        /\ \/ task'[o] = "thrown" /\ verified' = verified
           \/ /\ task'[o] = "done" /\ evidence[o] = "contract"
              /\ verified' = verified \cup {o}
           \/ /\ task'[o] = "attempting" /\ attempt'[o] = sub[o].attempt + 1
              /\ verified' = verified
    BY <1>3, <1>4, <1>7 DEF EnterCompleted
  <2>2. AllSafe(o) /\ UNCHANGED <<sub, evidence, starts, crashes>>
    BY <2>1
  <2>3. CASE task'[o] = "thrown" /\ verified' = verified
    <3>1. Told(o)'
      BY <2>1, <2>2, <2>3
    <3>2. Budgeted(o)'
      BY <2>1, <2>2, <2>3
    <3> QED
      BY <3>1, <3>2
  <2>4. CASE task'[o] = "done" /\ evidence[o] = "contract" /\ verified' = verified \cup {o}
    <3>1. Told(o)'
      BY <2>1, <2>2, <2>4
    <3>2. Budgeted(o)'
      BY <2>1, <2>2, <2>4
    <3> QED
      BY <3>1, <3>2
  <2>5. CASE task'[o] = "attempting" /\ attempt'[o] = sub[o].attempt + 1 /\ verified' = verified
    <3>1. Told(o)'
      BY <2>1, <2>2, <2>5
    <3>2. Budgeted(o)'
      BY <2>1, <2>2, <2>5
    <3> QED
      BY <3>1, <3>2
  <2> QED
    BY <2>1, <2>3, <2>4, <2>5
<1>8. CASE EnterFresh(o)
  <2>1. /\ task[o] = "entered" /\ sub[o].status = "none" /\ task'[o] = "attempting"
        /\ UNCHANGED <<sub, evidence, starts, verified>> /\ attempt'[o] = 1
    BY <1>3, <1>4, <1>8 DEF EnterFresh, journal
  <2> QED
    BY <2>1
<1>9. task[o] \in {"entered", "caught"} /\ sub[o].status # "none" /\ GivesUp(o) => Counted(o)'
  BY <1>3, <1>4 DEF GivesUp, journal
<1>10. task[o] \in {"entered", "caught"} /\ sub[o].status # "none" /\ Fails(o) => Counted(o)'
  BY <1>3, <1>4, <1>5 DEF Fails
<1>11. task[o] \in {"entered", "caught"} /\ sub[o].status # "none" /\ Reconciles(o) => Counted(o)'
  <2>1. Reconciles(o) =>
          /\ task'[o] = "done" /\ evidence'[o] = "contract" /\ o \in verified'
          /\ sub'[o].status = "completed" /\ sub'[o].attempt = sub[o].attempt
          /\ starts' = starts
    BY <1>3, <1>4, <1>5 DEF Reconciles, Reconcile
  <2> QED
    BY <2>1
<1>12. task[o] = "entered" /\ sub[o].status \in {"running", "failed"} /\ Repeats(o) => Counted(o)'
  <2>1. Repeats(o) =>
          /\ task'[o] = "attempting" /\ UNCHANGED <<sub, evidence, starts, verified>>
          /\ attempt'[o] = sub[o].attempt + (IF sub[o].status = "failed" THEN 1 ELSE 0)
    BY <1>3, <1>4 DEF Repeats, journal
  <2> QED
    BY <2>1
<1>13. task[o] = "caught" /\ Retries(o) => Counted(o)'
  <2>1. Retries(o) =>
          /\ safe[o] /\ task'[o] = "attempting" /\ UNCHANGED <<evidence, starts, verified>>
          /\ sub'[o].status = "failed" /\ sub'[o].attempt = sub[o].attempt
          /\ attempt'[o] = attempt[o] + 1
    BY <1>3, <1>4, <1>5 DEF Retries
  <2>2. task[o] = "caught" /\ safe[o] => AllSafe(o)
    BY LastSafe
  <2> QED
    BY <2>1, <2>2
<1>14. task[o] = "caught" => sub[o].status # "none"
  OBVIOUS
<1>15. CASE EnterInterrupted(o)
  BY <1>9, <1>10, <1>11, <1>12, <1>15, InterruptedEnds
<1>16. CASE Catch(o)
  BY <1>9, <1>10, <1>11, <1>13, <1>14, <1>16, CaughtEnds
<1>17. CASE EnterRefused(o) \/ AttemptRefused(o)
  BY <1>3, <1>4, <1>17 DEF EnterRefused, AttemptRefused, journal
<1>18. CASE BeginAttempt(o)
  <2>1. /\ task[o] = "attempting" /\ attempt[o] <= MaxAttempts /\ task'[o] = "streaming"
        /\ sub'[o] = [status |-> "running", attempt |-> attempt[o]]
        /\ starts'[o] = Append(starts[o], safe[o])
        /\ UNCHANGED <<evidence, verified, attempt, safe>>
    BY <1>3, <1>4, <1>18 DEF BeginAttempt
  <2>2. sub'[o].status = "running" /\ sub'[o].attempt = attempt[o]
    BY <2>1
  <2>3. /\ Len(starts'[o]) = Len(starts[o]) + 1 /\ starts'[o] # <<>>
        /\ Last(starts'[o]) = safe[o]
        /\ DOMAIN starts'[o] = 1..Len(starts[o]) + 1
        /\ \A i \in 1..Len(starts[o]) : starts'[o][i] = starts[o][i]
    BY <2>1, OneMore
  <2>4. \A i \in DOMAIN starts'[o] : ~starts'[o][i] => i = Len(starts'[o])
    BY <2>1, <2>3
  <2> QED
    BY <2>1, <2>2, <2>3, <2>4
<1>19. CASE StreamEvidence(o)
  <2>1. /\ task[o] = "streaming" /\ evidence[o] # "contract"
        /\ UNCHANGED <<sub, verified, starts, task, attempt, safe>>
    BY <1>19 DEF StreamEvidence, Heard, tasks
  <2> QED
    BY <2>1
<1>20. CASE StreamCompleted(o)
  BY <1>3, <1>4, <1>5, <1>20 DEF StreamCompleted, Heard
<1>21. CASE StreamFailed(o)
  BY <1>3, <1>4, <1>21 DEF StreamFailed, journal
<1>22. CASE VerifyOrder(o)
  <2>1. /\ task[o] = "completed" /\ UNCHANGED <<sub, evidence, starts, attempt, safe>>
        /\ \/ task'[o] = "done" /\ evidence[o] = "contract" /\ verified' = verified \cup {o}
           \/ task'[o] = "caught" /\ verified' = verified
    BY <1>3, <1>4, <1>22 DEF VerifyOrder
  <2> QED
    BY <2>1
<1> QED
  BY <1>6, <1>7, <1>8, <1>15, <1>16, <1>17, <1>18, <1>19, <1>20, <1>21, <1>22 DEF TaskStep

\* A step of a task keeps the inductive invariant.
LEMMA TaskKeepsAll ==
  ASSUME DispatchIInv, NEW o \in Orders, TaskStep(o)
  PROVE  DispatchIInv'
<1>1. TypeOK /\ Guarding /\ Settled /\ Queued /\ Counted(o) /\ Rests(o)
  BY DEF DispatchIInv
<1>2. Local(o)
  BY <1>1, TaskStepIsLocal
<1>3. ~Idle(o) /\ \A p \in Orders : p # o => SameOrder(p)
  BY <1>2 DEF Local
<1>4. UNCHANGED <<guarded, aborted, exec, wave, status, dependsOn, crashes>>
  BY <1>2 DEF Local, executor, setting
<1>5. TypeOK' /\ Queued'
  BY <1>1, <1>2, TaskTyping, QueueMovesOn
<1>6. \A p \in Orders : p # o => (Complete(p)' <=> Complete(p)) /\ task'[p] = task[p]
  BY <1>3 DEF SameOrder, Complete
<1>7. Guarding'
  BY <1>1, <1>4 DEF Guarding
<1>8. \A p \in Orders : Counted(p)'
  <2>1. ASSUME NEW p \in Orders, p # o
        PROVE  Counted(p)'
    <3>1. Counted(p) /\ SameOrder(p) /\ (Complete(p)' <=> Complete(p))
      BY <1>3, <1>6, <2>1 DEF DispatchIInv
    <3>2. (AllSafe(p)' <=> AllSafe(p)) /\ (Interrupted(p)' <=> Interrupted(p))
      BY <3>1 DEF SameOrder, AllSafe, Interrupted
    <3> QED
      BY <1>4, <3>1, <3>2 DEF Counted, Told, Budgeted, SameOrder
  <2> QED
    BY <1>1, <2>1, TaskKeepsCount
<1>9. \A p \in Orders : Rests(p)'
  <2> SUFFICES ASSUME NEW p \in Orders, task'[p] # "none" \/ starts'[p] # <<>>,
                      NEW d \in dependsOn[p]
               PROVE  Complete(d)' /\ Idle(d)'
    BY <1>4 DEF Rests
  <2>1. d \in Orders
    BY <1>1 DEF TypeOK, WorkPlans
  <2>2. Complete(d) /\ Idle(d)
    BY <1>3 DEF DispatchIInv, Rests, SameOrder, Idle
  <2> QED
    BY <1>3, <1>6, <2>1, <2>2 DEF Idle
<1>10. Settled'
  <2>1. exec = "awaiting" \/ (exec \in {"stepFailed", "stopped"} /\ Cardinality(wave) > 1)
    <3>1. exec \notin {"loop", "verifying", "down"} /\ status \notin {"completed", "waiting_review"}
      BY <1>1, <1>3 DEF Settled, Idle, Over
    <3>2. ~(exec \in {"stepFailed", "stopped"} /\ Cardinality(wave) <= 1)
      BY <1>1, <1>3 DEF Settled
    <3>3. Cardinality(wave) \in Nat
      BY <1>1, FS_Subset, FS_CardinalityType, DispatchConstants DEF TypeOK
    <3> QED
      BY <1>1, <3>1, <3>2, <3>3 DEF TypeOK
  <2>2. status \notin {"completed", "waiting_review"}
    BY <1>1, <1>3 DEF Settled
  <2>3. Cardinality(wave) \in Nat
    BY <1>1, FS_Subset, FS_CardinalityType, DispatchConstants DEF TypeOK
  <2>4. CASE exec = "awaiting"
    <3>1. o \in wave
      BY <1>1, <1>3, <2>4 DEF Settled, Idle, Over
    <3>2. task'[o] # "none"
      BY <1>2 DEF Local, GoesOn, Settles, Idle
    <3>3. \A p \in Orders \ wave : task'[p] \in Over
      BY <1>1, <1>6, <2>4, <3>1 DEF Settled
    <3>4. \A p \in wave : task'[p] # "none"
      BY <1>1, <1>6, <2>4, <3>2 DEF Settled, TypeOK
    <3> QED
      BY <1>4, <2>2, <2>4, <3>3, <3>4 DEF Settled
  <2>5. CASE exec \in {"stepFailed", "stopped"} /\ Cardinality(wave) > 1
    BY <1>4, <2>2, <2>3, <2>5 DEF Settled
  <2> QED
    BY <2>1, <2>4, <2>5
<1> QED
  BY <1>5, <1>7, <1>8, <1>9, <1>10 DEF DispatchIInv

-----------------------------------------------------------------------------
(* The steps of the executor.                                                *)

\* A plan that was let through has an order that is ready, or none is left.
LEMMA PlanMakesProgress ==
  ASSUME TypeOK
  PROVE  Outstanding = {} \/ Ready # {}
<1> SUFFICES ASSUME Outstanding # {}
             PROVE  Ready # {}
  OBVIOUS
<1>1. dependsOn \in [Orders -> SUBSET Orders] /\ Acyclic(dependsOn)
  BY DEF TypeOK, WorkPlans
<1>2. Outstanding \in SUBSET Orders
  BY DEF Outstanding
<1>3. PICK o \in Outstanding : dependsOn[o] \cap Outstanding = {}
  BY <1>1, <1>2 DEF Acyclic
<1>4. \A d \in dependsOn[o] : Complete(d)
  BY <1>1, <1>2, <1>3 DEF Outstanding
<1> QED
  BY <1>3, <1>4 DEF Ready

\* The next wave: every task of the last one is over, so the workspace is free
\* and the orders of the new one queue for it in some sequence.
LEMMA WaveKeepsAll ==
  ASSUME DispatchIInv, NextWave
  PROVE  DispatchIInv'
<1>1. TypeOK /\ Guarding /\ Settled /\ Queued
  BY DEF DispatchIInv
<1>2. /\ exec = "loop" /\ wave' = Ready
      /\ exec' = IF Outstanding = {} THEN "verifying" ELSE "awaiting"
      /\ UNCHANGED <<status, sub, evidence, verified, starts>>
      /\ UNCHANGED <<guarded, aborted, attempt, safe, heeds, dependsOn, crashes>>
  BY <1>1, PlanMakesProgress DEF NextWave, journal, setting
<1>3. /\ task' = [o \in Orders |-> IF o \notin Ready THEN task[o]
                                  ELSE IF HasWorkspace THEN "queued" ELSE "entered"]
      /\ lock' = IF HasWorkspace THEN lock \o SetToSeq(Ready) ELSE lock
  BY DEF NextWave
<1>4. \A o \in Orders : task[o] \in Over /\ Idle(o)
  BY <1>1, <1>2 DEF Settled, Over, Idle
<1>5. Ready \subseteq Outstanding /\ Outstanding \subseteq Orders /\ IsFiniteSet(Ready)
  BY FS_Subset, DispatchConstants DEF Ready, Outstanding
<1>6. \A o \in Ready : task[o] = "none" /\ AllSafe(o)
  <2> SUFFICES ASSUME NEW o \in Ready
               PROVE  task[o] = "none" /\ AllSafe(o)
    OBVIOUS
  <2>1. o \in Orders /\ ~Complete(o) /\ Counted(o)
    BY <1>5 DEF Outstanding, DispatchIInv
  <2>2. task[o] = "none"
    BY <1>4, <2>1 DEF Counted, Told, Over
  <2> QED
    BY <1>2, <2>1, <2>2 DEF Counted, Told
<1>7. \A o \in Orders : Complete(o)' <=> Complete(o)
  BY <1>2 DEF Complete
<1>8. Queued' /\ lock' \in Seq(Orders)
  <2>1. CASE ~HasWorkspace
    BY <1>1, <1>3, <2>1 DEF Queued, TypeOK
  <2>2. CASE HasWorkspace
    <3> DEFINE q == SetToSeq(Ready)
    <3>1. /\ q \in Seq(Ready)
          /\ \A x \in Ready : \E i \in 1..Len(q) : q[i] = x
          /\ \A i, j \in 1..Len(q) : q[i] = q[j] => i = j
      BY <1>5, Listed
    <3>2. lock = <<>>
      <4>1. lock \in Seq(Orders)
        BY <1>1 DEF TypeOK
      <4>2. \A i \in 1..Len(lock) : FALSE
        BY <1>1, <1>4, <2>2, <4>1 DEF Queued
      <4> QED
        BY <4>1, <4>2
    <3> HIDE DEF q
    <3>3. lock' = q /\ q \in Seq(Orders)
      BY <1>3, <1>5, <2>2, <3>1, <3>2 DEF q
    <3>4. \A o \in Orders : task'[o] = IF o \in Ready THEN "queued" ELSE task[o]
      BY <1>3, <2>2
    <3>5. \A o \in Orders : ~Idle(o)' <=> \E i \in 1..Len(q) : q[i] = o
      <4>1. \A o \in Orders : ~Idle(o)' <=> o \in Ready
        BY <1>4, <3>4 DEF Idle, Over
      <4>2. \A i \in 1..Len(q) : q[i] \in Ready
        BY <3>1
      <4> QED
        BY <3>1, <4>1, <4>2
    <3>6. \A o \in Orders : task'[o] \notin Working
      BY <1>4, <3>4 DEF Over, Working
    <3> QED
      BY <2>2, <3>1, <3>3, <3>5, <3>6 DEF Queued
  <2> QED
    BY <2>1, <2>2 DEF TypeOK, DispatchConstants
<1>9. TypeOK'
  <2>1. task' \in [Orders -> {"none", "queued", "entered", "attempting", "streaming",
                              "completed", "caught", "done", "thrown"}]
    BY <1>1, <1>3 DEF TypeOK
  <2>2. wave' \subseteq Orders
    BY <1>2, <1>5
  <2> QED
    BY <1>1, <1>2, <1>8, <2>1, <2>2 DEF TypeOK
<1>10. Guarding'
  BY <1>1, <1>2 DEF Guarding, Active
<1>11. Settled'
  <2>1. \A o \in Orders \ wave' : task'[o] \in Over
    BY <1>2, <1>3, <1>4
  <2>2. \A o \in wave' : task'[o] # "none"
    BY <1>2, <1>3, <1>5
  <2>3. Outstanding = {} => \A o \in Orders : Complete(o)' /\ Idle(o)'
    BY <1>3, <1>4, <1>5, <1>7 DEF Outstanding, Idle
  <2>4. status \in {"completed", "waiting_review"} => Outstanding = {}
    BY <1>1 DEF Settled, Outstanding
  <2> QED
    BY <1>2, <2>1, <2>2, <2>3, <2>4 DEF Settled
<1>12. \A o \in Orders : Counted(o)'
  <2> SUFFICES ASSUME NEW o \in Orders
               PROVE  Counted(o)'
    OBVIOUS
  <2>1. Counted(o)
    BY DEF DispatchIInv
  <2>2. AllSafe(o)' <=> AllSafe(o)
    BY <1>2 DEF AllSafe
  <2>3. CASE o \in Ready
    <3>1. task[o] = "none" /\ task'[o] \in {"queued", "entered"} /\ AllSafe(o)
      BY <1>3, <1>6, <2>3
    <3>2. Interrupted(o)' => Interrupted(o)
      BY <1>2, <3>1 DEF Interrupted
    <3> QED
      BY <1>2, <2>1, <2>2, <3>1, <3>2 DEF Counted, Told, Budgeted, Tried
  <2>4. CASE o \notin Ready
    <3>1. task'[o] = task[o]
      BY <1>3, <2>4
    <3>2. Interrupted(o)' <=> Interrupted(o)
      BY <1>2, <3>1 DEF Interrupted
    <3> QED
      BY <1>2, <1>7, <2>1, <2>2, <3>1, <3>2 DEF Counted, Told, Budgeted
  <2> QED
    BY <2>3, <2>4
<1>13. \A o \in Orders : Rests(o)'
  <2> SUFFICES ASSUME NEW o \in Orders, task'[o] # "none" \/ starts'[o] # <<>>,
                      NEW d \in dependsOn[o]
               PROVE  Complete(d)' /\ Idle(d)'
    BY <1>2 DEF Rests
  <2>1. d \in Orders
    BY <1>1 DEF TypeOK, WorkPlans
  <2>2. Complete(d)
    <3>1. CASE o \in Ready
      BY <3>1 DEF Ready
    <3>2. CASE o \notin Ready
      BY <1>2, <1>3, <3>2 DEF DispatchIInv, Rests
    <3> QED
      BY <3>1, <3>2
  <2>3. d \notin Ready
    BY <1>5, <2>2 DEF Outstanding
  <2> QED
    BY <1>3, <1>4, <1>7, <2>1, <2>2, <2>3 DEF Idle
<1> QED
  BY <1>8, <1>9, <1>10, <1>11, <1>12, <1>13 DEF DispatchIInv

\* A step that touches no order keeps what is known of the orders and of the
\* queue, if it does not bring a stopped or dead executor back.
LEMMA OrdersUntouched ==
  ASSUME DispatchIInv,
         UNCHANGED <<tasks, sub, evidence, verified, starts, dependsOn, crashes>>,
         exec' \in {"down", "stopped"} \/ exec \notin {"down", "stopped"}
  PROVE  Queued' /\ \A o \in Orders : Counted(o)' /\ Rests(o)'
<1>1. Queued /\ \A o \in Orders : Counted(o) /\ Rests(o)
  BY DEF DispatchIInv
<1>2. \A o \in Orders : /\ Complete(o)' <=> Complete(o)
                        /\ Idle(o)' <=> Idle(o)
                        /\ AllSafe(o)' <=> AllSafe(o)
                        /\ Interrupted(o)' <=> Interrupted(o)
  BY DEF Complete, Idle, AllSafe, Interrupted, tasks
<1>3. Queued'
  BY <1>1 DEF Queued, Idle, tasks
<1>4. \A o \in Orders : Counted(o)'
  BY <1>1, <1>2 DEF Counted, Told, Budgeted, tasks
<1>5. \A o \in Orders : Rests(o)'
  <2> SUFFICES ASSUME NEW o \in Orders, task'[o] # "none" \/ starts'[o] # <<>>,
                      NEW d \in dependsOn[o]
               PROVE  Complete(d)' /\ Idle(d)'
    BY DEF Rests
  <2>1. d \in Orders
    BY DEF DispatchIInv, TypeOK, WorkPlans
  <2> QED
    BY <1>1, <1>2, <2>1 DEF Rests, tasks
<1> QED
  BY <1>3, <1>4, <1>5

\* The wave has settled: every task of it is over, or one of them threw, which
\* leaves nothing running when it was the only one.
LEMMA SettlingKeepsAll ==
  ASSUME DispatchIInv, WaveSettled
  PROVE  DispatchIInv'
<1>1. TypeOK /\ Guarding /\ Settled
  BY DEF DispatchIInv
<1>2. /\ exec = "awaiting" /\ UNCHANGED <<journal, guarded, aborted, wave, tasks, setting>>
      /\ \/ (\A o \in wave : task[o] = "done") /\ exec' = "loop"
         \/ (\E o \in wave : task[o] = "thrown") /\ exec' = "stepFailed"
  BY DEF WaveSettled
<1>3. Queued' /\ \A o \in Orders : Counted(o)' /\ Rests(o)'
  BY <1>2, OrdersUntouched DEF journal, setting
<1>4. TypeOK'
  BY <1>1, <1>2 DEF TypeOK, journal, tasks, setting
<1>5. Guarding'
  BY <1>1, <1>2 DEF Guarding, Active, journal
<1>6. status \notin {"completed", "waiting_review"} \/ \A o \in Orders : Complete(o)' /\ Idle(o)'
  BY <1>1, <1>2 DEF Settled, Complete, Idle, journal, tasks
<1>7. CASE exec' = "loop"
  <2>1. \A o \in Orders : task'[o] \in Over
    BY <1>1, <1>2, <1>7 DEF Settled, Over, tasks
  <2> QED
    BY <1>2, <1>3, <1>4, <1>5, <1>6, <1>7, <2>1 DEF Settled, DispatchIInv, journal
<1>8. CASE exec' = "stepFailed"
  <2>1. PICK o \in wave : task[o] = "thrown"
    BY <1>2, <1>8
  <2>2. ASSUME Cardinality(wave) <= 1
        PROVE  \A p \in Orders : Idle(p)'
    <3>1. IsFiniteSet(wave)
      BY <1>1, FS_Subset, DispatchConstants DEF TypeOK
    <3>2. /\ IsFiniteSet(wave \ {o}) /\ Cardinality(wave \ {o}) = Cardinality(wave) - 1
          /\ Cardinality(wave) \in Nat /\ Cardinality(wave \ {o}) \in Nat
      BY <2>1, <3>1, FS_RemoveElement, FS_CardinalityType
    <3>3. wave \ {o} = {}
      BY <2>2, <3>2, FS_EmptySet
    <3> QED
      BY <1>1, <1>2, <2>1, <3>3 DEF Settled, Idle, Over, tasks
  <2> QED
    BY <1>2, <1>3, <1>4, <1>5, <1>6, <1>8, <2>2 DEF Settled, DispatchIInv, journal
<1> QED
  BY <1>2, <1>7, <1>8

\* The execution ends, with a failure or a verdict.
LEMMA EndingKeepsAll ==
  ASSUME DispatchIInv, FailRun \/ Conclude
  PROVE  DispatchIInv'
<1>1. TypeOK /\ Guarding /\ Settled
  BY DEF DispatchIInv
<1>2. /\ exec' = "stopped" /\ guarded' = FALSE
      /\ UNCHANGED <<aborted, wave, tasks, sub, evidence, verified, starts, setting>>
  BY DEF FailRun, Conclude, Leave
<1>3. \/ exec = "stepFailed" /\ status' \in {status, "failed"}
      \/ exec = "verifying" /\ status' \in {status, "completed", "failed", "waiting_review"}
  BY DEF FailRun, Conclude
<1>4. Queued' /\ \A o \in Orders : Counted(o)' /\ Rests(o)'
  BY <1>2, OrdersUntouched DEF setting
<1>5. TypeOK'
  BY <1>1, <1>2, <1>3 DEF TypeOK, Terminal, tasks, setting
<1>6. Guarding'
  BY <1>2 DEF Guarding, Active
<1>7. \A o \in Orders : (Complete(o)' <=> Complete(o)) /\ (Idle(o)' <=> Idle(o))
  BY <1>2 DEF Complete, Idle, tasks
<1>8. Settled'
  BY <1>1, <1>2, <1>3, <1>7 DEF Settled
<1> QED
  BY <1>4, <1>5, <1>6, <1>8 DEF DispatchIInv

\* The next process takes the run up again, unless a start was unsafe.
LEMMA RecoveryKeepsAll ==
  ASSUME DispatchIInv, Recover
  PROVE  DispatchIInv'
<1>1. TypeOK /\ Guarding /\ Settled /\ Queued
  BY DEF DispatchIInv
<1>2. /\ exec = "down" /\ status = "running"
      /\ UNCHANGED <<sub, evidence, verified, starts, aborted, wave, tasks, setting>>
  BY DEF Recover
<1>3. \/ status' = "failed" /\ exec' = "stopped" /\ guarded' = guarded
      \/ /\ status' = status /\ exec' = "loop" /\ guarded' = TRUE
         /\ \A o \in Orders : AllSafe(o)
  BY DEF Recover, AllSafe
<1>4. \A o \in Orders : task[o] = "none"
  BY <1>1, <1>2 DEF Settled
<1>5. TypeOK'
  BY <1>1, <1>2, <1>3 DEF TypeOK, Terminal, tasks, setting
<1>6. Guarding'
  BY <1>1, <1>2, <1>3 DEF Guarding, Active, Terminal
<1>7. Settled'
  BY <1>2, <1>3, <1>4 DEF Settled, Over, Idle, tasks
<1>8. CASE exec' = "stopped"
  BY <1>2, <1>5, <1>6, <1>7, <1>8, OrdersUntouched DEF DispatchIInv, setting
<1>9. CASE exec' = "loop"
  <2>1. \A o \in Orders : /\ Complete(o)' <=> Complete(o)
                          /\ Idle(o)' <=> Idle(o)
                          /\ AllSafe(o)' <=> AllSafe(o)
                          /\ Interrupted(o)' <=> Interrupted(o)
    BY <1>2 DEF Complete, Idle, AllSafe, Interrupted, tasks
  <2>2. Queued'
    BY <1>1, <1>2 DEF Queued, Idle, tasks
  <2>3. \A o \in Orders : AllSafe(o)
    BY <1>3, <1>9
  <2>4. \A o \in Orders : Counted(o)'
    BY <1>2, <2>1, <2>3 DEF DispatchIInv, Counted, Told, Budgeted, tasks, setting
  <2>5. \A o \in Orders : Rests(o)'
    <3> SUFFICES ASSUME NEW o \in Orders, task'[o] # "none" \/ starts'[o] # <<>>,
                        NEW d \in dependsOn'[o]
                 PROVE  Complete(d)' /\ Idle(d)'
      BY DEF Rests
    <3>1. d \in Orders
      BY <1>1, <1>2 DEF TypeOK, WorkPlans, setting
    <3> QED
      BY <1>2, <2>1, <3>1 DEF DispatchIInv, Rests, tasks, setting
  <2> QED
    BY <1>5, <1>6, <1>7, <2>2, <2>4, <2>5 DEF DispatchIInv
<1> QED
  BY <1>3, <1>8, <1>9

-----------------------------------------------------------------------------
(* The steps of nobody's task: cancellation, a lost claim, a crash.          *)

LEMMA CancelKeepsAll ==
  ASSUME DispatchIInv, Cancel
  PROVE  DispatchIInv'
<1>1. TypeOK /\ Guarding /\ Settled /\ Queued
  BY DEF DispatchIInv
<1>2. /\ status' = "cancelled" /\ aborted' = (aborted \/ guarded)
      /\ sub' = [o \in Orders |->
           IF sub[o].status = "running" THEN [sub[o] EXCEPT !.status = "cancelled"]
           ELSE sub[o]]
      /\ UNCHANGED <<evidence, verified, starts, guarded, exec, wave, tasks, setting>>
  BY DEF Cancel
<1>3. \A o \in Orders :
        /\ sub'[o].attempt = sub[o].attempt
        /\ \/ sub'[o] = sub[o]
           \/ sub[o].status = "running" /\ sub'[o].status = "cancelled"
  <2>1. ASSUME NEW o \in Orders
        PROVE  /\ sub'[o].attempt = sub[o].attempt
               /\ \/ sub'[o] = sub[o]
                  \/ sub[o].status = "running" /\ sub'[o].status = "cancelled"
    <3>1. sub[o] \in [status : {"none", "running", "completed", "failed", "cancelled"},
                      attempt : Nat]
      BY <1>1 DEF TypeOK
    <3>2. \/ sub'[o] = sub[o]
          \/ sub[o].status = "running" /\ sub'[o] = [sub[o] EXCEPT !.status = "cancelled"]
      BY <1>2
    <3> QED
      BY <3>1, <3>2
  <2> QED
    BY <2>1
<1>4. TypeOK'
  <2>1. sub' \in [Orders -> [status : {"none", "running", "completed", "failed", "cancelled"},
                             attempt : Nat]]
    BY <1>1, <1>2 DEF TypeOK
  <2> QED
    BY <1>1, <1>2, <2>1 DEF TypeOK, Terminal, tasks, setting
<1>5. Guarding'
  BY <1>1, <1>2 DEF Guarding, TypeOK
<1>6. \A o \in Orders : /\ Complete(o)' <=> Complete(o)
                        /\ Idle(o)' <=> Idle(o)
                        /\ AllSafe(o)' <=> AllSafe(o)
                        /\ Interrupted(o)' => Interrupted(o)
  BY <1>2, <1>3 DEF Complete, Idle, AllSafe, Interrupted, tasks
<1>7. Settled'
  BY <1>1, <1>2, <1>6 DEF Settled, Terminal, tasks
<1>8. Queued'
  BY <1>1, <1>2 DEF Queued, Idle, tasks
<1>9. \A o \in Orders : Counted(o)'
  <2> SUFFICES ASSUME NEW o \in Orders
               PROVE  Counted(o)'
    OBVIOUS
  <2>1. Told(o) /\ Budgeted(o)
    BY DEF DispatchIInv, Counted
  <2>2. Told(o)'
    BY <1>2, <1>3, <1>6, <2>1 DEF Told, tasks
  <2>3. Budgeted(o)'
    BY <1>2, <1>3, <1>6, <2>1 DEF Budgeted, tasks, setting
  <2> QED
    BY <2>2, <2>3 DEF Counted
<1>10. \A o \in Orders : Rests(o)'
  <2> SUFFICES ASSUME NEW o \in Orders, task'[o] # "none" \/ starts'[o] # <<>>,
                      NEW d \in dependsOn'[o]
               PROVE  Complete(d)' /\ Idle(d)'
    BY DEF Rests
  <2>1. d \in Orders
    BY <1>1, <1>2 DEF TypeOK, WorkPlans, setting
  <2> QED
    BY <1>2, <1>6, <2>1 DEF DispatchIInv, Rests, tasks, setting
<1> QED
  BY <1>4, <1>5, <1>7, <1>8, <1>9, <1>10 DEF DispatchIInv

LEMMA LostClaimKeepsAll ==
  ASSUME DispatchIInv, LoseClaim \/ UNCHANGED vars
  PROVE  DispatchIInv'
<1>1. /\ UNCHANGED <<journal, guarded, exec, wave, tasks, setting>>
      /\ aborted' = TRUE \/ aborted' = aborted
  BY DEF LoseClaim, vars, executor
<1>2. TypeOK /\ Guarding /\ Settled
  BY DEF DispatchIInv
<1>3. Queued' /\ \A o \in Orders : Counted(o)' /\ Rests(o)'
  <2>1. Queued /\ \A o \in Orders : Counted(o) /\ Rests(o)
    BY DEF DispatchIInv
  <2> QED
    BY <1>1, <2>1 DEF Queued, Idle, Counted, Told, Budgeted, Rests, Complete, AllSafe,
                      Interrupted, journal, tasks, setting
<1>4. TypeOK'
  BY <1>1, <1>2 DEF TypeOK, journal, tasks, setting
<1>5. Guarding'
  BY <1>1, <1>2 DEF Guarding, journal
<1>6. Settled'
  BY <1>1, <1>2 DEF Settled, Complete, Idle, journal, tasks
<1> QED
  BY <1>3, <1>4, <1>5, <1>6 DEF DispatchIInv

\* A crash takes every task and the queue with it; the attempts it interrupted
\* are paid for by the count of crashes.
LEMMA CrashKeepsAll ==
  ASSUME DispatchIInv, Crash
  PROVE  DispatchIInv'
<1>1. TypeOK /\ Guarding
  BY DEF DispatchIInv
<1>2. /\ crashes < MaxCrashes /\ crashes' = crashes + 1 /\ status = "running"
      /\ exec' = "down" /\ guarded' = FALSE /\ aborted' = FALSE /\ wave' = {}
      /\ task' = [o \in Orders |-> "none"] /\ lock' = <<>> /\ heeds' = {}
      /\ UNCHANGED <<status, sub, evidence, verified, starts, attempt, safe, dependsOn>>
  BY DEF Crash, journal
<1>3. crashes \in Nat /\ crashes' \in 0..MaxCrashes
  BY <1>1, <1>2, DispatchConstants DEF TypeOK
<1>4. TypeOK'
  <2>1. task' \in [Orders -> {"none", "queued", "entered", "attempting", "streaming",
                              "completed", "caught", "done", "thrown"}]
    BY <1>2
  <2>2. lock' \in Seq(Orders) /\ wave' \subseteq Orders /\ heeds' \subseteq Orders
    BY <1>2
  <2> QED
    BY <1>1, <1>2, <1>3, <2>1, <2>2 DEF TypeOK
<1>5. Guarding' /\ Settled'
  BY <1>2 DEF Guarding, Settled, Active, Terminal
<1>6. Queued'
  BY <1>2 DEF Queued, Idle, Working
<1>7. \A o \in Orders : Counted(o)'
  <2> SUFFICES ASSUME NEW o \in Orders
               PROVE  Counted(o)'
    OBVIOUS
  <2>1. Told(o) /\ Budgeted(o) /\ sub[o].attempt \in Nat /\ Len(starts[o]) \in Nat
    BY <1>1, OrderTypes DEF DispatchIInv, Counted
  <2>2. Told(o)'
    BY <1>2, <2>1 DEF Told, AllSafe, Tried
  <2>3. Budgeted(o)'
    BY <1>2, <1>3, <2>1 DEF Budgeted, Tried
  <2> QED
    BY <2>2, <2>3 DEF Counted
<1>8. \A o \in Orders : Rests(o)'
  <2> SUFFICES ASSUME NEW o \in Orders, starts[o] # <<>>, NEW d \in dependsOn[o]
               PROVE  Complete(d)' /\ Idle(d)'
    BY <1>2 DEF Rests
  <2>1. d \in Orders
    BY <1>1 DEF TypeOK, WorkPlans
  <2> QED
    BY <1>2, <2>1 DEF DispatchIInv, Rests, Complete, Idle
<1> QED
  BY <1>4, <1>5, <1>6, <1>7, <1>8 DEF DispatchIInv

-----------------------------------------------------------------------------
(* The theorems.                                                             *)

LEMMA DispatchInit == Init => DispatchIInv
<1> SUFFICES ASSUME Init
             PROVE  DispatchIInv
  OBVIOUS
<1>1. TypeOK
  <2>1. sub \in [Orders -> [status : {"none", "running", "completed", "failed", "cancelled"},
                            attempt : Nat]]
    <3>1. [status |-> "none", attempt |-> 0]
            \in [status : {"none", "running", "completed", "failed", "cancelled"}, attempt : Nat]
      OBVIOUS
    <3> QED
      BY <3>1 DEF Init
  <2>2. starts \in [Orders -> Seq(BOOLEAN)] /\ lock \in Seq(Orders)
    BY DEF Init
  <2>3. crashes \in 0..MaxCrashes
    BY DispatchConstants DEF Init
  <2> QED
    BY <2>1, <2>2, <2>3 DEF Init, TypeOK, Evidence
<1>2. Guarding /\ Settled
  BY DEF Init, Guarding, Settled, Active, Terminal, Over
<1>3. \A o \in Orders : Counted(o) /\ Rests(o)
  BY DispatchConstants DEF Init, Counted, Told, Budgeted, Rests, AllSafe, Interrupted, Tried
<1>4. Queued
  BY DEF Init, Queued, Idle, Working
<1> QED
  BY <1>1, <1>2, <1>3, <1>4 DEF DispatchIInv

LEMMA DispatchInduction == Spec => []DispatchIInv
<1>1. DispatchIInv /\ [Next]_vars => DispatchIInv'
  BY TaskKeepsAll, WaveKeepsAll, SettlingKeepsAll, EndingKeepsAll, RecoveryKeepsAll,
     CancelKeepsAll, LostClaimKeepsAll, CrashKeepsAll DEF Next, ExecutorStep
<1> QED
  BY DispatchInit, <1>1, PTL DEF Spec

\* Whatever crashes, is cancelled, fails or is repeated, a work order starts
\* only after its dependencies, within its budget, alone in its workspace, and
\* never after an unsafe adapter; the plan never gets stuck, and a completed run
\* has every order's verified work (executeSubagents, dispatchSubagent).
THEOREM DispatchHolds == Spec => []DispatchInv
<1>1. DispatchIInv => DispatchInv
  <2> SUFFICES ASSUME DispatchIInv
               PROVE  DispatchInv
    OBVIOUS
  <2>1. TypeOK /\ Settled /\ Queued /\ \A o \in Orders : Told(o) /\ Budgeted(o) /\ Rests(o)
    BY DEF DispatchIInv, Counted
  <2>2. DependenciesFirst
    BY <2>1 DEF DependenciesFirst, Rests
  <2>3. AlwaysReady
    BY <2>1, PlanMakesProgress DEF AlwaysReady
  <2>4. AttemptsWithinBudget
    <3> SUFFICES ASSUME NEW o \in Orders
                 PROVE  sub[o].attempt <= MaxAttempts /\ Len(starts[o]) <= MaxAttempts + crashes
      BY DEF AttemptsWithinBudget
    <3>1. sub[o].attempt \in Nat /\ Len(starts[o]) \in Nat /\ crashes \in Nat
      BY <2>1, OrderTypes
    <3> QED
      BY <2>1, <3>1, DispatchConstants DEF Budgeted
  <2>5. UnsafeIsTheLast
    BY <2>1 DEF UnsafeIsTheLast, Told
  <2>6. CompletedHasEveryOrder
    BY <2>1 DEF CompletedHasEveryOrder, Settled, Told, Complete
  <2>7. OneInTheWorkspace
    <3> SUFFICES ASSUME HasWorkspace, NEW o \in Orders, task[o] # "queued", ~Idle(o)
                 PROVE  lock # <<>> /\ Head(lock) = o
      BY DEF OneInTheWorkspace
    <3>1. task[o] \in Working
      BY <2>1 DEF TypeOK, Idle, Working
    <3>2. lock # <<>> /\ lock[1] = o /\ lock \in Seq(Orders)
      BY <2>1, <3>1 DEF Queued, TypeOK
    <3> QED
      BY <3>2
  <2> QED
    BY <2>1, <2>2, <2>3, <2>4, <2>5, <2>6, <2>7 DEF DispatchInv
<1> QED
  BY DispatchInduction, <1>1, PTL

\* A task that may not write leaves the journal as it is.
LEMMA FencedTask ==
  ASSUME NEW o \in Orders, TaskStep(o), ~Writable
  PROVE  UNCHANGED journal
<1>1. CASE EnterInterrupted(o)
  BY <1>1, InterruptedEnds DEF GivesUp, Repeats
<1>2. CASE Catch(o)
  BY <1>2, CaughtEnds DEF GivesUp
<1> QED
  BY <1>1, <1>2 DEF TaskStep, Acquire, EnterCompleted, EnterFresh, EnterRefused,
     AttemptRefused, BeginAttempt, StreamEvidence, StreamCompleted, StreamFailed, Heard,
     VerifyOrder, journal

\* A run that is over is not written to while its waves hold one task at most:
\* until its executor leaves, its guard refuses every write, and after that no
\* task is left (withExecutionGuard, assertWritable).
THEOREM OverIsOver == Spec => NothingAfterTheEnd
<1> DEFINE Step == (status \in Terminal /\ Cardinality(wave) <= 1) => UNCHANGED journal
<1>1. DispatchIInv /\ [Next]_vars => Step
  <2> SUFFICES ASSUME DispatchIInv, [Next]_vars, status \in Terminal, Cardinality(wave) <= 1
               PROVE  UNCHANGED journal
    OBVIOUS
  <2>1. TypeOK /\ Guarding /\ Settled
    BY DEF DispatchIInv
  <2>2. ASSUME NEW o \in Orders, TaskStep(o)
        PROVE  UNCHANGED journal
    <3>1. ~Idle(o)
      BY <2>1, <2>2, TaskStepIsLocal DEF Local
    <3>2. exec = "awaiting"
      BY <2>1, <3>1 DEF Settled, TypeOK, Idle, Over
    <3>3. ~Writable
      BY <2>1, <3>2 DEF Guarding, Active, Writable
    <3> QED
      BY <2>2, <3>3, FencedTask
  <2>3. CASE NextWave \/ WaveSettled \/ LoseClaim
    BY <2>3 DEF NextWave, WaveSettled, LoseClaim
  <2>4. CASE FailRun \/ Conclude
    <3>1. ~Writable
      BY <2>1, <2>4 DEF Guarding, Active, Writable, FailRun, Conclude
    <3> QED
      BY <2>4, <3>1 DEF FailRun, Conclude, Leave, journal
  <2>5. CASE Recover \/ Cancel \/ Crash
    BY <2>5 DEF Recover, Cancel, Crash, Terminal
  <2>6. CASE UNCHANGED vars
    BY <2>6 DEF vars
  <2> QED
    BY <2>2, <2>3, <2>4, <2>5, <2>6 DEF Next, ExecutorStep
<1>2. [][Step]_vars => NothingAfterTheEnd
  BY DEF NothingAfterTheEnd
<1> HIDE DEF Step
<1> QED
  BY DispatchInduction, <1>1, <1>2, PTL DEF Spec
=============================================================================

----------------------------- MODULE WorkProofs -----------------------------
(***************************************************************************)
(* Proofs about what accompanies the work of subagents, for every value of *)
(* the constants:                                                          *)
(*   - MemoryMining: a job is mined at most once, for who holds the lock of*)
(*     the extraction has seen, after it took it, that the job was not     *)
(*     mined; and what waits in a queue was asked for;                     *)
(*   - Authority: what is done unasked was granted, an approval lifts no   *)
(*     denial, and taking something away lets nothing go ahead, for every  *)
(*     part of what is allowed can only shrink;                            *)
(*   - TurnAudit: the two records of a turn agree, for each of its ends is *)
(*     told to the journal before it is entered in the ledger.             *)
(***************************************************************************)
EXTENDS MCWork, SequenceTheorems, FiniteSetTheorems, WellFoundedInduction, TLAPS

-----------------------------------------------------------------------------
(* MemoryMining.                                                             *)

\* A set of numbers has a least one.
LEMMA LeastNumber ==
  ASSUME NEW S, S \subseteq Nat, S # {}
  PROVE  \E x \in S : \A y \in S : x <= y
<1> DEFINE R == OpToRel(<, Nat)
<1>1. IsWellFoundedOn(R, Nat)
  BY NatLessThanWellFounded
<1>2. \A x, y \in Nat : y < x => <<y, x>> \in R
  BY DEF OpToRel
<1> HIDE DEF R
<1>3. PICK x \in S : \A y \in S : ~ (<<y, x>> \in R)
  BY <1>1, WFMin
<1>4. ASSUME NEW y \in S PROVE x <= y
  <2>1. x \in Nat /\ y \in Nat
    OBVIOUS
  <2>2. ~(y < x)
    BY <1>2, <1>3, <2>1
  <2> QED
    BY <2>1, <2>2
<1> QED
  BY <1>4

\* What a filter keeps of a sequence is a sequence of what passes the filter.
LEMMA KeptIs ==
  ASSUME NEW T, NEW s \in Seq(T), NEW S
  PROVE  Kept(s, S) \in Seq(T \cap S)
<1> DEFINE n == Len(s)
           Is(f, m) == f = [i \in 0..m |-> IF i = 0 THEN <<>> ELSE IF s[i] \in S THEN Append(f[i - 1], s[i]) ELSE f[i - 1]]
           Good(m) == \E f : Is(f, m)
           Bad == {m \in 0..n : ~ Good(m)}
<1> HIDE DEF Good
<1>1. n \in Nat
  OBVIOUS
<1>2. Bad = {}
  <2> SUFFICES ASSUME Bad # {} PROVE FALSE
    OBVIOUS
  <2>1. Bad \subseteq Nat
    BY <1>1
  <2>2. PICK m \in Bad : \A y \in Bad : m <= y
    BY <2>1, LeastNumber
  <2>3. CASE m = 0
    <3> DEFINE g == [i \in 0..0 |-> <<>>]
    <3>1. g = [i \in 0..0 |-> IF i = 0 THEN <<>> ELSE IF s[i] \in S THEN Append(g[i - 1], s[i]) ELSE g[i - 1]]
      <4>1. \A i \in 0..0 : i = 0
        OBVIOUS
      <4> QED
        BY <4>1
    <3>2. Is(g, 0)
      BY <3>1
    <3> QED
      BY <2>2, <2>3, <3>2 DEF Good
  <2>4. CASE m # 0
    <3>1. m - 1 \in 0..n /\ m \in Nat /\ ~(m <= m - 1)
      BY <1>1, <2>2, <2>4
    <3>2. PICK f : Is(f, m - 1)
      <4>1. Good(m - 1)
        BY <2>2, <3>1
      <4> QED
        BY <4>1 DEF Good
    <3> DEFINE next == IF s[m] \in S THEN Append(f[m - 1], s[m]) ELSE f[m - 1]
               g == [i \in 0..m |-> IF i = m THEN next ELSE f[i]]
    <3> HIDE DEF next
    <3>3. ASSUME NEW i \in 0..m
          PROVE  g[i] = IF i = 0 THEN <<>> ELSE IF s[i] \in S THEN Append(g[i - 1], s[i]) ELSE g[i - 1]
      <4>1. CASE i = m
        <5>1. g[i] = next /\ g[i - 1] = f[m - 1]
          BY <4>1, <2>4, <3>1
        <5> QED
          BY <5>1, <4>1, <2>4 DEF next
      <4>2. CASE i # m
        <5>1. i \in 0..(m - 1) /\ (i # 0 => i - 1 \in 0..(m - 1) /\ i - 1 # m /\ i - 1 \in 0..m)
          BY <4>2, <3>1
        <5>2. g[i] = f[i] /\ (i # 0 => g[i - 1] = f[i - 1])
          BY <4>2, <5>1
        <5>3. f[i] = IF i = 0 THEN <<>> ELSE IF s[i] \in S THEN Append(f[i - 1], s[i]) ELSE f[i - 1]
          BY <3>2, <5>1
        <5> QED
          BY <5>2, <5>3
      <4> QED
        BY <4>1, <4>2
    <3>4. g = [i \in 0..m |-> g[i]]
      OBVIOUS
    <3> HIDE DEF g
    <3>5. Is(g, m)
      BY <3>3, <3>4
    <3> QED
      BY <2>2, <3>5 DEF Good
  <2> QED
    BY <2>3, <2>4
<1>3. \E f : Is(f, n)
  <2>1. n \in 0..n
    BY <1>1
  <2>2. Good(n)
    BY <1>2, <2>1
  <2> QED
    BY <2>2 DEF Good
<1>4. PICK f : Is(f, n) /\ Kept(s, S) = f[n]
  BY <1>3 DEF Kept
<1> DEFINE Off == {i \in 0..n : f[i] \notin Seq(T \cap S)}
<1>5. Off = {}
  <2> SUFFICES ASSUME Off # {} PROVE FALSE
    OBVIOUS
  <2>1. Off \subseteq Nat
    BY <1>1
  <2>2. PICK m \in Off : \A y \in Off : m <= y
    BY <2>1, LeastNumber
  <2>3. f[m] = IF m = 0 THEN <<>> ELSE IF s[m] \in S THEN Append(f[m - 1], s[m]) ELSE f[m - 1]
    BY <1>4
  <2>4. <<>> \in Seq(T \cap S)
    OBVIOUS
  <2>5. m # 0
    BY <2>2, <2>3, <2>4
  <2>6. m - 1 \in 0..n /\ m \in 1..n /\ ~(m <= m - 1)
    BY <1>1, <2>5
  <2>7. f[m - 1] \in Seq(T \cap S)
    BY <2>2, <2>6
  <2>8. s[m] \in T
    BY <2>6
  <2>9. s[m] \in S => Append(f[m - 1], s[m]) \in Seq(T \cap S)
    BY <2>7, <2>8
  <2> QED
    BY <2>2, <2>3, <2>5, <2>7, <2>9
<1>6. n \in 0..n
  BY <1>1
<1> QED
  BY <1>4, <1>5, <1>6

MinerSteps == {"idle", "drain", "taken", "mining", "sweep", "due", "executed", "dueTaken",
          "dueMining", "dueMined"}

\* A process that mines holds the lock, and nobody has mined its job.
Extracts(p) == work[p].step \in {"mining", "dueMining"}
Alone(p) == Extracts(p) => holder = {p} /\ (JobOf(p) \in MiningJobs => mined[JobOf(p)] = 0)

Extraction ==
  /\ DOMAIN work = Miners
  /\ mined \in [MiningJobs -> {0, 1}]
  /\ \A p \in Miners : Alone(p)

LEMMA ServedIsNotMining ==
  ASSUME NEW p \in Miners
  PROVE  Served(p) \in {"dueMined", "drain", "idle"}
  BY DEF Served

LEMMA StepOfGoes ==
  ASSUME NEW p \in Miners, NEW s, NEW j, Goes(p, s, j), DOMAIN work = Miners
  PROVE  /\ DOMAIN work' = Miners
         /\ work'[p].step = s /\ work'[p].job = j
         /\ \A q \in Miners \ {p} : work'[q] = work[q]
  BY DEF Goes

\* What leaves the lock, and the marks of what was mined, alone, and brings
\* nobody into an extraction.
LEMMA Elsewhere ==
  ASSUME Extraction, NEW p \in Miners, NEW s \in MinerSteps \ {"mining", "dueMining"}, NEW j,
         Goes(p, s, j), UNCHANGED <<mined, holder>>
  PROVE  Extraction'
<1>1. /\ DOMAIN work' = Miners /\ ~Extracts(p)'
      /\ \A q \in Miners \ {p} : work'[q] = work[q]
  BY StepOfGoes DEF Extraction, Extracts
<1>2. \A q \in Miners : Alone(q)'
  BY <1>1 DEF Extraction, Alone, Extracts, JobOf
<1> QED
  BY <1>1, <1>2 DEF Extraction

LEMMA ExtractionIsExclusive == MiningSpec => []Extraction
<1>1. MiningInit => Extraction
  BY DEF MiningInit, Extraction, Alone, Extracts, AtRest
<1>2. Extraction /\ [MiningNext]_miningVars => Extraction'
  <2> SUFFICES ASSUME Extraction, [MiningNext]_miningVars PROVE Extraction'
    OBVIOUS
  <2> USE DEF MinerSteps
  <2>0. Background \in Miners /\ Foreground \in Miners
    BY DEF Miners
  <2>1. CASE UNCHANGED <<work, mined, holder>>
    BY <2>1 DEF Extraction, Alone, Extracts, JobOf
  <2>2. ASSUME NEW j \in MiningJobs, Ask(j) \/ Quote(j) PROVE Extraction'
    BY <2>1, <2>2 DEF Ask, Quote
  <2>3. ASSUME NEW p \in Miners, NEW j \in MiningJobs, RequestMining(p, j) PROVE Extraction'
    BY <2>1, <2>3, Elsewhere DEF RequestMining
  <2>4. CASE Rebuild
    BY <2>0, <2>4, Elsewhere DEF Rebuild
  <2>5. CASE TakeNext
    BY <2>0, <2>5, Elsewhere DEF TakeNext
  <2>6. CASE BeginDue
    BY <2>0, <2>6, Elsewhere DEF BeginDue
  <2>7. CASE TakeDue
    BY <2>0, <2>7, Elsewhere DEF TakeDue
  <2>8. CASE TakeRun
    BY <2>0, <2>8, Elsewhere DEF TakeRun
  <2>9. CASE CloseExchange
    BY <2>0, <2>9, Elsewhere DEF CloseExchange
  <2>10. ASSUME NEW p \in Miners, Enter(p) PROVE Extraction'
    <3>1. CASE mined[JobOf(p)] > 0
      <4> DEFINE job == IF Served(p) = "dueMined" THEN work[p].job ELSE NoJob
      <4>1. Goes(p, Served(p), job) /\ UNCHANGED <<mined, holder>>
        BY <2>10, <3>1 DEF Enter
      <4>2. Served(p) \in MinerSteps \ {"mining", "dueMining"}
        BY ServedIsNotMining
      <4> HIDE DEF job
      <4> QED
        BY <4>1, <4>2, Elsewhere
    <3>2. CASE ~(mined[JobOf(p)] > 0)
      <4>1. /\ DOMAIN work' = Miners /\ work'[p].job = work[p].job
            /\ \A q \in Miners \ {p} : work'[q] = work[q]
        BY <2>10, <3>2, StepOfGoes DEF Enter, Extraction
      <4>2. holder = {} /\ holder' = {p} /\ mined' = mined
        BY <2>10, <3>2 DEF Enter
      <4>3. JobOf(p) \in MiningJobs => mined[JobOf(p)] = 0
        BY <3>2 DEF Extraction
      <4>4. \A q \in Miners : ~Extracts(q)
        BY <4>2 DEF Extraction, Alone
      <4>5. \A q \in Miners : Alone(q)'
        BY <4>1, <4>2, <4>3, <4>4 DEF Alone, Extracts, JobOf
      <4> QED
        BY <4>1, <4>2, <4>5 DEF Extraction
    <3> QED
      BY <3>1, <3>2
  <2>11. ASSUME NEW p \in Miners, Publish(p) PROVE Extraction'
    <3>1. /\ DOMAIN work' = Miners /\ ~Extracts(p)'
          /\ \A q \in Miners \ {p} : work'[q] = work[q]
      BY <2>11, StepOfGoes, ServedIsNotMining DEF Publish, Extraction, Extracts
    <3>2. Extracts(p) /\ \A q \in Miners \ {p} : ~Extracts(q)
      BY <2>11 DEF Publish, Extraction, Alone, Extracts
    <3>3. mined' \in [MiningJobs -> {0, 1}]
      <4> DEFINE job == JobOf(p)
      <4>1. mined' = [mined EXCEPT ![job] = @ + 1]
        BY <2>11 DEF Publish
      <4>2. job \in MiningJobs => mined[job] = 0
        BY <3>2 DEF Extraction, Alone
      <4>3. mined \in [MiningJobs -> {0, 1}]
        BY DEF Extraction
      <4> HIDE DEF job
      <4>4. DOMAIN mined' = MiningJobs
        BY <4>1, <4>3
      <4>5. \A y \in MiningJobs : mined'[y] \in {0, 1}
        BY <4>1, <4>2, <4>3
      <4>6. mined' = [y \in MiningJobs |-> mined'[y]]
        BY <4>1, <4>3
      <4> QED
        BY <4>5, <4>6
    <3>4. \A q \in Miners : ~Extracts(q)'
      BY <3>1, <3>2 DEF Extracts
    <3> QED
      BY <3>1, <3>3, <3>4 DEF Extraction, Alone
  <2>12. ASSUME NEW p \in Miners, FailJob(p) PROVE Extraction'
    <3>1. /\ DOMAIN work' = Miners /\ ~Extracts(p)'
          /\ \A q \in Miners \ {p} : work'[q] = work[q]
      BY <2>12, StepOfGoes DEF FailJob, Extraction, Extracts
    <3>2. \A q \in Miners \ {p} : ~Extracts(q)
      BY <2>12 DEF FailJob, Extraction, Alone, Extracts
    <3>3. \A q \in Miners : ~Extracts(q)'
      BY <3>1, <3>2 DEF Extracts
    <3> QED
      BY <2>12, <3>1, <3>3 DEF FailJob, Extraction, Alone
  <2>13. ASSUME NEW p \in Miners, MinerDies(p) PROVE Extraction'
    <3>1. /\ DOMAIN work' = Miners /\ ~Extracts(p)' /\ mined' = mined /\ holder' = holder \ {p}
          /\ \A q \in Miners \ {p} : work'[q] = work[q]
      BY <2>13 DEF MinerDies, Extraction, Extracts, AtRest
    <3>2. \A q \in Miners : Alone(q)'
      BY <3>1 DEF Extraction, Alone, Extracts, JobOf
    <3> QED
      BY <3>1, <3>2 DEF Extraction
  <2>14. CASE UNCHANGED miningVars
    BY <2>1, <2>14 DEF miningVars
  <2> QED
    BY <2>0, <2>2, <2>3, <2>4, <2>5, <2>6, <2>7, <2>8, <2>9, <2>10, <2>11, <2>12, <2>13, <2>14
       DEF MiningNext, Maintain, Mine
<1> QED
  BY <1>1, <1>2, PTL DEF MiningSpec

\* Processes that rebuild their queues from one journal, retry and die publish
\* the candidates of a job at most once (memory-pipeline.ts, processJob).
THEOREM JobsAreMinedOnce == MiningSpec => []MinedOnce
<1>1. Extraction => MinedOnce
  BY DEF Extraction, MinedOnce
<1> QED
  BY <1>1, ExtractionIsExclusive, PTL

\* A process in one of these steps has a job in hand; in the later ones the job
\* is an exchange with evidence, and in the last one it was mined.
InHand == {"executed", "taken", "mining"} \cup {"dueTaken", "dueMining", "dueMined"}
OfTalk == {"dueTaken", "dueMining", "dueMined"}

Carries(p) ==
  /\ work[p].step \in MinerSteps
  /\ work[p].job = {} \/ \E j \in MiningJobs : work[p].job = {j}
  /\ work[p].step \in InHand => \E j \in MiningJobs : work[p].job = {j}
  /\ work[p].step \in OfTalk => \E j \in quoted : work[p].job = {j}
  /\ work[p].step = "dueMined" => \A j \in work[p].job : mined[j] = 1

Asked ==
  /\ requested \in Seq(MiningJobs)
  /\ IsFiniteSet(ToSet(requested)) /\ Len(requested) = Cardinality(ToSet(requested))
Queued == queue \in [Miners -> Seq(MiningJobs)] /\ due \in Seq(quoted)
WasMined == closed \subseteq quoted /\ quoted \subseteq TalkJobs /\ \A j \in closed : mined[j] = 1
Reserved ==
  /\ holder = {} \/ \E p \in Miners : holder = {p}
  /\ mishaps \in [failures : 0 .. MaxMiningFailures, deaths : 0 .. MaxMiningDeaths]

MiningIInv == Asked /\ Queued /\ WasMined /\ Reserved /\ \A p \in Miners : Carries(p)

LEMMA Handed ==
  ASSUME NEW p, NEW j, work[p].job = {j}
  PROVE  JobOf(p) = j
  BY DEF JobOf

LEMMA CardinalityOne ==
  ASSUME NEW S, S = {} \/ \E x : S = {x}
  PROVE  Cardinality(S) <= 1
<1>1. CASE S = {}
  <2>1. Cardinality({}) = 0
    BY FS_EmptySet
  <2> QED
    BY <1>1, <2>1
<1>2. CASE \E x : S = {x}
  <2>1. PICK x : S = {x}
    BY <1>2
  <2>2. Cardinality({x}) = 1
    BY FS_Singleton
  <2> QED
    BY <2>1, <2>2
<1> QED
  BY <1>1, <1>2

LEMMA InASequence ==
  ASSUME NEW S, NEW s \in Seq(S)
  PROVE  ToSet(s) \subseteq S
  BY DEF ToSet

LEMMA SetOfAppended ==
  ASSUME NEW S, NEW s \in Seq(S), NEW e \in S
  PROVE  ToSet(Append(s, e)) = ToSet(s) \cup {e}
<1> DEFINE t == Append(s, e)
<1>1. DOMAIN t = 1 .. (Len(s) + 1) /\ DOMAIN s = 1 .. Len(s) /\ Len(s) \in Nat
  OBVIOUS
<1>2. t[Len(s) + 1] = e /\ \A i \in 1 .. Len(s) : t[i] = s[i]
  OBVIOUS
<1> HIDE DEF t
<1>3. ASSUME NEW x PROVE x \in ToSet(t) <=> x \in ToSet(s) \cup {e}
  <2>1. ASSUME x \in ToSet(t) PROVE x \in ToSet(s) \cup {e}
    <3>1. PICK i \in DOMAIN t : x = t[i]
      BY <2>1 DEF ToSet
    <3>2. CASE i = Len(s) + 1
      BY <1>2, <3>1, <3>2
    <3>3. CASE i # Len(s) + 1
      <4>1. i \in 1 .. Len(s)
        BY <1>1, <3>1, <3>3
      <4> QED
        BY <1>1, <1>2, <3>1, <4>1 DEF ToSet
    <3> QED
      BY <3>2, <3>3
  <2>2. ASSUME x \in ToSet(s) PROVE x \in ToSet(t)
    <3>1. PICK i \in DOMAIN s : x = s[i]
      BY <2>2 DEF ToSet
    <3>2. i \in DOMAIN t /\ t[i] = x
      BY <1>1, <1>2, <3>1
    <3> QED
      BY <3>2 DEF ToSet
  <2>3. e \in ToSet(t)
    <3>1. Len(s) + 1 \in DOMAIN t
      BY <1>1
    <3> QED
      BY <1>2, <3>1 DEF ToSet
  <2> QED
    BY <2>1, <2>2, <2>3
<1>4. ToSet(t) = ToSet(s) \cup {e}
  BY <1>3
<1> QED
  BY <1>4 DEF t

\* A request is appended once, so the requests stay without repetition.
LEMMA AskedOnce ==
  ASSUME Asked, NEW j \in MiningJobs, j \notin ToSet(requested), requested' = Append(requested, j)
  PROVE  Asked'
<1>1. ToSet(requested)' = ToSet(requested) \cup {j}
  <2>1. ToSet(Append(requested, j)) = ToSet(requested) \cup {j}
    BY SetOfAppended DEF Asked
  <2> QED
    BY <2>1
<1>2. IsFiniteSet(ToSet(requested)') /\ Cardinality(ToSet(requested)') = Cardinality(ToSet(requested)) + 1
  BY <1>1, FS_AddElement DEF Asked
<1>3. requested' \in Seq(MiningJobs) /\ Len(requested') = Len(requested) + 1
  BY DEF Asked
<1> QED
  BY <1>2, <1>3 DEF Asked

LEMMA EnqueuedIs ==
  ASSUME NEW q \in Seq(MiningJobs), NEW j \in MiningJobs
  PROVE  Enqueued(q, j) \in Seq(MiningJobs)
  BY DEF Enqueued

\* A process that leaves the others, what was quoted and what was mined alone
\* does its duty to the invariant when its own step carries what it should.
LEMMA CarriedOn ==
  ASSUME \A q \in Miners : Carries(q), Extraction, NEW p \in Miners, NEW s, NEW j,
         Goes(p, s, j), quoted \subseteq quoted', \A i \in MiningJobs : mined[i] = 1 => mined'[i] = 1,
         quoted \subseteq MiningJobs,
         Carries(p)'
  PROVE  \A q \in Miners : Carries(q)'
<1>1. \A q \in Miners \ {p} : work'[q] = work[q]
  BY StepOfGoes DEF Extraction
<1>2. ASSUME NEW q \in Miners \ {p} PROVE Carries(q)'
  BY <1>1, <1>2 DEF Carries
<1> QED
  BY <1>2

LEMMA Unmoved ==
  ASSUME \A q \in Miners : Carries(q), work' = work, quoted \subseteq quoted', mined' = mined
  PROVE  \A q \in Miners : Carries(q)'
  BY DEF Carries

\* A process that goes to a step where it has nothing in hand.
LEMMA PutDown ==
  ASSUME Extraction, NEW p \in Miners, NEW s \in {"idle", "drain", "sweep", "due"}, Goes(p, s, NoJob)
  PROVE  Carries(p)'
  BY StepOfGoes DEF Extraction, Carries, MinerSteps, InHand, OfTalk, NoJob

LEMMA Grown ==
  ASSUME NEW S, NEW T, S \subseteq T, NEW s \in Seq(S)
  PROVE  s \in Seq(T)
  OBVIOUS

\* A step of the mining keeps the invariant (Extraction is an invariant by itself).
LEMMA MiningIsInductive ==
  ASSUME MiningIInv, Extraction, Extraction', [MiningNext]_miningVars
  PROVE  MiningIInv'
<1>0. Background \in Miners /\ Foreground \in Miners /\ quoted \subseteq MiningJobs
  BY DEF Miners, MiningIInv, WasMined, MiningJobs
<1>a. \A p \in Miners : Carries(p)
  BY DEF MiningIInv
<1>q. queue \in [Miners -> Seq(MiningJobs)] /\ due \in Seq(quoted) /\ requested \in Seq(MiningJobs)
  BY DEF MiningIInv, Queued, Asked
<1>1. ASSUME NEW j \in MiningJobs, Ask(j) PROVE MiningIInv'
  <2>1. Asked'
    BY <1>1, AskedOnce DEF MiningIInv, Ask
  <2>2. \A p \in Miners : Carries(p)'
    BY <1>1, <1>a, Unmoved DEF Ask
  <2> QED
    BY <1>1, <2>1, <2>2 DEF MiningIInv, Ask, Queued, WasMined, Reserved
<1>2. ASSUME NEW j \in MiningJobs, Quote(j) PROVE MiningIInv'
  <2>1. quoted \subseteq quoted' /\ quoted' \subseteq TalkJobs
    BY <1>2 DEF Quote, MiningIInv, WasMined
  <2>2. \A p \in Miners : Carries(p)'
    BY <1>2, <1>a, <2>1, Unmoved DEF Quote
  <2>3. due' \in Seq(quoted')
    BY <1>2, <1>q, <2>1, Grown DEF Quote
  <2> QED
    BY <1>2, <2>1, <2>2, <2>3 DEF MiningIInv, Quote, Asked, Queued, WasMined, Reserved
<1>3. ASSUME NEW p \in Miners, NEW j \in MiningJobs, RequestMining(p, j) PROVE MiningIInv'
  <2>1. Asked'
    BY <1>3, AskedOnce DEF MiningIInv, RequestMining
  <2>2. \A i \in Miners : Carries(i)'
    <3>1. CASE p = Foreground
      <4>1. Goes(p, "executed", {j})
        BY <1>3, <3>1 DEF RequestMining
      <4>2. Carries(p)'
        BY <4>1, <1>3, StepOfGoes DEF Extraction, Carries, MinerSteps, InHand, OfTalk
      <4>3. quoted' = quoted /\ mined' = mined
        BY <1>3 DEF RequestMining
      <4> QED
        BY <1>0, <1>a, <4>1, <4>2, <4>3, CarriedOn
    <3>2. CASE p # Foreground
      BY <1>3, <1>a, <3>2, Unmoved DEF RequestMining
    <3> QED
      BY <3>1, <3>2
  <2>3. queue' \in [Miners -> Seq(MiningJobs)]
    <3>1. Enqueued(queue[p], j) \in Seq(MiningJobs)
      BY <1>q, EnqueuedIs
    <3> QED
      BY <1>3, <1>q, <3>1 DEF RequestMining
  <2> QED
    BY <1>3, <2>1, <2>2, <2>3 DEF MiningIInv, RequestMining, Queued, WasMined, Reserved
<1>4. CASE Rebuild
  <2>1. \A i \in Miners : Carries(i)'
    <3>1. Goes(Background, "drain", NoJob) /\ quoted' = quoted /\ mined' = mined
      BY <1>4 DEF Rebuild
    <3>2. Carries(Background)'
      BY <1>0, <3>1, PutDown
    <3> QED
      BY <1>0, <1>a, <3>1, <3>2, CarriedOn
  <2>2. queue' \in [Miners -> Seq(MiningJobs)]
    <3> DEFINE S == {j \in RunJobs : mined[j] = 0} \ ToSet(queue[Background])
               new == Kept(requested, S)
    <3>1. new \in Seq(MiningJobs \cap S)
      <4> HIDE DEF S
      <4> QED
        BY <1>q, KeptIs
    <3>2. queue' = [queue EXCEPT ![Background] = @ \o new]
      BY <1>4 DEF Rebuild
    <3> HIDE DEF new, S
    <3>3. new \in Seq(MiningJobs)
      BY <3>1, Grown
    <3>4. queue[Background] \o new \in Seq(MiningJobs)
      BY <1>0, <1>q, <3>3
    <3> QED
      BY <1>q, <3>2, <3>4
  <2> QED
    BY <1>4, <2>1, <2>2 DEF MiningIInv, Rebuild, Asked, Queued, WasMined, Reserved
<1>5. CASE TakeNext
  <2>1. queue[Background] \in Seq(MiningJobs) /\ queue[Background] # <<>>
    BY <1>0, <1>5, <1>q DEF TakeNext
  <2>2. Head(queue[Background]) \in MiningJobs /\ Tail(queue[Background]) \in Seq(MiningJobs)
    BY <2>1
  <2>3. queue' \in [Miners -> Seq(MiningJobs)]
    BY <1>5, <1>q, <2>2 DEF TakeNext
  <2>4. Goes(Background, "taken", {Head(queue[Background])}) /\ quoted' = quoted /\ mined' = mined
    BY <1>5 DEF TakeNext
  <2>5. Carries(Background)'
    BY <1>0, <2>2, <2>4, StepOfGoes DEF Extraction, Carries, MinerSteps, InHand, OfTalk
  <2>6. \A i \in Miners : Carries(i)'
    BY <1>0, <1>a, <2>4, <2>5, CarriedOn
  <2> QED
    BY <1>5, <2>3, <2>6 DEF MiningIInv, TakeNext, Asked, Queued, WasMined, Reserved
<1>6. CASE BeginDue
  <2>1. Goes(Background, "due", NoJob) /\ quoted' = quoted /\ mined' = mined
    BY <1>6 DEF BeginDue
  <2>2. Carries(Background)'
    BY <1>0, <2>1, PutDown
  <2>3. \A i \in Miners : Carries(i)'
    BY <1>0, <1>a, <2>1, <2>2, CarriedOn
  <2>4. due' \in Seq(quoted')
    <3> DEFINE S == quoted \ closed
    <3>1. due' = Kept(requested, S)
      BY <1>6 DEF BeginDue
    <3> HIDE DEF S
    <3>2. due' \in Seq(MiningJobs \cap S)
      BY <1>q, <3>1, KeptIs
    <3>3. MiningJobs \cap S \subseteq quoted'
      BY <2>1 DEF S
    <3> QED
      BY <3>2, <3>3, Grown
  <2> QED
    BY <1>6, <2>3, <2>4 DEF MiningIInv, BeginDue, Asked, Queued, WasMined, Reserved
<1>7. CASE TakeDue
  <2>1. quoted' = quoted /\ mined' = mined
    BY <1>7 DEF TakeDue
  <2>2. CASE due = <<>>
    <3>1. Goes(Background, "idle", NoJob) /\ due' = due
      BY <1>7, <2>2 DEF TakeDue
    <3>2. Carries(Background)'
      BY <1>0, <3>1, PutDown
    <3>3. \A i \in Miners : Carries(i)'
      BY <1>0, <1>a, <2>1, <3>1, <3>2, CarriedOn
    <3> QED
      BY <1>7, <3>1, <3>3 DEF MiningIInv, TakeDue, Asked, Queued, WasMined, Reserved
  <2>3. CASE due # <<>>
    <3>1. Head(due) \in quoted /\ Tail(due) \in Seq(quoted)
      BY <1>q, <2>3
    <3>2. Goes(Background, "dueTaken", {Head(due)}) /\ due' = Tail(due)
      BY <1>7, <2>3 DEF TakeDue
    <3>3. Carries(Background)'
      BY <1>0, <2>1, <3>1, <3>2, StepOfGoes DEF Extraction, Carries, MinerSteps, InHand, OfTalk
    <3>4. \A i \in Miners : Carries(i)'
      BY <1>0, <1>a, <2>1, <3>2, <3>3, CarriedOn
    <3> QED
      BY <1>7, <3>1, <3>2, <3>4 DEF MiningIInv, TakeDue, Asked, Queued, WasMined, Reserved
  <2> QED
    BY <2>2, <2>3
<1>8. CASE TakeRun
  <2>1. Goes(Foreground, "taken", work[Foreground].job) /\ quoted' = quoted /\ mined' = mined
    BY <1>8 DEF TakeRun
  <2>2. \E j \in MiningJobs : work[Foreground].job = {j}
    BY <1>0, <1>8, <1>a DEF TakeRun, Carries, InHand
  <2>3. Carries(Foreground)'
    BY <1>0, <2>1, <2>2, StepOfGoes DEF Extraction, Carries, MinerSteps, InHand, OfTalk
  <2>4. \A i \in Miners : Carries(i)'
    BY <1>0, <1>a, <2>1, <2>3, CarriedOn
  <2>5. queue' \in [Miners -> Seq(MiningJobs)]
    <3> DEFINE S == MiningJobs \ {JobOf(Foreground)}
               rest == Kept(queue[Foreground], S)
    <3>1. rest \in Seq(MiningJobs \cap S)
      <4> HIDE DEF S
      <4> QED
        BY <1>0, <1>q, KeptIs
    <3>2. queue' = [queue EXCEPT ![Foreground] = rest]
      BY <1>8 DEF TakeRun
    <3> HIDE DEF rest, S
    <3>3. rest \in Seq(MiningJobs)
      BY <3>1, Grown
    <3> QED
      BY <1>q, <3>2, <3>3
  <2> QED
    BY <1>8, <2>4, <2>5 DEF MiningIInv, TakeRun, Asked, Queued, WasMined, Reserved
<1>9. ASSUME NEW p \in Miners, Enter(p) PROVE MiningIInv'
  <2>1. PICK j \in MiningJobs : work[p].job = {j}
    BY <1>9, <1>a DEF Enter, Carries, InHand
  <2>2. JobOf(p) = j /\ quoted' = quoted /\ mined' = mined
    BY <1>9, <2>1, Handed DEF Enter
  <2>3. work[p].step = "dueTaken" => j \in quoted
    BY <1>a, <2>1 DEF Carries, OfTalk
  <2>4. Carries(p)'
    <3>1. CASE mined[j] > 0 /\ work[p].step = "dueTaken"
      <4>1. Goes(p, "dueMined", {j})
        BY <1>9, <2>1, <2>2, <3>1 DEF Enter, Served
      <4>2. mined'[j] = 1
        BY <2>2, <3>1 DEF Extraction
      <4> QED
        BY <2>2, <2>3, <3>1, <4>1, <4>2, StepOfGoes DEF Extraction, Carries, MinerSteps, InHand, OfTalk
    <3>2. CASE mined[j] > 0 /\ work[p].step = "taken"
      <4>1. \E s \in {"drain", "idle"} : Goes(p, s, NoJob)
        BY <1>9, <2>1, <2>2, <3>2 DEF Enter, Served
      <4> QED
        BY <4>1, PutDown
    <3>3. CASE ~(mined[j] > 0)
      <4>1. Goes(p, Mining(p), {j})
        BY <1>9, <2>1, <2>2, <3>3 DEF Enter
      <4>2. \/ Mining(p) = "mining" /\ work[p].step = "taken"
            \/ Mining(p) = "dueMining" /\ work[p].step = "dueTaken"
        BY <1>9 DEF Enter, Mining
      <4> QED
        BY <2>2, <2>3, <4>1, <4>2, StepOfGoes DEF Extraction, Carries, MinerSteps, InHand, OfTalk
    <3> QED
      BY <1>9, <3>1, <3>2, <3>3 DEF Enter
  <2>5. \A i \in Miners : Carries(i)'
    <3>1. \E s, k : Goes(p, s, k)
      BY <1>9 DEF Enter
    <3> QED
      BY <1>0, <1>a, <2>2, <2>4, <3>1, CarriedOn
  <2>6. holder' = holder \/ holder' = {p}
    BY <1>9 DEF Enter
  <2> QED
    BY <1>9, <2>5, <2>6 DEF MiningIInv, Enter, Asked, Queued, WasMined, Reserved
<1>10. ASSUME NEW p \in Miners, Publish(p) PROVE MiningIInv'
  <2>1. PICK j \in MiningJobs : work[p].job = {j}
    BY <1>10, <1>a DEF Publish, Carries, InHand
  <2>2. JobOf(p) = j /\ quoted' = quoted
    BY <1>10, <2>1, Handed DEF Publish
  <2>3. work[p].step = "dueMining" => j \in quoted
    BY <1>a, <2>1 DEF Carries, OfTalk
  <2>4. mined[j] = 0
    BY <1>10, <2>2 DEF Publish, Extraction, Alone, Extracts
  <2>5. mined'[j] = 1 /\ \A i \in MiningJobs : mined[i] = 1 => mined'[i] = 1
    <3>1. mined' = [mined EXCEPT ![j] = @ + 1]
      BY <1>10, <2>2 DEF Publish
    <3>2. mined \in [MiningJobs -> {0, 1}]
      BY DEF Extraction
    <3> QED
      BY <2>4, <3>1, <3>2
  <2>6. Carries(p)'
    <3>1. CASE work[p].step = "dueMining"
      <4>1. Goes(p, "dueMined", {j})
        BY <1>10, <2>1, <3>1 DEF Publish, Served
      <4> QED
        BY <2>2, <2>3, <2>5, <3>1, <4>1, StepOfGoes DEF Extraction, Carries, MinerSteps, InHand, OfTalk
    <3>2. CASE work[p].step = "mining"
      <4>1. \E s \in {"drain", "idle"} : Goes(p, s, NoJob)
        BY <1>10, <3>2 DEF Publish, Served
      <4> QED
        BY <4>1, PutDown
    <3> QED
      BY <1>10, <3>1, <3>2 DEF Publish
  <2>7. \A i \in Miners : Carries(i)'
    <3>1. \E s, k : Goes(p, s, k)
      BY <1>10 DEF Publish
    <3> QED
      BY <1>0, <1>a, <2>2, <2>5, <2>6, <3>1, CarriedOn
  <2>8. WasMined'
    <3>1. closed' = closed /\ closed \subseteq MiningJobs
      BY <1>10 DEF Publish, MiningIInv, WasMined, MiningJobs
    <3> QED
      BY <2>2, <2>5, <3>1 DEF MiningIInv, WasMined
  <2> QED
    BY <1>10, <2>2, <2>7, <2>8 DEF MiningIInv, Publish, Asked, Queued, Reserved
<1>11. ASSUME NEW p \in Miners, FailJob(p) PROVE MiningIInv'
  <2>1. PICK j \in MiningJobs : work[p].job = {j}
    BY <1>11, <1>a DEF FailJob, Carries, InHand
  <2>2. JobOf(p) = j /\ quoted' = quoted /\ mined' = mined
    BY <1>11, <2>1, Handed DEF FailJob
  <2>3. \E s \in {"sweep", "idle"} : Goes(p, s, NoJob)
    BY <1>11 DEF FailJob
  <2>4. Carries(p)'
    BY <2>3, PutDown
  <2>5. \A i \in Miners : Carries(i)'
    BY <1>0, <1>a, <2>2, <2>3, <2>4, CarriedOn
  <2>6. queue' \in [Miners -> Seq(MiningJobs)]
    <3>1. Enqueued(queue[p], j) \in Seq(MiningJobs)
      BY <1>q, EnqueuedIs
    <3>2. queue' = [queue EXCEPT ![p] = Enqueued(queue[p], j)]
      BY <1>11, <2>2 DEF FailJob
    <3> QED
      BY <1>q, <3>1, <3>2
  <2>7. mishaps' \in [failures : 0 .. MaxMiningFailures, deaths : 0 .. MaxMiningDeaths]
    <3>1. mishaps \in [failures : 0 .. MaxMiningFailures, deaths : 0 .. MaxMiningDeaths]
      BY DEF MiningIInv, Reserved
    <3>2. CASE j \in Poison
      BY <1>11, <2>2, <3>1, <3>2 DEF FailJob
    <3>3. CASE j \notin Poison
      <4>1. mishaps.failures < MaxMiningFailures /\ mishaps' = [mishaps EXCEPT !.failures = @ + 1]
        BY <1>11, <2>2, <3>3 DEF FailJob
      <4>2. mishaps.failures + 1 \in 0 .. MaxMiningFailures
        BY <3>1, <4>1, MiningConstants
      <4> QED
        BY <3>1, <4>1, <4>2
    <3> QED
      BY <3>2, <3>3
  <2> QED
    BY <1>11, <2>5, <2>6, <2>7 DEF MiningIInv, FailJob, Asked, Queued, WasMined, Reserved
<1>12. CASE CloseExchange
  <2>1. PICK j \in quoted : work[Background].job = {j}
    BY <1>0, <1>12, <1>a DEF CloseExchange, Carries, OfTalk
  <2>2. mined[j] = 1
    BY <1>0, <1>12, <1>a, <2>1 DEF CloseExchange, Carries
  <2>3. Goes(Background, "due", NoJob) /\ quoted' = quoted /\ mined' = mined
    BY <1>12 DEF CloseExchange
  <2>4. Carries(Background)'
    BY <1>0, <2>3, PutDown
  <2>5. \A i \in Miners : Carries(i)'
    BY <1>0, <1>a, <2>3, <2>4, CarriedOn
  <2>6. WasMined'
    <3>1. closed' = closed \cup {j}
      BY <1>12, <2>1 DEF CloseExchange
    <3> QED
      BY <2>1, <2>2, <2>3, <3>1 DEF MiningIInv, WasMined
  <2> QED
    BY <1>12, <2>5, <2>6 DEF MiningIInv, CloseExchange, Asked, Queued, Reserved
<1>13. ASSUME NEW p \in Miners, MinerDies(p) PROVE MiningIInv'
  <2>1. Goes(p, "idle", NoJob) /\ quoted' = quoted /\ mined' = mined
    BY <1>13 DEF MinerDies, Goes, AtRest
  <2>2. Carries(p)'
    BY <2>1, PutDown
  <2>3. \A i \in Miners : Carries(i)'
    BY <1>0, <1>a, <2>1, <2>2, CarriedOn
  <2>4. queue' \in [Miners -> Seq(MiningJobs)]
    <3>1. <<>> \in Seq(MiningJobs)
      OBVIOUS
    <3> QED
      BY <1>13, <1>q, <3>1 DEF MinerDies
  <2>5. mishaps' \in [failures : 0 .. MaxMiningFailures, deaths : 0 .. MaxMiningDeaths]
    <3>1. mishaps \in [failures : 0 .. MaxMiningFailures, deaths : 0 .. MaxMiningDeaths]
      BY DEF MiningIInv, Reserved
    <3>2. mishaps.deaths < MaxMiningDeaths /\ mishaps' = [mishaps EXCEPT !.deaths = @ + 1]
      BY <1>13 DEF MinerDies
    <3>3. mishaps.deaths + 1 \in 0 .. MaxMiningDeaths
      BY <3>1, <3>2, MiningConstants
    <3> QED
      BY <3>1, <3>2, <3>3
  <2>6. holder' = {} \/ \E i \in Miners : holder' = {i}
    BY <1>13 DEF MinerDies, MiningIInv, Reserved
  <2> QED
    BY <1>13, <2>3, <2>4, <2>5, <2>6 DEF MiningIInv, MinerDies, Asked, Queued, WasMined, Reserved
<1>14. CASE UNCHANGED miningVars
  BY <1>14 DEF miningVars, MiningIInv, Asked, Queued, WasMined, Reserved, Carries
<1> QED
  BY <1>0, <1>1, <1>2, <1>3, <1>4, <1>5, <1>6, <1>7, <1>8, <1>9, <1>10, <1>11, <1>12, <1>13, <1>14
     DEF MiningNext, Maintain, Mine

\* Processes that rebuild their queues from one journal, retry and die: the
\* queues hold jobs that were requested once, what is mined is mined once, and
\* an exchange is closed only when it was mined with its evidence on record
\* (memory-pipeline.ts, conversation-memory-pipeline.ts).
THEOREM MiningHolds == MiningSpec => []MiningInv
<1>1. MiningInit => MiningIInv
  <2> SUFFICES ASSUME MiningInit PROVE MiningIInv
    OBVIOUS
  <2>1. <<>> \in Seq(MiningJobs) /\ <<>> \in Seq(quoted)
    OBVIOUS
  <2>2. Asked
    <3>1. ToSet(requested) = {} /\ Len(requested) = 0
      BY DEF MiningInit, ToSet
    <3> QED
      BY <2>1, <3>1, FS_EmptySet DEF MiningInit, Asked
  <2>3. Queued
    BY <2>1 DEF MiningInit, Queued
  <2>4. Reserved
    BY MiningConstants DEF MiningInit, Reserved
  <2>5. \A p \in Miners : Carries(p)
    BY DEF MiningInit, Carries, AtRest, MinerSteps, InHand, OfTalk, NoJob
  <2>6. WasMined
    BY DEF MiningInit, WasMined
  <2> QED
    BY <2>2, <2>3, <2>4, <2>5, <2>6 DEF MiningIInv
<1>2. MiningIInv /\ Extraction /\ Extraction' /\ [MiningNext]_miningVars => MiningIInv'
  BY MiningIsInductive
<1>3. MiningIInv /\ Extraction => MiningInv
  <2> SUFFICES ASSUME MiningIInv, Extraction PROVE MiningInv
    OBVIOUS
  <2>1. MinedOnce
    BY DEF Extraction, MinedOnce
  <2>2. ClosedWasMined
    BY DEF MiningIInv, WasMined, ClosedWasMined
  <2>3. MiningTypeOK
    <3>1. ToSet(requested) \subseteq MiningJobs /\ ToSet(due) \subseteq TalkJobs
      BY InASequence DEF MiningIInv, Asked, Queued, WasMined
    <3>2. mined \in [MiningJobs -> Nat]
      BY DEF Extraction
    <3>3. ASSUME NEW p \in Miners
          PROVE  /\ ToSet(queue[p]) \subseteq MiningJobs
                 /\ work[p].job \subseteq MiningJobs /\ Cardinality(work[p].job) <= 1
                 /\ work[p].step \in MinerSteps
      <4>1. ToSet(queue[p]) \subseteq MiningJobs
        BY InASequence DEF MiningIInv, Queued
      <4>2. Carries(p)
        BY DEF MiningIInv
      <4> QED
        BY <4>1, <4>2, CardinalityOne DEF Carries
    <3>4. holder \subseteq Miners /\ Cardinality(holder) <= 1
      BY CardinalityOne DEF MiningIInv, Reserved
    <3> QED
      BY <3>1, <3>2, <3>3, <3>4 DEF MiningIInv, Asked, WasMined, Reserved, MiningTypeOK, MinerSteps
  <2> QED
    BY <2>1, <2>2, <2>3 DEF MiningInv
<1> QED
  BY <1>1, <1>2, <1>3, ExtractionIsExclusive, PTL DEF MiningSpec

-----------------------------------------------------------------------------
(* Authority.                                                                *)

AuthorityTypeOK == active \subseteq PolicyBook /\ levels \in [Domains -> Levels]

\* The policies in force are of the book, each domain has a level of autonomy.
LEMMA AuthorityTyping == AuthoritySpec => []AuthorityTypeOK
<1>1. AuthorityInit => AuthorityTypeOK
  BY DEF AuthorityInit, AuthorityTypeOK, Levels, Ladder
<1>2. AuthorityTypeOK /\ [AuthorityNext]_authorityVars => AuthorityTypeOK'
  BY DEF AuthorityTypeOK, AuthorityNext, GrantPolicy, EndPolicy, SetDomain, authorityVars
<1> QED
  BY <1>1, <1>2, PTL DEF AuthoritySpec

-----------------------------------------------------------------------------
(* The ladder of autonomy.                                                   *)

LEMMA LevelsAre == Levels = {"observe", "prepare", "act_with_approval", "act_auto"}
  BY DEF Levels, Ladder

LEMMA Ranks ==
  /\ AutonomyRank("observe") = 1 /\ AutonomyRank("prepare") = 2
  /\ AutonomyRank("act_with_approval") = 3 /\ AutonomyRank("act_auto") = 4
  BY DEF AutonomyRank, Ladder

\* The top is reached only from the top, and the bottom is below all else.
LEMMA TopAndBottom ==
  ASSUME NEW a \in Levels, NEW b \in Levels, AutonomyRank(b) <= AutonomyRank(a)
  PROVE  /\ b = "act_auto" => a = "act_auto"
         /\ a = "observe" => b = "observe"
  BY LevelsAre, Ranks

\* Some level of a set of them is the highest.
LEMMA Highest ==
  ASSUME NEW C \in SUBSET Levels, C # {}
  PROVE  \E c \in C : \A d \in C : AutonomyRank(d) <= AutonomyRank(c)
<1>1. CASE "act_auto" \in C
  BY <1>1, LevelsAre, Ranks
<1>2. CASE "act_auto" \notin C /\ "act_with_approval" \in C
  BY <1>2, LevelsAre, Ranks
<1>3. CASE "act_auto" \notin C /\ "act_with_approval" \notin C /\ "prepare" \in C
  BY <1>3, LevelsAre, Ranks
<1>4. CASE C = {"observe"}
  BY <1>4, LevelsAre, Ranks
<1> QED
  BY <1>1, <1>2, <1>3, <1>4, LevelsAre

\* A covered scope may act by itself exactly when its domain may and some policy
\* that covers it may.
LEMMA EffectiveIsTheTop ==
  ASSUME AuthorityTypeOK, NEW s, s.domain \in Domains, Covering(s) # {}
  PROVE  Effective(s) = "act_auto" <=> levels[s.domain] = "act_auto" /\ "act_auto" \in Ceilings(s)
<1> DEFINE C == Ceilings(s)
           top == CHOOSE c \in C : \A d \in C : AutonomyRank(d) <= AutonomyRank(c)
<1>1. C \in SUBSET Levels /\ C # {}
  BY AuthorityAssumption DEF AuthorityTypeOK, Ceilings, Covering
<1>2. top \in C /\ \A d \in C : AutonomyRank(d) <= AutonomyRank(top)
  <2> HIDE DEF C
  <2> QED
    BY <1>1, Highest
<1>3. Effective(s) = MinAutonomy(levels[s.domain], top)
  BY DEF Effective
<1> HIDE DEF C, top
<1>4. top \in Levels /\ levels[s.domain] \in Levels
  BY <1>1, <1>2 DEF AuthorityTypeOK
<1>5. top = "act_auto" <=> "act_auto" \in C
  BY <1>1, <1>2, <1>4, TopAndBottom
<1>6. MinAutonomy(levels[s.domain], top) = "act_auto" <=> levels[s.domain] = "act_auto" /\ top = "act_auto"
  BY <1>4, LevelsAre, Ranks DEF MinAutonomy
<1> QED
  BY <1>3, <1>5, <1>6 DEF C

-----------------------------------------------------------------------------
(* What is allowed.                                                          *)

MayActOnItsOwn(s) == levels[s.domain] = "act_auto" /\ "act_auto" \in Ceilings(s)

Granted(s) ==
  /\ s.domain \in Enforced
  /\ ~(s.domain = "files" /\ Forbidden(s.resource))
  /\ s.access # "read" => levels[s.domain] # "observe"
  /\ Covering(s) # {}
  /\ s.access # "read" => MayActOnItsOwn(s)

Known(s) == s.domain \in Domains

LEMMA AllowedIsGranted ==
  ASSUME AuthorityTypeOK, NEW s, Known(s)
  PROVE  /\ Judge(s) = "allowed" <=> Granted(s)
         /\ Judge(s) \in {"denied", "approval_required", "allowed"}
<1>1. Covering(s) # {} => (Effective(s) = "act_auto" <=> MayActOnItsOwn(s))
  BY EffectiveIsTheTop DEF Known, MayActOnItsOwn
<1> QED
  BY <1>1 DEF Judge, Granted

\* Work the owner is not asked about, without the order of the questions.
Unasked(step) ==
  IF step.scopes = {} THEN step.risk \in {"read_only", "reversible_write"}
  ELSE step.risk \in {"read_only", "reversible_write"} /\ \A s \in step.scopes : Granted(s)

Characterized == AuthorityTypeOK => \A step \in Steps : Evaluate(step, FALSE) = "allowed" <=> Unasked(step)

LEMMA AllowedIsUnasked == Characterized
<1> SUFFICES ASSUME AuthorityTypeOK, NEW step \in Steps
             PROVE  Evaluate(step, FALSE) = "allowed" <=> Unasked(step)
  BY DEF Characterized
<1>1. ByRisk(step, FALSE) = "allowed" <=> step.risk \in {"read_only", "reversible_write"}
  BY DEF ByRisk
<1>2. \A s \in step.scopes : /\ Judge(s) = "allowed" <=> Granted(s)
                             /\ Judge(s) \in {"denied", "approval_required", "allowed"}
  BY AllowedIsGranted, AuthorityAssumption DEF Known
<1> QED
  BY <1>1, <1>2 DEF Evaluate, Unasked

\* The same of the state after a step.
LEMMA AllowedIsUnaskedNext == Characterized'
  BY AllowedIsUnasked, PTL

\* "An owner approval lifts 3 and 4, never 1 or 2" (policy-engine.ts).
THEOREM DenialsStand == AuthoritySpec => []ApprovalNeverLiftsDenial
<1>1. ApprovalNeverLiftsDenial
  BY DEF ApprovalNeverLiftsDenial, Evaluate, ByRisk
<1> QED
  BY <1>1, PTL

\* What goes ahead unasked is local by its risk; each thing it writes or runs is
\* in a domain that acts on its own and of a policy that does.
THEOREM UnaskedWasGranted == AuthoritySpec => []UnaskedIsGranted
<1>1. AuthorityTypeOK => UnaskedIsGranted
  <2> SUFFICES ASSUME AuthorityTypeOK, NEW step \in Steps,
                      step.scopes # {}, Evaluate(step, FALSE) = "allowed"
               PROVE  /\ step.risk \in {"read_only", "reversible_write"}
                      /\ \A s \in step.scopes :
                           /\ s.domain \in Enforced
                           /\ s.access # "read" => levels[s.domain] = "act_auto" /\ \E p \in Covering(s) : p.ceiling = "act_auto"
    BY DEF UnaskedIsGranted
  <2>1. step.risk \in {"read_only", "reversible_write"} /\ \A s \in step.scopes : Granted(s)
    BY AllowedIsUnasked DEF Characterized, Unasked
  <2> QED
    BY <2>1 DEF Granted, MayActOnItsOwn, Ceilings
<1> QED
  BY <1>1, AuthorityTyping, PTL

-----------------------------------------------------------------------------
(* Taking something away.                                                    *)

Tightens ==
  /\ active' \subseteq active
  /\ \A d \in Domains : AutonomyRank(levels'[d]) <= AutonomyRank(levels[d])

LEMMA GrantsOnlyShrink ==
  ASSUME AuthorityTypeOK, AuthorityTypeOK', Tightens, NEW s, Known(s), Granted(s)'
  PROVE  Granted(s)
<1>1. Covering(s)' \subseteq Covering(s)
  BY DEF Tightens, Covering
<1>2. Ceilings(s)' \subseteq Ceilings(s)
  BY <1>1 DEF Ceilings
<1>3. /\ levels'[s.domain] = "act_auto" => levels[s.domain] = "act_auto"
      /\ levels[s.domain] = "observe" => levels'[s.domain] = "observe"
  BY TopAndBottom DEF AuthorityTypeOK, Tightens, Known
<1> QED
  BY <1>1, <1>2, <1>3 DEF Granted, MayActOnItsOwn

\* The end of a policy, or a lower level, never lets a step go ahead unasked that
\* was asked about before (policy-engine.ts: the highest ceiling that covers a
\* scope counts, so the end of a stricter policy is not a grant).
THEOREM TighteningAllowsNothing == AuthoritySpec => TighteningNeverAllows
<1> DEFINE Step == Tightens => \A s \in Steps : Evaluate(s, FALSE)' = "allowed" => Evaluate(s, FALSE) = "allowed"
<1>1. AuthorityTypeOK /\ AuthorityTypeOK' => Step
  <2> SUFFICES ASSUME AuthorityTypeOK, AuthorityTypeOK', Tightens, NEW step \in Steps, Evaluate(step, FALSE)' = "allowed"
               PROVE  Evaluate(step, FALSE) = "allowed"
    OBVIOUS
  <2>1. Unasked(step)'
    BY AllowedIsUnaskedNext DEF Characterized
  <2>2. \A s \in step.scopes : Granted(s)' => Granted(s)
    BY GrantsOnlyShrink, AuthorityAssumption DEF Known
  <2>3. Unasked(step)
    BY <2>1, <2>2 DEF Unasked
  <2> QED
    BY <2>3, AllowedIsUnasked DEF Characterized
<1>2. [][Step]_authorityVars => TighteningNeverAllows
  BY DEF TighteningNeverAllows, Tightens
<1> HIDE DEF Step
<1> QED
  BY <1>1, <1>2, AuthorityTyping, PTL

\* What a step relies on in every configuration the owner may reach
\* (policy-engine.ts).
THEOREM AuthorityHolds == AuthoritySpec => []AuthorityInv
  BY DenialsStand, UnaskedWasGranted, PTL DEF AuthorityInv

-----------------------------------------------------------------------------
(* TurnAudit.                                                                *)

LEMMA Appended ==
  ASSUME NEW S, NEW s \in Seq(S), NEW e \in S
  PROVE  Append(s, e) \in Seq(S)
  OBVIOUS

LEMMA LastChanged ==
  ASSUME NEW S, NEW s \in Seq(S), s # <<>>, NEW e \in S
  PROVE  LET changed == [s EXCEPT ![Len(s)] = e]
         IN  /\ changed \in Seq(S) /\ Len(changed) = Len(s)
             /\ \A i \in 1..Len(s) : changed[i] = IF i = Len(s) THEN e ELSE s[i]
<1>1. PICK n \in 1..Len(s) : n = Len(s)
  OBVIOUS
<1>2. /\ [s EXCEPT ![n] = e] \in Seq(S) /\ Len([s EXCEPT ![n] = e]) = Len(s)
      /\ \A i \in 1..Len(s) : [s EXCEPT ![n] = e][i] = IF i = n THEN e ELSE s[i]
  BY ExceptSeq
<1> QED
  BY <1>1, <1>2

LEMMA LatestIsLast ==
  ASSUME NEW S, turnEvents \in Seq(S), NEW kinds
  PROVE  /\ Latest(kinds) \in 0..Len(turnEvents)
         /\ Latest(kinds) = 0 \/ turnEvents[Latest(kinds)].kind \in kinds
<1> DEFINE n == Len(turnEvents)
           T == {m \in 0..n : n - m = 0 \/ turnEvents[n - m].kind \in kinds}
<1>1. n \in Nat
  OBVIOUS
<1> HIDE DEF n
<1>2. n \in T /\ T \subseteq Nat
  BY <1>1
<1>3. PICK m \in T : \A y \in T : m <= y
  BY <1>2, LeastNumber
<1>4. /\ n - m \in 0..n
      /\ n - m = 0 \/ turnEvents[n - m].kind \in kinds
  BY <1>1, <1>3
<1>5. ASSUME NEW j \in ((n - m) + 1)..n PROVE turnEvents[j].kind \notin kinds
  <2>1. n - j \in 0..n /\ n - (n - j) = j /\ n - j < m
    BY <1>1, <1>3
  <2>2. n - j \notin T
    <3> SUFFICES ASSUME n - j \in T PROVE FALSE
      OBVIOUS
    <3>1. m <= n - j
      BY <1>3
    <3> QED
      BY <1>1, <1>3, <2>1, <3>1
  <2> QED
    BY <2>1, <2>2
<1>6. \E i \in 0..n : /\ i = 0 \/ turnEvents[i].kind \in kinds
                      /\ \A j \in (i + 1)..n : turnEvents[j].kind \notin kinds
  BY <1>4, <1>5
<1> QED
  BY <1>6 DEF Latest, n

Outcomes == {"fine", "wrong"}
TurnEvent == [kind : {"opened", "closed", "closed unseen", "tool started", "tool ended"},
              status : {"none", "started"} \cup Ends, calls : Seq(Outcomes)]

\* What was told to the journal of the end of the turn.
EndsTold == {turnEvents[i].status : i \in {k \in DOMAIN turnEvents : turnEvents[k].kind # "opened"}}

\* The calls of a turn that is not within a call have an outcome.
CallsEnd ==
  /\ teller \in {"entering", "running", "completed", "failed"} => calls \in Seq(Outcomes)
  /\ teller = "working" => \E made \in Seq(Outcomes) : calls = Append(made, Open)

\* An end goes to the ledger after it went to the journal.
JournalFirst ==
  lost = 0 =>
    /\ \A end \in {"completed", "failed"} : teller = RowOf(end) => end \in EndsTold
    /\ reporter = "ledger" => "interrupted" \in EndsTold
    /\ Row \in Ends => Row \in EndsTold

AuditTyped ==
  /\ turnEvents \in Seq(TurnEvent) /\ rows \in Seq({"started"} \cup Ends)
  /\ calls \in Seq(Outcomes \cup {Open})
  /\ reporter \in {"none", "journal", "ledger"} /\ lost \in Nat

AuditIInv == AuditTyped /\ CallsEnd /\ JournalFirst

LEMMA Telling ==
  ASSUME AuditTyped, NEW e \in TurnEvent, Says(e)
  PROVE  /\ turnEvents' \in Seq(TurnEvent) /\ lost' \in Nat
         /\ EndsTold \subseteq EndsTold'
         /\ lost' = 0 => lost = 0 /\ (e.kind # "opened" => e.status \in EndsTold')
<1>1. turnEvents \in Seq(TurnEvent) /\ lost \in Nat
  BY DEF AuditTyped
<1>2. CASE turnEvents' = Append(turnEvents, e) /\ UNCHANGED lost
  <2>1. /\ turnEvents' \in Seq(TurnEvent)
        /\ DOMAIN turnEvents = 1..Len(turnEvents) /\ DOMAIN turnEvents' = 1..(Len(turnEvents) + 1)
        /\ \A i \in DOMAIN turnEvents : i \in DOMAIN turnEvents' /\ turnEvents'[i] = turnEvents[i]
        /\ Len(turnEvents) + 1 \in DOMAIN turnEvents' /\ turnEvents'[Len(turnEvents) + 1] = e
    BY <1>1, <1>2
  <2> QED
    BY <1>1, <1>2, <2>1 DEF EndsTold
<1>3. CASE lost' = lost + 1 /\ UNCHANGED turnEvents
  BY <1>1, <1>3 DEF EndsTold
<1> QED
  BY <1>2, <1>3 DEF Says

LEMMA Entering ==
  ASSUME AuditTyped, NEW s \in {"started"} \cup Ends, Enters(s)
  PROVE  /\ rows' \in Seq({"started"} \cup Ends) /\ lost' \in Nat
         /\ lost' = 0 => lost = 0 /\ Row' = s
         /\ Row' \in {Row, s}
<1>1. rows \in Seq({"started"} \cup Ends) /\ lost \in Nat
  BY DEF AuditTyped
<1>2. CASE rows' = Append(rows, s) /\ UNCHANGED lost
  <2>1. rows' # <<>> /\ Len(rows') = Len(rows) + 1 /\ Len(rows) \in Nat /\ rows'[Len(rows) + 1] = s
    BY <1>1, <1>2
  <2>2. Row' = s
    BY <2>1 DEF Row, Last
  <2> QED
    BY <1>1, <1>2, <2>2
<1>3. CASE lost' = lost + 1 /\ UNCHANGED rows
  BY <1>1, <1>3 DEF Row
<1> QED
  BY <1>2, <1>3 DEF Enters

LEMMA AuditEvents ==
  /\ Opened \in TurnEvent /\ ClosedUnseen \in TurnEvent
  /\ Noted("tool started") \in TurnEvent /\ Noted("tool ended") \in TurnEvent
  /\ \A s \in {"completed", "failed"}, made \in Seq(Outcomes) : Closed(s, made) \in TurnEvent
<1>1. <<>> \in Seq(Outcomes)
  OBVIOUS
<1> QED
  BY <1>1 DEF TurnEvent, Opened, ClosedUnseen, Noted, Closed, Ends

LEMMA AuditIsInductive ==
  ASSUME AuditIInv, [AuditNext]_auditVars
  PROVE  AuditIInv'
<1>1. AuditTyped /\ CallsEnd /\ JournalFirst
  BY DEF AuditIInv
<1> USE DEF Move
<1>2. CASE ModelAsks
  BY <1>1, <1>2 DEF ModelAsks, AuditIInv, AuditTyped, CallsEnd, JournalFirst, EndsTold, Row, RowOf
<1>3. CASE OpenInJournal
  <2>1. Says(Opened)
    BY <1>3 DEF OpenInJournal
  <2>2. /\ turnEvents' \in Seq(TurnEvent) /\ lost' \in Nat /\ EndsTold \subseteq EndsTold' /\ (lost' = 0 => lost = 0)
    BY <1>1, <2>1, AuditEvents, Telling
  <2>3. calls' \in Seq(Outcomes) /\ calls' \in Seq(Outcomes \cup {Open})
    BY <1>3 DEF OpenInJournal
  <2> QED
    BY <1>1, <1>3, <2>2, <2>3 DEF OpenInJournal, AuditIInv, AuditTyped, CallsEnd, JournalFirst, Row, RowOf
<1>4. CASE OpenInLedger
  <2>1. Enters("started")
    BY <1>4 DEF OpenInLedger
  <2>2. /\ rows' \in Seq({"started"} \cup Ends) /\ lost' \in Nat
        /\ (lost' = 0 => lost = 0) /\ Row' \in {Row, "started"}
    BY <1>1, <2>1, Entering
  <2>3. "started" \notin Ends
    BY DEF Ends
  <2> QED
    BY <1>1, <1>4, <2>2, <2>3 DEF OpenInLedger, AuditIInv, AuditTyped, CallsEnd, JournalFirst, EndsTold, RowOf
<1>5. CASE StartTool
  <2>1. Says(Noted("tool started")) /\ calls \in Seq(Outcomes) /\ calls' = Append(calls, Open)
    BY <1>1, <1>5 DEF StartTool, CallsEnd
  <2>2. /\ turnEvents' \in Seq(TurnEvent) /\ lost' \in Nat /\ EndsTold \subseteq EndsTold' /\ (lost' = 0 => lost = 0)
    BY <1>1, <2>1, AuditEvents, Telling
  <2>3. calls' \in Seq(Outcomes \cup {Open})
    <3>1. calls \in Seq(Outcomes \cup {Open}) /\ Open \in Outcomes \cup {Open}
      BY <1>1 DEF AuditTyped
    <3> QED
      BY <2>1, <3>1, Appended
  <2> QED
    BY <1>1, <1>5, <2>1, <2>2, <2>3 DEF StartTool, AuditIInv, AuditTyped, CallsEnd, JournalFirst, Row, RowOf
<1>6. CASE EndTool
  <2>1. PICK made \in Seq(Outcomes), outcome \in Outcomes :
          calls = Append(made, Open) /\ calls' = [calls EXCEPT ![Len(calls)] = outcome]
    BY <1>1, <1>6 DEF EndTool, CallsEnd, Done, Outcomes
  <2>2. calls' = Append(made, outcome)
    <3>1. Append(made, Open) \in Seq(Outcomes \cup {Open}) /\ Append(made, outcome) \in Seq(Outcomes \cup {Open})
      BY Appended, <2>1 DEF Outcomes
    <3> DEFINE both == Outcomes \cup {Open}
               ended == Append(made, outcome)
    <3>2. /\ calls \in Seq(both) /\ Len(calls) \in 1..Len(calls) /\ Len(calls) = Len(made) + 1
          /\ \A i \in 1..Len(calls) : i # Len(calls) => calls[i] = ended[i]
          /\ ended[Len(calls)] = outcome /\ Len(ended) = Len(calls)
      BY <2>1, <3>1
    <3>3. outcome \in both /\ ended \in Seq(both)
      BY <2>1, <3>1
    <3> HIDE DEF both, ended
    <3>4. /\ calls' \in Seq(both) /\ Len(calls') = Len(calls)
          /\ \A i \in 1..Len(calls) : calls'[i] = IF i = Len(calls) THEN outcome ELSE calls[i]
      <4> DEFINE changed == [calls EXCEPT ![Len(calls)] = outcome]
      <4>1. /\ changed \in Seq(both) /\ Len(changed) = Len(calls)
            /\ \A i \in 1..Len(calls) : changed[i] = IF i = Len(calls) THEN outcome ELSE calls[i]
        BY <3>2, <3>3, LastChanged
      <4> HIDE DEF changed
      <4>2. calls' = changed
        BY <2>1 DEF changed
      <4> QED
        BY <4>1, <4>2
    <3>5. calls' = ended
      BY <3>2, <3>3, <3>4, SeqEqual
    <3> QED
      BY <3>5 DEF ended
  <2>3. calls' \in Seq(Outcomes) /\ calls' \in Seq(Outcomes \cup {Open})
    BY <2>2
  <2>4. Says(Noted("tool ended"))
    BY <1>6 DEF EndTool
  <2>5. /\ turnEvents' \in Seq(TurnEvent) /\ lost' \in Nat /\ EndsTold \subseteq EndsTold' /\ (lost' = 0 => lost = 0)
    BY <1>1, <2>4, AuditEvents, Telling
  <2> QED
    BY <1>1, <1>6, <2>3, <2>5 DEF EndTool, AuditIInv, AuditTyped, CallsEnd, JournalFirst, Row, RowOf
<1>7. CASE Decide
  BY <1>1, <1>7 DEF Decide, AuditIInv, AuditTyped, CallsEnd, JournalFirst, EndsTold, Row, RowOf
<1>8. CASE CloseInJournal
  <2>1. teller \in {"completed", "failed"} /\ calls \in Seq(Outcomes) /\ Says(Closed(teller, calls))
    BY <1>1, <1>8 DEF CloseInJournal, CallsEnd, FinalWord
  <2>2. Closed(teller, calls) \in TurnEvent /\ Closed(teller, calls).kind # "opened" /\ Closed(teller, calls).status = teller
    BY <2>1, AuditEvents DEF Closed
  <2>3. /\ turnEvents' \in Seq(TurnEvent) /\ lost' \in Nat /\ EndsTold \subseteq EndsTold'
        /\ lost' = 0 => lost = 0 /\ teller \in EndsTold'
    BY <1>1, <2>1, <2>2, Telling
  <2> QED
    BY <1>1, <1>8, <2>1, <2>3 DEF CloseInJournal, AuditIInv, AuditTyped, CallsEnd, JournalFirst, Row, RowOf
<1>9. CASE CloseInLedger
  <2>1. PICK s \in {"completed", "failed"} : teller = RowOf(s) /\ Enters(s)
    BY <1>9 DEF CloseInLedger
  <2>2. s \in Ends /\ rows' \in Seq({"started"} \cup Ends) /\ lost' \in Nat /\ (lost' = 0 => lost = 0 /\ Row' = s)
    BY <1>1, <2>1, Entering DEF Ends
  <2>3. lost = 0 => s \in EndsTold
    BY <1>1, <2>1 DEF JournalFirst
  <2>4. EndsTold' = EndsTold
    BY <1>9 DEF CloseInLedger, EndsTold
  <2> QED
    BY <1>1, <1>9, <2>2, <2>3, <2>4 DEF CloseInLedger, AuditIInv, AuditTyped, CallsEnd, JournalFirst, RowOf
<1>10. CASE Report \/ Die \/ Start
  BY <1>1, <1>10 DEF Report, Die, Start, AuditIInv, AuditTyped, CallsEnd, JournalFirst, EndsTold, Row, RowOf
<1>11. CASE InterruptInJournal
  <2>1. Says(ClosedUnseen) /\ ClosedUnseen.kind # "opened" /\ ClosedUnseen.status = "interrupted"
    BY <1>11 DEF InterruptInJournal, ClosedUnseen
  <2>2. /\ turnEvents' \in Seq(TurnEvent) /\ lost' \in Nat /\ EndsTold \subseteq EndsTold'
        /\ lost' = 0 => lost = 0 /\ "interrupted" \in EndsTold'
    BY <1>1, <2>1, AuditEvents, Telling
  <2> QED
    BY <1>1, <1>11, <2>2 DEF InterruptInJournal, AuditIInv, AuditTyped, CallsEnd, JournalFirst, Row
<1>12. CASE InterruptInLedger
  <2>1. Enters("interrupted") /\ "interrupted" \in Ends
    BY <1>12 DEF InterruptInLedger, Ends
  <2>2. rows' \in Seq({"started"} \cup Ends) /\ lost' \in Nat /\ (lost' = 0 => lost = 0 /\ Row' = "interrupted")
    BY <1>1, <2>1, Entering
  <2>3. EndsTold' = EndsTold
    BY <1>12 DEF InterruptInLedger, EndsTold
  <2> QED
    BY <1>1, <1>12, <2>2, <2>3 DEF InterruptInLedger, AuditIInv, AuditTyped, CallsEnd, JournalFirst
<1>13. CASE UNCHANGED auditVars
  BY <1>1, <1>13 DEF auditVars, AuditIInv, AuditTyped, CallsEnd, JournalFirst, EndsTold, Row
<1> QED
  BY <1>2, <1>3, <1>4, <1>5, <1>6, <1>7, <1>8, <1>9, <1>10, <1>11, <1>12, <1>13 DEF AuditNext

LEMMA AuditAgrees ==
  ASSUME AuditIInv
  PROVE  TurnAuditInv
<1>1. AuditTyped /\ JournalFirst
  BY DEF AuditIInv
<1>2. ASSUME NEW kinds
      PROVE  Latest(kinds) \in 0..Len(turnEvents) /\ (Latest(kinds) # 0 => turnEvents[Latest(kinds)] \in TurnEvent)
  <2>1. turnEvents \in Seq(TurnEvent)
    BY <1>1 DEF AuditTyped
  <2> QED
    BY <2>1, LatestIsLast
<1>3. /\ Audit.status \in {"none", "started"} \cup Ends
      /\ Audit.calls \in Seq(Outcomes)
  <2>1. PICK turning : turning = Latest({"opened", "closed", "closed unseen"})
    OBVIOUS
  <2>2. PICK telling : telling = Latest({"opened", "closed"})
    OBVIOUS
  <2>3. /\ Audit.status = IF turning = 0 THEN "none" ELSE turnEvents[turning].status
        /\ Audit.calls = IF telling = 0 THEN <<>> ELSE turnEvents[telling].calls
    BY <2>1, <2>2 DEF Audit
  <2>4. /\ turning # 0 => turnEvents[turning] \in TurnEvent
        /\ telling # 0 => turnEvents[telling] \in TurnEvent
    BY <1>2, <2>1, <2>2
  <2>5. \A e \in TurnEvent : e.status \in {"none", "started"} \cup Ends /\ e.calls \in Seq(Outcomes)
    BY DEF TurnEvent
  <2>6. <<>> \in Seq(Outcomes)
    OBVIOUS
  <2> QED
    BY <2>3, <2>4, <2>5, <2>6
<1>4. TurnAuditTypeOK
  BY <1>1, <1>3 DEF TurnAuditTypeOK, AuditTyped, Outcomes
<1>5. EndIsJournaledFirst
  BY <1>1 DEF JournalFirst, EndIsJournaledFirst, EndsTold
<1>6. ClosedTurnShowsItsTools
  BY <1>3 DEF ClosedTurnShowsItsTools, Outcomes, Open
<1> QED
  BY <1>4, <1>5, <1>6 DEF TurnAuditInv

\* The two records of a turn agree as far as the order of the writes can make
\* them, whichever process closes the turn and wherever one dies: an end the
\* conversation shows is in the journal when no append failed, and a turn that
\* the audit shows has an outcome for each of its tools (turn-audit.ts).
THEOREM RecordsOfATurnAgree == AuditSpec => []TurnAuditInv
<1>1. AuditInit => AuditIInv
  BY DEF AuditInit, AuditIInv, AuditTyped, CallsEnd, JournalFirst, RowOf, Row, Ends
<1>2. AuditIInv /\ [AuditNext]_auditVars => AuditIInv'
  BY AuditIsInductive
<1>3. AuditIInv => TurnAuditInv
  BY AuditAgrees
<1> QED
  BY <1>1, <1>2, <1>3, PTL DEF AuditSpec
=============================================================================

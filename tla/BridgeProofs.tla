---------------------------- MODULE BridgeProofs ----------------------------
(***************************************************************************)
(* Proofs about the turns of the Main Agent and the messages that ask for  *)
(* them, for every set of turns, servers and messages and every bound, where*)
(* the daemon answers one question at a time (OneAtATime):                 *)
(*   - MainAgentTurns: a turn is put to the model once, and is in the ledger;*)
(*   - MobileBridge: a row, and what is told of it, follow the turn it asked*)
(*     for, and a row that came to its end stays there.                    *)
(* What other modules need as well, of least and greatest numbers and of   *)
(* what a filter keeps of a sequence, comes first.                         *)
(***************************************************************************)
EXTENDS MobileBridge, Options, FiniteSetsExt, FiniteSetTheorems, WellFoundedInduction, TLAPS

-----------------------------------------------------------------------------
(* Numbers and sequences.                                                    *)

\* A set of numbers that is not empty has a least one.
LEMMA LeastNumber ==
  ASSUME NEW S, S \subseteq Nat, S # {}
  PROVE  \E x \in S : \A y \in S : x <= y
<1> DEFINE R == OpToRel(<, Nat)
<1>1. IsWellFoundedOn(R, Nat)
  BY NatLessThanWellFounded
<1>2. \A x, y \in Nat : y < x => <<y, x>> \in R
  BY DEF OpToRel
<1> HIDE DEF R
<1>3. PICK x \in S : \A y \in S : ~ (<<y, x>> \in R)
  BY <1>1, WFMin
<1>4. ASSUME NEW y \in S PROVE x <= y
  <2>1. x \in Nat /\ y \in Nat
    OBVIOUS
  <2>2. ~(y < x)
    BY <1>2, <1>3, <2>1
  <2> QED
    BY <2>1, <2>2
<1> QED
  BY <1>4

LEMMA LeastIs ==
  ASSUME NEW S, S \subseteq Nat, S # {}
  PROVE  Min(S) \in S
<1>1. PICK x \in S : \A y \in S : x <= y
  BY LeastNumber
<1> QED
  BY <1>1 DEF Min

\* A set of numbers up to a bound has a greatest one.
LEMMA GreatestIs ==
  ASSUME NEW n \in Nat, NEW S, S \subseteq 0..n, S # {}
  PROVE  Max(S) \in S /\ \A y \in S : y <= Max(S)
<1> DEFINE T == {n - y : y \in S}
<1>0. \A y \in S : y \in Nat /\ n - y \in Nat
  <2> SUFFICES ASSUME NEW y \in S PROVE y \in Nat /\ n - y \in Nat
    OBVIOUS
  <2>1. y \in 0..n
    OBVIOUS
  <2> QED
    BY <2>1
<1>1. T \subseteq Nat /\ T # {}
  BY <1>0
<1>2. PICK x \in T : \A y \in T : x <= y
  BY <1>1, LeastNumber
<1>3. PICK m \in S : x = n - m
  OBVIOUS
<1>4. ASSUME NEW y \in S PROVE m >= y
  <2>1. n - y \in T
    OBVIOUS
  <2> HIDE DEF T
  <2>2. n - m <= n - y
    BY <1>2, <1>3, <2>1
  <2>3. m \in Nat /\ y \in Nat
    BY <1>0
  <2> QED
    BY <2>2, <2>3
<1>6. Max(S) \in S /\ \A y \in S : Max(S) >= y
  BY <1>4 DEF Max
<1>7. ASSUME NEW y \in S PROVE y <= Max(S)
  <2>1. Max(S) \in Nat /\ y \in Nat /\ Max(S) >= y
    BY <1>0, <1>6
  <2> QED
    BY <2>1
<1> QED
  BY <1>6, <1>7

\* What Append does to a sequence of anything.
LEMMA Appends ==
  ASSUME NEW S, NEW s \in Seq(S), NEW e
  PROVE  /\ Append(s, e) \in Seq(S \cup {e})
         /\ Len(s) \in Nat /\ Len(Append(s, e)) = Len(s) + 1
         /\ DOMAIN s = 1 .. Len(s) /\ DOMAIN Append(s, e) = 1 .. Len(s) + 1
         /\ Append(s, e)[Len(s) + 1] = e
         /\ \A i \in 1 .. Len(s) : Append(s, e)[i] = s[i]
<1>1. s \in Seq(S \cup {e}) /\ e \in S \cup {e}
  OBVIOUS
<1> DEFINE T == S \cup {e}
<1> HIDE DEF T
<1>2. ASSUME NEW q \in Seq(T), NEW d \in T
      PROVE  /\ Append(q, d) \in Seq(T)
             /\ Len(q) \in Nat /\ Len(Append(q, d)) = Len(q) + 1
             /\ DOMAIN q = 1 .. Len(q) /\ DOMAIN Append(q, d) = 1 .. Len(q) + 1
             /\ Append(q, d)[Len(q) + 1] = d
             /\ \A i \in 1 .. Len(q) : Append(q, d)[i] = q[i]
  OBVIOUS
<1>3. s \in Seq(T) /\ e \in T
  BY <1>1 DEF T
<1> QED
  BY <1>2, <1>3 DEF T

LEMMA Extends ==
  ASSUME NEW S, NEW s \in Seq(S), NEW e \in S
  PROVE  /\ Append(s, e) \in Seq(S)
         /\ Len(s) \in Nat /\ Len(Append(s, e)) = Len(s) + 1
         /\ Append(s, e)[Len(s) + 1] = e
         /\ \A i \in 1 .. Len(s) : Append(s, e)[i] = s[i]
  OBVIOUS

\* What is kept of a sequence: as many elements as places, and each of them.
Keeps(chosen, s, places, T) ==
  /\ chosen \in Seq(T)
  /\ Len(chosen) = Cardinality(places \cap (1 .. Len(s)))
  /\ \A i \in places \cap (1 .. Len(s)) : \E k \in 1 .. Len(chosen) : chosen[k] = s[i]

LEMMA PickedOf ==
  ASSUME NEW U, NEW s \in Seq(U), NEW places, NEW T,
         \A i \in places \cap (1 .. Len(s)) : s[i] \in T
  PROVE  Keeps(Picked(s, places), s, places, T)
<1> DEFINE n == Len(s)
           Is(f, m) == f = [i \in 0..m |-> IF i = 0 THEN <<>> ELSE IF i \in places THEN Append(f[i - 1], s[i]) ELSE f[i - 1]]
           Good(m) == \E f : Is(f, m)
           Bad == {m \in 0..n : ~ Good(m)}
<1> HIDE DEF Good
<1>1. n \in Nat
  OBVIOUS
<1>2. Bad = {}
  <2> SUFFICES ASSUME Bad # {} PROVE FALSE
    OBVIOUS
  <2>1. Bad \subseteq Nat
    BY <1>1
  <2>2. PICK m \in Bad : \A y \in Bad : m <= y
    BY <2>1, LeastNumber
  <2>3. CASE m = 0
    <3> DEFINE g == [i \in 0..0 |-> <<>>]
    <3>1. g = [i \in 0..0 |-> IF i = 0 THEN <<>> ELSE IF i \in places THEN Append(g[i - 1], s[i]) ELSE g[i - 1]]
      <4>1. \A i \in 0..0 : i = 0
        OBVIOUS
      <4> QED
        BY <4>1
    <3>2. Is(g, 0)
      BY <3>1
    <3> QED
      BY <2>2, <2>3, <3>2 DEF Good
  <2>4. CASE m # 0
    <3>1. m - 1 \in 0..n /\ m \in Nat /\ ~(m <= m - 1)
      BY <1>1, <2>2, <2>4
    <3>2. PICK f : Is(f, m - 1)
      <4>1. Good(m - 1)
        BY <2>2, <3>1
      <4> QED
        BY <4>1 DEF Good
    <3> DEFINE next == IF m \in places THEN Append(f[m - 1], s[m]) ELSE f[m - 1]
               g == [i \in 0..m |-> IF i = m THEN next ELSE f[i]]
    <3> HIDE DEF next
    <3>3. ASSUME NEW i \in 0..m
          PROVE  g[i] = IF i = 0 THEN <<>> ELSE IF i \in places THEN Append(g[i - 1], s[i]) ELSE g[i - 1]
      <4>1. CASE i = m
        <5>1. g[i] = next /\ g[i - 1] = f[m - 1]
          BY <4>1, <2>4, <3>1
        <5> QED
          BY <5>1, <4>1, <2>4 DEF next
      <4>2. CASE i # m
        <5>1. i \in 0..(m - 1) /\ (i # 0 => i - 1 \in 0..(m - 1) /\ i - 1 # m /\ i - 1 \in 0..m)
          BY <4>2, <3>1
        <5>2. g[i] = f[i] /\ (i # 0 => g[i - 1] = f[i - 1])
          BY <4>2, <5>1
        <5>3. f[i] = IF i = 0 THEN <<>> ELSE IF i \in places THEN Append(f[i - 1], s[i]) ELSE f[i - 1]
          BY <3>2, <5>1
        <5> QED
          BY <5>2, <5>3
      <4> QED
        BY <4>1, <4>2
    <3>4. g = [i \in 0..m |-> g[i]]
      OBVIOUS
    <3> HIDE DEF g
    <3>5. Is(g, m)
      BY <3>3, <3>4
    <3> QED
      BY <2>2, <3>5 DEF Good
  <2> QED
    BY <2>3, <2>4
<1>3. \E f : Is(f, n)
  <2>1. n \in 0..n
    BY <1>1
  <2>2. Good(n)
    BY <1>2, <2>1
  <2> QED
    BY <2>2 DEF Good
<1>4. PICK f : Is(f, n) /\ Picked(s, places) = f[n]
  BY <1>3 DEF Picked
<1> DEFINE Has(q, m) ==
             /\ q \in Seq(T) /\ Len(q) = Cardinality(places \cap (1 .. m))
             /\ \A i \in places \cap (1 .. m) : \E k \in 1 .. Len(q) : q[k] = s[i]
           Off == {i \in 0..n : ~ Has(f[i], i)}
<1> HIDE DEF Has
<1>5. Off = {}
  <2> SUFFICES ASSUME Off # {} PROVE FALSE
    OBVIOUS
  <2>1. Off \subseteq Nat
    BY <1>1
  <2>2. PICK m \in Off : \A y \in Off : m <= y
    BY <2>1, LeastNumber
  <2>3. f[m] = IF m = 0 THEN <<>> ELSE IF m \in places THEN Append(f[m - 1], s[m]) ELSE f[m - 1]
    BY <1>4
  <2>4. Has(<<>>, 0)
    <3>1. places \cap (1 .. 0) = {} /\ Cardinality({}) = 0
      BY FS_EmptySet
    <3> QED
      BY <3>1 DEF Has
  <2>5. m # 0
    BY <2>2, <2>3, <2>4
  <2>6. m - 1 \in 0..n /\ m \in 1..n /\ m \in Nat /\ ~(m <= m - 1)
    BY <1>1, <2>5
  <2> DEFINE q == f[m - 1]
             C == places \cap (1 .. (m - 1))
  <2>7. Has(q, m - 1)
    BY <2>2, <2>6
  <2> HIDE DEF q
  <2>8. IsFiniteSet(C) /\ m \notin C
    <3>1. IsFiniteSet(1 .. (m - 1))
      BY <2>6, FS_Interval
    <3> QED
      BY <3>1, FS_Subset, <2>6
  <2>9. CASE m \in places
    <3>1. places \cap (1 .. m) = C \cup {m}
      BY <2>6, <2>9
    <3>2. Cardinality(places \cap (1 .. m)) = Cardinality(C) + 1
      BY <3>1, <2>8, FS_AddElement
    <3>3. q \in Seq(T) /\ s[m] \in T /\ Len(q) = Cardinality(C)
      BY <2>6, <2>7, <2>9 DEF Has
    <3> DEFINE t == Append(q, s[m])
    <3>4. t \in Seq(T) /\ Len(t) = Len(q) + 1 /\ t[Len(q) + 1] = s[m] /\ (\A k \in 1 .. Len(q) : t[k] = q[k]) /\ Len(q) \in Nat
      <4>1. ASSUME NEW r \in Seq(T), NEW e \in T
            PROVE  /\ Append(r, e) \in Seq(T) /\ Len(Append(r, e)) = Len(r) + 1 /\ Append(r, e)[Len(r) + 1] = e
                   /\ (\A k \in 1 .. Len(r) : Append(r, e)[k] = r[k]) /\ Len(r) \in Nat
        BY Extends
      <4> QED
        BY <3>3, <4>1
    <3> HIDE DEF t
    <3>5. ASSUME NEW i \in places \cap (1 .. m) PROVE \E k \in 1 .. Len(t) : t[k] = s[i]
      <4>1. CASE i = m
        BY <4>1, <3>4
      <4>2. CASE i # m
        <5>1. i \in C
          BY <3>1, <4>2
        <5>2. PICK k \in 1 .. Len(q) : q[k] = s[i]
          BY <5>1, <2>7 DEF Has
        <5> QED
          BY <5>2, <3>4
      <4> QED BY <4>1, <4>2
    <3>6. Has(t, m)
      BY <3>2, <3>3, <3>4, <3>5 DEF Has
    <3> QED
      BY <3>6, <2>2, <2>3, <2>5, <2>9 DEF t, q
  <2>10. CASE m \notin places
    <3>1. places \cap (1 .. m) = C
      BY <2>6, <2>10
    <3>2. Has(q, m)
      BY <3>1, <2>7 DEF Has
    <3> QED
      BY <3>2, <2>2, <2>3, <2>5, <2>10 DEF q
  <2> QED
    BY <2>9, <2>10
<1>6. n \in 0..n
  BY <1>1
<1>7. Has(f[n], n)
  BY <1>5, <1>6
<1> QED
  BY <1>4, <1>7 DEF Has, Keeps

LEMMA PickedIs ==
  ASSUME NEW T, NEW s \in Seq(T), NEW places
  PROVE  Keeps(Picked(s, places), s, places, T)
<1>1. \A i \in places \cap (1 .. Len(s)) : s[i] \in T
  OBVIOUS
<1> QED
  BY <1>1, PickedOf

-----------------------------------------------------------------------------
(* MainAgentTurns.                                                           *)

\* Before its turn is entered in the ledger ...
Preparing == {"opening", "reading", "unlinking", "naming", "preparing"}

\* Nobody put a turn to the model that is still being prepared.
Unasked ==
  \A p \in Servers : server[p].at \in Preparing =>
    server[p].turn \in Turns /\ executions[server[p].turn] = 0

\* A turn that was put to the model is in the ledger, for good.
Entered == \A t \in Turns : executions[t] <= 1 /\ (executions[t] > 0 => ledger[t] # "none")

TurnsIInv == TurnsTypeOK /\ Unasked /\ Entered

LEMMA TurnsBegin == TurnsInit => TurnsIInv
<1> SUFFICES ASSUME TurnsInit PROVE TurnsIInv
  OBVIOUS
<1> USE DEF TurnsInit
<1>1. TurnsTypeOK
  BY MainAgentAssumption DEF TurnsTypeOK, TurnEnds, Steps, Inside, Answers, Idle, NoFile, Gone
<1>2. Unasked /\ Entered
  BY DEF Unasked, Entered, Preparing, Idle
<1> QED BY <1>1, <1>2 DEF TurnsIInv

ServerRecord == [at : Steps, turn : Turns \cup {NoTurn}, round : 0..MaxRounds, outcome : Answers]

\* What the actions write into the record of a server.
LEMMA ServerWrites ==
  ASSUME NEW s \in ServerRecord, NEW where \in Steps, NEW answer \in Answers
  PROVE  /\ [s EXCEPT !.at = where] \in ServerRecord
         /\ [s EXCEPT !.at = where, !.outcome = answer] \in ServerRecord
         /\ [Idle EXCEPT !.at = where] \in ServerRecord
         /\ [Idle EXCEPT !.at = where, !.turn = s.turn, !.outcome = answer] \in ServerRecord
         /\ \A t \in Turns : [Idle EXCEPT !.at = where, !.turn = t, !.outcome = answer] \in ServerRecord
         /\ Idle \in ServerRecord
<1>1. [s EXCEPT !.at = where] \in ServerRecord
  BY DEF ServerRecord
<1>2. [s EXCEPT !.at = where, !.outcome = answer] \in ServerRecord
  BY DEF ServerRecord
<1>3. Idle = [at |-> "idle", turn |-> NoTurn, round |-> 0, outcome |-> "none"]
  BY DEF Idle
<1>4. "idle" \in Steps /\ "none" \in Answers /\ 0 \in 0..MaxRounds
  BY MainAgentAssumption DEF Steps, Answers
<1>5. Idle \in ServerRecord
  BY <1>3, <1>4 DEF ServerRecord
<1>6. [Idle EXCEPT !.at = where] \in ServerRecord
  BY <1>5 DEF ServerRecord
<1>7. s.turn \in Turns \cup {NoTurn}
  BY DEF ServerRecord
<1>8. ASSUME NEW u \in Turns \cup {NoTurn}
      PROVE  [Idle EXCEPT !.at = where, !.turn = u, !.outcome = answer] \in ServerRecord
  BY <1>5 DEF ServerRecord
<1>9. [Idle EXCEPT !.at = where, !.turn = s.turn, !.outcome = answer] \in ServerRecord
  BY <1>7, <1>8
<1>10. \A t \in Turns : [Idle EXCEPT !.at = where, !.turn = t, !.outcome = answer] \in ServerRecord
  BY <1>8
<1> QED BY <1>1, <1>2, <1>5, <1>6, <1>9, <1>10

\* What the actions write into the record of one server.
LEMMA ServersWrite ==
  ASSUME server \in [Servers -> ServerRecord], NEW p \in Servers
  PROVE  /\ \A where \in Steps : [server EXCEPT ![p].at = where] \in [Servers -> ServerRecord]
         /\ \A where \in Steps, answer \in Answers :
              /\ [server EXCEPT ![p].at = where, ![p].outcome = answer] \in [Servers -> ServerRecord]
              /\ [server EXCEPT ![p] = [Idle EXCEPT !.at = where, !.turn = server[p].turn, !.outcome = answer]]
                   \in [Servers -> ServerRecord]
              /\ \A t \in Turns :
                   [server EXCEPT ![p] = [Idle EXCEPT !.at = where, !.turn = t, !.outcome = answer]]
                     \in [Servers -> ServerRecord]
         /\ \A where \in Steps : [server EXCEPT ![p] = [Idle EXCEPT !.at = where]] \in [Servers -> ServerRecord]
         /\ [server EXCEPT ![p] = Idle] \in [Servers -> ServerRecord]
<1>1. server[p] \in ServerRecord
  OBVIOUS
<1>2. ASSUME NEW s \in ServerRecord PROVE [server EXCEPT ![p] = s] \in [Servers -> ServerRecord]
  OBVIOUS
<1>3. ASSUME NEW where \in Steps PROVE [server EXCEPT ![p].at = where] \in [Servers -> ServerRecord]
  <2>1. [server[p] EXCEPT !.at = where] \in ServerRecord
    BY <1>1 DEF ServerRecord
  <2> QED BY <2>1, <1>2
<1>4. ASSUME NEW where \in Steps PROVE [server EXCEPT ![p] = [Idle EXCEPT !.at = where]] \in [Servers -> ServerRecord]
  <2>1. "none" \in Answers
    BY DEF Answers
  <2>2. [Idle EXCEPT !.at = where] \in ServerRecord
    BY <1>1, <2>1, ServerWrites
  <2> QED BY <2>2, <1>2
<1>5. [server EXCEPT ![p] = Idle] \in [Servers -> ServerRecord]
  <2>1. "none" \in Answers /\ "idle" \in Steps
    BY DEF Answers, Steps
  <2>2. Idle \in ServerRecord
    BY <1>1, <2>1, ServerWrites
  <2> QED BY <2>2, <1>2
<1>6. ASSUME NEW where \in Steps, NEW answer \in Answers
      PROVE  /\ [server EXCEPT ![p].at = where, ![p].outcome = answer] \in [Servers -> ServerRecord]
             /\ [server EXCEPT ![p] = [Idle EXCEPT !.at = where, !.turn = server[p].turn, !.outcome = answer]]
                  \in [Servers -> ServerRecord]
             /\ \A t \in Turns :
                   [server EXCEPT ![p] = [Idle EXCEPT !.at = where, !.turn = t, !.outcome = answer]]
                     \in [Servers -> ServerRecord]
  <2>1. [server[p] EXCEPT !.at = where, !.outcome = answer] \in ServerRecord
    BY <1>1 DEF ServerRecord
  <2>2. [server EXCEPT ![p].at = where, ![p].outcome = answer] = [server EXCEPT ![p] = [server[p] EXCEPT !.at = where, !.outcome = answer]]
    OBVIOUS
  <2>3. [Idle EXCEPT !.at = where, !.turn = server[p].turn, !.outcome = answer] \in ServerRecord
    BY <1>1, ServerWrites
  <2>4. \A t \in Turns : [Idle EXCEPT !.at = where, !.turn = t, !.outcome = answer] \in ServerRecord
    BY <1>1, ServerWrites
  <2> QED BY <2>1, <2>2, <2>3, <2>4, <1>2
<1> QED BY <1>3, <1>4, <1>5, <1>6

LEMMA TurnsTypes == TurnsTypeOK /\ [TurnsNext]_turnVars => TurnsTypeOK'
<1> SUFFICES ASSUME TurnsTypeOK, [TurnsNext]_turnVars PROVE TurnsTypeOK'
  OBVIOUS
<1>T. /\ ledger \in [Turns -> {"none", "started"} \cup TurnEnds]
      /\ owner \in [Turns -> Servers \cup {Gone}]
      /\ promptLock \in [by : Servers \cup {Gone}, named : BOOLEAN]
      /\ server \in [Servers -> ServerRecord]
      /\ reports \subseteq Turns
      /\ executions \in [Turns -> Nat]
      /\ deaths \in Nat /\ reported \in Nat
  BY DEF TurnsTypeOK, ServerRecord
<1>S. ASSUME /\ ledger' \in [Turns -> {"none", "started"} \cup TurnEnds]
             /\ owner' \in [Turns -> Servers \cup {Gone}]
             /\ promptLock' \in [by : Servers \cup {Gone}, named : BOOLEAN]
             /\ server' \in [Servers -> ServerRecord]
             /\ reports' \subseteq Turns
             /\ executions' \in [Turns -> Nat]
             /\ deaths' \in Nat /\ reported' \in Nat
      PROVE  TurnsTypeOK'
  BY <1>S DEF TurnsTypeOK, ServerRecord
<1>P. /\ {"down", "idle", "opening", "reading", "unlinking", "answered"} \subseteq Steps
      /\ {"naming", "preparing", "running", "closing", "leaving"} \subseteq Steps
      /\ {"none", "reply", "busy", "over", "broken"} \subseteq Answers
  BY DEF Steps, Inside, Answers
<1>0. CASE UNCHANGED turnVars
  BY <1>0, <1>T, <1>S DEF turnVars
<1>1. ASSUME NEW p \in Servers, NEW t \in Turns, Receive(p, t) PROVE TurnsTypeOK'
  <2>1. KnownAnswer(t) \in Answers
    BY <1>P DEF KnownAnswer
  <2>2. PICK where \in Steps : server' = [server EXCEPT ![p] = [Idle EXCEPT !.at = where, !.turn = t, !.outcome = KnownAnswer(t)]]
    BY <1>1, <1>P DEF Receive
  <2>3. server' \in [Servers -> ServerRecord]
    BY <2>1, <2>2, <1>T, ServersWrite
  <2> QED BY <1>1, <1>T, <2>3, <1>S DEF Receive
<1>2. ASSUME NEW p \in Servers, OpenLock(p) PROVE TurnsTypeOK'
  <2>1. PICK where \in Steps : server' = [server EXCEPT ![p].at = where]
    BY <1>2, <1>P DEF OpenLock
  <2>2. server' \in [Servers -> ServerRecord]
    BY <2>1, <1>T, ServersWrite
  <2>3. promptLock' \in [by : Servers \cup {Gone}, named : BOOLEAN]
    <3>1. promptLock' = [by |-> p, named |-> FALSE] \/ promptLock' = promptLock
      BY <1>2 DEF OpenLock
    <3>2. [by |-> p, named |-> FALSE] \in [by : Servers \cup {Gone}, named : BOOLEAN]
      OBVIOUS
    <3> QED BY <3>1, <3>2, <1>T
  <2> QED BY <1>2, <1>T, <2>2, <2>3, <1>S DEF OpenLock
<1>3. ASSUME NEW p \in Servers, NameLock(p) PROVE TurnsTypeOK'
  <2>1. server' = [server EXCEPT ![p].at = "preparing"]
    BY <1>3 DEF NameLock, Step
  <2>2. server' \in [Servers -> ServerRecord]
    BY <2>1, <1>P, <1>T, ServersWrite
  <2>3. promptLock' \in [by : Servers \cup {Gone}, named : BOOLEAN]
    BY <1>3, <1>T DEF NameLock
  <2> QED BY <1>3, <1>T, <2>2, <2>3, <1>S DEF NameLock
<1>4. ASSUME NEW p \in Servers, ReadLock(p) PROVE TurnsTypeOK'
  <2>1. \/ server' = [server EXCEPT ![p].at = "unlinking"]
        \/ server' = [server EXCEPT ![p] = [Idle EXCEPT !.at = "answered", !.turn = server[p].turn, !.outcome = "busy"]]
    <3>1. CASE Stale
      BY <1>4, <3>1 DEF ReadLock
    <3>2. CASE ~ Stale
      BY <1>4, <3>2 DEF ReadLock, Reply
    <3> QED BY <3>1, <3>2
  <2>2. "unlinking" \in Steps /\ "answered" \in Steps /\ "busy" \in Answers
    BY <1>P
  <2>3. /\ [server EXCEPT ![p].at = "unlinking"] \in [Servers -> ServerRecord]
        /\ [server EXCEPT ![p] = [Idle EXCEPT !.at = "answered", !.turn = server[p].turn, !.outcome = "busy"]]
             \in [Servers -> ServerRecord]
    BY <2>2, <1>T, ServersWrite
  <2>4. server' \in [Servers -> ServerRecord]
    BY <2>1, <2>3
  <2> QED BY <1>4, <1>T, <2>4, <1>S DEF ReadLock
<1>5. ASSUME NEW p \in Servers, UnlinkStale(p) PROVE TurnsTypeOK'
  <2>1. server' = [server EXCEPT ![p].at = "opening"]
    BY <1>5 DEF UnlinkStale, Step
  <2>2. server' \in [Servers -> ServerRecord]
    BY <2>1, <1>P, <1>T, ServersWrite, "opening" \in Steps
  <2>3. promptLock' \in [by : Servers \cup {Gone}, named : BOOLEAN]
    BY <1>5 DEF UnlinkStale, NoFile
  <2> QED BY <1>5, <1>T, <2>2, <2>3, <1>S DEF UnlinkStale
<1>6. ASSUME NEW p \in Servers, Leave(p) PROVE TurnsTypeOK'
  <2>1. server[p].outcome \in Answers
    BY <1>T DEF ServerRecord
  <2>2. server' = [server EXCEPT ![p] = [Idle EXCEPT !.at = "answered", !.turn = server[p].turn, !.outcome = server[p].outcome]]
    BY <1>6 DEF Leave, Reply
  <2>3. server' \in [Servers -> ServerRecord]
    BY <2>1, <2>2, <1>P, <1>T, ServersWrite
  <2>4. promptLock' \in [by : Servers \cup {Gone}, named : BOOLEAN]
    BY <1>6 DEF Leave, NoFile
  <2> QED BY <1>6, <1>T, <2>3, <2>4, <1>S DEF Leave
<1>7. ASSUME NEW p \in Servers, BeginTurn(p) PROVE TurnsTypeOK'
  <2>1. server' = [server EXCEPT ![p].at = "running"]
    BY <1>7 DEF BeginTurn, Step
  <2>2. server' \in [Servers -> ServerRecord]
    BY <2>1, <1>P, <1>T, ServersWrite
  <2>3. executions' \in [Turns -> Nat]
    <3>1. executions' = [executions EXCEPT ![server[p].turn] = executions[server[p].turn] + 1]
      BY <1>7 DEF BeginTurn
    <3>2. CASE server[p].turn \in Turns
      BY <3>1, <3>2, <1>T
    <3>3. CASE server[p].turn \notin Turns
      BY <3>1, <3>3, <1>T
    <3> QED BY <3>2, <3>3
  <2>4. ledger' \in [Turns -> {"none", "started"} \cup TurnEnds] /\ owner' \in [Turns -> Servers \cup {Gone}]
    BY <1>7, <1>T DEF BeginTurn
  <2> QED BY <1>7, <1>T, <2>2, <2>3, <2>4, <1>S DEF BeginTurn
<1>8. ASSUME NEW p \in Servers, FinishTurn(p) PROVE TurnsTypeOK'
  <2>1. server' = [server EXCEPT ![p].at = "leaving"]
    BY <1>8 DEF FinishTurn, Step
  <2>2. server' \in [Servers -> ServerRecord]
    BY <2>1, <1>P, <1>T, ServersWrite
  <2>3. ledger' \in [Turns -> {"none", "started"} \cup TurnEnds] /\ owner' \in [Turns -> Servers \cup {Gone}]
    BY <1>8, <1>T DEF FinishTurn, TurnEnds
  <2> QED BY <1>8, <1>T, <2>2, <2>3, <1>S DEF FinishTurn
<1>9. ASSUME NEW p \in Servers, PrepareFails(p) \/ ModelEnds(p) PROVE TurnsTypeOK'
  <2>1. PICK where \in Steps, answer \in Answers : server' = [server EXCEPT ![p].at = where, ![p].outcome = answer]
    BY <1>9, <1>P DEF PrepareFails, ModelEnds
  <2>2. server' \in [Servers -> ServerRecord]
    BY <2>1, <1>T, ServersWrite
  <2> QED BY <1>9, <1>T, <2>2, <1>S DEF PrepareFails, ModelEnds
<1>10. ASSUME NEW p \in Servers, CallTools(p) PROVE TurnsTypeOK'
  <2>1. CASE MoreRounds(p)
    <3>1. server[p] \in ServerRecord /\ server[p].round \in 0..MaxRounds
      BY <1>T DEF ServerRecord
    <3>2. server[p].round + 1 \in 0..MaxRounds
      BY <2>1, <3>1, MainAgentAssumption DEF MoreRounds
    <3>3. [server[p] EXCEPT !.round = server[p].round + 1] \in ServerRecord
      BY <3>1, <3>2 DEF ServerRecord
    <3>4. server' = [server EXCEPT ![p] = [server[p] EXCEPT !.round = server[p].round + 1]]
      BY <1>10, <2>1 DEF CallTools
    <3> QED BY <1>10, <1>T, <3>3, <3>4, <1>S DEF CallTools
  <2>2. CASE ~ MoreRounds(p)
    <3>1. server' = [server EXCEPT ![p].at = "closing", ![p].outcome = "broken"]
      BY <1>10, <2>2 DEF CallTools
    <3>2. server' \in [Servers -> ServerRecord]
      BY <3>1, <1>P, <1>T, ServersWrite
    <3> QED BY <1>10, <1>T, <3>2, <1>S DEF CallTools
  <2> QED BY <2>1, <2>2
<1>11. ASSUME NEW p \in Servers, Hang(p) PROVE TurnsTypeOK'
  <2>1. server' \in [Servers -> ServerRecord]
    BY <1>11, <1>T, ServersWrite DEF Hang
  <2> QED BY <1>11, <1>T, <2>1, <1>S DEF Hang
<1>12. ASSUME NEW p \in Servers, Die(p) PROVE TurnsTypeOK'
  <2>1. server' = [server EXCEPT ![p] = [Idle EXCEPT !.at = "down"]]
    BY <1>12 DEF Die
  <2>2. server' \in [Servers -> ServerRecord]
    BY <2>1, <1>P, <1>T, ServersWrite
  <2>3. promptLock' \in [by : Servers \cup {Gone}, named : BOOLEAN] /\ owner' \in [Turns -> Servers \cup {Gone}]
    BY <1>12, <1>T DEF Die
  <2> QED BY <1>12, <1>T, <2>2, <2>3, <1>S DEF Die
<1>13. ASSUME NEW p \in Servers, StartDaemon(p) PROVE TurnsTypeOK'
  <2>1. server' \in [Servers -> ServerRecord]
    BY <1>13, <1>T, ServersWrite DEF StartDaemon
  <2>2. ledger' \in [Turns -> {"none", "started"} \cup TurnEnds]
    BY <1>13, <1>T DEF StartDaemon, Reconciled, TurnEnds
  <2> QED BY <1>13, <1>T, <2>1, <2>2, <1>S DEF StartDaemon
<1>14. ASSUME NEW t \in Turns, Report(t) \/ RecordInterrupted(t) PROVE TurnsTypeOK'
  <2>1. ledger' \in [Turns -> {"none", "started"} \cup TurnEnds] /\ reports' \subseteq Turns
    BY <1>14, <1>T DEF Report, RecordInterrupted, TurnEnds
  <2> QED BY <1>14, <1>T, <2>1, <1>S DEF Report, RecordInterrupted
<1> QED
  BY <1>0, <1>1, <1>2, <1>3, <1>4, <1>5, <1>6, <1>7, <1>8, <1>9, <1>10, <1>11, <1>12, <1>13, <1>14
  DEF TurnsNext, AnswerStep

\* A server that prepares a turn has it from a reading of the ledger that did not
\* know the turn; alone, it is the only one to put a turn to the model.
LEMMA TurnsStep == ASSUME OneAtATime PROVE TurnsIInv /\ [TurnsNext]_turnVars => TurnsIInv'
<1> SUFFICES ASSUME TurnsIInv, [TurnsNext]_turnVars PROVE (Unasked /\ Entered)'
  BY TurnsTypes DEF TurnsIInv
<1> USE DEF TurnsIInv, Unasked, Entered
<1>T. /\ server \in [Servers -> ServerRecord]
      /\ executions \in [Turns -> Nat]
      /\ ledger \in [Turns -> {"none", "started"} \cup TurnEnds]
  BY DEF TurnsTypeOK, ServerRecord
<1>0. CASE UNCHANGED turnVars
  BY <1>0 DEF turnVars
<1>A. ASSUME NEW p \in Servers, UNCHANGED <<ledger, executions>>,
             server' = [server EXCEPT ![p] = server'[p]],
             server'[p].at \notin Preparing \/ (server[p].at \in Preparing /\ server'[p].turn = server[p].turn)
      PROVE  (Unasked /\ Entered)'
  BY <1>A, <1>T
<1>1. ASSUME NEW p \in Servers, NEW t \in Turns, Receive(p, t) PROVE (Unasked /\ Entered)'
  <2>1. KnownAnswer(t) = "none" => ledger[t] = "none"
    BY <1>T DEF KnownAnswer, TurnEnds
  <2>2. executions[t] \in Nat
    BY <1>T
  <2>3. KnownAnswer(t) = "none" => executions[t] = 0
    BY <2>1, <2>2
  <2>4. server'[p].turn = t /\ (server'[p].at \in Preparing => KnownAnswer(t) = "none")
    BY <1>1, <1>T DEF Receive, Preparing, Idle
  <2> QED BY <1>1, <1>T, <2>3, <2>4 DEF Receive
<1>2. ASSUME NEW p \in Servers, OpenLock(p) \/ NameLock(p) \/ ReadLock(p) \/ UnlinkStale(p) PROVE (Unasked /\ Entered)'
  <2>1. server[p].at \in Preparing
    BY <1>2 DEF OpenLock, NameLock, ReadLock, UnlinkStale, Step, Preparing
  <2>2. \/ \E where \in Steps : server' = [server EXCEPT ![p].at = where]
        \/ server' = [server EXCEPT ![p] = [Idle EXCEPT !.at = "answered", !.turn = server[p].turn, !.outcome = "busy"]]
    BY <1>2 DEF OpenLock, NameLock, ReadLock, UnlinkStale, Step, Reply, Steps, Inside
  <2>3. server'[p].turn = server[p].turn /\ server' = [server EXCEPT ![p] = server'[p]]
    BY <2>2, <1>T DEF Idle, ServerRecord
  <2>4. UNCHANGED <<ledger, executions>>
    BY <1>2 DEF OpenLock, NameLock, ReadLock, UnlinkStale
  <2> QED BY <1>A, <2>1, <2>3, <2>4
<1>3. ASSUME NEW p \in Servers, PrepareFails(p) \/ CallTools(p) \/ ModelEnds(p) \/ Leave(p) \/ Hang(p) PROVE (Unasked /\ Entered)'
  <2>1. CASE PrepareFails(p) \/ ModelEnds(p)
    <3>1. \E where \in {"leaving", "closing"}, answer \in Answers : server' = [server EXCEPT ![p].at = where, ![p].outcome = answer]
      BY <2>1 DEF PrepareFails, ModelEnds, Answers
    <3>2. server' = [server EXCEPT ![p] = server'[p]] /\ server'[p].at \notin Preparing
      BY <3>1, <1>T DEF Preparing, ServerRecord
    <3> QED BY <2>1, <3>2, <1>A DEF PrepareFails, ModelEnds
  <2>2. CASE CallTools(p)
    <3>1. server[p].at = "running"
      BY <2>2 DEF CallTools
    <3>2. \/ server' = [server EXCEPT ![p].round = server[p].round + 1]
          \/ server' = [server EXCEPT ![p].at = "closing", ![p].outcome = "broken"]
      BY <2>2 DEF CallTools
    <3>3. server' = [server EXCEPT ![p] = server'[p]] /\ server'[p].at \notin Preparing
      BY <3>1, <3>2, <1>T DEF Preparing, ServerRecord
    <3> QED BY <2>2, <3>3, <1>A DEF CallTools
  <2>3. CASE Leave(p) \/ Hang(p)
    <3>1. \/ server' = [server EXCEPT ![p] = Idle]
          \/ server' = [server EXCEPT ![p] = [Idle EXCEPT !.at = "answered", !.turn = server[p].turn, !.outcome = server[p].outcome]]
      BY <2>3 DEF Leave, Hang, Reply
    <3>2. /\ Idle.at \notin Preparing
          /\ \A t, answer : [Idle EXCEPT !.at = "answered", !.turn = t, !.outcome = answer].at \notin Preparing
      BY DEF Idle, Preparing
    <3>3. CASE server' = [server EXCEPT ![p] = Idle]
      <4>1. server'[p] = Idle
        BY <3>3, <1>T
      <4> QED BY <2>3, <3>2, <3>3, <4>1, <1>A DEF Leave, Hang
    <3>4. CASE server' = [server EXCEPT ![p] = [Idle EXCEPT !.at = "answered", !.turn = server[p].turn, !.outcome = server[p].outcome]]
      <4>1. server'[p] = [Idle EXCEPT !.at = "answered", !.turn = server[p].turn, !.outcome = server[p].outcome]
        BY <3>4, <1>T
      <4> QED BY <2>3, <3>2, <3>4, <4>1, <1>A DEF Leave, Hang
    <3> QED BY <3>1, <3>3, <3>4
  <2> QED BY <1>3, <2>1, <2>2, <2>3
<1>4. ASSUME NEW p \in Servers, BeginTurn(p) PROVE (Unasked /\ Entered)'
  <2>1. server[p].turn \in Turns /\ executions[server[p].turn] = 0
    BY <1>4 DEF BeginTurn, Step, Preparing
  <2>2. \A q \in Servers : server'[q].at \notin Preparing
    BY <1>4, <1>T, OneAtATime DEF BeginTurn, Step, Preparing, OneAtATime, ServerRecord
  <2>3. \A t \in Turns : /\ executions'[t] = IF t = server[p].turn THEN 1 ELSE executions[t]
                         /\ ledger'[t] = IF t = server[p].turn THEN "started" ELSE ledger[t]
    BY <1>4, <1>T, <2>1 DEF BeginTurn
  <2> QED BY <2>2, <2>3, <1>T
<1>5. ASSUME NEW p \in Servers, FinishTurn(p) PROVE (Unasked /\ Entered)'
  <2>1. \A t \in Turns : ledger'[t] = "none" => ledger[t] = "none"
    BY <1>5, <1>T DEF FinishTurn
  <2>2. server' = [server EXCEPT ![p] = server'[p]] /\ server'[p].at \notin Preparing
    BY <1>5, <1>T DEF FinishTurn, Step, Preparing, ServerRecord
  <2> QED BY <1>5, <1>T, <2>1, <2>2 DEF FinishTurn
<1>6. ASSUME NEW p \in Servers, Die(p) PROVE (Unasked /\ Entered)'
  BY <1>6, <1>T, <1>A DEF Die, Idle, Preparing
<1>7. ASSUME NEW p \in Servers, StartDaemon(p) PROVE (Unasked /\ Entered)'
  <2>1. \A t \in Turns : ledger'[t] = "none" => ledger[t] = "none"
    BY <1>7, <1>T DEF StartDaemon, Reconciled
  <2>2. server' = [server EXCEPT ![p] = server'[p]] /\ server'[p].at \notin Preparing
    BY <1>7, <1>T DEF StartDaemon, Idle, Preparing
  <2> QED BY <1>7, <1>T, <2>1, <2>2 DEF StartDaemon
<1>8. ASSUME NEW t \in Turns, Report(t) PROVE (Unasked /\ Entered)'
  BY <1>8 DEF Report
<1>9. ASSUME NEW t \in Turns, RecordInterrupted(t) PROVE (Unasked /\ Entered)'
  <2>1. \A u \in Turns : ledger'[u] = "none" => ledger[u] = "none"
    BY <1>9, <1>T DEF RecordInterrupted
  <2> QED BY <1>9, <2>1 DEF RecordInterrupted
<1> QED
  BY <1>0, <1>1, <1>2, <1>3, <1>4, <1>5, <1>6, <1>7, <1>8, <1>9 DEF TurnsNext, AnswerStep

\* As long as a daemon answers its requests one after the other, a question is put
\* to the model at most once, over retries, stale locks, deaths and reports of an
\* interruption: who prepares a turn found none of it in the ledger, and the
\* ledger never forgets a turn (native-runtime.ts, companion-server.ts).
THEOREM TurnsHold == ASSUME OneAtATime PROVE TurnsSpec => []TurnsInv
<1>1. TurnsIInv => TurnsInv
  BY DEF TurnsIInv, Entered, TurnsInv, TurnRunsOnce
<1> QED BY <1>1, TurnsBegin, TurnsStep, PTL DEF TurnsSpec

-----------------------------------------------------------------------------
(* MobileBridge.                                                             *)

\* Where a server is with a turn, the ledger says; nobody but the servers writes to it.
Told ==
  /\ reports = {}
  /\ \A p \in Servers :
       /\ server[p].at \in Preparing =>
            server[p].turn \in Turns /\ ledger[server[p].turn] = "none" /\ server[p].outcome = "none"
       /\ server[p].at \in {"running", "closing"} =>
            server[p].turn \in Turns /\ ledger[server[p].turn] = "started"
       /\ server[p].at \in {"leaving", "answered"} /\ server[p].outcome = "reply" =>
            server[p].turn \in Turns /\ ledger[server[p].turn] = "completed"

\* What the drain loop holds is being processed, and nothing else is.
Holding == {"asking", "waiting", "answered", "sent"}
Held ==
  /\ drainer.at \in Holding \cup {"noticing"} => drainer.message \in Messages
  /\ drainer.at \in Holding => inbox[drainer.message].status = "processing"
  /\ drainer.at = "noticing" => inbox[drainer.message].status = "pending"
  /\ Up => \A m \in Messages : inbox[m].status = "processing" =>
             drainer.message = m /\ drainer.at \in Holding

\* A reply the drain loop has is the one the turn ended with.
Earned ==
  /\ drainer.at = "answered" /\ drainer.answer = "reply" => ledger[drainer.message] = "completed"
  /\ drainer.at = "sent" => ledger[drainer.message] = "completed" /\ replies[drainer.message] > 0
  /\ \A m \in Messages : inbox[m].status = "completed" => ledger[m] = "completed" /\ replies[m] > 0

BridgeIInv == BridgeTypeOK /\ TurnsIInv /\ Told /\ Held /\ Earned

\* What the bridge and the daemon do to turns: no client reports an interruption.
ServersNext ==
  \E p \in Servers : AnswerStep(p) \/ Hang(p) \/ Die(p) \/ \E t \in Turns : Receive(p, t)

LEMMA BridgeMovesTurns == Held /\ [BridgeNext]_bridgeVars => ServersNext \/ UNCHANGED turnVars
<1> SUFFICES ASSUME Held, [BridgeNext]_bridgeVars PROVE ServersNext \/ UNCHANGED turnVars
  OBVIOUS
<1>0. CASE UNCHANGED bridgeVars
  BY <1>0 DEF bridgeVars
<1>1. CASE \E m \in Messages : ReceiveWebhook(m)
  BY <1>1 DEF ReceiveWebhook
<1>2. CASE WindowPasses \/ AskInVain \/ AskRefused \/ BridgeDies
  BY <1>2 DEF WindowPasses, AskInVain, AskRefused, BridgeDies, OnlyDrainer
<1>3. CASE ClaimNext \/ SendReply \/ CompleteRow \/ FailRow \/ Requeue \/ Notice \/ Tick \/ TimerFires \/ BridgeStarts
  BY <1>3 DEF ClaimNext, SendReply, CompleteRow, FailRow, Requeue, Notice, Tick, TimerFires, BridgeStarts
<1>4. ASSUME NEW p \in Servers, AskKnown(p) PROVE UNCHANGED turnVars
  BY <1>4 DEF AskKnown, OnlyDrainer
<1>5. ASSUME NEW p \in Servers, AskServer(p) PROVE ServersNext
  <2>1. drainer.message \in Turns
    BY <1>5 DEF AskServer, Held, Holding, Messages
  <2> QED BY <1>5, <2>1 DEF AskServer, ServersNext
<1>6. ASSUME NEW p \in Servers, HearAnswer(p) PROVE ServersNext
  <2>1. Hang(p)
    BY <1>6 DEF HearAnswer, Hang
  <2> QED BY <2>1 DEF ServersNext
<1>7. ASSUME NEW p \in Servers, DaemonStep(p) \/ Die(p) PROVE ServersNext
  BY <1>7 DEF DaemonStep, ServersNext
<1> QED
  BY <1>0, <1>1, <1>2, <1>3, <1>4, <1>5, <1>6, <1>7 DEF BridgeNext, DrainStep

LEMMA ServersAreTurns == ServersNext => TurnsNext
  BY DEF ServersNext, TurnsNext

NothingTakenBack == \A t \in Turns : ledger[t] = "completed" => ledger'[t] = "completed"

\* The ledger says where a server is, and never takes a completed turn back.
LEMMA ToldStep ==
  ASSUME OneAtATime, TurnsIInv, Told, ServersNext
  PROVE  Told' /\ NothingTakenBack
<1>T. /\ server \in [Servers -> ServerRecord]
      /\ ledger \in [Turns -> {"none", "started"} \cup TurnEnds]
  BY DEF TurnsIInv, TurnsTypeOK, ServerRecord
<1>P. PICK p \in Servers : AnswerStep(p) \/ Hang(p) \/ Die(p) \/ \E t \in Turns : Receive(p, t)
  BY DEF ServersNext
<1>Q. \A q \in Servers : q = p
  BY DEF OneAtATime
<1>R. reports' = {}
  BY <1>P DEF Told, AnswerStep, OpenLock, NameLock, ReadLock, UnlinkStale, BeginTurn, PrepareFails, CallTools,
              ModelEnds, FinishTurn, Leave, StartDaemon, Hang, Die, Receive
<1>I. ASSUME /\ server'[p].at \in Preparing =>
                  server'[p].turn \in Turns /\ ledger'[server'[p].turn] = "none" /\ server'[p].outcome = "none"
             /\ server'[p].at \in {"running", "closing"} =>
                  server'[p].turn \in Turns /\ ledger'[server'[p].turn] = "started"
             /\ server'[p].at \in {"leaving", "answered"} /\ server'[p].outcome = "reply" =>
                  server'[p].turn \in Turns /\ ledger'[server'[p].turn] = "completed"
      PROVE  Told'
  BY <1>I, <1>Q, <1>R DEF Told
<1>H. /\ server[p].at \in Preparing =>
           server[p].turn \in Turns /\ ledger[server[p].turn] = "none" /\ server[p].outcome = "none"
      /\ server[p].at \in {"running", "closing"} =>
           server[p].turn \in Turns /\ ledger[server[p].turn] = "started"
      /\ server[p].at \in {"leaving", "answered"} /\ server[p].outcome = "reply" =>
           server[p].turn \in Turns /\ ledger[server[p].turn] = "completed"
  BY DEF Told
<1>A. /\ Idle.at = "idle" /\ Idle.outcome = "none"
      /\ \A here : [Idle EXCEPT !.at = here].at = here
      /\ \A here, t, answer :
           /\ [Idle EXCEPT !.at = here, !.turn = t, !.outcome = answer].at = here
           /\ [Idle EXCEPT !.at = here, !.turn = t, !.outcome = answer].turn = t
           /\ [Idle EXCEPT !.at = here, !.turn = t, !.outcome = answer].outcome = answer
  BY DEF Idle
<1>S. \A s : [server EXCEPT ![p] = s][p] = s
  BY <1>T
<1>F. server[p] \in ServerRecord
  BY <1>T
<1>1. ASSUME NEW t \in Turns, Receive(p, t) PROVE Told' /\ NothingTakenBack
  <2>1. /\ KnownAnswer(t) = "none" => ledger[t] = "none"
        /\ KnownAnswer(t) = "reply" => ledger[t] = "completed"
    BY <1>T DEF KnownAnswer, TurnEnds
  <2>2. ledger' = ledger
    BY <1>1 DEF Receive
  <2>3. /\ server'[p].at = IF KnownAnswer(t) = "none" THEN "opening" ELSE "answered"
        /\ server'[p].turn = t /\ server'[p].outcome = KnownAnswer(t)
    BY <1>1, <1>A, <1>S DEF Receive
  <2> QED BY <2>1, <2>2, <2>3, <1>I DEF Preparing, NothingTakenBack
<1>2. CASE OpenLock(p) \/ NameLock(p) \/ ReadLock(p) \/ UnlinkStale(p)
  <2>1. server[p].at \in Preparing /\ ledger' = ledger
    BY <1>2 DEF OpenLock, NameLock, ReadLock, UnlinkStale, Step, Preparing
  <2>2. \/ \E here \in Preparing : server' = [server EXCEPT ![p].at = here]
        \/ server' = [server EXCEPT ![p] = [Idle EXCEPT !.at = "answered", !.turn = server[p].turn, !.outcome = "busy"]]
    BY <1>2 DEF OpenLock, NameLock, ReadLock, UnlinkStale, Step, Reply, Preparing
  <2>3. \/ server'[p].at \in Preparing /\ server'[p].turn = server[p].turn /\ server'[p].outcome = server[p].outcome
        \/ server'[p].at = "answered" /\ server'[p].outcome = "busy"
    <3>1. CASE \E here \in Preparing : server' = [server EXCEPT ![p].at = here]
      BY <3>1, <1>T DEF ServerRecord
    <3>2. CASE server' = [server EXCEPT ![p] = [Idle EXCEPT !.at = "answered", !.turn = server[p].turn, !.outcome = "busy"]]
      BY <3>2, <1>A, <1>S
    <3> QED BY <2>2, <3>1, <3>2
  <2> QED BY <2>1, <2>3, <1>H, <1>I DEF Preparing, NothingTakenBack
<1>3. CASE PrepareFails(p) \/ ModelEnds(p)
  <2>1. \/ server'[p].at = "leaving" /\ server'[p].outcome = "broken"
        \/ server[p].at = "running" /\ server'[p].at = "closing" /\ server'[p].turn = server[p].turn
    BY <1>3, <1>T DEF PrepareFails, ModelEnds, ServerRecord
  <2>2. ledger' = ledger
    BY <1>3 DEF PrepareFails, ModelEnds
  <2> QED BY <2>1, <2>2, <1>H, <1>I DEF Preparing, NothingTakenBack
<1>4. CASE CallTools(p)
  <2>1. server[p].at = "running" /\ ledger' = ledger
    BY <1>4 DEF CallTools
  <2>2. \/ server' = [server EXCEPT ![p].round = server[p].round + 1]
        \/ server' = [server EXCEPT ![p].at = "closing", ![p].outcome = "broken"]
    BY <1>4 DEF CallTools
  <2>3. server'[p].at \in {"running", "closing"} /\ server'[p].turn = server[p].turn
    BY <2>1, <2>2, <1>T DEF ServerRecord
  <2> QED BY <2>1, <2>3, <1>H, <1>I DEF Preparing, NothingTakenBack
<1>5. CASE BeginTurn(p)
  <2>1. server[p].at = "preparing" /\ server' = [server EXCEPT ![p].at = "running"]
    BY <1>5 DEF BeginTurn, Step
  <2>2. server'[p].at = "running" /\ server'[p].turn = server[p].turn
    BY <2>1, <1>T DEF ServerRecord
  <2>3. ledger' = [ledger EXCEPT ![server[p].turn] = "started"]
    BY <1>5 DEF BeginTurn
  <2>4. server[p].turn \in Turns /\ ledger[server[p].turn] = "none"
    BY <2>1, <1>H DEF Preparing, NothingTakenBack
  <2> QED BY <2>2, <2>3, <2>4, <1>T, <1>I DEF Preparing, NothingTakenBack
<1>6. CASE FinishTurn(p)
  <2>1. server[p].at = "closing" /\ server' = [server EXCEPT ![p].at = "leaving"]
    BY <1>6 DEF FinishTurn, Step
  <2>2. server'[p].at = "leaving" /\ server'[p].turn = server[p].turn /\ server'[p].outcome = server[p].outcome
    BY <2>1, <1>T DEF ServerRecord
  <2>3. ledger' = [ledger EXCEPT ![server[p].turn] = IF server[p].outcome = "reply" THEN "completed" ELSE "failed"]
    BY <1>6 DEF FinishTurn
  <2>4. server[p].turn \in Turns /\ ledger[server[p].turn] = "started"
    BY <2>1, <1>H
  <2> QED BY <2>2, <2>3, <2>4, <1>T, <1>I DEF Preparing, NothingTakenBack
<1>7. CASE Leave(p)
  <2>1. server[p].at = "leaving" /\ ledger' = ledger
    BY <1>7 DEF Leave
  <2>2. server'[p].at = "answered" /\ server'[p].turn = server[p].turn /\ server'[p].outcome = server[p].outcome
    BY <1>7, <1>A, <1>S DEF Leave, Reply
  <2> QED BY <2>1, <2>2, <1>H, <1>I DEF Preparing, NothingTakenBack
<1>8. CASE Hang(p) \/ Die(p)
  <2>1. \/ server' = [server EXCEPT ![p] = Idle]
        \/ server' = [server EXCEPT ![p] = [Idle EXCEPT !.at = "down"]]
    BY <1>8 DEF Hang, Die
  <2>2. server'[p].at \in {"idle", "down"}
    <3>1. CASE server' = [server EXCEPT ![p] = Idle]
      BY <3>1, <1>A, <1>S
    <3>2. CASE server' = [server EXCEPT ![p] = [Idle EXCEPT !.at = "down"]]
      BY <3>2, <1>A, <1>S
    <3> QED BY <2>1, <3>1, <3>2
  <2>3. ledger' = ledger
    BY <1>8 DEF Hang, Die
  <2> QED BY <2>2, <2>3, <1>I DEF Preparing, NothingTakenBack
<1>9. CASE StartDaemon(p)
  <2>1. server'[p].at = "idle"
    BY <1>9, <1>A, <1>S DEF StartDaemon
  <2>2. NothingTakenBack
    BY <1>9, <1>T DEF StartDaemon, Reconciled, NothingTakenBack
  <2> QED BY <2>1, <2>2, <1>I DEF Preparing, NothingTakenBack
<1>X. CASE \E t \in Turns : Receive(p, t)
  BY <1>X, <1>1
<1>10. Told' /\ NothingTakenBack
  BY <1>P, <1>X, <1>2, <1>3, <1>4, <1>5, <1>6, <1>7, <1>8, <1>9 DEF AnswerStep
<1> QED BY <1>10

InboxRow == [status : {"absent", "pending", "processing"} \cup RowEnds,
             attempts : 0..MaxDelay, due : 0..MaxDelay, told : BOOLEAN]
DrainerRecord == [at : {"down", "idle", "claiming", "asking", "waiting", "answered", "sent", "noticing"},
                  message : Messages \cup {NoTurn}, answer : Answers \cup {"offline", "refused"}]

\* What the bridge's own steps do to the row of one message and to the drain loop.
\* (Everything else of a row does not matter to what is done with it.)
LEMMA RowWrites ==
  ASSUME NEW r \in InboxRow
  PROVE  /\ [AbsentRow EXCEPT !.status = "pending"] \in InboxRow
         /\ \A status \in {"pending", "processing", "completed", "failed"} :
              [r EXCEPT !.status = status] \in InboxRow
         /\ [r EXCEPT !.status = "processing", !.attempts = Smaller(r.attempts + 1, MaxDelay)] \in InboxRow
         /\ \A due \in 0..MaxDelay : [r EXCEPT !.status = "pending", !.due = due] \in InboxRow
         /\ \A told \in BOOLEAN : [r EXCEPT !.told = told] \in InboxRow
         /\ [r EXCEPT !.due = IF r.due > 0 THEN r.due - 1 ELSE 0] \in InboxRow
<1>1. [AbsentRow EXCEPT !.status = "pending"] \in InboxRow
  <2>1. AbsentRow \in InboxRow
    BY BridgeAssumption DEF AbsentRow, InboxRow
  <2> QED BY <2>1 DEF InboxRow
<1>2. \A status \in {"pending", "processing", "completed", "failed"} : [r EXCEPT !.status = status] \in InboxRow
  BY DEF InboxRow, RowEnds
<1>3. [r EXCEPT !.status = "processing", !.attempts = Smaller(r.attempts + 1, MaxDelay)] \in InboxRow
  <2>1. r.attempts \in 0..MaxDelay
    BY DEF InboxRow
  <2>2. Smaller(r.attempts + 1, MaxDelay) \in 0..MaxDelay
    BY <2>1, BridgeAssumption DEF Smaller
  <2> QED BY <2>2 DEF InboxRow
<1>4. \A due \in 0..MaxDelay : [r EXCEPT !.status = "pending", !.due = due] \in InboxRow
  BY DEF InboxRow
<1>5. \A told \in BOOLEAN : [r EXCEPT !.told = told] \in InboxRow
  BY DEF InboxRow
<1>6. [r EXCEPT !.due = IF r.due > 0 THEN r.due - 1 ELSE 0] \in InboxRow
  <2>1. r.due \in 0..MaxDelay
    BY DEF InboxRow
  <2>2. (IF r.due > 0 THEN r.due - 1 ELSE 0) \in 0..MaxDelay
    BY <2>1, BridgeAssumption
  <2> QED BY <2>2 DEF InboxRow
<1> QED BY <1>1, <1>2, <1>3, <1>4, <1>5, <1>6

LEMMA DelayType == ASSUME NEW n PROVE Delay(n) \in 0..MaxDelay
  BY BridgeAssumption DEF Delay

LEMMA DrainerWrites ==
  ASSUME NEW d \in DrainerRecord
  PROVE  /\ Claiming \in DrainerRecord /\ Claiming.at = "claiming"
         /\ AtRestDrainer \in DrainerRecord /\ AtRestDrainer.at = "idle"
         /\ [AtRestDrainer EXCEPT !.at = "down"] \in DrainerRecord
         /\ [AtRestDrainer EXCEPT !.at = "down"].at = "down"
         /\ \A here \in {"waiting", "sent", "noticing"} :
              /\ [d EXCEPT !.at = here] \in DrainerRecord
              /\ [d EXCEPT !.at = here].at = here
              /\ [d EXCEPT !.at = here].message = d.message
              /\ [d EXCEPT !.at = here].answer = d.answer
         /\ \A m \in Messages :
              /\ [d EXCEPT !.at = "asking", !.message = m] \in DrainerRecord
              /\ [d EXCEPT !.at = "asking", !.message = m].at = "asking"
              /\ [d EXCEPT !.at = "asking", !.message = m].message = m
         /\ \A answer \in Answers \cup {"offline", "refused"} :
              /\ [d EXCEPT !.at = "answered", !.answer = answer] \in DrainerRecord
              /\ [d EXCEPT !.at = "answered", !.answer = answer].at = "answered"
              /\ [d EXCEPT !.at = "answered", !.answer = answer].message = d.message
              /\ [d EXCEPT !.at = "answered", !.answer = answer].answer = answer
<1>1. AtRestDrainer \in DrainerRecord /\ AtRestDrainer.at = "idle"
  BY DEF AtRestDrainer, DrainerRecord, Answers
<1>2. Claiming \in DrainerRecord /\ Claiming.at = "claiming"
  BY <1>1 DEF Claiming, DrainerRecord
<1>3. [AtRestDrainer EXCEPT !.at = "down"] \in DrainerRecord /\ [AtRestDrainer EXCEPT !.at = "down"].at = "down"
  BY <1>1 DEF DrainerRecord
<1>4. ASSUME NEW here \in {"waiting", "sent", "noticing"}
      PROVE  /\ [d EXCEPT !.at = here] \in DrainerRecord
             /\ [d EXCEPT !.at = here].at = here
             /\ [d EXCEPT !.at = here].message = d.message
             /\ [d EXCEPT !.at = here].answer = d.answer
  BY DEF DrainerRecord
<1>5. ASSUME NEW m \in Messages
      PROVE  /\ [d EXCEPT !.at = "asking", !.message = m] \in DrainerRecord
             /\ [d EXCEPT !.at = "asking", !.message = m].at = "asking"
             /\ [d EXCEPT !.at = "asking", !.message = m].message = m
  BY DEF DrainerRecord
<1>6. ASSUME NEW answer \in Answers \cup {"offline", "refused"}
      PROVE  /\ [d EXCEPT !.at = "answered", !.answer = answer] \in DrainerRecord
             /\ [d EXCEPT !.at = "answered", !.answer = answer].at = "answered"
             /\ [d EXCEPT !.at = "answered", !.answer = answer].message = d.message
             /\ [d EXCEPT !.at = "answered", !.answer = answer].answer = answer
  BY DEF DrainerRecord
<1> QED BY <1>1, <1>2, <1>3, <1>4, <1>5, <1>6

\* The parts of the types that a step of the bridge can disturb.
BridgeTypes ==
  /\ inbox \in [Messages -> InboxRow] /\ drainer \in DrainerRecord
  /\ retryTimer \in Unset..MaxDelay /\ recent \in 0..MaxRecent /\ replies \in [Messages -> 0..2]

LEMMA TheseAreTheTypes == BridgeTypes <=> BridgeTypeOK
  BY DEF BridgeTypes, BridgeTypeOK, InboxRow, DrainerRecord

LEMMA KickType ==
  ASSUME drainer \in DrainerRecord, Kick
  PROVE  drainer' \in DrainerRecord /\ (drainer' = drainer \/ (drainer.at = "idle" /\ drainer' = Claiming))
  BY DrainerWrites DEF Kick

LEMMA BridgeTypesStep ==
  ASSUME BridgeTypes, TurnsTypeOK, Held, [BridgeNext]_bridgeVars
  PROVE  BridgeTypes'
<1> USE DEF BridgeTypes
<1>0. CASE UNCHANGED bridgeVars
  BY <1>0 DEF bridgeVars, bridgeOnlyVars
<1>1. ASSUME NEW m \in Messages, ReceiveWebhook(m) PROVE BridgeTypes'
  <2>1. CASE recent >= MaxRecent
    BY <1>1, <2>1 DEF ReceiveWebhook
  <2>2. CASE ~ (recent >= MaxRecent)
    <3>1. recent' \in 0..MaxRecent
      BY <1>1, <2>2, BridgeAssumption DEF ReceiveWebhook
    <3>2. CASE NewRow(m)
      <4>1. inbox' = [inbox EXCEPT ![m] = [AbsentRow EXCEPT !.status = "pending"]] /\ Kick
        BY <1>1, <2>2, <3>2 DEF ReceiveWebhook
      <4>2. [AbsentRow EXCEPT !.status = "pending"] \in InboxRow
        BY RowWrites
      <4>3. inbox' \in [Messages -> InboxRow] /\ drainer' \in DrainerRecord
        BY <4>1, <4>2, KickType
      <4> QED BY <1>1, <3>1, <4>3 DEF ReceiveWebhook
    <3>3. CASE ~ NewRow(m)
      BY <1>1, <2>2, <3>1, <3>3 DEF ReceiveWebhook
    <3> QED BY <3>2, <3>3
  <2> QED BY <2>1, <2>2
<1>2. CASE WindowPasses
  <2>1. recent' \in 0..MaxRecent
    BY <1>2, BridgeAssumption DEF WindowPasses
  <2> QED BY <1>2, <2>1 DEF WindowPasses
<1>3. CASE ClaimNext
  <2>1. CASE Ripe # {}
    <3>1. PICK m \in Ripe : /\ inbox' = [inbox EXCEPT ![m].status = "processing",
                                                     ![m].attempts = Smaller(@ + 1, MaxDelay)]
                            /\ drainer' = [drainer EXCEPT !.at = "asking", !.message = m]
      BY <1>3, <2>1 DEF ClaimNext
    <3>2. m \in Messages
      BY DEF Ripe
    <3>3. inbox' = [inbox EXCEPT ![m] = [inbox[m] EXCEPT !.status = "processing",
                                                       !.attempts = Smaller(inbox[m].attempts + 1, MaxDelay)]]
      BY <3>1
    <3>4. [inbox[m] EXCEPT !.status = "processing", !.attempts = Smaller(inbox[m].attempts + 1, MaxDelay)] \in InboxRow
      BY <3>2, RowWrites
    <3>5. drainer' \in DrainerRecord
      BY <3>1, <3>2, DrainerWrites
    <3>6. inbox' \in [Messages -> InboxRow]
      BY <3>3, <3>4
    <3> QED BY <1>3, <3>5, <3>6 DEF ClaimNext
  <2>2. CASE Ripe = {}
    <3>1. drainer' \in DrainerRecord
      BY <1>3, <2>2, DrainerWrites DEF ClaimNext
    <3> QED BY <1>3, <2>2, <3>1 DEF ClaimNext
  <2> QED BY <2>1, <2>2
<1>4. ASSUME NEW p \in Servers, AskKnown(p) \/ HearAnswer(p) PROVE BridgeTypes'
  <2>1. KnownAnswer(drainer.message) \in Answers
    BY DEF KnownAnswer, Answers
  <2>2. server[p].outcome \in Answers
    BY DEF TurnsTypeOK
  <2>3. PICK answer \in Answers \cup {"offline", "refused"} :
          drainer' = [drainer EXCEPT !.at = "answered", !.answer = answer]
    BY <1>4, <2>1, <2>2 DEF AskKnown, HearAnswer, Got
  <2>4. [drainer EXCEPT !.at = "answered", !.answer = answer] \in DrainerRecord
    BY DrainerWrites
  <2>5. drainer' \in DrainerRecord
    BY <2>3, <2>4
  <2> QED BY <1>4, <2>5 DEF AskKnown, HearAnswer, OnlyDrainer
<1>5. ASSUME NEW p \in Servers, AskServer(p) PROVE BridgeTypes'
  <2>1. drainer' \in DrainerRecord
    BY <1>5, DrainerWrites DEF AskServer
  <2> QED BY <1>5, <2>1 DEF AskServer
<1>6. CASE AskInVain \/ AskRefused
  <2>1. PICK answer \in Answers \cup {"offline", "refused"} :
          drainer' = [drainer EXCEPT !.at = "answered", !.answer = answer]
    BY <1>6 DEF AskInVain, AskRefused, Got
  <2>2. [drainer EXCEPT !.at = "answered", !.answer = answer] \in DrainerRecord
    BY DrainerWrites
  <2>3. drainer' \in DrainerRecord
    BY <2>1, <2>2
  <2> QED BY <1>6, <2>3 DEF AskInVain, AskRefused, OnlyDrainer
<1>7. CASE SendReply
  <2>1. drainer' \in DrainerRecord
    BY <1>7, DrainerWrites DEF SendReply
  <2>2. drainer.message \in Messages
    BY <1>7 DEF SendReply, Held, Holding
  <2>3. replies' \in [Messages -> 0..2]
    BY <1>7, <2>2 DEF SendReply, Smaller
  <2> QED BY <1>7, <2>1, <2>3 DEF SendReply
<1>8. CASE CompleteRow \/ FailRow
  <2>1. drainer' \in DrainerRecord
    BY <1>8, DrainerWrites DEF CompleteRow, FailRow
  <2>2. drainer.message \in Messages
    BY <1>8 DEF CompleteRow, FailRow, Held, Holding
  <2>3. \E status \in {"completed", "failed"} : inbox' = [inbox EXCEPT ![drainer.message] = [inbox[drainer.message] EXCEPT !.status = status]]
    BY <1>8 DEF CompleteRow, FailRow, Mark
  <2>4. \A status \in {"completed", "failed"} : [inbox[drainer.message] EXCEPT !.status = status] \in InboxRow
    BY <2>2, RowWrites
  <2>5. inbox' \in [Messages -> InboxRow]
    BY <2>3, <2>4
  <2> QED BY <1>8, <2>1, <2>5 DEF CompleteRow, FailRow
<1>9. CASE Requeue
  <2>1. drainer' \in DrainerRecord
    BY <1>9, DrainerWrites DEF Requeue
  <2>2. drainer.message \in Messages
    BY <1>9 DEF Requeue, Held, Holding
  <2>3. PICK due \in 0..MaxDelay : inbox' = [inbox EXCEPT ![drainer.message] =
                                             [inbox[drainer.message] EXCEPT !.status = "pending", !.due = due]]
    BY <1>9, DelayType DEF Requeue
  <2>4. [inbox[drainer.message] EXCEPT !.status = "pending", !.due = due] \in InboxRow
    BY <2>2, RowWrites
  <2>5. inbox' \in [Messages -> InboxRow]
    BY <2>3, <2>4
  <2> QED BY <1>9, <2>1, <2>5 DEF Requeue
<1>10. CASE Notice
  <2>1. drainer' \in DrainerRecord
    BY <1>10, DrainerWrites DEF Notice
  <2>2. drainer.message \in Messages
    BY <1>10 DEF Notice, Held, Holding
  <2>3. PICK told \in {inbox[drainer.message].told, TRUE} :
          inbox' = [inbox EXCEPT ![drainer.message] = [inbox[drainer.message] EXCEPT !.told = told]]
    BY <1>10 DEF Notice
  <2>4. told \in BOOLEAN
    BY <2>2 DEF InboxRow
  <2>5. [inbox[drainer.message] EXCEPT !.told = told] \in InboxRow
    BY <2>2, <2>4, RowWrites
  <2>6. inbox' \in [Messages -> InboxRow]
    BY <2>3, <2>5
  <2>7. retryTimer' \in Unset..MaxDelay
    <3>1. Delay(inbox[drainer.message].attempts) \in 0..MaxDelay
      BY DelayType
    <3>2. retryTimer' = retryTimer \/ retryTimer' = Delay(inbox[drainer.message].attempts)
      BY <1>10 DEF Notice
    <3> QED BY <3>1, <3>2, BridgeAssumption DEF Unset
  <2> QED BY <1>10, <2>1, <2>6, <2>7 DEF Notice
<1>11. CASE Tick
  <2>1. \A m \in Messages : [inbox[m] EXCEPT !.due = IF inbox[m].due > 0 THEN inbox[m].due - 1 ELSE 0] \in InboxRow
    BY RowWrites
  <2>2. inbox' = [m \in Messages |-> [inbox[m] EXCEPT !.due = IF inbox[m].due > 0 THEN inbox[m].due - 1 ELSE 0]]
    BY <1>11 DEF Tick
  <2>3. inbox' \in [Messages -> InboxRow]
    BY <2>1, <2>2
  <2>4. retryTimer' \in Unset..MaxDelay
    <3>1. retryTimer \in Unset..MaxDelay /\ retryTimer' = IF retryTimer > 0 THEN retryTimer - 1 ELSE retryTimer
      BY <1>11 DEF Tick
    <3> QED BY <3>1, BridgeAssumption DEF Unset
  <2> QED BY <1>11, <2>3, <2>4 DEF Tick
<1>12. CASE TimerFires
  <2>1. retryTimer' \in Unset..MaxDelay
    BY <1>12, BridgeAssumption DEF TimerFires, Unset
  <2>2. drainer' \in DrainerRecord
    BY <1>12, KickType DEF TimerFires
  <2> QED BY <1>12, <2>1, <2>2 DEF TimerFires
<1>13. CASE BridgeDies
  <2>1. retryTimer' \in Unset..MaxDelay /\ recent' \in 0..MaxRecent
    BY <1>13, BridgeAssumption DEF BridgeDies, Unset
  <2>2. drainer' \in DrainerRecord
    <3>1. drainer' = [AtRestDrainer EXCEPT !.at = "down"]
      BY <1>13 DEF BridgeDies
    <3> QED BY <3>1, DrainerWrites
  <2> QED BY <1>13, <2>1, <2>2 DEF BridgeDies
<1>14. CASE BridgeStarts
  <2>1. \A m \in Messages : [inbox[m] EXCEPT !.status = "pending"] \in InboxRow
    BY RowWrites
  <2>2. inbox' \in [Messages -> InboxRow]
    BY <1>14, <2>1 DEF BridgeStarts, Reopened
  <2>3. drainer' \in DrainerRecord
    BY <1>14, DrainerWrites DEF BridgeStarts
  <2> QED BY <1>14, <2>2, <2>3 DEF BridgeStarts
<1>15. CASE UNCHANGED bridgeOnlyVars
  BY <1>15 DEF bridgeOnlyVars
<1> QED
  BY <1>0, <1>1, <1>2, <1>3, <1>4, <1>5, <1>6, <1>7, <1>8, <1>9, <1>10, <1>11, <1>12, <1>13, <1>14, <1>15
  DEF BridgeNext, DrainStep

\* A row that came to its end stays at it.
EndsStand == \A m \in Messages : inbox[m].status \in RowEnds => inbox'[m].status = inbox[m].status

\* A step of the bridge keeps the loop at the one row that is being processed,
\* takes back no row that came to its end, and calls a row done after the reply.
LEMMA HeldStep ==
  ASSUME BridgeTypes, TurnsIInv, Told, Held, Earned, NothingTakenBack, [BridgeNext]_bridgeVars
  PROVE  /\ Held' /\ Earned'
         /\ EndsStand
<1>D. drainer \in DrainerRecord
  BY DEF BridgeTypes
<1>T. \A m \in Messages : inbox[m] \in InboxRow /\ inbox[m].status \in {"absent", "pending", "processing", "completed", "failed"}
  BY DEF BridgeTypes, InboxRow, RowEnds
<1>N. \A m \in Messages : ledger[m] = "completed" => ledger'[m] = "completed"
  BY DEF NothingTakenBack, Messages
<1>S. \A m \in Messages : \A r : inbox' = [inbox EXCEPT ![m] = r] =>
        inbox'[m] = r /\ \A n \in Messages : n # m => inbox'[n] = inbox[n]
  BY DEF BridgeTypes
<1>G. ASSUME NEW answer \in Answers \cup {"offline", "refused"}, Got(answer)
      PROVE  drainer'.at = "answered" /\ drainer'.message = drainer.message /\ drainer'.answer = answer
  <2>1. \A a \in Answers \cup {"offline", "refused"} :
          /\ [drainer EXCEPT !.at = "answered", !.answer = a].at = "answered"
          /\ [drainer EXCEPT !.at = "answered", !.answer = a].message = drainer.message
          /\ [drainer EXCEPT !.at = "answered", !.answer = a].answer = a
    BY <1>D DEF DrainerRecord
  <2> QED BY <1>G, <2>1 DEF Got
<1>F. ASSUME replies' = replies, drainer'.at \notin {"answered", "sent"},
             \A n \in Messages : inbox'[n].status = "completed" => inbox[n].status = "completed"
      PROVE  Earned'
  <2>1. \A n \in Messages : inbox'[n].status = "completed" => ledger'[n] = "completed" /\ replies'[n] > 0
    BY <1>F, <1>N DEF Earned
  <2> QED BY <1>F, <2>1 DEF Earned
\* the three things a step may do to the rows
<1>K. ASSUME inbox' = inbox, replies' = replies,
             drainer' = drainer \/ (drainer.at \notin Holding \cup {"down"} /\ drainer'.at \notin Holding \cup {"noticing"})
      PROVE  Held' /\ Earned' /\ EndsStand
  BY <1>K, <1>N DEF Held, Earned, Holding, Up, EndsStand
<1>A. ASSUME inbox' = inbox, drainer.at \in {"asking", "waiting"},
             drainer'.at \in {"waiting", "answered"}, drainer'.message = drainer.message,
             replies' = replies,
             drainer'.at = "answered" /\ drainer'.answer = "reply" => ledger[drainer.message] = "completed"
      PROVE  Held' /\ Earned' /\ EndsStand
  BY <1>A, <1>N DEF Held, Earned, Holding, Up, EndsStand
<1>M. ASSUME NEW m \in Messages, NEW status \in {"pending", "completed", "failed"},
             drainer.at \in {"answered", "sent"}, m = drainer.message,
             \A n \in Messages : inbox'[n].status = IF n = m THEN status ELSE inbox[n].status,
             replies' = replies,
             status = "completed" => drainer.at = "sent",
             \/ drainer'.at = "claiming"
             \/ drainer'.at = "noticing" /\ status = "pending" /\ drainer'.message = m
      PROVE  Held' /\ Earned' /\ EndsStand
  <2>1. inbox[m].status = "processing"
    BY <1>M DEF Held, Holding
  <2>2. EndsStand
    BY <1>M, <2>1 DEF RowEnds, EndsStand
  <2>3. \A n \in Messages : inbox'[n].status # "processing"
    BY <1>M DEF Held, Up, Holding
  <2>4. Held'
    BY <1>M, <2>3 DEF Held, Holding, Up
  <2>5. Earned'
    BY <1>M, <1>N DEF Earned
  <2> QED BY <2>2, <2>4, <2>5
<1>0. CASE UNCHANGED bridgeVars
  BY <1>0, <1>K DEF bridgeVars, bridgeOnlyVars
<1>1. ASSUME NEW m \in Messages, ReceiveWebhook(m) PROVE Held' /\ Earned' /\ EndsStand
  <2>1. CASE inbox' = inbox /\ drainer' = drainer
    BY <1>1, <2>1, <1>K DEF ReceiveWebhook
  <2>2. CASE NewRow(m) /\ inbox' = [inbox EXCEPT ![m] = [AbsentRow EXCEPT !.status = "pending"]] /\ Kick
    <3>1. [AbsentRow EXCEPT !.status = "pending"].status = "pending"
      BY DEF AbsentRow
    <3>2. inbox[m].status = "absent"
      BY <2>2 DEF NewRow
    <3>3. inbox'[m].status = "pending" /\ \A n \in Messages : n # m => inbox'[n].status = inbox[n].status
      BY <2>2, <3>1, <1>S
    <3>4. EndsStand
      BY <3>2, <3>3 DEF RowEnds, EndsStand
    <3>5. drainer' = drainer \/ (drainer.at = "idle" /\ drainer'.at = "claiming")
      BY <2>2, <1>D, KickType, DrainerWrites
    <3>6. Held'
      BY <3>2, <3>3, <3>5 DEF Held, Holding, Up
    <3>7. replies' = replies
      BY <1>1 DEF ReceiveWebhook
    <3>8. \A n \in Messages : inbox'[n].status = "completed" => inbox[n].status = "completed"
      BY <3>2, <3>3
    <3>9. \A n \in Messages : inbox'[n].status = "completed" => ledger'[n] = "completed" /\ replies'[n] > 0
      BY <3>8, <3>7, <1>N DEF Earned
    <3>10. Earned'
      <4>1. CASE drainer' = drainer
        BY <4>1, <3>7, <3>9, <1>N DEF Earned, Held, Holding
      <4>2. CASE drainer'.at = "claiming"
        BY <4>2, <3>9 DEF Earned
      <4> QED BY <3>5, <4>1, <4>2
    <3> QED BY <3>4, <3>6, <3>10
  <2> QED BY <1>1, <2>1, <2>2 DEF ReceiveWebhook
<1>2. CASE WindowPasses
  BY <1>2, <1>K DEF WindowPasses
<1>3. CASE ClaimNext
  <2>1. CASE Ripe # {}
    <3>1. PICK m \in Ripe : /\ inbox' = [inbox EXCEPT ![m].status = "processing",
                                                     ![m].attempts = Smaller(@ + 1, MaxDelay)]
                            /\ drainer' = [drainer EXCEPT !.at = "asking", !.message = m]
      BY <1>3, <2>1 DEF ClaimNext
    <3>2. m \in Messages /\ inbox[m].status = "pending"
      BY DEF Ripe
    <3>3. inbox' = [inbox EXCEPT ![m] = [inbox[m] EXCEPT !.status = "processing",
                                                       !.attempts = Smaller(inbox[m].attempts + 1, MaxDelay)]]
      BY <3>1
    <3>4. [inbox[m] EXCEPT !.status = "processing", !.attempts = Smaller(inbox[m].attempts + 1, MaxDelay)].status = "processing"
      BY <3>2, <1>T DEF InboxRow
    <3>5. inbox'[m].status = "processing" /\ \A n \in Messages : n # m => inbox'[n] = inbox[n]
      BY <3>2, <3>3, <3>4, <1>S
    <3>6. drainer'.at = "asking" /\ drainer'.message = m
      <4>1. \A n \in Messages :
              /\ [drainer EXCEPT !.at = "asking", !.message = n].at = "asking"
              /\ [drainer EXCEPT !.at = "asking", !.message = n].message = n
        BY <1>D DEF DrainerRecord
      <4> QED BY <3>1, <3>2, <4>1
    <3>7. drainer.at = "claiming" /\ replies' = replies
      BY <1>3 DEF ClaimNext
    <3>8. EndsStand
      BY <3>2, <3>5 DEF RowEnds, EndsStand
    <3>9. Held'
      BY <3>2, <3>5, <3>6, <3>7 DEF Held, Holding, Up
    <3>10. Earned'
      BY <3>2, <3>5, <3>6, <3>7, <1>N DEF Earned
    <3> QED BY <3>8, <3>9, <3>10
  <2>2. CASE Ripe = {}
    <3>1. drainer'.at \in {"claiming", "idle"}
      BY <1>3, <2>2, <1>D, DrainerWrites DEF ClaimNext
    <3> QED BY <1>3, <2>2, <3>1, <1>K DEF ClaimNext, Holding
  <2> QED BY <2>1, <2>2
<1>4. ASSUME NEW p \in Servers, AskKnown(p) PROVE Held' /\ Earned' /\ EndsStand
  <2>1. KnownAnswer(drainer.message) \in Answers
    BY DEF KnownAnswer, Answers
  <2>2. drainer'.at = "answered" /\ drainer'.message = drainer.message /\ drainer'.answer = KnownAnswer(drainer.message)
    BY <1>4, <2>1, <1>G DEF AskKnown
  <2>3. drainer.message \in Turns
    BY <1>4 DEF AskKnown, Held, Holding, Messages
  <2>4. KnownAnswer(drainer.message) = "reply" => ledger[drainer.message] = "completed"
    BY <2>3 DEF KnownAnswer, TurnsIInv, TurnsTypeOK, TurnEnds
  <2> QED BY <1>4, <2>2, <2>4, <1>A DEF AskKnown, OnlyDrainer
<1>5. ASSUME NEW p \in Servers, AskServer(p) PROVE Held' /\ Earned' /\ EndsStand
  <2>1. drainer'.at = "waiting" /\ drainer'.message = drainer.message
    BY <1>5, <1>D, DrainerWrites DEF AskServer
  <2> QED BY <1>5, <2>1, <1>A DEF AskServer
<1>6. ASSUME NEW p \in Servers, HearAnswer(p) PROVE Held' /\ Earned' /\ EndsStand
  <2>1. server[p].outcome \in Answers
    BY DEF TurnsIInv, TurnsTypeOK
  <2>2. drainer'.at = "answered" /\ drainer'.message = drainer.message /\ drainer'.answer = server[p].outcome
    BY <1>6, <2>1, <1>G DEF HearAnswer
  <2>3. server[p].outcome = "reply" => ledger[drainer.message] = "completed"
    BY <1>6 DEF HearAnswer, Told
  <2> QED BY <1>6, <2>2, <2>3, <1>A DEF HearAnswer
<1>7. CASE AskInVain \/ AskRefused
  <2>1. PICK answer \in {"offline", "refused"} : Got(answer)
    BY <1>7 DEF AskInVain, AskRefused
  <2>2. drainer'.at = "answered" /\ drainer'.message = drainer.message /\ drainer'.answer \in {"offline", "refused"}
    BY <2>1, <1>G
  <2> QED BY <1>7, <2>2, <1>A DEF AskInVain, AskRefused, OnlyDrainer
<1>8. CASE SendReply
  <2>1. drainer.message \in Messages /\ ledger[drainer.message] = "completed"
    BY <1>8 DEF SendReply, Held, Holding, Earned
  <2>2. drainer'.at = "sent" /\ drainer'.message = drainer.message
    BY <1>8, <1>D, DrainerWrites DEF SendReply
  <2>3. /\ replies'[drainer.message] > 0
        /\ \A m \in Messages : replies[m] > 0 => replies'[m] > 0
    BY <1>8, <2>1 DEF SendReply, Smaller, BridgeTypes
  <2>4. inbox' = inbox /\ drainer.at = "answered"
    BY <1>8 DEF SendReply
  <2>5. Held'
    BY <2>2, <2>4 DEF Held, Holding, Up
  <2>6. Earned'
    <3>1. \A n \in Messages : inbox'[n].status = "completed" => ledger'[n] = "completed" /\ replies'[n] > 0
      BY <2>3, <2>4, <1>N DEF Earned
    <3>2. ledger'[drainer.message] = "completed"
      BY <2>1, <1>N
    <3> QED BY <2>2, <2>3, <3>1, <3>2 DEF Earned
  <2> QED BY <2>4, <2>5, <2>6 DEF EndsStand
<1>9. CASE CompleteRow \/ FailRow
  <2>1. drainer.message \in Messages
    BY <1>9 DEF CompleteRow, FailRow, Held, Holding
  <2>2. PICK status \in {"completed", "failed"} :
          /\ inbox' = [inbox EXCEPT ![drainer.message] = [inbox[drainer.message] EXCEPT !.status = status]]
          /\ status = "completed" => drainer.at = "sent"
    BY <1>9 DEF CompleteRow, FailRow, Mark
  <2>3. [inbox[drainer.message] EXCEPT !.status = status].status = status
    BY <2>1, <1>T DEF InboxRow
  <2>4. \A n \in Messages : inbox'[n].status = IF n = drainer.message THEN status ELSE inbox[n].status
    <3>1. /\ inbox'[drainer.message] = [inbox[drainer.message] EXCEPT !.status = status]
          /\ \A n \in Messages : n # drainer.message => inbox'[n] = inbox[n]
      BY <2>1, <2>2, <1>S
    <3> QED BY <2>3, <3>1
  <2>5. drainer'.at = "claiming" /\ drainer.at \in {"answered", "sent"} /\ replies' = replies
    BY <1>9, <1>D, DrainerWrites DEF CompleteRow, FailRow
  <2> QED BY <2>1, <2>2, <2>4, <2>5, <1>M
<1>10. CASE Requeue
  <2>1. drainer.message \in Messages
    BY <1>10 DEF Requeue, Held, Holding
  <2>2. inbox' = [inbox EXCEPT ![drainer.message] =
                    [inbox[drainer.message] EXCEPT !.status = "pending", !.due = Delay(inbox[drainer.message].attempts)]]
    BY <1>10 DEF Requeue
  <2>3. \A due : [inbox[drainer.message] EXCEPT !.status = "pending", !.due = due].status = "pending"
    BY <2>1, <1>T DEF InboxRow
  <2>4. \A n \in Messages : inbox'[n].status = IF n = drainer.message THEN "pending" ELSE inbox[n].status
    <3>1. /\ inbox'[drainer.message] =
               [inbox[drainer.message] EXCEPT !.status = "pending", !.due = Delay(inbox[drainer.message].attempts)]
          /\ \A n \in Messages : n # drainer.message => inbox'[n] = inbox[n]
      BY <2>1, <2>2, <1>S
    <3> QED BY <2>3, <3>1
  <2>5. /\ drainer'.at = "noticing" /\ drainer'.message = drainer.message
        /\ drainer.at = "answered" /\ replies' = replies
    BY <1>10, <1>D, DrainerWrites DEF Requeue
  <2> QED BY <2>1, <2>4, <2>5, <1>M
<1>11. CASE Notice
  <2>1. drainer.message \in Messages /\ drainer.at = "noticing"
    BY <1>11 DEF Notice, Held, Holding
  <2>2. PICK told \in {inbox[drainer.message].told, TRUE} :
          inbox' = [inbox EXCEPT ![drainer.message] = [inbox[drainer.message] EXCEPT !.told = told]]
    BY <1>11 DEF Notice
  <2>3. [inbox[drainer.message] EXCEPT !.told = told].status = inbox[drainer.message].status
    BY <2>1, <1>T DEF InboxRow
  <2>4. \A n \in Messages : inbox'[n].status = inbox[n].status
    BY <2>1, <2>2, <2>3, <1>S
  <2>5. drainer'.at = "claiming" /\ replies' = replies
    BY <1>11, <1>D, DrainerWrites DEF Notice
  <2>6. Held'
    BY <2>1, <2>4, <2>5 DEF Held, Holding, Up
  <2>7. Earned'
    BY <2>4, <2>5, <1>F
  <2> QED BY <2>4, <2>6, <2>7 DEF EndsStand
<1>12. CASE Tick
  <2>1. \A m \in Messages : \A due : [inbox[m] EXCEPT !.due = due].status = inbox[m].status
    BY <1>T DEF InboxRow
  <2>2. inbox' = [m \in Messages |-> [inbox[m] EXCEPT !.due = IF inbox[m].due > 0 THEN inbox[m].due - 1 ELSE 0]]
    BY <1>12 DEF Tick
  <2>3. \A n \in Messages : inbox'[n].status = inbox[n].status
    BY <2>1, <2>2
  <2>4. drainer' = drainer /\ replies' = replies
    BY <1>12 DEF Tick
  <2>5. Held'
    BY <2>3, <2>4 DEF Held, Holding, Up
  <2>6. Earned'
    <3>1. \A n \in Messages : inbox'[n].status = "completed" => inbox[n].status = "completed"
      BY <2>3
    <3>2. \A n \in Messages : inbox'[n].status = "completed" => ledger'[n] = "completed" /\ replies'[n] > 0
      BY <3>1, <2>4, <1>N DEF Earned
    <3> QED BY <2>4, <3>2, <1>N DEF Earned, Held, Holding
  <2> QED BY <2>3, <2>5, <2>6 DEF EndsStand
<1>13. CASE TimerFires
  <2>1. drainer' = drainer \/ (drainer.at = "idle" /\ drainer'.at = "claiming")
    BY <1>13, <1>D, KickType, DrainerWrites DEF TimerFires
  <2> QED BY <1>13, <2>1, <1>K DEF TimerFires, Holding
<1>14. CASE BridgeDies
  <2>1. drainer'.at = "down" /\ inbox' = inbox /\ replies' = replies
    BY <1>14, <1>D, DrainerWrites DEF BridgeDies
  <2>2. Held'
    BY <2>1 DEF Held, Holding, Up
  <2>3. Earned'
    BY <2>1, <1>F
  <2> QED BY <2>1, <2>2, <2>3 DEF EndsStand
<1>15. CASE BridgeStarts
  <2>1. drainer'.at = "claiming" /\ inbox' = Reopened /\ replies' = replies
    BY <1>15, <1>D, DrainerWrites DEF BridgeStarts
  <2>2. \A m \in Messages : [inbox[m] EXCEPT !.status = "pending"].status = "pending"
    BY <1>T DEF InboxRow
  <2>3. \A m \in Messages : inbox'[m].status = IF inbox[m].status = "processing" THEN "pending" ELSE inbox[m].status
    BY <2>1, <2>2 DEF Reopened
  <2>4. Held'
    BY <2>1, <2>3 DEF Held, Holding, Up
  <2>5. Earned'
    BY <2>1, <2>3, <1>N DEF Earned
  <2>6. EndsStand
    BY <2>3 DEF RowEnds, EndsStand
  <2> QED BY <2>4, <2>5, <2>6
<1>16. CASE UNCHANGED bridgeOnlyVars
  BY <1>16, <1>K DEF bridgeOnlyVars
<1>17. Held' /\ Earned' /\ EndsStand
  <2> QED
    BY <1>0, <1>1, <1>2, <1>3, <1>4, <1>5, <1>6, <1>7, <1>8, <1>9, <1>10, <1>11, <1>12, <1>13, <1>14, <1>15, <1>16
    DEF BridgeNext, DrainStep
<1> QED BY <1>17

LEMMA BridgeBegin == BridgeInit => BridgeIInv
<1> SUFFICES ASSUME BridgeInit PROVE BridgeIInv
  OBVIOUS
<1>1. TurnsIInv
  BY TurnsBegin DEF BridgeInit
<1>2. BridgeTypes
  <2>1. AbsentRow \in InboxRow
    BY BridgeAssumption DEF AbsentRow, InboxRow
  <2>2. AtRestDrainer \in DrainerRecord
    BY DEF AtRestDrainer, DrainerRecord, Answers
  <2> QED BY <2>1, <2>2, BridgeAssumption DEF BridgeInit, BridgeTypes, Unset
<1>3. Told
  BY DEF BridgeInit, TurnsInit, Told, Preparing, Idle
<1>4. Held /\ Earned
  BY DEF BridgeInit, Held, Earned, Holding, AbsentRow, AtRestDrainer
<1> QED BY <1>1, <1>2, <1>3, <1>4, TheseAreTheTypes DEF BridgeIInv

LEMMA BridgeStep ==
  ASSUME OneAtATime
  PROVE  BridgeIInv /\ [BridgeNext]_bridgeVars =>
           /\ BridgeIInv'
           /\ EndsStand
<1> SUFFICES ASSUME BridgeIInv, [BridgeNext]_bridgeVars
             PROVE  /\ BridgeIInv'
                    /\ EndsStand
  OBVIOUS
<1>T. BridgeTypes /\ TurnsIInv /\ TurnsTypeOK /\ Told /\ Held /\ Earned
  BY TheseAreTheTypes DEF BridgeIInv, TurnsIInv
<1>1. ServersNext \/ UNCHANGED turnVars
  BY <1>T, BridgeMovesTurns
<1>2. TurnsIInv'
  BY <1>1, <1>T, TurnsStep, ServersAreTurns
<1>3. Told' /\ NothingTakenBack
  <2>1. CASE ServersNext
    BY <2>1, <1>T, ToldStep
  <2>2. CASE UNCHANGED turnVars
    BY <2>2, <1>T DEF turnVars, Told, NothingTakenBack
  <2> QED BY <1>1, <2>1, <2>2
<1>4. BridgeTypes'
  BY <1>T, BridgeTypesStep
<1>5. /\ Held' /\ Earned'
      /\ EndsStand
  BY <1>T, <1>3, HeldStep
<1>6. BridgeTypeOK'
  BY <1>4 DEF BridgeTypes, BridgeTypeOK, InboxRow, DrainerRecord
<1> QED BY <1>2, <1>3, <1>5, <1>6 DEF BridgeIInv

\* As long as the daemon answers its requests one after the other: from the
\* webhook to the reply, over redeliveries, back-off and the deaths of both ends, a
\* message is put to the model at most once, is held by the drain loop while it is
\* processed, and is called done only when its turn completed and the owner has
\* the reply (whatsapp-bridge.ts).
THEOREM BridgeHolds == ASSUME OneAtATime PROVE BridgeSpec => []BridgeInv
<1>1. BridgeIInv => BridgeInv
  BY DEF BridgeIInv, BridgeInv, TurnsIInv, Entered, TurnRunsOnce, Held, ProcessingIsHeld, Earned, CompletedWasAnswered
<1>2. BridgeIInv /\ [BridgeNext]_bridgeVars => BridgeIInv'
  BY BridgeStep
<1> QED BY <1>1, <1>2, BridgeBegin, PTL DEF BridgeSpec

\* A redelivered or retried message never reopens a row that came to its end, for
\* any messages, back-off and deaths (whatsapp-bridge.ts).
THEOREM EndsOfRowsStand == ASSUME OneAtATime PROVE BridgeSpec => RowEndsAreFinal
<1>1. BridgeIInv /\ [BridgeNext]_bridgeVars => [EndsStand]_bridgeVars
  BY BridgeStep
<1>2. BridgeIInv /\ [BridgeNext]_bridgeVars => BridgeIInv'
  BY BridgeStep
<1> QED BY <1>1, <1>2, BridgeBegin, PTL DEF BridgeSpec, RowEndsAreFinal, EndsStand
=============================================================================

---------------------------- MODULE MobileBridge ----------------------------
(* The bridge between WhatsApp and the Main Agent: webhooks fill a durable     *)
(* inbox, one drainer asks the Main Agent for each message with the message's  *)
(* own turn id, puts off what it takes for a passing trouble, and one timer    *)
(* wakes it.  The bridge may die at any point; Meta delivers more than once.   *)
EXTENDS MainAgentTurns, Integers

CONSTANTS MaxDelay,       \* the longest back-off, in ticks (60 s in the code)
          MaxRecent,      \* messages accepted within one rate window
          MaxDeliveries,  \* webhooks Meta delivers
          MaxBridgeDeaths

ASSUME BridgeAssumption == MaxDelay \in Nat \ {0} /\ MaxRecent \in Nat \ {0}

Messages == Turns         \* the turn id of a message is whatsapp:<message id>
Unset == -1

VARIABLES inbox,          \* rows: status, attempts, ticks until available, notice sent
          drainer,        \* where the drain loop is, with which message and answer
          kickRequested,
          retryTimer,     \* ticks until it fires, or Unset
          recent,         \* messages within the sender's rate window
          replies,        \* replies that reached the owner, per message
          deliveries, bridgeDeaths

bridgeOnlyVars == <<inbox, drainer, kickRequested, retryTimer, recent, replies, deliveries, bridgeDeaths>>
bridgeVars == <<turnVars, bridgeOnlyVars>>

AbsentRow == [status |-> "absent", attempts |-> 0, due |-> 0, told |-> FALSE]
RowEnds == {"completed", "failed"}
AtRestDrainer == [at |-> "idle", message |-> NoTurn, answer |-> "none"]

BridgeInit ==
    /\ TurnsInit
    /\ inbox = [m \in Messages |-> AbsentRow]
    /\ drainer = AtRestDrainer
    /\ kickRequested = FALSE
    /\ retryTimer = Unset
    /\ recent = 0
    /\ replies = [m \in Messages |-> 0]
    /\ deliveries = 0
    /\ bridgeDeaths = 0

Up == drainer.at # "down"
Claiming == [AtRestDrainer EXCEPT !.at = "claiming"]

\* kick() starts the drain loop, or asks the running one to look once more.
Kick ==
    IF drainer.at = "idle" THEN drainer' = Claiming /\ kickRequested' = FALSE
                           ELSE kickRequested' = TRUE /\ UNCHANGED drainer

Smaller(a, b) == IF a < b THEN a ELSE b

\* base * 2^(attempts - 1), capped.
Delay(attempts) == LET delay == 2 ^ (attempts - 1) IN IF delay \in 0..MaxDelay THEN delay ELSE MaxDelay

-----------------------------------------------------------------------------
(* A webhook: the rate window, then INSERT OR IGNORE, then a kick.             *)

NewRow(m) == inbox[m].status = "absent"

ReceiveWebhook(m) ==
    /\ Up
    /\ deliveries < MaxDeliveries
    /\ deliveries' = deliveries + 1
    /\ IF recent >= MaxRecent
       THEN UNCHANGED <<inbox, drainer, kickRequested, recent>>
       ELSE /\ recent' = recent + 1
            /\ IF NewRow(m)
               THEN inbox' = [inbox EXCEPT ![m] = [AbsentRow EXCEPT !.status = "pending"]] /\ Kick
               ELSE UNCHANGED <<inbox, drainer, kickRequested>>
    /\ UNCHANGED <<turnVars, retryTimer, replies, bridgeDeaths>>

WindowPasses ==
    /\ recent > 0
    /\ recent' = recent - 1
    /\ UNCHANGED <<turnVars, inbox, drainer, kickRequested, retryTimer, replies, deliveries, bridgeDeaths>>

-----------------------------------------------------------------------------
(* The drain loop.                                                             *)
Ripe == {m \in Messages : inbox[m].status = "pending" /\ inbox[m].due = 0}

ClaimNext ==
    /\ drainer.at = "claiming"
    /\ IF Ripe # {}
       THEN \E m \in Ripe :
              /\ inbox' = [inbox EXCEPT ![m].status = "processing",
                                        ![m].attempts = Smaller(@ + 1, MaxDelay)]
              /\ drainer' = [drainer EXCEPT !.at = "asking", !.message = m]
              /\ UNCHANGED kickRequested
       ELSE /\ drainer' = IF kickRequested THEN Claiming ELSE AtRestDrainer
            /\ kickRequested' = FALSE
            /\ UNCHANGED inbox
    /\ UNCHANGED <<turnVars, retryTimer, recent, replies, deliveries, bridgeDeaths>>

Got(answer) == drainer' = [drainer EXCEPT !.at = "answered", !.answer = answer]
OnlyDrainer == UNCHANGED <<turnVars, inbox, kickRequested, retryTimer, recent, replies, deliveries, bridgeDeaths>>

\* A turn id the ledger knows is answered at once, whatever the daemon is doing.
AskKnown(p) ==
    /\ drainer.at = "asking"
    /\ server[p].at # "down"
    /\ KnownAnswer(drainer.message) # "none"
    /\ Got(KnownAnswer(drainer.message))
    /\ OnlyDrainer

AskServer(p) ==
    /\ drainer.at = "asking"
    /\ KnownAnswer(drainer.message) = "none"
    /\ Receive(p, drainer.message)
    /\ drainer' = [drainer EXCEPT !.at = "waiting"]
    /\ UNCHANGED <<inbox, kickRequested, retryTimer, recent, replies, deliveries, bridgeDeaths>>

HearAnswer(p) ==
    /\ drainer.at = "waiting"
    /\ server[p].at = "answered" /\ server[p].turn = drainer.message
    /\ Got(server[p].outcome)
    /\ server' = [server EXCEPT ![p] = Idle]
    /\ UNCHANGED <<ledger, owner, promptLock, reports, executions, deaths, reported>>
    /\ UNCHANGED <<inbox, kickRequested, retryTimer, recent, replies, deliveries, bridgeDeaths>>

AskInVain ==              \* the daemon is down, or the connection breaks or times out
    /\ drainer.at \in {"asking", "waiting"}
    /\ Got("offline")
    /\ OnlyDrainer

AskRefused ==             \* the token file is missing, or holds the token of another daemon
    /\ drainer.at = "asking"
    /\ Got("refused")
    /\ OnlyDrainer

Mark(m, status) == inbox' = [inbox EXCEPT ![m].status = status]

SendReply ==
    /\ drainer.at = "answered" /\ drainer.answer = "reply"
    /\ replies' = [replies EXCEPT ![drainer.message] = Smaller(@ + 1, 2)]
    /\ drainer' = [drainer EXCEPT !.at = "sent"]
    /\ UNCHANGED <<turnVars, inbox, kickRequested, retryTimer, recent, deliveries, bridgeDeaths>>

CompleteRow ==
    /\ drainer.at = "sent"
    /\ Mark(drainer.message, "completed")
    /\ drainer' = Claiming
    /\ UNCHANGED <<turnVars, kickRequested, retryTimer, recent, replies, deliveries, bridgeDeaths>>

FailRow ==                   \* the reply cannot be sent, or the answer was final
    /\ drainer.at = "answered" /\ drainer.answer \in {"reply", "refused"}
    /\ Mark(drainer.message, "failed")
    /\ drainer' = Claiming
    /\ UNCHANGED <<turnVars, kickRequested, retryTimer, recent, replies, deliveries, bridgeDeaths>>

PassingTrouble == {"offline", "busy", "over", "broken"}   \* 409 and 500 and no answer

Requeue ==
    /\ drainer.at = "answered" /\ drainer.answer \in PassingTrouble
    /\ LET m == drainer.message IN
       inbox' = [inbox EXCEPT ![m].status = "pending", ![m].due = Delay(inbox[m].attempts)]
    /\ drainer' = [drainer EXCEPT !.at = "noticing"]
    /\ UNCHANGED <<turnVars, kickRequested, retryTimer, recent, replies, deliveries, bridgeDeaths>>

\* The owner is told once; then the timer is set, unless one fires sooner.
Notice ==
    /\ drainer.at = "noticing"
    /\ LET m == drainer.message
           target == Delay(inbox[m].attempts) IN
         /\ \E told \in {inbox[m].told, TRUE} : inbox' = [inbox EXCEPT ![m].told = told]
         /\ retryTimer' = IF retryTimer # Unset /\ retryTimer <= target THEN retryTimer ELSE target
    /\ drainer' = Claiming
    /\ UNCHANGED <<turnVars, kickRequested, recent, replies, deliveries, bridgeDeaths>>

-----------------------------------------------------------------------------
Tick ==
    /\ retryTimer > 0 \/ \E m \in Messages : inbox[m].due > 0
    /\ inbox' = [m \in Messages |-> [inbox[m] EXCEPT !.due = IF @ > 0 THEN @ - 1 ELSE 0]]
    /\ retryTimer' = IF retryTimer > 0 THEN retryTimer - 1 ELSE retryTimer
    /\ UNCHANGED <<turnVars, drainer, kickRequested, recent, replies, deliveries, bridgeDeaths>>

TimerFires ==
    /\ retryTimer = 0
    /\ retryTimer' = Unset
    /\ Kick
    /\ UNCHANGED <<turnVars, inbox, recent, replies, deliveries, bridgeDeaths>>

BridgeDies ==
    /\ Up /\ bridgeDeaths < MaxBridgeDeaths
    /\ bridgeDeaths' = bridgeDeaths + 1
    /\ drainer' = [AtRestDrainer EXCEPT !.at = "down"]
    /\ kickRequested' = FALSE /\ retryTimer' = Unset /\ recent' = 0
    /\ UNCHANGED <<turnVars, inbox, replies, deliveries>>

\* Mutant: a bridge that starts takes the interrupted rows for done.
ReopenedAsDone == [m \in Messages |->
    IF inbox[m].status = "processing" THEN [inbox[m] EXCEPT !.status = "completed"] ELSE inbox[m]]

Reopened == [m \in Messages |->
    IF inbox[m].status = "processing" THEN [inbox[m] EXCEPT !.status = "pending"] ELSE inbox[m]]

BridgeStarts ==
    /\ drainer.at = "down"
    /\ inbox' = Reopened
    /\ drainer' = Claiming
    /\ UNCHANGED <<turnVars, kickRequested, retryTimer, recent, replies, deliveries, bridgeDeaths>>

DrainStep ==
    \/ ClaimNext \/ SendReply \/ CompleteRow \/ FailRow \/ Requeue \/ Notice
    \/ Tick \/ TimerFires \/ BridgeStarts
    \/ \E p \in Servers : AskKnown(p) \/ AskServer(p) \/ HearAnswer(p)

\* The daemon's own steps; a question nobody waits for any more is dropped.
DaemonStep(p) ==
    \/ AnswerStep(p)
    \/ Hang(p) /\ ~(drainer.at = "waiting" /\ drainer.message = server[p].turn)

BridgeNext ==
    \/ \E m \in Messages : ReceiveWebhook(m)
    \/ WindowPasses \/ DrainStep \/ AskInVain \/ AskRefused \/ BridgeDies
    \/ \E p \in Servers : (DaemonStep(p) \/ Die(p)) /\ UNCHANGED bridgeOnlyVars

BridgeSpec == BridgeInit /\ [][BridgeNext]_bridgeVars

-----------------------------------------------------------------------------
BridgeTypeOK ==
    /\ inbox \in [Messages -> [status : {"absent", "pending", "processing"} \cup RowEnds,
                              attempts : 0..MaxDelay, due : 0..MaxDelay, told : BOOLEAN]]
    /\ drainer \in [at : {"down", "idle", "claiming", "asking", "waiting", "answered", "sent", "noticing"},
                    message : Messages \cup {NoTurn}, answer : Answers \cup {"offline", "refused"}]
    /\ retryTimer \in Unset..MaxDelay
    /\ recent \in 0..MaxRecent
    /\ replies \in [Messages -> 0..2]

\* One message at a time, and none is left behind: a row that is being processed
\* is the one the drain loop holds, across deaths and redeliveries.
ProcessingIsHeld ==
    Up => \A m \in Messages : inbox[m].status = "processing" => drainer.message = m

\* A message is called done only when its turn completed and the owner has the reply.
CompletedWasAnswered ==
    \A m \in Messages : inbox[m].status = "completed" => ledger[m] = "completed" /\ replies[m] > 0

\* A redelivered or retried message never reopens a row that came to its end.
RowEndsAreFinal ==
    [][\A m \in Messages : inbox[m].status \in RowEnds => inbox'[m].status = inbox[m].status]_bridgeVars

\* From the webhook to the reply, over redeliveries, back-off and deaths of both
\* ends: a message is put to the model once, is held by the drain loop while it
\* is processed, and is called done only when the owner has the reply
\* (whatsapp-bridge.ts, native-runtime.ts).
BridgeInv == BridgeTypeOK /\ TurnRunsOnce /\ ProcessingIsHeld /\ CompletedWasAnswered
=============================================================================

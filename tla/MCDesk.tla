------------------------------- MODULE MCDesk -------------------------------
(* What the processes of the owner's desk keep for one another: the claims of *)
(* the journal store, the daemon and its files, the bridge of the mobile      *)
(* messages, the conversation and the list beside it, the memories put before *)
(* a worker, and the suggestions and settings the owner decides about.  A     *)
(* behaviour exercises one of them; they share no state here.  Of the owner's *)
(* thread it is the turns or the work, which only a death of the daemon joins. *)
EXTENDS RunClaims, MobileBridge, Sessions, Companion, OwnerThread, Improvement,
        MemoryContext, ReviewActions, TLC

VARIABLE focus

claimVars == vars
all == <<focus, claimVars, bridgeVars, sessionVars, companionVars, threadVars, improvementVars,
         contextVars, reviewVars>>

OwnerSymmetry == Permutations(Owners) \cup Permutations(Sweepers)

DeskInit ==
  /\ focus \in {"claims", "bridge", "sessions", "companion", "thread", "works", "improvement", "context", "review"}
  /\ Init /\ BridgeInit /\ SessionsInit /\ CompanionInit /\ ThreadInit /\ ImprovementInit
  /\ ContextInit /\ ReviewInit

DeskNext ==
  /\ UNCHANGED focus
  /\ \/ /\ focus = "claims" /\ Next
        /\ UNCHANGED <<bridgeVars, sessionVars, companionVars, threadVars, improvementVars, contextVars, reviewVars>>
     \/ /\ focus = "bridge" /\ BridgeNext
        /\ UNCHANGED <<claimVars, sessionVars, companionVars, threadVars, improvementVars, contextVars, reviewVars>>
     \/ /\ focus = "sessions" /\ SessionsNext
        /\ UNCHANGED <<claimVars, bridgeVars, companionVars, threadVars, improvementVars, contextVars, reviewVars>>
     \/ /\ focus = "companion" /\ CompanionNext
        /\ UNCHANGED <<claimVars, bridgeVars, sessionVars, threadVars, improvementVars, contextVars, reviewVars>>
     \/ /\ focus = "thread" /\ (TurnStep \/ CrashServer)
        /\ UNCHANGED <<claimVars, bridgeVars, sessionVars, companionVars, improvementVars, contextVars, reviewVars>>
     \/ /\ focus = "works" /\ (WorkStep \/ CrashServer)
        /\ UNCHANGED <<claimVars, bridgeVars, sessionVars, companionVars, improvementVars, contextVars, reviewVars>>
     \/ /\ focus = "improvement" /\ ImprovementNext
        /\ UNCHANGED <<claimVars, bridgeVars, sessionVars, companionVars, threadVars, contextVars, reviewVars>>
     \/ /\ focus = "context" /\ ContextNext
        /\ UNCHANGED <<claimVars, bridgeVars, sessionVars, companionVars, threadVars, improvementVars, reviewVars>>
     \/ /\ focus = "review" /\ ReviewNext
        /\ UNCHANGED <<claimVars, bridgeVars, sessionVars, companionVars, threadVars, improvementVars, contextVars>>

DeskSpec == DeskInit /\ [][DeskNext]_all

-----------------------------------------------------------------------------
(* Memories: one of two facts about the standup takes the other's place, and  *)
(* a preference and a decision compete with them for the budget.              *)
Fact(type, subject, replaces, size) ==
  [type |-> type, subject |-> subject, replaces |-> replaces, worker |-> FALSE, secret |-> FALSE, size |-> size]
SomeLibrary ==
  <<Fact("fact", {"standup"}, FALSE, 2), Fact("fact", {"standup"}, TRUE, 2),
    Fact("preference", {"tea"}, FALSE, 5), Fact("decision", {"office"}, FALSE, 2)>>
SomeUses == <<0, 0, 1, 0>>
SomeRestates == {{1, 2}}
SomeQuestions == [standup |-> <<40, 39, 38, 40>>]
SomeFound == [standup |-> {1, 2, 3, 4}]
SomeLimits == [planning |-> 1, push |-> 2, dispatch |-> 1, evaluation |-> 3]

\* What the owner is shown is what happened: replies once, states as they are, a
\* line for what the queue settled, and for nothing that did not settle; and the
\* model is given what it was told.
ShownInv == ThreadInv /\ SessionsInv

\* A change that takes several writes is accounted for at every one of them:
\* suggestions that change the memory, made by two sweeps at once, and review
\* actions that change the settings.
ChangesInv == ImprovementInv /\ ReviewInv

\* A message that came to its end is not reopened by a redelivery, and a
\* conversation leaves the list in one write with the tasks it started.
DeskSteps == RowEndsAreFinal /\ ChildrenLeaveTogether
=============================================================================

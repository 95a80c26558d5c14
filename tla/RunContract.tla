---------------------------- MODULE RunContract ----------------------------
(***************************************************************************)
(* What the kernel promises about a run, with no word of claims, leases,   *)
(* projections or processes: the run is one sequential history.  Its steps *)
(* are begun in the order of the plan, each at most once per dispatch and  *)
(* never before the owner approved it; the run goes back to the queue only *)
(* when everything begun may be repeated; it is verified once every step   *)
(* is done, and its terminal status is its end.                            *)
(***************************************************************************)
EXTENDS Naturals, FiniteSetsExt

CONSTANTS NumSteps, NeedsApproval, External, RetrySafe

VARIABLES status,
          waitingFor, \* the step the run waits for, 0 for none
          approved,   \* steps the owner approved
          begun,      \* steps begun since the run was last queued
          done        \* steps with evidence

contractVars == <<status, waitingFor, approved, begun, done>>

Steps == 1..NumSteps
Next1 == Min(Steps \ done)          \* the next step, when one is left
Left == Steps \ done # {}
Permitted(s) == s \in NeedsApproval => s \in approved
Over == status \in {"completed", "failed", "cancelled"}

Init ==
  /\ status = "planning" /\ waitingFor = 0
  /\ approved = {} /\ begun = {} /\ done = {}

Become(s) == status' = s /\ waitingFor' = 0 /\ UNCHANGED <<approved, begun, done>>

Queue == status = "planning" /\ Become("queued")

\* The run stops for the approval of its next step ...
Wait ==
  /\ status \in {"queued", "running"}
  /\ Left /\ Next1 \in NeedsApproval \ approved
  /\ status' = "waiting_approval" /\ waitingFor' = Next1
  /\ UNCHANGED <<approved, begun, done>>

\* ... which the owner gives while the run waits.
Approve ==
  /\ status = "waiting_approval"
  /\ approved' = approved \cup {waitingFor}
  /\ UNCHANGED <<status, waitingFor, begun, done>>

Run ==
  /\ status \in {"queued", "waiting_approval"}
  /\ Left /\ Permitted(Next1)
  /\ Become("running")

Begin ==
  /\ status = "running"
  /\ Left /\ Permitted(Next1) /\ Next1 \notin begun
  /\ begun' = begun \cup {Next1}
  /\ UNCHANGED <<status, waitingFor, approved, done>>

Finish ==
  /\ status = "running"
  /\ Left /\ Next1 \in begun
  /\ done' = done \cup {Next1}
  /\ UNCHANGED <<status, waitingFor, approved, begun>>

Requeue ==
  /\ status = "running"
  /\ Left
  /\ External = {} /\ begun \subseteq RetrySafe
  /\ status' = "queued" /\ waitingFor' = 0 /\ begun' = {}
  /\ UNCHANGED <<approved, done>>

Verify == status = "running" /\ ~Left /\ Become("verifying")

Judge ==
  /\ status \in {"verifying", "waiting_review"}
  /\ \/ Become("completed")
     \/ status = "verifying" /\ Become("waiting_review")

Fail == ~Over /\ Become("failed")

Cancel == ~Over /\ Become("cancelled")

Next ==
  \/ Queue \/ Wait \/ Approve \/ Run \/ Begin \/ Finish \/ Requeue
  \/ Verify \/ Judge \/ Fail \/ Cancel

Spec == Init /\ [][Next]_contractVars
=============================================================================

----------------------------- MODULE RunStatus -----------------------------
(***************************************************************************)
(* The status machine of a run: the table of legal transitions that the    *)
(* reducer of the journal applies to every status event.                   *)
(***************************************************************************)
EXTENDS Naturals, Sequences

RunStatuses == {"created", "planning", "queued", "running",
                "waiting_approval", "verifying", "waiting_review",
                "completed", "failed", "cancelled"}

Terminal == {"completed", "failed", "cancelled"}

allowedTransitions ==
  [s \in RunStatuses |->
     CASE s = "created"          -> {"planning", "cancelled"}
       [] s = "planning"         -> {"queued", "failed", "cancelled"}
       [] s = "queued"           -> {"running", "waiting_approval", "failed",
                                     "cancelled"}
       [] s = "running"          -> {"waiting_approval", "verifying", "failed",
                                     "cancelled", "queued"}
       [] s = "waiting_approval" -> {"running", "failed", "cancelled"}
       [] s = "verifying"        -> {"completed", "waiting_review", "failed",
                                     "cancelled"}
       [] s = "waiting_review"   -> {"completed", "failed", "cancelled"}
       [] OTHER                  -> {}]

\* A status the reducer accepts after another one (assertTransition).
MayFollow(from, to) == to \in allowedTransitions[from]
=============================================================================

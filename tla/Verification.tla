---------------------------- MODULE Verification ----------------------------
(* The checks a run passes before it may be called completed                  *)
(* (core/verification.ts, core/verifier-plugins.ts) and the owner's review of *)
(* what they could not check (core/runtime.ts).  The three verifiers read the *)
(* workspace one after the other, while its files may change.  The words of a *)
(* step are abstracted to what the verifiers read out of them, a file to      *)
(* whether it would satisfy whoever opens it.                                 *)
EXTENDS Naturals, Sequences, FiniteSets, SequencesExt

CONSTANTS
  Files,      \* files of the workspace
  Outside,    \* a file that exists outside it
  Names,      \* <<locator, file>>: the text of the locator contains the file's path
  DiffLike,   \* locators that look like a diff's
  Plans,      \* the plans: sequences of steps
  Reports,    \* the evidence of a run: sequences of items
  MaxFileEdits

NoLocator == "none"
Locators == Files \cup {Outside, NoLocator}

ASSUME VerificationAssumption ==
  /\ Outside \notin Files /\ MaxFileEdits \in Nat
  /\ \A report \in Reports : \A i \in DOMAIN report : report[i].locator \in Locators

VARIABLES
  checkedPlan,   \* the plan of the run
  evidence,      \* what its workers reported
  files,         \* each file's contents
  results,       \* the results of the verifiers that have run
  opened,        \* places whose contents decided something
  status,        \* of the run
  reviewed,      \* whether the owner decided
  fileEdits

checkVars == <<checkedPlan, evidence, files, results, opened, status, reviewed, fileEdits>>

Contents == {"absent", "empty", "wrong", "good"}

\* What the verifiers read out of a step: its risk, the files it promises, its
\* acceptance criteria, whether it names or mentions a test, and a diff.
Step(risk, promised, criteria, test, diff) ==
  [risk |-> risk, promised |-> promised, criteria |-> criteria, test |-> test, diff |-> diff]
Item(step, kind, locator) == [step |-> step, kind |-> kind, locator |-> locator]

Verdict(failed, unverified) == [failed |-> failed, needsReview |-> unverified /\ ~failed]

VerificationTypeOK ==
  /\ files \in [Files -> Contents]
  /\ \A i \in DOMAIN evidence : evidence[i].locator \in Locators
  /\ Len(results) <= 3 /\ opened \subseteq Files \cup {Outside}
  /\ status \in {"verifying", "waiting_review", "completed", "failed"}
  /\ reviewed \in BOOLEAN /\ fileEdits \in 0 .. MaxFileEdits

VerificationInit ==
  /\ checkedPlan \in Plans /\ evidence \in Reports
  /\ files \in [Files -> Contents]
  /\ results = <<>> /\ opened = {} /\ status = "verifying" /\ reviewed = FALSE /\ fileEdits = 0

\* The evidence of a step, and the first of it that is what is looked for.
OfStep(s) == {e \in ToSet(evidence) : e.step = s}
FirstOf(wanted) ==
  {evidence[i] : i \in {k \in DOMAIN evidence : evidence[k] \in wanted /\ \A j \in 1 .. k - 1 : evidence[j] \notin wanted}}

\* verifiedWorkspacePath: a locator that is a file of the workspace, and there.
Resolved(locator) == locator \in Files /\ files[locator] # "absent"

-----------------------------------------------------------------------------
(* EvidenceVerifier                                                           *)

ActsOutside(risk) == risk \in {"external_side_effect", "irreversible"}

\* The places a promised file is looked for in: what the step's evidence names,
\* then the path itself.  The first that is a file decides.
Naming(s, f) == {e \in OfStep(s) : <<e.locator, f>> \in Names /\ Resolved(e.locator)}

Found(s, f) ==
  IF Naming(s, f) # {} THEN {e.locator : e \in FirstOf(Naming(s, f))} ELSE {l \in {f} : Resolved(l)}

Readable(place) == IF place \in Files THEN files[place] ELSE "good"

\* A criterion is covered when all it says is that a named file exists or what
\* it contains.
EvidenceVerdict ==
  LET Failed(s) ==
        \/ OfStep(s) = {}
        \/ ActsOutside(checkedPlan[s].risk)
           /\ ~\E e \in OfStep(s) : e.kind = "receipt" /\ e.locator # NoLocator
        \/ \E f \in checkedPlan[s].promised : ~\E p \in Found(s, f) : Readable(p) = "good"
      Unverified(s) ==
        IF checkedPlan[s].promised = {} THEN checkedPlan[s].criteria # {} ELSE "quality" \in checkedPlan[s].criteria
  IN Verdict(\E s \in DOMAIN checkedPlan : Failed(s), \E s \in DOMAIN checkedPlan : Unverified(s))

EvidenceOpens == UNION {Found(s, f) : s \in DOMAIN checkedPlan, f \in UNION {p.promised : p \in ToSet(checkedPlan)}}

-----------------------------------------------------------------------------
(* TestCommandVerifier and DiffFileVerifier                                   *)

TestItem(s) == FirstOf({e \in OfStep(s) : e.kind = "test" /\ e.locator # NoLocator})
DiffItem(s) == FirstOf({e \in OfStep(s) : e.locator \in DiffLike})

TestFailed(s) ==
  /\ checkedPlan[s].test = "mentioned"
  /\ \/ TestItem(s) = {}
     \/ \E e \in TestItem(s) : ~Resolved(e.locator) \/ Readable(e.locator) # "good"

\* The default verifiers approve no command, so one the plan names is never run:
\* the owner is asked.  A test merely mentioned needs its output, which is read
\* and still needs the owner, for a worker wrote it.
TestVerdict ==
  Verdict(\E s \in DOMAIN checkedPlan : TestFailed(s), \E s \in DOMAIN checkedPlan : checkedPlan[s].test # "none")

DiffVerdict ==
  LET Failed(s) ==
        /\ checkedPlan[s].diff
        /\ \/ DiffItem(s) = {}
           \/ \E e \in DiffItem(s) : ~Resolved(e.locator) \/ Readable(e.locator) # "good"
  IN Verdict(\E s \in DOMAIN checkedPlan : Failed(s), FALSE)

PluginOpens ==
  {e.locator : e \in {i \in UNION {TestItem(s) : s \in {t \in DOMAIN checkedPlan : checkedPlan[t].test = "mentioned"}}
                        \cup UNION {DiffItem(s) : s \in {t \in DOMAIN checkedPlan : checkedPlan[t].diff}}
                      : Resolved(i.locator)}}

-----------------------------------------------------------------------------
(* CompositeVerifier and the runtime                                          *)

\* One verifier after the other.
Check ==
  /\ status = "verifying" /\ Len(results) < 3
  /\ results' = Append(results, <<EvidenceVerdict, TestVerdict, DiffVerdict>>[Len(results) + 1])
  /\ opened' = opened \cup (IF results = <<>> THEN EvidenceOpens ELSE PluginOpens)
  /\ UNCHANGED <<checkedPlan, evidence, files, status, reviewed, fileEdits>>

\* Mutant of Outcome: what needs the owner goes to the owner, failures too.
OutcomeReviewFirst ==
  IF \E v \in ToSet(results) : v.needsReview THEN "waiting_review"
  ELSE IF \E v \in ToSet(results) : v.failed THEN "failed" ELSE "completed"

\* One failure is enough; then one thing left to the owner.
Outcome ==
  IF \E v \in ToSet(results) : v.failed THEN "failed"
  ELSE IF \E v \in ToSet(results) : v.needsReview THEN "waiting_review" ELSE "completed"

Conclude ==
  /\ status = "verifying" /\ Len(results) = 3
  /\ status' = Outcome
  /\ UNCHANGED <<checkedPlan, evidence, files, results, opened, reviewed, fileEdits>>

\* reviewVerification: the owner decides on a run that waits for a review only.
Review(decision) ==
  /\ status = "waiting_review"
  /\ status' = (IF decision = "accept" THEN "completed" ELSE "failed")
  /\ reviewed' = TRUE
  /\ UNCHANGED <<checkedPlan, evidence, files, results, opened, fileEdits>>

\* The owner's editor, or a worker that goes on, meanwhile.
ChangeFile(f, contents) ==
  /\ status = "verifying" /\ fileEdits < MaxFileEdits /\ contents # files[f]
  /\ files' = [files EXCEPT ![f] = contents] /\ fileEdits' = fileEdits + 1
  /\ UNCHANGED <<checkedPlan, evidence, results, opened, status, reviewed>>

VerificationNext ==
  \/ Check \/ Conclude
  \/ \E decision \in {"accept", "reject"} : Review(decision)
  \/ \E f \in Files, c \in {"absent", "good"} : ChangeFile(f, c)

VerificationSpec == VerificationInit /\ [][VerificationNext]_checkVars

-----------------------------------------------------------------------------
\* A run that completes without its owner leaves nothing a verifier could not
\* check: no criterion of quality, no test, and a receipt for what it did outside.
CompletedWasChecked ==
  status = "completed" /\ ~reviewed =>
    \A s \in DOMAIN checkedPlan :
      /\ "quality" \notin checkedPlan[s].criteria /\ checkedPlan[s].test = "none"
      /\ checkedPlan[s].criteria # {} => checkedPlan[s].promised # {}
      /\ ActsOutside(checkedPlan[s].risk) =>
           \E e \in ToSet(evidence) : e.step = s /\ e.kind = "receipt" /\ e.locator # NoLocator

\* The owner is never asked to accept what a check of the run refuted, and so
\* cannot: whatever was read, and whenever, one failure is final.
RefutedIsNotReviewed ==
  status = "waiting_review" \/ reviewed => \A i \in DOMAIN results : ~results[i].failed

\* No check ever rests on a file outside the workspace.
NothingOutsideDecides == Outside \notin opened

\* Of files that change between one verifier and the next: a run completes
\* without its owner only when everything was checked, what was refuted is not
\* put to the owner, and nothing outside the workspace decides (verification.ts,
\* verifier-plugins.ts).
VerificationInv ==
  /\ VerificationTypeOK
  /\ CompletedWasChecked
  /\ RefutedIsNotReviewed
  /\ NothingOutsideDecides
=============================================================================

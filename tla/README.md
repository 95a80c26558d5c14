# Verification of the clone-ai runtime

Clone-ai keeps a personal agent's work in an append-only journal and lets
several processes act on it: a daemon whose timers look for work, command line
invocations that plan and execute a run themselves, a conversation that proposes
plans, a bridge for mobile messages, and the owner who approves, rejects,
reviews and cancels.  None of these processes locks another out for longer than
one SQLite transaction.  What keeps them from doing the same work twice, from
acting after the owner said no, and from leaving a journal that cannot be
replayed is a handful of protocols spread over `src/core` and `src/application`;
around them stand services with protocols of their own - schedules, reports,
memory, commitments, cards, policies, the conversation.  This directory models
those protocols in TLA+, checks them with TLC and proves the ones everything
else stands on with TLAPS.  Source paths are relative to the repository's root;
its implementation is under `src/`.

## The system

| Component | State | Hard because | Modules |
|---|---|---|---|
| Journal store (`core/sqlite-journal.ts`, `journal.ts`) | events in sequence order, `run_claims` rows (owner, lease, attempt) | leases are wall-clock times; an owner that lost its lease is still running | RunClaims |
| Run state (`core/run-state.ts`) | none | a refused transition is already in the journal | RunStatus |
| Runtime kernel (`core/runtime.ts`) | an in-memory projection, the last applied sequence, execution guards | every decision is taken on a projection that other processes make old | RunKernel, RunContract, ProjectionRefresh |
| Queue consumer, planning process (`application/`) | a timer, the runs it executes | reads, claims and reads again, while others do the same | RunKernel |
| Subagent dispatch (`executeSubagents`, `core/workspace-lock.ts`) | tasks of a wave, attempts, the queue for the workspace | tasks outlive the execution that awaits them | SubagentDispatch |
| Workspace recovery and isolation (`core/workspace-evidence.ts`, `isolated-workspace.ts`) | checkpoints of the workspace, isolated copies | decides from files the owner and earlier attempts changed | WorkspaceRecovery |
| Verification and failure analysis (`core/verification.ts`, `verifier-plugins.ts`, `failure-analysis.ts`) | none | a verdict between pass, fail and review, from files that change | Verification, Corroboration |
| Authority (`authority/`, `core/policy.ts`) | levels per domain, standing policies in a file | overlapping policies; the file is changed while steps are evaluated | Authority, Scopes, StandingPolicies |
| Schedules (`scheduling/`) | schedules, occurrences | at most one dispatch per occurrence over several daemons and crashes | Schedules |
| Daily report (`reporting/`) | one delivery row per day, the covered sequence, the log of failures | a mail that may or may not have left | DailyReport, BadCaseLog |
| Memory (`memory/`) | pending jobs, candidates, memory files and their index | every process rebuilds the jobs; a mutation is five steps; the owner edits the files | MemoryMining, MemoryGovernance, MemoryContext |
| Personal state (`state/`) | goals and commitments, projected from the journal | the reconciler reads, waits, then writes | Commitments |
| Opportunities (`opportunity/`) | proposed and resolved cards | an incremental scan keeps a projection of its own | Opportunities |
| Improvement (`improvement/`) | suggestions | applied and recorded in two steps; sweeps without a lock | Improvement |
| Sessions (`sessions/`) | the index of deleted conversations | read-modify-write of a file, parents and children | Sessions |
| Main agent (`main-agent/`) | turns, prompt lock, conversation | two records of a turn; a lock that is a file | MainAgentTurns, TurnAudit, OwnerThread |
| Planning (`planning/`, `main-agent/plan-routing.ts`) | the plan being made | what the owner said, what exists and what the plan says meet | Planning |
| Workers (`workers/`) | a conversation with a model | the abort is looked at between rounds | NativeWorker |
| Mobile bridge (`mobile/`) | inbox, back-off, retry timer | messages come again, either end may die | MobileBridge |
| Companion server (`companion-server.ts`) | the life of a daemon, token and endpoint files | the order of the awaits on shutdown | Companion |
| Audit (`audit/`, `core/invariants.ts`) | none, but for the actions of a review | reads a story out of a history cut by crashes | RunHistory, TurnAudit, ReviewActions |
| Connectors, configuration, CLI, desktop | adapters and views | | not modelled, see the end |

The components meet in the journal: nothing calls into another process.  A
runtime appends events and applies them to its own projection; the others see
them when they refresh.  Ownership of a run is a row of `run_claims`; the fence
is that an append under a claim is refused in the same transaction that would
write it when the claim is not held any more.

What has to hold, in one line each: writes under a claim come in the order of
the claims; a cancellation ends the run and whoever holds its claim; the journal
can be replayed; a run is one sequential history; work starts after its approval
and at most once when nobody vouches for repeating it; a completed run has its
evidence; a run somebody works on is left alone, a run nobody works on is taken
up; subagents start after what they depend on, within their budget, and settle;
an attempt begins on the files it was meant for and the owner's files are not
overwritten; nothing the owner did not grant goes ahead unasked; a request, a
mail, a mining job, a settlement and a turn happen once, and a suggestion once for
each sweep that overlaps; what was journaled takes effect.

## Modules

Each row of `map` in `PROJECT.json` names the lines a definition stands for.

### Runs

**RunStatus** - `allowedTransitions` of `core/run-state.ts` and the terminal
statuses.

**RunClaims** - the store.  State: `claims` (one row per run), the journal with
the owner and attempt under which each entry was written, the clock.  One action
per operation of the store, each one transaction.  The clock may be set back;
`setBacks` counts how often it was.

**RunKernel** - one run under all its actors.  `journal` is the shared truth;
`view` is the projection each process holds; `claim` is the row of the run, its
lease abstracted to live or run out; `tick`, `exec` and `found` are the program
counters of the ticks, the executions and the recoveries; `performed` counts
what workers did to the world.  Between two actions of an actor there is an
`await` in the code, so anything may happen there.  `Write` is the heart of it:
an event is committed first, applied to the writer's projection after, and
refused there if its transition is illegal - too late for the journal.  The
policy is read on every decision, so a step in `MayDeny` may be refused at any
of them (`AuthorityPolicyEngine` reads its configuration per evaluation).

**RunContract** - what the kernel promises about a run without mentioning
claims, leases, projections or processes.  RunKernel implements it
(`ImplementsContract`).

**ProjectionRefresh** - the incremental refresh: several runtimes, several
runs, and the sequence up to which each one has applied the journal.

**SubagentDispatch** - one step split into work orders.  `dependsOn` is any
acyclic graph the validation lets through; `task` is the program counter of each
dispatched order; `guarded` and `aborted` are the execution guard and its
signal; `lock` is the queue for the workspace; `starts` remembers every start of
an adapter and whether it vouched for repetition.

**WorkspaceRecovery** - what one order does to files.  `live` is the owner's
tree, `sandbox` the isolated one, `hashes` and `copies` the checkpoint, `stage`
the place of the runtime between its awaits, `pending` the files it still has to
copy.  The owner may edit and the runtime may die between any two files.  A
failed attempt restores; an interrupted one is judged by `RecoveryVerdict`
(`assessWorkspaceRecovery`).  SubagentDispatch takes any verdict the assessment
can return, this module shows which ones the files allow.

**Planning** - a request (the terms its words match), its routing, the plan of
the local rules or of up to `MaxProposals` proposals of a model, the worker of
each step, and the contract of `attachPlan`.

**Verification** - the plugins read the workspace one after the other while
files change; the verdict is put together from their results; the owner's review
decides what they could not check.

**Corroboration** - the workers of an order one after another, and the
judgement that two providers failing alike met a wall.  A worker may fail with a
report or without one.

**Scopes, Authority, StandingPolicies** - the vocabulary of scopes with
canonical places and commands that begin with the granted one (`Within`); the
decision on a step against levels and policies that the
owner changes; and the store both are kept in: the file and its time, and two
stores that replace it, the daemon's and the one a CLI command opens.

**NativeWorker** - one attempt: rounds of a model that may call any tool with
any place, the gate before every call, reads that find nothing and writes that
fail, the deadline that may fire at any moment and is looked at between rounds,
the evidence at the end.

**RunHistory** - the events an executor writes, cut anywhere by its death and
continued or failed by recovery, cancelled or rejected by the owner (`Cancel`,
`Reject`); from these the legality check, the stage and
outcome of the audit, and the briefing are computed as operators.

### Services of the daemon

**Schedules** - `schedule-store.ts`, one action per transaction, and the tick of
`local-scheduler.ts` as the program counter `at` of every daemon that shares the
database.  A tick goes by the time it began at (`instant`) also when it claims
after its recovery; `early` remembers what was claimed as of a time before its
schedule was there.  `begun` numbers the dispatches of an occurrence, `effects` counts what
its request did.  A daemon that dies may come back under any process id no daemon
has, its predecessor's included.

**DailyReport, BadCaseLog** - the delivery row of every day, the lock held from
the look at the row to the record of the outcome, and `runner[p].covered`, the
sequence a runner counts as covered; `mails` and `mailed` remember what left.
The log of failures and its marker are two files written one after the other.

**MemoryMining** - jobs requested in the journal, rebuilt into the queue of
each process, mined under one lock, and published; `Poison` jobs always fail.

**MemoryGovernance** - a mutation is staged, journaled, written to its file,
indexed and unstaged; any step may be the last of a process, and the owner edits
the files meanwhile.  `ruled` is what the journaled decisions amount to.

**MemoryContext** - recall ranks and counts uses, the context builder drops what
a later statement replaces and fills a bounded text.  Which memories share enough
words with a question to match (`Found`) and how well each scores without its
uses (`Questions`) are inputs; what is ranked, dropped, admitted and counted is
the code's.  A memory may match and still score below the builder's floor: only
one above it takes another's place.

**Commitments, Opportunities** - commitments and goals as the replay of journal
events; a pass reads once, looks at runs and files, and writes later; the scan
reads on from the last state event it knows.  Opportunities extends Commitments:
an accepted card becomes a run that settles what the card was about.

**Improvement, ReviewActions** - suggestions and the actions of a review: each
changes something and records it in another write.  `Sweepers` are the sweeps
that may be under way together, of the daemon and of the command line: each reads
once (`BeginSweep`) and appends one by one (`SuggestOne`).

### The owner's desk

**MainAgentTurns, TurnAudit, OwnerThread** - a question from the route through
the prompt lock to its last row in the ledger; the journal's record of the same
turn; the conversation and the history that are put together from the ledger.
OwnerThread also has the lines about work that settled: `executor` is the queue or
the request that executes a run, `telling` the executions of the queue that are
over and have yet to be told of, `queueEnds` the runs they brought to an end.  The
owner cancels, rejects and reviews beside, recovery takes over what a dead
executor left, and `TellSettled` reads a projection that may have moved on.

**MobileBridge** - extends MainAgentTurns: the inbox, the drain loop, and the
turn each message becomes under the message's own id.

**Sessions** - the index of what was removed, with the tasks of a conversation.

**Companion** - boots on one data directory, from the token to the closed
journal, and the bridge that reads two files before every call.

**Options** holds what several modules say in the same way: an optional value as
a set of at most one element, what a filter keeps of a sequence (`Picked`), and an
object spread over another (`Overlaid`).  The `*Proofs` modules are described under "Proofs".

## Composition

Three modules interact through shared variables: Opportunities with Commitments,
MobileBridge with MainAgentTurns, and RunKernel with RunContract by refinement.
The others share no state with each other that a property depends on, except
through the journal, whose events each module takes as its inputs.

The `MC*` modules give TLC something to run.  MCServices, MCWork, MCDesk and
MCUpkeep put several components under one instance: the variable `focus` picks,
in the initial state, the component a behaviour exercises, and the others stay
as they were.  The state space is the sum of theirs and not the product, each
action of each component is taken in some behaviour, and no property relates
components of different focus.  Commitments has a focus of its own beside that
of Opportunities, with every kind of commitment and two runs; next to the scanner
one run serves a recurring one.

## Runs

| Run | What it asks | Bounds |
|---|---|---|
| `kernel_owner` | is the journal replayable and one sequential history (refinement of RunContract); does work follow its approval, and completion its evidence? | two steps, the second approved by the owner, one of each actor, one crash |
| `kernel_queue` | is a dispatch executed once; are a rejection and an end final? | two consumers, a rejecter, a cancellation, a crash, a lost lease |
| `kernel_rest` | is a run in flight owned, unsafe work done at most once, and does the run come to rest? | a planner executing its own run, a consumer, a crash, a lost lease |
| `services` | schedules, the report, policies, refresh with one writer; plans, verdicts, corroboration and the reading of a run's history | one schedule of any kind over three instants, two daemons with two process ids and one fault, two runners, two days; two proposals; two files; three workers; two steps, one with two orders and one guarded; one crash each |
| `work` | subagents in every dependency order; mining; the decision on a step while authority changes; the two records of a turn | two orders with two attempts, a crash, a lost claim, a cancellation; three jobs, one of which always fails; four policies, four changes, four domains of scopes; one tool call, one failed append |
| `desk` | claims under a clock that may be set back; messages over the deaths of both ends; two boots of a daemon; conversation, list, lines about work, context, suggestions, review actions | two owners, three grants; two deliveries; three turns; four memories; four runs, two sweeps at once; two clicks |
| `upkeep` | mutations, commitments and cards, orders and their files, an attempt of the worker, the log of failures and a turn: what must come to an end does, and what is found on the way is right | two mutations; a recurring and a single commitment and two runs that may serve one, a goal; two files, one too large to be kept; two rounds; four events; two turns; one or two deaths each |
| `kernel_double_dispatch` | finding: a second `waiting_approval` | one step, one planner, one consumer, no fault |
| `kernel_rejection` | finding: work starts after the rejection | one step, one approver, one rejecter, no fault |
| `refresh_two_writers` | finding: events skipped for good | two runtimes that write |
| `subagents_after_cancel` | finding: an order dispatched after the cancellation | two orders that queue for the workspace |
| `report_dropped` | finding: events no report carries | as `services`, the report alone |

The composed runs are checked without deadlock detection: clocks, edits, turns
and the owner's changes are bounded there, and a service may come to rest.  In
the runs of the kernel some timer ticks for ever, and a deadlock is an error.
`subagents_after_cancel` has none either: a step that has settled is over.

Bounds on faults are one or two of each kind: every protocol has one layer of
recovery, and two crashes add no order of steps that one crash at any point does
not have, except for the crash of a recovery itself.  Where the recovery is the
work of another process, one crash may hit it as well as the first; where it is
the same process that starts again (`BadCaseLog`, `MainAgentTurns`), the bound is
two.  Two consumers, daemons or runners are enough for every race over one row,
since a claim has one holder and the rest is excluded in the same way; that it
holds for any number is what the proofs are for.

Seven bounds leave a case out on purpose, because the code does not exclude it and
the property speaks of the rest; each is named in the hazard it belongs to:
`Visits` and `Requests` have one element (two requests that read a file before
either writes it lose one change), `Servers` has one (two questions under one
turn id that arrive together may both be put to the model), `Reconcilers` has one
(two passes may settle the same occurrence twice), `Poison` has a run and no
conversation (a conversation that cannot be mined stops those behind it),
`Writers` has one (the finding `refresh_two_writers`), `MaxCards` has room for a
card of every commitment and every run that may fail (a scan drops what is beyond
it).  `Sweepers` has two and a commitment two runs that may serve it, because the
properties say what is left when they overlap (the number of sweeps in
SuggestedOnce and PendingIsBounded, `StandsBefore` in ServedIsSettled); `early`
does the same for ticks that overlap the end of a period.  Where a theorem needs the
same restriction it is a hypothesis of the theorem with a name: OneVisit,
OneAtATime, OneReconciler, SoleWriter, FewCards.

**Fairness.**  `kernel_rest` assumes that the daemon's interval timer keeps
ticking, that an execution that can go on does so (a promise that is resolved is
continued), and that leases and the grace period of planning run out, which is
time passing.  It assumes nothing of the owner, of the planner's promptness or of
faults.  `services` assumes that a runtime keeps refreshing, that the timer of a
scheduler that lives keeps ticking and that a request it carries out ends; not
that a dead process comes back.  `work` assumes that the event loop runs what is
ready and that a stream ends (the code bounds a stream by the budget of its
order), and that maintenance and the executing command drain their queues.
`upkeep` assumes that maintenance comes back for as long as the daemon lives and
that what a runtime, a worker or a server has begun goes on.  `desk` assumes
nothing: it has no liveness property.

## Properties

A component has one state property, the conjunction of named parts each with a
comment of its own in the module, and where it promises something about steps
or about what must happen, one more.  Types are a part; the others are what the
hazards of `PROJECT.json` are about.

| Property | Parts, beside the type | Against |
|---|---|---|
| `Consistent` | JournalReplayable | a stale writer recording what a replay refuses |
| `ApprovalBeforeWork`, `CompletedHasEvidence` | | work the owner did not approve, completion nobody earned |
| `ImplementsContract` | RunContract's next-state relation and fairness-free specification | any history a single sequential executor could not have written |
| `StartedOncePerDispatch`, `UnsafeAtMostOnce` | | two consumers on one dispatch; recovery that repeats an effect |
| `RejectionIsFinal`, `NothingAfterTheEnd` | | an actor that goes on from an old reading |
| `RunningIsOwned`, `ComesToRest` | | a run in flight that nobody works on, for a moment or for ever |
| `ClaimsInv`, `HandOver` | FencingOrder, CancelRevokes, CancelSettlesOrders | late writes of an owner that lost its lease |
| `DispatchInv`, `NothingAfterTheEnd`, `WorkSettles` | DependenciesFirst, AlwaysReady, AttemptsWithinBudget, UnsafeIsTheLast, CompletedHasEveryOrder; EveryTaskSettles | orders out of order, over budget, repeated, or stuck behind the workspace |
| `RecoveryInv`, `RecoverySteps` | CheckpointIsWhole; BeginsClean, OwnersTreeIsSafe, NothingIsLost, IsolatedIsNotRepeated | files judged against half a checkpoint, overwritten, or lost |
| `PlanningInv` | LocalPlansAreAccepted, NamedOrRefused, GateSeesTheRisk | a plan the gate understates or the owner's choice replaced |
| `VerdictsInv` | CompletedWasChecked, RefutedIsNotReviewed, NothingOutsideDecides; WallNeedsTwo, OthersAreAskedFirst | a verdict of parts that saw different files; a wall that was one worker |
| `HistoryInv` | HistoryIsLegal, AuditNamesTheStage, CompletedOrdersAreShown, StoppedIsTold | a wrong story out of a right history |
| `AuthorityInv`, `TighteningNeverAllows` | ApprovalNeverLiftsDenial, UnaskedIsGranted | overlapping policies that allow more when one ends |
| `StandingPoliciesInv` | ViewWasOnDisk | a permission in force that no file ever held |
| `RefreshInv` | ProjectionIsReplay, RefreshGoesThrough | an incremental projection that is no replay |
| `SchedulesInv` | NoBlindRetry, OneDispatcher, WaitsForItsTurn | a request carried out twice over crashes and process ids; a period claimed that was over before its schedule was there |
| `DailyReportInv` | NoBlindResend, UnderWayIsDispatching | a mail sent twice, or declared lost while it leaves |
| `ServicesCatchUp` | DispatchesSettle, CreatedIsSeen | an occurrence left dispatching, a run never seen |
| `MiningInv`, `WorkSettles` | MinedOnce, ClosedWasMined; JobsAreMined | the same run mined by two processes, a job that starves behind another |
| `RecordsInv` | IndexFollowsJournal, OnlyKnownFilesReplaced, DecidedOnce; MarkerIsHonest | a mutation half done, an owner's edit replaced |
| `ContextInv` | UsageNeverBuries, ContextFitsTheBudget, PreferenceIsShown, ReplacedIsRetired | relevance lost to popularity or to the budget |
| `OpportunitiesInv`, `CommitmentsMoveOn` | SettledOnce, SettledByItsRun, ScannedStateIsReplay, FailuresAreProposed; DueOnlyAdvances, MovesOnWithItsFiles, ServedIsSettled | settled twice, by the wrong run, or never |
| `ChangesInv` | PendingIsBounded, SuggestedOnce, DecidedStaysDecided, ChangesAreAccounted; AppliedIsJournaled | what the owner decided coming back; a change nobody can account for; a page that says more than the journal |
| `ModelWorkInv` | NothingInvented, DeadlineBoundsWork; TurnRunsOnce | work after its deadline, files made up, a turn run again |
| `TurnAuditInv` | EndIsJournaledFirst, ClosedTurnShowsItsTools | two records of one turn that contradict each other |
| `BridgeInv`, `DeskSteps` | ProcessingIsHeld, CompletedWasAnswered, TurnRunsOnce; RowEndsAreFinal, ChildrenLeaveTogether | a message lost between two processes, or answered twice |
| `ShownInv` | RepliesShownOnce, SidebarTellsTheTurn, NewestIsVerbatim, PromptWithinBudget, QueuedWorkIsTold, LinesStayTrue; HiddenForAReason | a view that says other than what happened |
| `CompanionInv` | JournalOutlivesWork | work that writes to a closed journal |
| `UpkeepEnds` | RecordedTakesEffect, OrderEnds, AttemptEnds, FailuresAreLogged, TurnsComeToAnEnd | what was begun and never ends |

Each has a mutant in `PROJECT.json`: a plausible slip in one definition of the
model that TLC finds to violate it under the run's own configuration.

## Findings

Five runs are expected to fail: the code against a sentence of the repository,
which `PROJECT.json` quotes.

* A planning process goes on with a run that a queue consumer stopped for
  approval in the meantime, and records the stop a second time.  The journal
  cannot be replayed any more (`kernel_double_dispatch`).
* A rejection is conditional on the status, not on the claim: an approval under
  way starts the work after it (`kernel_rejection`).
* A runtime's own write moves its applied sequence past events of others it has
  not read, which no later refresh delivers (`refresh_two_writers`).
* The tasks of a wave outlive the execution whose guard fenced them: an order
  still queued for the workspace is dispatched after the cancellation
  (`subagents_after_cancel`).
* A daily report that fails before its mail left has moved the covered sequence:
  its events are in no later report (`report_dropped`).

The properties these break hold in the passing runs because those configurations
lack the ingredient: `kernel_owner` leaves the plan to the queue (`Proposers`),
`kernel_queue` has a rejection but no approval under way,
`SubagentDispatch!NothingAfterTheEnd` speaks of executions that await one task,
`Services.cfg` has one writer for ProjectionRefresh.

Seen while modelling, and stated by no run, most of them because nothing in the
repository promises otherwise:

* The client of the native worker never calls `onToolCall`, so that the worker's
  own count of tool calls stays zero and its budget refuses nothing, while
  `docs/architecture/trade-offs.md` (line 491) says it "refuses further calls
  inside its own loop".  `counted` of NativeWorker stays what it was.
* Two requests that read the index of deleted conversations before either writes
  it lose one of the changes (`sessions/session-store.ts`, line 56); the same
  holds of two stores of standing policies (`authority/standing-policy-store.ts`,
  line 109).
* Two reconcilers in different processes may settle the same occurrence twice
  (`state/personal-state-store.ts`, line 167).
* A scan hands on the first twelve cards (`opportunity/opportunity.ts`, line 173)
  of at most sixty events (`opportunity/opportunity-service.ts`, line 83), and the
  next one reads on behind the last state event: a failure that found no place is
  then never shown.  TLC shows it with `MaxCards` = 1.
* "... the daemon appends one line per settled run" (`main-agent/work-updates.ts`, line
  8).  The hook that does is given to the queue only (`companion-server.ts`, line
  422; `application/run-queue.ts`, line 233).  A run that the handler of an approval,
  a schedule or a query executes (`companion-server.ts`, lines 1964-1973 and
  385-396) has no line, nor has one that was rejected, cancelled while it waited, or
  given up by recovery.  QueuedWorkIsTold is about the runs the queue brought to
  their end.
* No lock keeps sweeps for suggestions from each other
  (`improvement/improvement-service.ts`, lines 61-101): `improve sweep` and the
  daemon may make the same suggestion twice, exceed the limit by as much as the
  limit, and offer again what was decided between the reading of one and its
  append.
* "Interval schedules wait one full interval before their first run"
  (`scheduling/schedule-store.ts`, line 387).  Their keys number the intervals since
  the epoch, so that they wait until the next one begins; and the tick takes its time
  before it recovers and claims with it after (`scheduling/local-scheduler.ts`, lines
  43 and 51), so that a tick which crosses the end of an interval claims the old one
  for a schedule that was created meanwhile, which runs at once.
* Of two runs planned for one commitment the reconciler looks at the first alone
  (`state/commitment-reconciler.ts`, line 144): if that one completed unverified,
  the second, verified, settles nothing.
* The audit puts a run that the owner rejected down to the stage "unknown", or to
  "execution" when an earlier attempt had failed (`audit/run-audit.ts`, line 292).
* `audit/apply-review.ts` (line 5) reads as if the event were written first, so that
  "the journal can always answer who changed what"; the code writes the
  configuration first (line 42), and a crash after it leaves a value no event
  answers for.
* A named file whose `write_file` fails does not count as failed in the native
  worker (`workers/native-agent-worker.ts`, line 228), a read that fails does.
* A conversation whose extraction always throws ends every pass at its place
  (`memory/conversation-memory-pipeline.ts`, line 77).
* After a failed append the stored turn and the audited turn may end differently
  (`audit/turn-audit.ts`, line 168).
* The recall used for planning hands on neither type nor date, so that newer
  statements do not retire older ones there (`memory/md-memory-store.ts`, line
  857).
* A daemon removes the endpoint file it finds on closing, which may be a
  successor's.
* Two approvers of the same stop: the grant is conditional on the status and not
  on the step (`core/runtime.ts`, lines 453 and 1725), and the second one's own
  write moves its mark past evidence it never read, so that a step nobody vouches
  for is done a second time.  This is why `SoleDecider` below allows one approver;
  TLC shows it with two approvers, two steps and one external step.
* A run that is interrupted after its last evidence and before `verifying` is put
  back in the queue when every adapter vouches for repetition (`core/runtime.ts`,
  line 364); the next executor finds no step to do and records `verifying` after
  `queued`, which the reducer refuses.  No adapter of the repository declares
  `retrySafeAfterInterruption` for all it does, so that the case is latent, and
  the first conjunct of `SoleDecider` excludes it.
* Two questions under one turn id at once: the query route reads the ledger
  before it takes the prompt lock, and nobody reads it again inside
  (`companion-server.ts`, lines 1737-1764); and `main-agent/prompt-lock.ts` creates
  the lock file at line 42 and writes the process id into it afterwards, while an
  empty file counts as stale (line 63), so that two prompts can be inside.

## Proofs

Eight modules hold proofs.  Each proves what it says for every value of the
constants, under the assumptions its component modules name, which TLC evaluates
on every run, and under the hypotheses named in the last column, which are
written out in the theorems.

| Module | Proves | Hypotheses |
|---|---|---|
| RunKernelProofs | ApprovalBeforeWork, CompletedHasEvidence | |
| SoleDeciderProofs | Consistent, StartedOncePerDispatch, RejectionIsFinal, RunningIsOwned, UnsafeAtMostOnce, NothingAfterTheEnd, and ImplementsContract: RunKernel refines RunContract | SoleDecider |
| SubagentDispatchProofs | DispatchInv, NothingAfterTheEnd | |
| ServicesProofs | SchedulesInv, DailyReportInv, StandingPoliciesInv, VerdictsInv, PlanningInv, HistoryInv; RefreshInv | SoleWriter for RefreshInv |
| WorkProofs | MiningInv, AuthorityInv, TighteningNeverAllows, TurnAuditInv | |
| BridgeProofs | TurnsInv, BridgeInv, RowEndsAreFinal | OneAtATime |
| DeskProofs | ClaimsInv, HandOver, CompanionInv, ChangesInv, ContextInv; ShownInv, DeskSteps | OneVisit for the last two, OneAtATime for DeskSteps |
| UpkeepProofs | RecoveryInv, RecoverySteps, RecordsInv; ModelWorkInv; OpportunitiesInv, DueOnlyAdvances | OneAtATime for ModelWorkInv; OneReconciler and FewCards for the last two |

The runs compose components under `focus`; a theorem about a conjunction of
parts assumes the specifications of the components that own them, for instance
`VerificationSpec /\ CorroborationSpec => []VerdictsInv`.

**SoleDecider.**  Two conjuncts.  Some step is external or not every step may be
repeated: otherwise an interrupted run whose work is all done goes back to the
queue and cannot be read any more.  And either no step needs approval, or no
planner executes a plan the queue may stop, and the owner decides through one
process - one approver and no rejecter, or rejecters and no approver.  What
happens without the second conjunct are the findings `kernel_double_dispatch` and
`kernel_rejection` and the two approvers of "Seen while modelling".  The passing
runs of the kernel satisfy it, with any number of consumers, planners, crashes
and lost leases beside.

None of these invariants but the type invariants is inductive.  What carries
them:

* **RunKernel, without hypotheses.**  `Sound`: every approval and every evidence
  in a projection, however old, is in the journal, which only grows; an executor
  that is about to start an approved step knew its approval, and one that passes
  a verdict once had the evidence of every step.
* **RunKernel under SoleDecider.**  `KernelInv` says of every actor, at every
  place between two awaits, how much of the journal its projection holds.  An
  actor that holds the claim holds all of it, because whoever else may write
  needs a status that this actor's status excludes; an actor without the claim
  writes conditionally.  So every write is made by somebody who knows the last
  status, and what the code writes there is a successor of it.  The status, the
  step at work and the approvals after a prefix of the journal are definitions
  over positions (`LastMark`, `StatusAfter`) and not folds, which is what lets an
  appended event be reasoned about.  The refinement follows step by step: each
  action of the kernel appends nothing (a stutter of RunContract) or one event,
  and `KernelInv` gives the guard RunContract asks for.  TLC checked `KernelInv`
  as an invariant of five instances of RunKernel before it was proved, the three
  passing configurations and two with more steps and consumers.
* **SubagentDispatch.**  `Guarding`: what the guard of the executor knows of the
  run; `Settled`: what is over where the executor is; `Counted`: what the starts
  of an order amount to, its interrupted attempts included; `Rests`: an order
  whose task or starts exist rests on finished work, by the acyclic plan; and
  `Queued`: who is in the queue for the workspace.  A step of a task disturbs one
  order, so `Counted` and `Rests` are kept order by order.
* **RunClaims.**  `Ledger`: no entry of the journal has an attempt above the one
  in its run's row, and the entries of the current attempt carry the current
  owner - what `claimRun` preserves by raising the attempt whenever the owner
  changes.  `Revoked`: after a cancellation the row is not live unless its claim
  was granted since; a clock set back would revive the lease, which is why
  CancelRevokes speaks of behaviours without that.  All of it rests on one
  description of a step, `Lands`: a transaction adds at most one entry, stamped
  by the row it was fenced with.
* **Schedules.**  `Distinct`: processes that live have different ids.  `Held`: an
  occurrence that a daemon carries out has a row that says `dispatching` and
  names its process, so that nobody declares it abandoned and nobody else begins
  it.  `Counted`: dispatches are at most one and one per retry, one less while
  the occurrence waits, and effects are never ahead of dispatches.  `Waiting`: a
  schedule's key is never ahead of the clock (`Reached`), nor behind the period the
  schedule was created in if it was due in it, and what is claimed lies after the
  creation (`Awaited`) - but for schedules that a tick older than they are claimed
  for (`Strayed`), and for periods behind a later one that was claimed
  (`Overtaken`).
* **DailyReport.**  `Locked`: who sends holds the lock and works on a row that
  says `dispatching`.  `Dated`: the day of a process that waits is a day.
  `Numbered`: a mail that may still leave is one behind what the owner allowed.
* **StandingPolicies.**  `Backed`: what a store holds in memory was on disk, and
  what it is about to adopt is there.
* **ProjectionRefresh.**  With one writer: every mark is within the journal, every
  projection is the replay up to its mark, and the writer's mark is the end.
  Accepting an event depends on the events before it only, by induction over
  positions through the least number that would fail.
* **Verification, Corroboration.**  `Spotless`: when the first plugin complains
  of nothing, every criterion has what it asks for; when the second does not, no
  test is left that somebody has to look at.  Whoever reported was
  tried, and one who is asked again has nobody left who was not.
* **Planning.**  `PlanningIInv`: what the owner named is what the task is pinned
  to, and no unit of a plan exceeds its step, from the proposal on.  Assigning
  workers changes no risk, so what `attachPlan` lets through is what was gated.
  That the local rules' plans are accepted is by cases: the six sequences of work
  orders they can make (`PreparedCases`), each of distinct names and each waiting
  for earlier ones only.
* **RunHistory.**  `HistoryIInv` speaks of the notes an executor is about to write
  as well as of those it has written: each is legal after the events and the
  notes before it (`PendingIsLegal`), only the last is a status, the one before
  the closing status names the cause (`StoppedForCause`), and nothing is left to
  write of a run that is told as over (`OpenWhileWriting`), so that a death at any
  note leaves a legal history.  `WorkIsAllowed` holds the approval of the step, and
  the dispatch of the order, at work; `AttemptsAreKnown` relates the audit to the
  reducer.  What one more note makes of the last status, of the last word on an
  order, of the audit and of what is told is proved once, for any history
  (`WordsMore`, `AuditMore`, `ProjectMoves`, `LegalMore`): the last place of a kind
  is a maximum, and the audit a recursive function over positions, of which two
  agree as far as the notes do.  `Unblamed`: nothing but an attempt was blamed of a
  run that waits for the owner, which is all that is known of it once it was
  rejected.  TLC checked `HistoryIInv` on the constants of
  `services` before it was proved.
* **Companion.**  `Orderly`: a boot that closes listens to nothing any more
  (`Deaf`), then runs nothing (`Idled`), then sweeps and answers nothing
  (`Quiet`); what was stopped before keeps new work from coming.
* **MemoryMining.**  `Extraction`: the holder of the extraction lock has seen,
  after it took the lock, that its job was not mined.  For ClosedWasMined, what
  waits in a queue was asked for, and what a process is about to close was mined
  (`Carries`).
* **Authority.**  `Characterized`: the scopes that may be acted on unasked, in
  terms of ceilings and levels that only shrink when a policy ends or a level
  falls.  An approval is looked at after every denial.
* **TurnAudit.**  `JournalFirst`: an end is told to the journal before it is
  entered in the ledger, and with no append lost the journal has it.
* **MainAgentTurns, MobileBridge.**  `Unasked`: a turn that is still being
  prepared was not put to the model; `Entered`: one that was is in the ledger, for
  good.  Of the bridge, `Held`: a row says `processing` only while its turn is on
  the way; `Told`: a reply that a server hands out is of a turn the ledger closed as
  completed; `Earned`: so is every reply the drain loop holds, and every row that
  completed was answered.
* **Sessions.**  `VisitsAreCurrent`: with one request at a time, what it read is
  still in the file, so that what it writes back loses nothing.
* **OwnerThread.**  `LedgerIsInOrder`: a turn ends before the next one begins, so
  that only the last one can be under way, no earlier one ended later, and a
  stored reply that is younger than the last turn is its own.  `EndsAreTold`: a run
  that the queue brought to its end has its line or is still to be told of with a
  status that gets one; what was said of an end stays true, as no end is left but
  for the review.  What the model
  reads word for word is the longest tail that fits, and the tail of one always
  does.
* **ReviewActions, Improvement.**  `ClickIsHonest`: what a click is about to show
  it has journaled.  `SweepsAreCareful`: how often
  something was suggested, together with the sweeps that still hold it, is within the
  number of sweeps; and with a place for every sweep and suggestion up to the limit
  (`Places`), what is pending and the places open sweeps have left (`Room`) fit into
  them.  `OfferedAgain`: only what was suggested is decided, and what is offered
  after that was suggested once more. `RequestsAccount`: the
  changes of a suggestion are at most its recorded decisions and the decisions
  under way.
* **MemoryContext.**  The invariant is inductive as it stands, but each recall has
  to be shown right: of a finite set one memory is ahead of all others (`FirstIs`),
  so the ranking takes the best of what is left, and what is left out is behind
  (`RankedIs`); use adds at most its cap to a score.  The filters and the loops of
  the builder are recursive functions over positions (`Picked`, `Looped`), and
  `LoopIs` and `Counting` say once, for any set and any step function, that such a
  function exists and that what holds at its beginning and over each step holds
  at its end.  A statement that nothing recalled restates or replaces survives
  both filters (`RelevantIs`); the account of the lines stays within the budget and
  its first class admits the first line that fits half of it (`PooledIs`,
  `FilledIs`).  What was told before keeps its order when more is told
  (`LaterStands`), so that an answer stays right.
* **WorkspaceRecovery.**  `Typed`; `Settled`: which stage goes with which status
  of the order; `Checkpoint`: hashes and copies are complete before a dispatch,
  and the tree is the checkpoint's when an attempt begins; `Carried`: what the
  worker wrote into the isolated copy is still to be returned, returned, or a
  reason to keep the copy.
* **NativeWorker.**  A file the order names and whose reading failed is missing at
  the end, and after the deadline at most the calls of one reply
  are made.
* **MemoryGovernance, BadCaseLog.**  `Agrees`: staged, journaled, in the file, in
  the index - each of these places says what the journal rules once the
  mutation is over, and only one mutation is in between.  `PassCovers`: what a
  pass is about to log is all that happened since the marker.
* **Commitments, Opportunities.**  `CommitmentsIInv`: what a pass read at its
  beginning is still so for whatever it has not settled, since only a pass settles
  and, under OneReconciler, there is one; a run that settled something had served
  it and was over.  `OpportunitiesIInv` adds that the state the scan
  keeps is the replay of the journal up to its sequence, and that a failure before
  that sequence is proposed or in the scan's hands.  The replay is a recursive
  function over positions; that reading in two parts gives the same
  (`ProjectInParts`), and that events of other types change nothing
  (`ProjectStays`), follows from there being one function that satisfies the
  recursion, by the least position at which two would differ.  FewCards is needed
  where a scan cuts its list (see "Seen while modelling").  TLC checked
  `OpportunitiesIInv` on the constants of `upkeep` before it was proved.

Only model-checked:

* everything under fairness (`ComesToRest`, `ServicesCatchUp`, `WorkSettles`,
  `UpkeepEnds` and the last two parts of `CommitmentsMoveOn`), which is out of the
  prover's reach;
* the runs that show a disagreement with a comment or a document, whose
  counterexamples are behaviours of one small instance.

Every safety invariant that a passing run checks is the subject of a theorem.

## What is left

In order of importance: a RunKernel without `SoleDecider`, with the weaker
properties that hold there;
two orders in WorkspaceRecovery that share one tree, in place of the free verdict
of SubagentDispatch; the bounds named under "Runs" with the weaker properties
that hold without them.

## Not modelled

* What a model or a command line agent says and does, the outside world of
  connectors, mail, terminals and the Meta API: an input, any member of a set.
* The text of prompts, answers, reports and audits, metrics, usage and export:
  no decision depends on it.  Where a budget or a marker does, its size or its
  presence is modelled.
* HTTP routing, static files, pairing, the terminal and desktop interfaces:
  their handlers are modelled with the component whose state they change.
* `audit/failed-traces.ts`: an optional signal of retries, read by nobody who
  decides.
* Configuration and command line parsing, and the evaluation harness, beyond the
  part of `config.json` that two writers share.
* The file journal (`core/journal.ts`): the contract of the SQLite one without
  claims.  The heartbeat of an execution is a lease that may be lost at any
  time, and RunKernel knows of a lease only whether it is live, which RunClaims
  justifies for a clock that is not set back during an execution.
* The SQLite transaction under the workspace lock, symbolic links and the walk
  over directories: files are names, and places stand for their canonical form.

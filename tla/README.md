# AllRounderAgents: TLA+ models, checks and proofs

AllRounderAgents drives governed workflows: every step of a run stops for a
human decision, and an approved side effect is executed once. Three parts of
the program have to get this right, and this directory models them: the *run
service* of the API (`apps/api/src/allrounder_api/runs/`), the fourteen *lanes*
whose steps a run walks (`src/mastra/agents/<lane>/flow.ts`) together with the
console in which a human reviews them (`apps/approval-ui/src/components/console/`),
and the *coding lane* (`src/mastra/agents/programming/`). All source paths below
are relative to the repository root, `runs/` stands for
`apps/api/src/allrounder_api/runs/` and `agents/` for `src/mastra/agents/`.

- [1 Inventory](#1-inventory)
- [2 Modules](#2-modules)
- [3 Runs: what each one checks](#3-runs-what-each-one-checks)
- [4 Proofs](#4-proofs)
- [5 Abstractions](#5-abstractions)
- [6 Disagreements found](#6-disagreements-found)
- [7 Not modelled](#7-not-modelled)

Model-check one configuration with `tlc -config MCCeilings.cfg MCCeilings`, and
check the proofs of a module with `tlapm CeilingsProofs.tla`; the modules with
proofs are those whose names end in `Proofs`.

## 1 Inventory

| Component | Source | State | Operations | Talks to | What is hard, and what makes it right |
|---|---|---|---|---|---|
| Ceilings | `runs/ceilings.py` | per kind (run, apply, model): holders, waiting line | acquire, release (promotes the head), position | run service | three resources taken one by one: deadlock, leaks, overtaking, a slot nobody gave back. Caps hold; a free slot never waits; FIFO; no hold-and-wait cycle |
| Run service | `runs/service.py`, `runs/models.py` | run records, one asyncio lock per run, tasks in flight | start, decide (proceed, edit, regenerate, back, abort, retry_lock), cancel, sweep | everything below | a task is interrupted at each await; cancels, decisions, promotions and outcomes interleave. Slots come back on every exit, one pass per run, no effect without approval, no effect twice |
| Run registry | `runs/registry.py` | the saved record of each run (memory copy, or Redis JSON with TTL) | save, get, list_active | run service | last writer wins: every save of an old copy is a lost update |
| Target locks | `runs/locks.py` | owner and expiry per target | acquire, inspect, release, refresh | run service | a TTL that runs out under its owner; the Redis acquire is three commands |
| Run receipts | `runs/receipts.py` | remembered approvals by (run, step, action hash) | remember, replay | run service | replay must neither double an effect nor swallow a decision |
| Mastra client | `runs/mastra_client.py` | none: a pass is recomputed from the envelope | start, resume | engine over HTTP | a pass may time out, break off half way, or answer after a cancel |
| Lane flows | `agents/<lane>/flow.ts`, `contracts.ts` | the envelope: artifacts, decisions, effects of the run, decision of this resume; a workflow snapshot while suspended | one step each: compute and suspend, or forward, execute the effect and go on | run service, desks, GitHub, mail, registries, models | a decision that carries over to the next step; an artifact that outlives what it was computed from; an effect repeated after a back, or lost in a suspend. Every call is decided, asked for by the record, and made once; each lane keeps its own rule |
| Console | `console/RunPanel.tsx`, `RunSurface*.tsx` | drafts | parse the artifact, draft edits, Proceed, Back, Reject | runs API | it mirrors contracts and gates of the flows by hand: what it lets through must not end the run |
| Coding lane | `agents/programming/flow.ts` and `tools/` | per run: analysis, patch, manifest, granted paths; a container per branch; the branch and its Draft PR | loadContext to evidenceClose, repair, regeneration, approval of destructive paths | sandbox, GitHub, validators, critic | the patch changes after its approval; a retry finds the branch of the run before; a container outlives the run |
| Run event bus | `runs/events.py` | sequence and history per run, subscriber queues | publish, subscribe | run service, SSE | order of sequence against history, drop of late numbers |
| Run archive | `runs/archive.py` | terminal runs in Postgres | archive | run service | best effort after the terminal save |
| Runs API | `runs/api.py` | none | HTTP and SSE around the service | clients | validation only |
| Webhook and intake | `app.py`, `intake_api.py`, `idempotency.py`, `queueing.py` | claimed event ids, queue, dead letters | jira webhook, msp and bills mail intake | dispatcher, run service | claim before the work: a crash loses the ticket |
| Dispatcher, policy, spawn | `dispatcher.py`, `policy.py`, `spawn.py` | none | routing, risk score, cross-domain spawn | webhook | totality and precedence of rules |
| Approvals and repositories | `approvals.py`, `repositories.py` | approval rows, consumed receipts, audit rows | issue, validate, decide, consume | support, finance, run service | a receipt is spent once, for the exact action, before its expiry |
| Finance | `finance.py`, `finance_runs.py`, `phase3_api.py` | vouchers, posted journals | reconcile, post | approvals | exact decimal totals; post once |
| Rate limiter | `rate_limit.py` | timestamps per key, Redis counter per window | allow | every request | window boundaries, fallback |
| Resilience | `resilience.py` | none | retry_async, retry_sync | clients | attempts and delays are bounded; what is retried must be idempotent |
| Desks, mail, ledgers | `src/mastra/desks/*`, `src/mastra/mail/outbox.ts`, registries and ledgers of the lanes | outbox files, third-party tickets, registries | create and send, some of them idempotent | flows | which of them recognise a repeated call decides what a lost effect costs |
| Finance, support and dispatcher agents; droppy | `agents/finance`, `agents/support`, `agents/dispatcher`, `agents/droppy` | older workflows with one approval; scheduled reports | | approvals | posted once |
| Knowledge, search, judging, audit pack, connectors, other views | the remaining files | derived data | reads | | no protocol of their own |

How they interact: an HTTP request becomes an asyncio task in `RunService`. It
takes the run's lock, changes the record, asks the ceilings for the slots of the
next pass and, when it has them all, leaves the lock and waits for Mastra. The
answer is merged into the record that is current by then; the slots go back, and
the same task then drives the runs those releases promoted, one after the other.
A sweeper (`sweep_expired`) cancels stalled runs and retries target locks.

Mastra walks the lane's steps: it resumes the suspended workflow with the
run's whole envelope (or starts a new one after a back), forwards the decided
steps, executes the effect of a decided step against the outside, computes the
next undecided step and suspends with its artifact. The console shows the artifact,
builds edits from its own parse of it and sends the decision that starts the
next pass. The coding lane is not driven by the run service: it suspends once,
for its destructive paths, and its runs meet in a container and a branch.

## 2 Modules

| Module | Models | State |
|---|---|---|
| `CeilingOps` | acquire and release of one ceiling as functions, for both back-ends: `RequeueAtBack` says whether asking again re-stamps the place in the line (Redis `ZADD`) or keeps it (memory list) | none |
| `Ceilings` | passes that acquire kinds in `SLOT_ORDER`, are denied, launched, parked or ended, and release in the reverse order; each acquire and release is a step | `ceiling`, `pass`, `needs`, `granted`, `slots`, `waitingOn`, `handed` |
| `CeilingOpsProofs` | lemmas about one acquire and one release, for both components that use them | |
| `CeilingsProofs` | theorems about `Ceilings` | |
| `RunService` | the run service with its registry, ceilings, target locks, receipts and the engine's pass | `registry`, `ceiling`, `locks`, `receipts`, `runLock`, `task`, `loop`, `ran`, `ranAgain`, `spent` |
| `GovernedRun` | the promise to an operator: status, approvals and executed effects, without queues, locks or tasks | `status`, `approved`, `executed` |
| `RunServiceProofs` | theorems about `RunService`: with either kind of adapter, approvals, types and run locks; with the memory adapters, records, passes, slots and lines, decisions, effects, targets, run locks and target locks, and the refinement of `GovernedRun` | |
| `FlowOps` | what all lane flows share: effective artifact, merge of a resume, `forwardState`, contracts, what Proceed submits, calls | none |
| `PatchOps` | what the lanes that end in a draft pull request share: path policy, file plan, validators, the writer's preflight and replay | none |
| `SecurityFlow`, `MspFlow`, `FeaturesFlow`, `IssuesFlow`, `DependenciesFlow`, `AccessibilityFlow`, `VendorsFlow`, `OnboardingFlow`, `OffboardingFlow`, `ScreeningFlow`, `LeaveFlow`, `HrHelpFlow`, `BillsFlow`, `ReviewFlow` | one lane each, as operators: its steps, its contracts, what a step may compute, its gates, the calls of its effects, its console surfaces, and the promise it makes | none |
| `LaneFlows` | the lanes side by side, selected by name | none |
| `LaneRuns` | runs of one ticket that walk one lane: the record of the run service, the engine's pass with its snapshot, the calls the outside carried out | `lane`, `facts`, `run`, `eng`, `made`, `changes`, `faults` |
| `LaneRunsProofs` | theorems about `LaneRuns` that hold whatever the lanes are: six inductive invariants and what follows | |
| `LanePolicyProofs` | each lane's promise about its calls, lane by lane | |
| `LaneTypesProofs` | what every step of every lane stores is within its contract, lane by lane, and the types of the runs | |
| `LaneConsoleProofs` | the console keeps up with the flow: what is shown, and where a draft leads, lane by lane | |
| `CodingFlow` | the coding lane: runs of one branch, its container, its Draft PRs | `run`, `container`, `base`, `branch`, `pulls`, `sandbox`, `preapproved`, `moves`, `faults` |
| `CodingFlowProofs` | theorems about `CodingFlow` | |
| `MCCeilings`, `MCRunService`, `MCLaneRuns`, `MCCodingFlow` | the instances TLC checks | |

**Tasks.** In `RunService` a task is a stack of frames, one per run it is
working on, because promoting a run drives that run's pass *inside* the task
that freed the slot (`_release_and_promote` → `_promote` → `_drive`). The top
frame says at which `await` the task stands (`at`), with the local copy of the
run (`obj`) the handler goes on with; stale copies are therefore in the model.
An action is the code from one suspension point to the next. `loop` names the
task that holds the event loop, so that code without a real suspension is not
interleaved. `AsyncAdapters` chooses the adapters: FALSE is
`build_memory_run_service`, whose publish, case, approval and archive calls
return without yielding; TRUE is the Redis bus and the Postgres repositories,
whose calls yield, may raise (`PublishRaises`, `QueuedRaises`, counted by
`MaxFaults`), and survive a process restart (`Restart`).

**Records.** `registry[r]` is the saved `WorkflowRun`: status, and per step its
state, decision, artifact and regeneration count, `pending_pass`, lock fields
and side effects. A decision is (action, artifact): the action hash is a
function of run, step, action and artifact (`_action_dict`), so the record
stands for its hash.

**From code to actions.** `start` = StartRun, StartLaunch; `decide` = Approve /
Regenerate / Back, then Approved, DecisionPublished; `_try_launch` = TryLaunch
(all kinds in one step: ceiling calls do not yield); `_drive` and the pass =
PassSuspended, PassCompleted, PassFailed, PassBroken; `_apply_outcome` continues
with LockedPublished, SuspendedPublished, TerminalPublished; `cancel` = Cancel,
CancelPublished; `_retry_lock` = RetryLock, UnlockedPublished; the sweeper =
SweepStalled, SweepBlocked; `_promote` = Promote, QueuedPublished;
`_rollback_partial_grant` = QueuedRaises, Unwind.

**Refinement.** `RunService` implements `GovernedRun` under the mapping status ←
saved status, approved ← remembered receipts, executed ← effects the engine ran
(`KeepsThePromise`).

**Lanes.** A lane module has no variables. For lane L: `LSteps` are its steps in
order; `LFacts` what the run's input and the lane's directories may say of a
case; `LCompute(s, st, known)` the artifacts step s may suspend with;
`LContract` the schema the step parses an artifact with; `LGate` when its
forward branch does not throw; `LWrites` the calls of its effect, in order;
`LSurface`, `LBlocked` what the console parses, drafts and keeps back;
`LFreeEdits` edits of fields that no form opens, which the API takes all the same;
`LPolicy` what the lane promises of a call. `LaneRuns` composes them with a
run's record and a pass: StartRun, Proceed, ProceedByApi, Regenerate and Back are the run
service, Suspend, Forward, BeginEffect, MakeCall, EndEffect, Throw and Refuse a
pass of the engine, Break and GiveUp its faults. An effect is carried out call
by call, because a failure between two of them is what a retry has to live
with. A pass the service stopped waiting for goes on (`GivenUp`).

`LaneRuns` looks at one ticket and leaves out ceilings, locks and tasks;
`RunService` has those and abstracts a lane to its decision walk. The two
meet in the walk: `Due` and `SuspendStep` of `RunService` are what `Passes`,
`EffectDue` and `Suspend` of `LaneRuns` do without artifacts.

**Coding.** One action per step of `agents/programming/flow.ts`; `draftPr` is
two (`Apply` commits, `OpenDraftPull` asks for the pull request), because a
failure in between is what `findDurableReplay` is for. `container` is the
provisioner's container of the branch, `branch` the remote branch.

Operators that say "Wrong on purpose" are variants with a plausible mistake;
nothing uses them in the models. Replacing the operator they stand beside makes
a property fail, which shows that the property can see the mistake.

## 3 Runs: what each one checks

| Run | Instance | What it shows |
|---|---|---|
| `ceilings` (MCCeilings.cfg) | Redis back-end, 4 runs, 3 kinds, caps 2/1/1, the kind sets of the shipped steps, all runs interchangeable | caps, well-formed lines, no idle slot, every slot recorded, hold-and-wait order, nobody stranded, FIFO, no overtaking |
| `run_memory` (MCRunMemory.cfg) | memory adapters, 2 runs, 2 tasks, 2 steps, both with a side effect, 1 artifact, 4 human requests, 1 target, 1 lock expiry, `FairSpec` | slots, lines, passes, effects, review state and locks are consistent, the service implements `GovernedRun`, queued runs are driven, and runs blocked on a free target are unparked |
| `run_async` (MCRunAsync.cfg) | yielding adapters, 3 runs, 3 tasks, 1 step, 2 requests, 2 raising calls or restarts, runs and tasks interchangeable | no effect without its approval; no record and no copy says to go on unapproved; run locks never deadlock, also while rollbacks drive the runs they promote |
| `lane_runs` (MCLaneRuns.cfg) | all fourteen lanes, 2 runs of one ticket, 1 human change (back, regenerate, or an edit only the API takes), 1 fault, a desk that does not recognise repeated creates | every call is decided by the record, is one the record asks for, is made once and keeps its lane's promise; what is reviewed was computed from what stands; the record knows the effects; the console mirrors the flow. The lane's promise and the console are about records edited by the forms (below) |
| `coding_flow` (MCCodingFlow.cfg) | 2 runs of one branch, 3 paths (one destructive, one denied), 3 contents (one refused by the validators), 1 push to the base branch, 1 fault or restart, with and without sandbox and preapproval | no manifest goes out ungranted or unjudged, nor a branch from a working tree of the run's own; one Draft PR per branch, which without a sandbox holds its hash; a closed run leaves no container |
| `outcome_is_final`, `approval_advances`, `stale_release`, `lock_expiry`, `coding_receipt_binds`, `sandbox_tree`, `declared_fields` | as above | disagreements, see section 6 |

**Why the bounds are enough.** Four runs on two run slots give a line of two
while a holder waits for a later kind, which is what overtaking, promotion of the wrong run and a lost second promotion
need; in `RunService` two runs on caps 2/1 let both hold the run slot while one waits for the
model. Two tasks put a cancel or a decision beside a pass and beside a promotion.
Two steps are the least with a step before a side effect, a `back` and a
completion. With one artifact a step that is derived again is identical, so that Proceed is a
replay and Edit, whose action hash differs, a new approval: both answers to a `back` occur.
`MaxRequests` counts decisions, cancels and retries by humans: four are two
decisions for each of two steps, or a decision, a back and two approvals.
`MaxExpiries` and `MaxFaults` count expiring locks and raising calls.

`run_async` is chosen for the run locks. A rollback keeps the lock of its run while it drives
the run its release promoted; that takes two holders of the run slot and a third run in the
line, so there are three runs, and two raising publishes give two rollbacks at once, each
with a run to drive, which is what waiting for each other takes. That they never do is due
to a release that promotes only runs that were in its line, and to a run that is rolled back
having been taken out of all lines: if `_release` leaves the run's own queue entry behind
(`ReleasedWithoutEntry`) the run finds two rollbacks that wait for each other. One step per
run is enough for this, and for an approval beside stale copies; for longer workflows the other two
properties of this run are proved (section 4).
`CHECK_DEADLOCK FALSE` is set where the bounds on requests let the system stop.

`lane_runs`: two runs are a run and its retry, which is what a repeated call
takes; lanes of different tickets share nothing but the desks. One change
reopens or recomputes any step of either run, or edits what no form opens; one fault breaks a pass off
between any two calls, or leaves it running behind the service's back. Three
rules of `LaneRuns` keep the product of these small, and are commented where
they stand: the second run starts when the first has ended and has made, or is about to
make, a call (otherwise it is like a first run); a given-up pass that has not come to its
calls, or whose run was changed before, is waited for; a human's change and a
given-up pass do not overlap. `Cut` drops the artifacts of a run that has
ended, which nothing reads.

*Edits by the forms and by the API.* The API takes any dictionary of edits
(service.py:253-277), and a flow merges it into the artifact under the artifact's schema
alone (`effectiveArtifact`). `Drafts` is what the forms can submit, whether or not the console
keeps it back, and `Proceed` hands in one of these; `ProceedByApi` hands in edits of fields
that no form opens (`FreeEdits`): the action or the tier of a decided target, the signers of
a chain, flags and escalations, totals, citations. What calls are made, from which
decisions, and how often, is checked and proved over both. Three
statements are about records edited by the forms alone (`ByForms`): that what is stored is within
its contract, that the console mirrors the flow, and `LanePolicy`. For the last the premise is
needed: nothing compares the signers of an edited approval with the matrix of its
tier (security's `assertApproved`, flow.ts:1301-1326, asks that those listed have signed), an edited action is
not refused again where it is carried out (flow.ts:1495-1525), and an offboarding
takes edited items as they come. Without the premise TLC finds the promises of twelve
lanes broken; that of `accessibility` holds, because its gate compares with what the re-scan found
whatever was edited, and that of `offboarding` is about the items approved for each system,
of which such an edit may leave none to look at.

The limits in `PatchOps` (2 files of a patch, 3
inspected, a tree of 6 paths) and in the lanes (`CandidateLimit`,
`MaxReviewFiles`) are the code's limits scaled down so that they are reached.
`coding_flow`: three paths are one of each class, and the limit of two files is
below their number; three contents give a repair that differs and passes, one that
differs and fails, and one that is the same; two runs are a run and its retry.

**Fairness.** `RunService`: the engine answers (`Engine`) because the Mastra client
has a timeout, tasks under way go on (`Proceed`) because their code waits for nothing but
adapters and run locks, and the sweeper recurs (`Sweep`, the lifespan loop in `app.py`).
Human decisions are never fair. `Ceilings`, `LaneRuns` and
`CodingFlow` state safety only; that a waiter for a ceiling is served in the end is
`QueuedIsDriven` of the run service. For the other two, what could be said about their progress depends on
human decisions and on models that answer.

**Only with the memory adapters.** With yielding adapters OnePassPerRun,
NoSlotLeaks, PassHoldsItsSlots, EffectAtMostOnce, CompletedIsApproved,
OneStepInReview and NoOrphanLock do not hold: the release after `run.suspended`
is made from a copy that a decision may have overtaken (section 6, third item),
and one lost update breaks them all. `run_async` therefore checks what survives.

## 4 Proofs

`CeilingsProofs` proves for *any* finite set of runs, any number of kinds, any
caps, both back-ends and every interleaving of single operations:

- `TypeAndLines`: `Spec => [](TypeOK /\ AllGood)`, the inductive invariant. It is the
  type invariant plus, for each ceiling, a conjunction that one operation
  preserves: at most `Limit` holders, nobody in the line twice or while holding,
  and a full ceiling whenever somebody waits.
- `CapIsRespected`, `LinesAreWellFormed`, `SlotsAreNeverIdle`: the invariants
  `CapRespected`, `LineWellFormed` and `NoIdleSlot` of run `ceilings`.

The argument is local: `AcquireSlot` and `ReleaseSlot` preserve the conjunction
of one ceiling (`CeilingOpsProofs`, which the run service uses too), and every
action of `Next` applies one of them to one kind or leaves `ceiling` alone. None of
the three facts is inductive by itself: the cap survives a release only because a
promoted run held no slot, which is the line's well-formedness, and no slot is
idle only because a line without repetitions loses its head to the promotion.

The other five properties of run `ceilings` follow with the same generality from
a second invariant:

- `InvHolds`: `Spec => []Inv`, where `Inv` says `Settled(r)` of every run: what it
  holds is in its record or its walk and conversely; it waits at most for the
  recorded kind, and only while queued or ending; grants are a prefix of the
  needed kinds in `SLOT_ORDER`; a walk is fresh or owns the slot it was promoted
  for; a queued run is in its line or handed over with the slot.
- `SlotsAreAccounted`, `WaitingIsOrdered`, `NobodyIsStranded`: invariants.
- `HeadIsServedFirst`, `PlacesAreKept`: properties of steps.

No part of `Settled` is inductive alone: that a denial records everything the
walk held needs that a promoted run already owns the kind it waited for, so
that the walk can only be denied later; that a promotion finds a queued run
needs that runs wait only where their record says; and that nobody loses a
place to a re-stamping Redis acquire needs that a walking run waits nowhere.

`RunServiceProofs` proves for *any* set of runs, tasks, targets and artifacts, any
workflow length, both kinds of adapters and every interleaving, exception and
restart of the model:

- `InvHolds`: `Spec => []Inv`. The engine executes what the decisions of the copy
  it was sent say, and with yielding adapters that copy may be older than the
  saved record, so "an executed effect was approved" cannot be inductive by
  itself. `Inv` therefore speaks of every copy: no saved record and no frame of any
  task's stack holds a decision to go on without its approval.
- `EffectsAreApproved`, `CopiesAreBacked`: the two invariants of `run_async`,
  `EffectsNeedApproval` and `DecisionsAreBacked`.
- `TypedHolds`, `RunTypes`: `TypeOK`. It is not inductive: a frame that resumes reads
  the record of its run, so that record has to be there; `retry_lock` indexes
  the locks by the banner's target, so a blocked record has to name one; and an
  approval under way has to be about a step. `Typed` adds these three.

Why it is inductive: `_approve_step` remembers the approval before `decide` saves
the decision it backs; approvals are never taken back, so a copy stays backed
however stale it becomes; every other handler saves and hands on the decisions
of a copy it already had, or drops some. One lemma per helper (`TryLaunch`,
`ReleaseAndPromote`, `ReleaseResources`, `Promoting`) says so for the records and
the stacks, and one per group of actions applies them.

The second half of `RunServiceProofs` proves what the run service promises with
the memory adapters (`~AsyncAdapters`: publish, save and approval calls return without yielding, and do not raise), for *any* set of runs, tasks, targets and
artifacts, any kinds, caps, workflow length, number of requests and expiries.
With yielding adapters these properties are false (section 3, and the run
`stale_release`), so the hypothesis is the border of what is true and not
a convenience. Two invariants carry it:

- `CoreHolds`: `Spec => []Core`. Between two suspensions of the event loop at most one
  task works. `Stacked` says what a stack can hold below its top (promotions to
  drive, nothing else) and that run locks are held by the task at work only;
  `Debts` that no run is owed two promotions, by one stack or by two; `Copies`
  that the task at work carries the saved record. For every run, `PassOk` says
  that it has at most one pass, computed from the saved record, unless a cancel
  left it behind; `LineOk` that it waits only where its record says; `DebtOk`
  that a run that is owed a promotion is queued and out of its line, or was
  cancelled; `HoldOk` that what it holds is on its record, or was handed to it;
  and `PaidOk` that what its record says it holds.
- `LedgerHolds`: `Spec => []Ledger`. What was executed is on the record
  (`Reported`), and what is decided but not on the record was not executed
  (`Fresh`), for the saved record and for the copy a pass carries; the step in
  review is the first that is not decided forward; an approval that is being
  written is new; an owner on record has its lock until a TTL ran out.

From `Core`: `MemoryOnePassPerRun`, `MemoryPassHoldsItsSlots`,
`MemoryCapBoundsPasses`, `MemoryNoSlotLeaks`, `MemoryQueuedIsInLine`. From `Ledger` as
well: `MemoryEffectAtMostOnce`, `MemoryCompletedIsApproved`,
`MemoryOneStepInReview`, `MemoryTargetExclusive` (as long as no lock expired), and
`MemoryKeepsThePromise`: the run service implements `GovernedRun`, each step of
each task being a step of the promise, or a stutter.

Why the parts need one another: a promoted run can walk its ceilings again
because its record still says what it held before it was denied (`PaidOk`), and
the record says so because nobody else walked for it meanwhile, which holds
since it was taken out of its line with the promotion (`DebtOk`) and can be owed
no second one (`Debts`). An effect is executed once because a pass is computed from the
record that has all the effects before it, which needs one pass per run
(`PassOk`) and a record that a release or a retry did not overwrite (`Copies`). The
proofs are organised around one lemma, `OthersKept` (`OthersStay` for the
ledger): a step that works on one run, and takes others out of their lines with
a slot in hand, leaves every other run in order; then each action is shown to
keep the run it works on.

Then what the two kinds of lock promise. Run locks, with *either* kind of adapter
(in the first half):

- `RunLocksHold`: `Spec => []RunLocks`. A run lock is held exactly by the task that is
  inside it. The frames say who is inside (`InLock`: between taking the lock and
  leaving it, an unwinding exception included); `Nested` says that a stack is
  inside no lock twice, and that below its top frame there are only promotions to drive
  and rollbacks that drive some.
- `LocksAreHeldHolds`: who waits for a run lock waits for a task that is under way,
  so no lock is left behind, and that task does not wait itself, unless it is
  rolling a run back.
- `DeadlockNeedsRollback`: hence no circle of waiting tasks without a rollback. The
  exception is in the code: `_rollback_partial_grant` drives promotions inside
  the lock of the run it rolls back. With adapters that yield a stale release
  can leave a rolled back run in a line, so that the rest of `NoLockDeadlock`
  has no argument that holds for every value; `run_async` checks it for three runs, with
  two rollbacks at a time that each drive a promoted run inside their lock.

With the memory adapters:

- `MemoryNoLockDeadlock`: `NoLockDeadlock` as it stands, because the holder of a run lock
  has the event loop.
- `LocksHold`: `Spec => []LocksKept`: every target a run has locked is on its record,
  with the run as the owner there, until the run gives it back; a blocked run is
  in front of a target it reports. `_release_resources` frees only the one target
  that is on the record, so this is why it frees all of them.
- `MemoryNoOrphanLock`: `NoOrphanLock`, after any number of expiries, retries and
  conflicts. Both have the hypothesis `OneTarget`: the steps of one run report one
  target. The only lane that reports one, security, takes it from
  `containmentTarget(state.ticketKey, state.input.host)`
  (`agents/security/flow.ts:610,1338`), which no step changes. A lane whose steps
  reported two would forget the first with the second.

`LaneRunsProofs` proves for every lane, any number of runs, changes and faults,
and whatever the lanes compute and the outside answers:

- `PassesFollowTheRecord`: `Spec => []Inv`. Every pass that is not idle, given up
  or not, has the decisions of its run's record in its envelope; every step before the
  one it is at was let forward in that record; its own decision is none, or the
  one recorded for the step it is at; a pass that is writing is at a step that
  was let forward.
- `EveryWriteIsDecided`: the action property `WritesAreDecided`.

- `CallsAreKnown`: `Spec => []Once`. A call the outside would carry out twice was
  made by the effect under way, or its effect is in the pass's envelope and in the
  record the next attempt is computed from; no call a pass has left repeats one that
  was made.
- `NoCallTwice` and `EffectsAreOnRecord`: the invariants `StepWritesOnce` and
  `EffectsAreKnown`.
- `PassesAskForNothingElse`: `Spec => []AskedFor`. A live pass, given up or not, has the
  artifacts of its run's record in its envelope; a step that was let forward has an
  artifact; the calls the pass has left are among those the record asks for.
- `EveryWriteIsAskedFor`: the action property `WritesMatchApproval`.
- `StoredIsDerived`: `Spec => []Current`. What a run's record stores for a step was
  computed from the artifacts and edits that stand, all of earlier steps, and every step
  before it was let forward; the step in review is not.
- `ReviewedIsCurrent`: the invariant `DerivedFromCurrent`.
- `EverythingIsLawful`: `Spec => []Lawful`. Whatever a run's record stores for a step was
  computed (`Computed`) from a state that agrees with the record on all the steps
  before, however these were edited; a pass, and a review, is only behind steps whose
  contract and gate held of what the record has (`PassedOn`).
- `WhatIsStoredWasReached`: `Spec => []Stands`. In every record the decisions carry edits
  exactly when they are edits, a stored artifact has the number of one of its computations
  (`Numbered`), and every step in front of it was let forward (`Reached`).
- `EveryLaneKeepsItsPromise` (in `LanePolicyProofs`): the action property `LanePolicy`, for all
  fourteen lanes and any history of decisions, of records edited by the forms.
- `RunsAreWellFormed` (in `LaneTypesProofs`): the invariant `TypeOK`, for all fourteen lanes.
- `SeenAlertsAreKnown` (in `LaneConsoleProofs`): `Spec => []Remembers`. An alert stored as
  seen before is one whose case is in the history.
- `ConsoleKeepsUp` (in `LaneConsoleProofs`): the invariant `ConsoleMirrorsFlow`, for the twelve
  lanes it is about, outside the two lists of cases it names.

The six invariants hold of any edits at all. The premise `ByForms` enters only where a lane is
opened for its promise, its contracts or its console, because there a decided step is one of the drafts of
its surface (`HandedIn`), and a draft changes the fields its form opens and no other.

The decision of a resume travels in the state handed from step to step, and what
makes the step after the resumed one wait is that `forwardState` drops it: this is
the clause of `Inv` about the pass's own decision. A run whose pass was given up is over
and its record no longer changes, so that the clause holds on for the pass. This
first invariant opens no lane, except for one lemma: no lane lists a step twice.

`Once` has five parts: which statuses of a record and of its pass go together (`Phased`),
what the effect maps hold (`Mapped`), where the calls that were made are accounted for
(`Accounted`), that the calls left do not repeat one (`Unrepeated`), and at which step a
call is made (`Placed`). It opens every lane's `Writes`, one lemma per lane: only the desk
of `msp` and the review writer carry a repeated call out again (`Bare`), every other call
of every lane is recognised. A review is written behind the last step, after which
there is no attempt; the ticket of `msp` is opened behind its second step, and its effect is
recorded under a hash that no edit changes (`TicketHash`), is repeated in every
suspend payload, and survives back and resume.

`AskedFor` needs that the calls of a lane are a function of the artifacts, the
decisions and the facts alone (`WritesSame`, by lane): what other runs carry out between
the computation of an effect and its last call changes none of them. For the mail
of `msp` this holds because the effect of its last step is recorded nowhere while
there is a pass (`SendUnrecorded`).

`Current` opens what the lanes compute, one lemma per lane: an artifact carries the
marks of earlier steps only (`Prior`), or a step returns its own stored copy. That a
resume, which changes a decision and its edits, makes nothing stored stale needs the
clause about the steps before: an undecided step has nothing stored behind it. `back`
reopens a step and drops everything from it on, so that this clause survives.

`Lawful` is what a lane's promise needs and the other four do not say: a promise
is about the call a pass makes now, and what makes it true was settled in earlier
passes. It is inductive because of the others: what was computed of a step stays
computed from what stands, since nothing before it changes while it is stored
(`Current`), and a gate that held of the pass's envelope held of the record, since
they have the same artifacts and decisions (`Inv`, `AskedFor`). A case that is
closed carries the receipt of its revocation (`Receipted`), which the attestation of
`offboarding` reads. What is not claimed is that a step is never shown again: some
steps return their stored copy (`KeptBy`), which is then what is stored (`Anew`).

`LanePolicyProofs` opens each lane once more, from `Approved` (the history of the steps
up to the one that calls) to its promise. The argument differs by lane. `security`
contains what was decided, because the preview is computed from the decision, and a
flagged alert is never contained, because the signals of a flagged text classify as
unknown, so that no containment is proposed; the signers are those of the
decided tier, because `approve` is computed from `decide` and a signature changes only
who has signed. In `vendors` and `onboarding` the score takes no
edits and was computed from the artifacts as edited, and whoever signs, a chain keeps
the signers its tier asks for. `accessibility`
compares the waivers handed in with what the re-scan found, not with what was handed in
as found. What `features` and `issues` publish is computed from the files as edited, of
which an edit may drop some and put none in.
`LanesKeepTheirPromises` puts the fourteen
side by side, and `WritingIsApproved` shows that a pass that calls has that history.

What makes `TypeOK` hard is its clause about stored artifacts: whatever a run shows its
human, over all edits, backs and regenerations, is within the strict schema of its step
(`Contract`). The code parses an artifact when its step lets it forward; that what
a step suspends with would pass too is not checked where it is stored. `LaneTypesProofs`
shows it from how each step computes: by `Lawful` a stored artifact was computed from a
state that agrees with the record on the steps before, and by `Stands` these were let
forward, so that their effective artifacts are within their contracts and passed their
gates. For most steps that is enough. For three lanes it is not, and the history is opened as
for the promises (`Approved`): the completion of `features` counts one to three files, that of
`issues` one to four with the test, although an edit may drop files from the plan, and the
days of a `leave` are bounded because its range is the one that was asked for, which
nobody edits.
`LanesConform` puts the fourteen side by side, `StoredConforms` applies it to a record,
and `Ranged` has the remaining clauses, those about snapshots and the calls in hand.

`ConsoleMirrorsFlow` is about two programs that read an artifact each on its own. Of a run
in review, `ReviewShows` collects what the invariants say (`Showing`): the artifact was
computed, from steps that were let forward, and is within its contract. From that, each
lane shows two things of each of its steps (`Mirrors`): the console's parser finds every field it
needs and shows it as stored (`Pictured`), and any state a Proceed leads to, edits or
none, passes the contract and the gate and leaves the next step an artifact to compute
(`Goes`). A draft changes only the fields the console edits (`Merged`), so that the contract
is shown for those and carried over for the others; the gate is shown from what the console
keeps back (`Blocked`), which it words differently than the flow does; and the next step
is shown an answer of its agent that its filters keep, which for the lanes that publish a patch
is a file that can be listed and read, and is in the plan as edited. One lane needs more than the record:
`security` ends a case that was seen before, and there the console looks at the history while
the engine goes by what the ingestion stored, maybe passes ago. The two agree because a case
once carried out stays in the history (`Remembers`), an invariant of its own.
The API takes the drafts of `msp` and `bills`, not this console, and the property leaves them out.

`CodingFlowProofs` proves for any paths, policy, contents, number of runs, pushes
and faults:

- `GatesHold`: `Spec => []Inv`. Runs of a branch take turns (`InTurn`); of each run,
  what the gates behind its step have established (`Gated`); of the container
  and the branch, how they relate to its patch (`Placed`); of the branch and its
  pull requests together (`Published`).
- `CodingTypes`, `OnlyShownPathsGoOut`, `BranchIsItsHash`, `OneDraftPull`,
  `OnlyJudgedIsCommitted`, `ClosedRunsLeaveNothing`: the six invariants of
  `coding_flow`.

What goes out is two things, and the code treats them differently: the manifest, which the
gates look at, and the branch, which in a container is its whole working tree (`git add -A`,
tools/sandbox-backend.ts:208). `DestructiveIsShown` and `JudgedIsCommitted` speak of every
manifest, and of the branch where the working tree is the run's own
(`OwnTree`): without a sandbox, or in a container that no run before it left behind and to which
the run itself wrote no second patch. Where the tree is shared the branch holds the manifest's
bytes and may hold more; the run `sandbox_tree` shows it. `NoContainerLeft` speaks of the
time between a close and the next start: a run that throws leaves its container (only the last
step destroys it), the next run of the branch is handed it, and its close takes it away.

None of the six is inductive: that a published path was shown needs that the
granted paths are within the shown patch and that the preflight of the second
patch used these grants; that the committed bytes were judged needs that the shared
disk holds the patch at every step from preflight on, which a plan, a repair and
a regeneration re-establish by writing before they are judged; that there is one Draft PR needs
that a run only commits to a branch nobody wrote. One lemma per action.

Assumptions: only those of the modules (for `Ceilings`: `Run` finite, caps
positive, kind sets within `Kind` and containing the run slot; for `RunService`:
`RunServiceAssumption`, `NoneAssumption`: `None` is not a run record; `Run` finite; `~AsyncAdapters` and
`OneTarget` where a theorem says so; for
`LaneRuns`: `LaneAssumption`; for `CodingFlow`:
`CodingAssumption`, finite `Paths` among it).

Only model-checked: liveness (`QueuedIsDriven`, `BlockedIsRetried`; liveness under fairness is out of the prover's reach),
`NoLockDeadlock` of `RunService` during rollbacks with adapters that yield, and what the
theorems with the hypothesis `~AsyncAdapters` say where it holds with the yielding adapters too
(run `run_async`). Every invariant and every action property of `Ceilings`, `LaneRuns` and
`CodingFlow` that a passing run checks is proved.

## 5 Abstractions

- The attempt number, heartbeats, timestamps, costs, titles, comments, guidance,
  data pills and metrics are left out; edits have a single payload.
- `queue_position` and `_refresh_queue_positions` are left out; they change no
  field the model has, but save a snapshot (see the hazards, and the plan).
- `pending_pass["decision"]` is read as the decision of the step it names, which
  is what `decide` stores.
- An approval that is answered as a replay changes nothing and is a stutter.
- Signing and validating a receipt always succeeds; receipt and registry TTLs
  (24 h, 7 d) are left out. Approval creation and decision are one suspension.
- A handler's several calls after a terminal save (event, case event, archive)
  are one suspension.
- The sweeper's inspection of a lock and its retry are adjacent.
- The release script of Redis has no test for room, the memory ceiling has;
  they agree as long as the cap holds, which is proved.
- An engine pass is the walk of `ScriptedMastraRunClient._walk`, the semantics the
  lane flows share: forward over approved steps, executing an effect unless one
  with the same action hash is recorded, stop at the first other step. A pass
  that breaks off has executed any prefix of its effects.
- One API process: run locks do not exist across processes. `Ceilings` covers
  several processes, because there each operation is a step.
- A restart loses tasks and run locks and keeps what Redis keeps.

Lanes and console:

- An artifact is a record of the fields its lane's control reads; texts are
  members of small sets that tell apart what is tested (empty, thin, with or without a
  citation). `v` numbers the computation that made it and `from` notes what it was
  computed from: both are marks of the model, for `DerivedFromCurrent`.
- A contract is the strict schema of `contracts.ts` over those fields; a schema's
  lengths appear where some input can miss them.
- A surface is what the console's parser reads and the drafts its controls can make
  of it. `SurfaceOf` stands for the console. `ApiDrafts` are drafts of the same fields
  where the console's parser loses a field the flow requires, so that only a client of the API
  can send them; `FreeEdits` are one or two edits per step of fields no form opens.
- `PatchOfFixes` of `accessibility` takes the first file of each fix, because a computed fix and a
  draft of it name one file.
- `known.carried` is what a step can look up of earlier calls. A call names the system, the key
  that system identifies it by, and whether it recognises a repetition.
- A reader or a model that fails, a stale source under a pull request, and a
  broken connection are the fault `Break`.
- `effectiveArtifact(...) ?? compute(...)`: what a forwarded step computes but does
  not store is one fixed member of what it may compute.

Coding:

- The runs of one branch follow each other, as its callers start them.
- `apply` writes the working tree of the container, or the files of the patch
  over the branch; the receipts the writer keeps in memory agree with what
  `findDurableReplay` reads back.
- A patch is a function from its paths to contents; what is asked of the models,
  budgets and evidence texts are left out.

## 6 Disagreements found

1. `outcome_is_final`: `_drive` fails the copy it launched with when the engine
   raises; a run cancelled meanwhile becomes `failed` (service.py:772-774),
   whereas `_apply_outcome` discards an outcome that arrives after a cancel.
2. `approval_advances`: Back keeps receipts; a step re-derived with the same
   artifact is answered as a replay by `decide` (service.py:274-277), and the
   run stays where it is until it is edited, regenerated or aborted.
3. `stale_release`: with a yielding event bus, a decision taken while
   `run.suspended` is published is overwritten by the release that follows
   (service.py:824-835); two live passes then share a slot.
4. `lock_expiry`: the target lock is taken for its TTL and never refreshed; it
   expires while its owner waits for a human, and a second run owns the target.
5. `coding_receipt_binds`: an approval of a destructive patch grants its paths;
   the repair and the critic's regeneration choose the patch anew afterwards, so
   that other bytes of an approved path are committed under the old approval
   (agents/programming/flow.ts:733), whereas tools/github.ts:208-209 says the receipt
   binds to the exact bytes that would be committed.
6. `sandbox_tree`: the commit in a container is of everything on its disk
   (tools/sandbox-backend.ts:208), while preflight, approval, validators and critic see
   the files of the manifest. What a repair or a regeneration replaced, and what a run
   that threw left in the container the next one is handed, is committed beside it; a path that the
   preflight denied in the first run can be among that. tools/sandbox-backend.ts:25-27 says
   that what a run approves and what gets committed are the same bytes. Only the
   lane that opens a pull request per group resets the tree.
7. `declared_fields`: `definitions.py:143-161` declares a required `abn` on the collect step
   of vendors (198-207: an expiry on onboarding), the console blocks Proceed
   until it is filled and sends `customFields` among the edits (RunPanel
   1324-1364), but `CollectArtifactSchema` is strict and the run fails. `models.py:57-58`
   says that the values ride the normal edit decision.

Met while modelling the lanes, and in the models as the code has it, without a
run of their own:

- *Edits beyond the forms.* Section 3: the promises of twelve lanes rest on the forms, not on the flow.
- *Dead ends of the console.* The list `KnownDeadEnd` has the drafts that the console lets through
  and the flow throws on; `ConsoleMirrorsFlow` says that there are no others. Declared fields
  are one of them; the others are below or, like a fix that is not chosen or a
  summary that is emptied, mistakes of a human that end the run where a message would do.
- *Dependencies edits.* The console's parsers drop `resolved`, `integrity` and the file
  `status` (RunSurface 2945-2965, 3347-3378), which the strict schemas
  require: every edit from the console at group or apply ends the run. (`pinned`)
- *Issues and features.* Files are not cut to `maxChangedFiles`, and duplicate or
  destructive paths are first tested by the writer's preflight, at complete, after every step
  was approved. Dropping a file in the console leaves criteria, validation report
  and diff as the model made them. A computed regression test is not
  validated, an edited one is.
- *Writer.* A branch that was pushed without its pull request makes every retry
  throw "Branch already exists without a matching idempotent Draft PR"
  (tools/github.ts). (`Refuse`)
- *Dependencies merge* opens pull requests one by one: a refused second
  one leaves the first open. Only this lane resets the sandbox's working tree.
- *Accessibility* does not run the validators on the fixes it pushes; the default
  path allowlist does not contain `package.json`, so that the dependencies scan throws by
  default; `replaceManifestRange` replaces the first occurrence of the range.
- *Security.* A flagged alert may be closed by repeated false positives, although
  contracts.ts:111-115 says it escalates; the containment registry answers a
  repeated id with the first reference even when the action differs.
- *Screening.* The receipt names the planned slot also when the ATS replayed an older
  invite; a requisition admits 50 candidates, the screen artifact 20.
- *Msp.* Summaries say an escalated draft needs a human edit; `executeSend`
  tests the length of the body. *Hr-help.* An edited answer is not screened again
  and may lose its citations. *Bills.* The ledger's replay map lives in the process.
- *Review.* The receipt says approve or request changes also when the review was
  posted as a comment (github-review.ts:216-238); an empty summary passes the
  console and fails the run at resume; a failure between the pending review and
  its submission leaves one behind, and the next run opens another.
- *Coding.* A run resumed after a restart commits without a container ("No sandbox
  provisioned"), although flow.ts:391-393 says acquiring reconnects; a
  regenerated patch is not run through the repository's own checks.

## 7 Not modelled

| Part | Why, and what a model would have to say |
|---|---|
| Run event bus, archive | best effort beside the record: whether a publish yields or raises is in `RunService`; the order of sequence number and history in Redis (`events.py:105`) is listed as a hazard without a property |
| Redis acquire of a target lock in its three commands, queue positions | single steps in `RunService`; listed as hazards with a note |
| Runs API, connectors, clients, migrations, judging, audit pack, knowledge and search | validation, transport, schema and reports: no state of their own that several steps share |
| Webhook and mail intake, approvals and repositories | claim before work (listed as hazards with a note), and the single use of a receipt by rows in Postgres: each is one conditional write of a database whose semantics would be the model |
| Dispatcher, policy, rate limiter, resilience, finance arithmetic | pure functions or a window per key; unit tests reach their boundaries |
| Finance, support and dispatcher agents | one-approval workflows older than the lanes, each with a driver of its own; a posting is identified by its content, not its case |
| Droppy, marketing, LLM operations | scheduled collectors and scores that read and report |
| Rendering, polling, focus and reload of the console | a model of what a human has on the screen; the two hazards it has (a draft made for an older artifact, a Reject of several backs that fails midway) are listed with a note |
| Prompts, summaries, costs, budgets | what models are asked and say is nondeterministic in every module |

Next would be, in this order: the outbox's two-step write below the calls of
`LaneRuns`; the event bus with a subscriber; the intake with crashes.

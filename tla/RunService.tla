------------------------------ MODULE RunService ------------------------------
(***************************************************************************)
(* The run service (runs/service.py): lifecycle of workflow runs, driven   *)
(* by concurrent asyncio tasks over one registry, the ceilings, the target *)
(* locks and the receipt store.                                            *)
(*                                                                         *)
(* A task runs without interruption from one suspension point to the next. *)
(* It always suspends while Mastra computes a pass and when it waits for a *)
(* run's lock; it suspends while it publishes an event, writes a case      *)
(* event, an approval or an archive row only with the asynchronous         *)
(* adapters (Redis event bus, Postgres repositories).  With the in-memory  *)
(* adapters these calls return without giving the event loop up.  The      *)
(* registry, ceilings, locks and receipts are synchronous in both.         *)
(*                                                                         *)
(* A task is a stack of frames, one per run it is working on: promoting a  *)
(* run drives that run's pass inside the task that freed the slot.         *)
(***************************************************************************)
EXTENDS CeilingOps

CONSTANTS
    None,            \* "no value"
    Task,            \* task ids: how many requests are in flight at once
    NumKinds, Limit, \* the ceilings (kind 1 is RUN_SLOT)
    NumSteps,        \* length of the workflow
    SlotsOf,         \* StepDefinition.slots of each step
    SideEffecting,   \* the steps with side_effecting = True
    Target,          \* lockable targets
    TargetOf,        \* the target a run's pass reports when it suspends at a step
    Artifact,        \* what a step's model may compute
    AsyncAdapters,   \* do publish, case, approval and archive calls suspend?
    MaxRegenerations,\* RunServiceConfig.max_regenerations_per_step
    MaxRequests,     \* bound: decisions and cancels asked for
    MaxExpiries,     \* bound: target locks whose TTL runs out
    MaxFaults        \* bound: adapter calls that raise

Kind == 1..NumKinds
Step == 1..NumSteps

ASSUME RunServiceAssumption ==
    /\ NumKinds \in Nat \ {0} /\ NumSteps \in Nat \ {0}
    /\ Limit \in [Kind -> Nat \ {0}]
    /\ SlotsOf \in [Step -> SUBSET Kind]
    /\ SideEffecting \subseteq Step
    /\ TargetOf \in [Run \X Step -> Target \cup {None}]
    /\ AsyncAdapters \in BOOLEAN
    /\ MaxRegenerations \in Nat /\ MaxRequests \in Nat
    /\ MaxExpiries \in Nat /\ MaxFaults \in Nat
    /\ None \notin Run \cup Task \cup Target \cup Artifact

VARIABLES
    registry,   \* [Run -> the saved WorkflowRun, or None before start]
    ceiling,    \* [Kind -> Ceiling]
    locks,      \* [Target -> the owner run or None]
    receipts,   \* remembered <<run, step, action hash>>
    runLock,    \* [Run -> the task inside `async with self._run_lock(run)`]
    task,       \* [Task -> stack of frames, top first]
    loop,       \* the task that has the event loop, None between two steps
    ran,        \* effects the engine executed: <<run, step, action hash>>
    ranAgain,   \* those it executed more than once
    spent       \* [requests, expiries, faults]: what the bounds count

vars == <<registry, ceiling, locks, receipts, runLock, task, loop,
          ran, ranAgain, spent>>

----------------------------------------------------------------------------
(***************************************************************************)
(* Records                                                                 *)
(***************************************************************************)

Terminal == {"completed", "failed", "cancelled"}
Status == {"queued", "running", "awaiting_human", "blocked"} \cup Terminal
StepState == {"pending", "awaiting_human", "blocked", "done", "failed"}
Action == {"proceed", "edit", "regenerate", "back"}
Forward == {"proceed", "edit"}

\* A step's decision.  The action hash of an approval is a function of the run,
\* the step, the action and the artifact, so the record stands for its hash.
Decision == [action : {"proceed", "edit", "regenerate", "none"},
             artifact : Artifact \cup {None}]
NoDecision == [action |-> "none", artifact |-> None]
RegenerateMark == [action |-> "regenerate", artifact |-> None]

\* pending_pass: absent, or the pass to (re)drive and its ceiling grant.
Pass == [recorded : BOOLEAN, start : BOOLEAN, step : Step \cup {0},
         slots : SUBSET Kind, waitingOn : Kind \cup {0}]
NoPass == [recorded |-> FALSE, start |-> TRUE, step |-> 0,
           slots |-> {}, waitingOn |-> 0]
StartPass == [NoPass EXCEPT !.recorded = TRUE]
ResumePass(s) == [StartPass EXCEPT !.start = FALSE, !.step = s]

WorkflowRun ==
    [status : Status,
     state : [Step -> StepState],
     decision : [Step -> Decision],
     artifact : [Step -> Artifact \cup {None}],
     regenerations : [Step -> 0..MaxRegenerations],
     pending : Pass,
     lockTarget : Target \cup {None},
     lockOwner : Run \cup {None},
     effects : [Step -> Decision]]

ASSUME NoneAssumption == None \notin WorkflowRun

NewRun ==
    [status |-> "queued",
     state |-> [s \in Step |-> "pending"],
     decision |-> [s \in Step |-> NoDecision],
     artifact |-> [s \in Step |-> None],
     regenerations |-> [s \in Step |-> 0],
     pending |-> NoPass,
     lockTarget |-> None,
     lockOwner |-> None,
     effects |-> [s \in Step |-> NoDecision]]

\* Wrong on purpose: a cancelled run does not count as terminal.
IsTerminalButCancelled(run) == run.status \in {"completed", "failed"}

IsTerminal(run) == run.status \in Terminal

\* current_step: the last step that is being reviewed.
InReview(run) == {s \in Step : run.state[s] \in {"awaiting_human", "blocked"}}
SetCurrent(run, st) ==
    IF InReview(run) = {} THEN run
    ELSE LET cur == CHOOSE s \in InReview(run) : \A q \in InReview(run) : q <= s
         IN  [run EXCEPT !.state[cur] = st]

\* Where a task is suspended, or about to continue.
PublishPoint ==
    {"created", "queued", "approving", "decided", "unlocked", "locked",
     "suspended", "terminal", "cancelled"}
Point == PublishPoint \cup {"engine", "promote", "unwinding"}

Frame == [at : Point, run : Run, obj : WorkflowRun, step : Step \cup {0},
          action : Action \cup {None}, todo : SUBSET (Kind \X Run)]

At(point, r, obj) ==
    [at |-> point, run |-> r, obj |-> obj, step |-> 0, action |-> None,
     todo |-> {}]

\* The stack (there is one) of a task that still has the promotions `todo` to
\* drive, each with the kind that freed its slot: the last kind comes first.
Promoting(todo, stack) ==
    IF todo = {} THEN {stack}
    ELSE {<<[At("promote", f[2], NewRun) EXCEPT !.todo = todo \ {f}]>> \o stack :
             f \in {g \in todo : \A h \in todo : h[1] <= g[1]}}

TypeOK ==
    /\ \A r \in Run : registry[r] = None \/ registry[r] \in WorkflowRun
    /\ DOMAIN registry = Run
    /\ ceiling \in [Kind -> Ceiling]
    /\ locks \in [Target -> Run \cup {None}]
    /\ receipts \subseteq Run \X Step \X Decision
    /\ runLock \in [Run -> Task \cup {None}]
    /\ task \in [Task -> Seq(Frame)]
    /\ loop \in Task \cup {None}
    /\ ran \subseteq Run \X Step \X Decision
    /\ ranAgain \subseteq ran
    /\ spent \in [requests : 0..MaxRequests, expiries : 0..MaxExpiries,
                  faults : 0..MaxFaults]

Init ==
    /\ registry = [r \in Run |-> None]
    /\ ceiling = [k \in Kind |-> FreeCeiling]
    /\ locks = [x \in Target |-> None]
    /\ receipts = {}
    /\ runLock = [r \in Run |-> None]
    /\ task = [t \in Task |-> <<>>]
    /\ loop = None
    /\ ran = {}
    /\ ranAgain = {}
    /\ spent = [requests |-> 0, expiries |-> 0, faults |-> 0]

----------------------------------------------------------------------------
(***************************************************************************)
(* The event loop                                                          *)
(***************************************************************************)

Top(t) == Head(task[t])
Rest(t) == Tail(task[t])

\* Does a task whose top frame is f give the event loop up?
Suspends(f) ==
    \/ f.at = "engine"
    \/ AsyncAdapters /\ f.at \in PublishPoint
    \/ f.at = "promote" /\ runLock'[f.run] # None

\* Task t goes on as `stack`.
Continue(t, stack) ==
    /\ task' = [task EXCEPT ![t] = stack]
    /\ loop' = IF stack = <<>> \/ Suspends(Head(stack)) THEN None ELSE t

\* Task t resumes at a point.
Resumes(t, point) ==
    /\ loop \in {None, t}
    /\ task[t] # <<>>
    /\ Top(t).at = point

\* A free task takes a new request.
Receives(t) == loop = None /\ task[t] = <<>>

Saved(r) == registry[r] # None
HasStatus(r, st) == Saved(r) /\ registry[r].status = st
Save(r, run) == registry' = [registry EXCEPT ![r] = run]
Unlock(r) == runLock' = [runLock EXCEPT ![r] = None]
Lock(t, r) == runLock[r] = None /\ runLock' = [runLock EXCEPT ![r] = t]

\* The task leaves the run's lock and has nothing left to do for the run.
LeavesLock(t, point) ==
    /\ Resumes(t, point)
    /\ Unlock(Top(t).run)
    /\ Continue(t, Rest(t))
    /\ UNCHANGED <<registry, ceiling, locks, receipts, ran, ranAgain, spent>>

\* A request counts against the bound.
Ask == /\ spent.requests < MaxRequests
       /\ spent' = [spent EXCEPT !.requests = @ + 1]

----------------------------------------------------------------------------
(***************************************************************************)
(* Slots                                                                   *)
(***************************************************************************)

\* _pass_target: a regeneration recomputes its own step, any other pass the
\* first step without a decision; 0 when every step is decided.
PassTarget(run) ==
    LET open == {s \in Step : run.decision[s] = NoDecision}
    IN  IF /\ ~run.pending.start
           /\ run.decision[run.pending.step].action = "regenerate"
        THEN run.pending.step
        ELSE IF open = {} THEN 0
        ELSE CHOOSE s \in open : \A q \in open : s <= q

PassKinds(run) ==
    {1} \cup (IF PassTarget(run) = 0 THEN {} ELSE SlotsOf[PassTarget(run)])

\* Wrong on purpose: only the run slot's denial stops the walk.
DeniedRunSlot(r, K) ==
    {k \in K \cap {1} : r \notin AcquireSlot(ceiling[k], r, Limit[k]).active}

\* The kinds of K that would be denied to r, and the first of them.
Denied(r, K) ==
    {k \in K : r \notin AcquireSlot(ceiling[k], r, Limit[k]).active}
FirstDenied(r, K) ==
    CHOOSE k \in Denied(r, K) : \A j \in Denied(r, K) : k <= j

Acquire(r, K) ==
    ceiling' = [k \in Kind |-> IF k \in K THEN AcquireSlot(ceiling[k], r, Limit[k])
                                          ELSE ceiling[k]]

\* _try_launch, called under r's lock with the caller's copy of the run: all
\* kinds are granted and the pass is driven outside the lock, or the walk stops
\* at the first denial and the run is queued on it, still under the lock.
TryLaunch(t, r, run, stack) ==
    LET K == PassKinds(run)
        launched == [run EXCEPT !.pending.slots = K, !.pending.waitingOn = 0,
                                !.pending.recorded = TRUE, !.status = "running"]
        d == FirstDenied(r, K)
        waiting == [run EXCEPT !.pending.slots = {k \in K : k < d},
                               !.pending.waitingOn = d,
                               !.pending.recorded = TRUE, !.status = "queued"]
    IN  \/ /\ Denied(r, K) = {}
           /\ Acquire(r, K)
           /\ Save(r, launched)
           /\ Unlock(r)
           /\ Continue(t, <<At("engine", r, launched)>> \o stack)
        \/ /\ Denied(r, K) # {}
           /\ Acquire(r, {k \in K : k <= d})
           /\ Save(r, waiting)
           /\ runLock' = [runLock EXCEPT ![r] = t]
           /\ Continue(t, <<At("queued", r, waiting)>> \o stack)

\* Wrong on purpose: the granted slots go back, the queue entry stays.
ReleasedWithoutEntry(run) ==
    IF run.pending.recorded THEN run.pending.slots ELSE {1}

\* _release_order: the queue entry, then the grant; a record without a pass
\* could only have held the run slot.
Released(run) ==
    IF run.pending.recorded
    THEN run.pending.slots \cup ({run.pending.waitingOn} \ {0})
    ELSE {1}

\* Wrong on purpose: only what the run slot's release promotes is returned.
PromotedByRunSlot(r, run) ==
    {f \in (Released(run) \cap {1}) \X Run :
        f[2] \in PromotedBy(ceiling[1], r, Limit[1])}

\* The runs the releases promote, each once, with the kind that promoted it
\* first.  The queue entry is released first and is of a later kind than the
\* grant, so the kinds are released from the last to the first.
PromotedByRelease(r, run) ==
    LET promoted == {f \in Released(run) \X Run :
                        f[2] \in PromotedBy(ceiling[f[1]], r, Limit[f[1]])}
    IN  {f \in promoted : \A g \in promoted : g[2] = f[2] => g[1] <= f[1]}

\* _release_slots, then the save of a record that had a pass or gave its lock
\* back; the promotions follow one by one.  The caller's copy is what is saved.
ReleaseAndPromote(t, r, run, changed, stack) ==
    /\ ceiling' = [k \in Kind |->
                      IF k \in Released(run)
                      THEN ReleaseSlot(ceiling[k], r, Limit[k])
                      ELSE ceiling[k]]
    /\ IF changed \/ run.pending.recorded
       THEN Save(r, [run EXCEPT !.pending = NoPass])
       ELSE UNCHANGED registry
    /\ \E next \in Promoting(PromotedByRelease(r, run), stack) : Continue(t, next)

\* Wrong on purpose: the slots go back, the target lock does not.
ReleaseSlotsOnly(t, r, run, stack) ==
    /\ UNCHANGED locks
    /\ ReleaseAndPromote(t, r, run, FALSE, stack)

\* _release_resources: the target lock goes back if this run's copy owns it.
ReleaseResources(t, r, run, stack) ==
    IF run.lockTarget # None /\ run.lockOwner = r
    THEN /\ locks' = [locks EXCEPT ![run.lockTarget] = IF @ = r THEN None ELSE @]
         /\ ReleaseAndPromote(t, r, [run EXCEPT !.lockOwner = None], TRUE, stack)
    ELSE /\ UNCHANGED locks
         /\ ReleaseAndPromote(t, r, run, FALSE, stack)

\* _promote: reload and walk the recorded pass again under the run's lock; a
\* run without a record, or a terminal one, is skipped.
Promote(t) ==
    /\ Resumes(t, "promote")
    /\ LET p == Top(t).run
       IN  /\ runLock[p] = None
           /\ \E next \in Promoting(Top(t).todo, Rest(t)) :
                 \/ /\ ~Saved(p) \/ IsTerminal(registry[p])
                    /\ UNCHANGED <<registry, ceiling, runLock>>
                    /\ Continue(t, next)
                 \/ /\ Saved(p) /\ ~IsTerminal(registry[p])
                    /\ TryLaunch(t, p, registry[p], next)
    /\ UNCHANGED <<locks, receipts, ran, ranAgain, spent>>

\* run.queued is published under the lock; the walk is over.
QueuedPublished(t) == LeavesLock(t, "queued")

----------------------------------------------------------------------------
(***************************************************************************)
(* Starting a run                                                          *)
(***************************************************************************)

\* start: the run is created and run.created published, not yet under its lock.
StartRun(t, r) ==
    /\ Receives(t)
    /\ registry[r] = None
    /\ Save(r, NewRun)
    /\ UNCHANGED runLock
    /\ Continue(t, <<At("created", r, NewRun)>>)
    /\ UNCHANGED <<ceiling, locks, receipts, ran, ranAgain, spent>>

\* The object created above, not the saved record, asks for its slots.
StartLaunch(t) ==
    /\ Resumes(t, "created")
    /\ runLock[Top(t).run] = None
    /\ TryLaunch(t, Top(t).run, [Top(t).obj EXCEPT !.pending = StartPass], Rest(t))
    /\ UNCHANGED <<locks, receipts, ran, ranAgain, spent>>

----------------------------------------------------------------------------
(***************************************************************************)
(* The engine's pass (runs/mastra_client.py, src/mastra/agents/*/flow.ts)  *)
(***************************************************************************)

\* Wrong on purpose: a regeneration mark counts as a decision to go on.
OpenIsUndecided(run) == {s \in Step : run.decision[s] = NoDecision}

\* The step a pass suspends at: the first that is not decided forward.
Open(run) == {s \in Step : run.decision[s].action \notin Forward}
SuspendStep(run) == CHOOSE s \in Open(run) : \A q \in Open(run) : s <= q

\* Wrong on purpose: a recorded effect is executed again.
DueAgain(run) == {s \in SideEffecting : \A q \in Open(run) : s < q}

\* The effects it executes on the way: those of the approved side-effecting
\* steps whose recorded effect carries another action hash.
Due(run) ==
    {s \in SideEffecting :
        /\ \A q \in Open(run) : s < q
        /\ run.effects[s] # run.decision[s]}

Execute(r, run, S) ==
    LET executed == {<<r, s, run.decision[s]>> : s \in S}
    IN  /\ ran' = ran \cup executed
        /\ ranAgain' = ranAgain \cup (ran \cap executed)

\* The effects reported back, merged into the latest record.
WithEffects(latest, run) ==
    [latest EXCEPT !.effects =
        [s \in Step |-> IF s \in Due(run) THEN run.decision[s] ELSE @[s]]]

\* _apply_outcome reloads the record; a run that was cancelled meanwhile only
\* gives its slots back.
Discard(t, r) ==
    /\ IsTerminal(registry[r])
    /\ UNCHANGED <<locks, runLock>>
    /\ ReleaseAndPromote(t, r, registry[r], FALSE, Rest(t))

\* The record after a pass suspended at its open step, with the new artifact.
Suspended(latest, s, a) ==
    [latest EXCEPT
        !.state = [q \in Step |-> IF q < s THEN "done"
                                  ELSE IF q = s THEN "awaiting_human" ELSE @[q]],
        !.artifact[s] = a,
        !.status = "awaiting_human"]

\* _acquire_target: the step's target is claimed before the record is saved; a
\* conflict parks the run as blocked and publishes run.locked first.
Park(t, r, run, target) ==
    LET conflict == target # None /\ locks[target] \notin {None, r}
        held == IF target = None THEN run
                ELSE [run EXCEPT !.lockTarget = target, !.lockOwner = r]
        blocked == SetCurrent([run EXCEPT !.lockTarget = target,
                                          !.lockOwner = locks[target],
                                          !.status = "blocked"], "blocked")
    IN  \/ /\ ~conflict
           /\ locks' = IF target = None THEN locks
                       ELSE [locks EXCEPT ![target] = r]
           /\ Save(r, held)
           /\ Continue(t, <<At("suspended", r, held)>> \o Rest(t))
        \/ /\ conflict
           /\ UNCHANGED <<locks, registry>>
           /\ Continue(t, <<At("locked", r, blocked)>> \o Rest(t))

PassSuspended(t, a) ==
    /\ Resumes(t, "engine")
    /\ Open(Top(t).obj) # {}
    /\ LET r == Top(t).run
           run == Top(t).obj
           s == SuspendStep(run)
       IN  /\ Execute(r, run, Due(run))
           /\ UNCHANGED runLock
           /\ \/ Discard(t, r)
              \/ /\ ~IsTerminal(registry[r])
                 /\ UNCHANGED ceiling
                 /\ Park(t, r, Suspended(WithEffects(registry[r], run), s, a),
                         TargetOf[r, s])
    /\ UNCHANGED <<receipts, spent>>

LockedPublished(t) ==
    /\ Resumes(t, "locked")
    /\ Save(Top(t).run, Top(t).obj)
    /\ UNCHANGED runLock
    /\ Continue(t, <<[Top(t) EXCEPT !.at = "suspended"]>> \o Rest(t))
    /\ UNCHANGED <<ceiling, locks, receipts, ran, ranAgain, spent>>

\* run.suspended is out: the pass's slots go back, from the copy saved before.
SuspendedPublished(t) ==
    /\ Resumes(t, "suspended")
    /\ UNCHANGED runLock
    /\ ReleaseAndPromote(t, Top(t).run, Top(t).obj, FALSE, Rest(t))
    /\ UNCHANGED <<locks, receipts, ran, ranAgain, spent>>

PassCompleted(t) ==
    /\ Resumes(t, "engine")
    /\ Open(Top(t).obj) = {}
    /\ LET r == Top(t).run
           run == Top(t).obj
           done == [WithEffects(registry[r], run) EXCEPT
                       !.state = [s \in Step |-> "done"], !.status = "completed"]
       IN  /\ Execute(r, run, Due(run))
           /\ UNCHANGED runLock
           /\ \/ Discard(t, r)
              \/ /\ ~IsTerminal(registry[r])
                 /\ UNCHANGED <<ceiling, locks>>
                 /\ Save(r, done)
                 /\ Continue(t, <<At("terminal", r, done)>> \o Rest(t))
    /\ UNCHANGED <<receipts, spent>>

\* _fail_run, on the record it is given.
FailRun(t, r, run) ==
    LET failed == [SetCurrent(run, "failed") EXCEPT !.status = "failed"]
    IN  /\ Save(r, failed)
        /\ UNCHANGED <<ceiling, locks, runLock>>
        /\ Continue(t, <<At("terminal", r, failed)>> \o Rest(t))

\* The steps of a pass that executed when it broke off at step j.
Prefix(run, j) == {s \in Due(run) : s <= j}

PassFailed(t, j) ==
    /\ Resumes(t, "engine")
    /\ Execute(Top(t).run, Top(t).obj, Prefix(Top(t).obj, j))
    /\ LET r == Top(t).run
       IN  \/ Discard(t, r)
           \/ ~IsTerminal(registry[r]) /\ FailRun(t, r, registry[r])
    /\ UNCHANGED <<receipts, spent>>

\* MastraClientError (timeout, HTTP error, bad answer): _drive fails its own copy
\* of the run without reloading it.
PassBroken(t, j) ==
    /\ Resumes(t, "engine")
    /\ Execute(Top(t).run, Top(t).obj, Prefix(Top(t).obj, j))
    /\ FailRun(t, Top(t).run, Top(t).obj)
    /\ UNCHANGED <<receipts, spent>>

TerminalPublished(t) ==
    /\ Resumes(t, "terminal")
    /\ UNCHANGED runLock
    /\ ReleaseResources(t, Top(t).run, Top(t).obj, Rest(t))
    /\ UNCHANGED <<receipts, ran, ranAgain, spent>>

----------------------------------------------------------------------------
(***************************************************************************)
(* Cancel and timeout                                                      *)
(***************************************************************************)

\* cancel: under the run's lock the record is terminal and run.status is out.
Cancel(t, r) ==
    LET cancelled == [registry[r] EXCEPT !.status = "cancelled"]
    IN  /\ Receives(t)
        /\ Saved(r)
        /\ ~IsTerminal(registry[r])
        /\ Lock(t, r)
        /\ Save(r, cancelled)
        /\ Continue(t, <<At("cancelled", r, cancelled)>>)
        /\ UNCHANGED <<ceiling, locks, receipts, ran, ranAgain>>

RequestCancel(t, r) == Ask /\ Cancel(t, r)

\* Nobody drives run r: the task that did was lost.
Unattended(r) ==
    \A t \in Task : \A i \in DOMAIN task[t] :
        LET f == task[t][i]
        IN  f.run # r /\ \A g \in f.todo : g[2] # r

\* sweep_expired cancels a running run once its heartbeat is older than
\* max_run_seconds, which is longer than the client lets a pass take.
SweepStalled(t, r) ==
    /\ HasStatus(r, "running")
    /\ Unattended(r)
    /\ Cancel(t, r)
    /\ UNCHANGED spent

\* The lock is released first, then the resources of the copy cancel has.
CancelPublished(t) ==
    /\ Resumes(t, "cancelled")
    /\ Unlock(Top(t).run)
    /\ ReleaseResources(t, Top(t).run, Top(t).obj, Rest(t))
    /\ UNCHANGED <<receipts, ran, ranAgain, spent>>

----------------------------------------------------------------------------
(***************************************************************************)
(* Human decisions                                                         *)
(***************************************************************************)

\* Wrong on purpose: the step's state is looked at, the run's status is not.
DecidableStep(r, s) == Saved(r) /\ registry[r].state[s] = "awaiting_human"

\* decide's guards, evaluated under the run's lock.
Decidable(r, s) ==
    /\ HasStatus(r, "awaiting_human")
    /\ registry[r].state[s] = "awaiting_human"

Approval(run, s, action) == [action |-> action, artifact |-> run.artifact[s]]

\* _approve_step: an approval already remembered is replayed, and decide then
\* returns without touching the run; otherwise the approval row is written.
Approve(t, r, s, action) ==
    /\ Receives(t)
    /\ Ask
    /\ action \in Forward
    /\ Decidable(r, s)
    /\ <<r, s, Approval(registry[r], s, action)>> \notin receipts
    /\ Lock(t, r)
    /\ Continue(t, <<[At("approving", r, registry[r]) EXCEPT
                         !.step = s, !.action = action]>>)
    /\ UNCHANGED <<registry, ceiling, locks, receipts, ran, ranAgain>>

\* Wrong on purpose: the approval is not remembered before the record is saved.
ApprovedUnremembered(t) ==
    LET f == Top(t)
        decided == [f.obj EXCEPT !.decision[f.step] =
                                    Approval(f.obj, f.step, f.action)]
    IN  /\ Resumes(t, "approving")
        /\ Save(f.run, decided)
        /\ Continue(t, <<[f EXCEPT !.at = "decided", !.obj = decided]>> \o Rest(t))
        /\ UNCHANGED <<runLock, receipts, ceiling, locks, ran, ranAgain, spent>>

\* The rest of _approve_step and the save in decide.
Approved(t) ==
    LET f == Top(t)
        approval == Approval(f.obj, f.step, f.action)
        decided == [f.obj EXCEPT !.decision[f.step] = approval]
    IN  /\ Resumes(t, "approving")
        /\ receipts' = receipts \cup {<<f.run, f.step, approval>>}
        /\ Save(f.run, decided)
        /\ UNCHANGED runLock
        /\ Continue(t, <<[f EXCEPT !.at = "decided", !.obj = decided]>> \o Rest(t))
        /\ UNCHANGED <<ceiling, locks, ran, ranAgain, spent>>

Decided(t, r, s, action, run) ==
    /\ Receives(t)
    /\ Ask
    /\ Decidable(r, s)
    /\ Lock(t, r)
    /\ Save(r, run)
    /\ Continue(t, <<[At("decided", r, run) EXCEPT !.step = s, !.action = action]>>)
    /\ UNCHANGED <<ceiling, locks, receipts, ran, ranAgain>>

\* Wrong on purpose: the limit is off by one.
RegenerateOnceMore(t, r, s) ==
    /\ Saved(r)
    /\ registry[r].regenerations[s] <= MaxRegenerations
    /\ Decided(t, r, s, "regenerate",
               [registry[r] EXCEPT !.regenerations[s] = @ + 1,
                                   !.decision[s] = RegenerateMark])

\* decide with "regenerate".
Regenerate(t, r, s) ==
    /\ Saved(r)
    /\ registry[r].regenerations[s] < MaxRegenerations
    /\ Decided(t, r, s, "regenerate",
               [registry[r] EXCEPT !.regenerations[s] = @ + 1,
                                   !.decision[s] = RegenerateMark])

\* Wrong on purpose: the dropped steps keep their state.
InvalidateKeepsState(run, s) ==
    [run EXCEPT
        !.decision = [q \in Step |-> IF q >= s THEN NoDecision ELSE @[q]],
        !.artifact = [q \in Step |-> IF q >= s THEN None ELSE @[q]]]

\* _invalidate_from: state, decision and artifact of every step from s on are
\* dropped; effects and regeneration counts stay.
InvalidateFrom(run, s) ==
    [run EXCEPT
        !.state = [q \in Step |-> IF q >= s THEN "pending" ELSE @[q]],
        !.decision = [q \in Step |-> IF q >= s THEN NoDecision ELSE @[q]],
        !.artifact = [q \in Step |-> IF q >= s THEN None ELSE @[q]]]

Back(t, r, s) ==
    /\ Saved(r)
    /\ s > 1
    /\ Decided(t, r, s, "back", InvalidateFrom(registry[r], s - 1))

\* run.decision is out: the pass is recorded and asks for its slots.
DecisionPublished(t) ==
    LET f == Top(t)
        next == IF f.action = "back" THEN StartPass ELSE ResumePass(f.step)
    IN  /\ Resumes(t, "decided")
        /\ TryLaunch(t, f.run, [f.obj EXCEPT !.pending = next], Rest(t))
        /\ UNCHANGED <<locks, receipts, ran, ranAgain, spent>>

----------------------------------------------------------------------------
(***************************************************************************)
(* Target locks                                                            *)
(***************************************************************************)

\* _retry_lock: a conflict only refreshes the banner, else the run is unparked.
RetryLock(t, r) ==
    LET target == registry[r].lockTarget
        freed == [SetCurrent(registry[r], "awaiting_human") EXCEPT
                     !.lockOwner = r, !.status = "awaiting_human"]
    IN  /\ Receives(t)
        /\ HasStatus(r, "blocked")
        /\ \/ /\ locks[target] \notin {None, r}
              /\ runLock[r] = None
              /\ Save(r, [registry[r] EXCEPT !.lockOwner = locks[target]])
              /\ UNCHANGED <<locks, runLock, task, loop>>
           \/ /\ locks[target] \in {None, r}
              /\ Lock(t, r)
              /\ locks' = [locks EXCEPT ![target] = r]
              /\ Save(r, freed)
              /\ Continue(t, <<At("unlocked", r, freed)>>)
        /\ UNCHANGED <<ceiling, receipts, ran, ranAgain>>

RequestRetry(t, r) == Ask /\ RetryLock(t, r)

\* Wrong on purpose: the sweeper only retries locks the run already owns.
SweepOwnLock(t, r) ==
    /\ HasStatus(r, "blocked")
    /\ locks[registry[r].lockTarget] = r
    /\ RetryLock(t, r)
    /\ UNCHANGED spent

\* sweep_expired retries for a blocked run whose lock nobody holds.
SweepBlocked(t, r) ==
    /\ HasStatus(r, "blocked")
    /\ locks[registry[r].lockTarget] = None
    /\ RetryLock(t, r)
    /\ UNCHANGED spent

UnlockedPublished(t) == LeavesLock(t, "unlocked")

\* The TTL of a target lock runs out while its owner waits for a human.
LockExpires(x) ==
    /\ loop = None
    /\ locks[x] # None
    /\ spent.expiries < MaxExpiries
    /\ spent' = [spent EXCEPT !.expiries = @ + 1]
    /\ locks' = [locks EXCEPT ![x] = None]
    /\ UNCHANGED <<registry, ceiling, receipts, runLock, task, loop, ran, ranAgain>>

----------------------------------------------------------------------------
(***************************************************************************)
(* Failures                                                                *)
(***************************************************************************)

Fail == /\ spent.faults < MaxFaults
        /\ spent' = [spent EXCEPT !.faults = @ + 1]

\* Wrong on purpose: an exception while cancelling leaves the run locked.
UnderLockButCancel == {"queued", "approving", "decided", "unlocked"}

\* The points that are inside `async with self._run_lock`.
UnderLock == {"queued", "approving", "decided", "unlocked", "cancelled"}

\* The call at a publish point raises: the handler unwinds, and the promotions
\* of an enclosing release go on.
PublishRaises(t) ==
    /\ AsyncAdapters
    /\ loop = None
    /\ task[t] # <<>>
    /\ Top(t).at \in PublishPoint \ {"queued"}
    /\ Fail
    /\ IF Top(t).at \in UnderLock THEN Unlock(Top(t).run) ELSE UNCHANGED runLock
    /\ Continue(t, Rest(t))
    /\ UNCHANGED <<registry, ceiling, locks, receipts, ran, ranAgain>>

\* _rollback_partial_grant: the walk's queue entry and prefix go back and the
\* record says so, before the exception travels on.
QueuedRaises(t) ==
    /\ AsyncAdapters
    /\ loop = None
    /\ task[t] # <<>>
    /\ Top(t).at = "queued"
    /\ Fail
    /\ UNCHANGED runLock
    /\ ReleaseAndPromote(t, Top(t).run, Top(t).obj, TRUE,
                         <<[Top(t) EXCEPT !.at = "unwinding"]>> \o Rest(t))
    /\ UNCHANGED <<locks, receipts, ran, ranAgain>>

\* Only now does the exception leave the run's lock.
Unwind(t) == LeavesLock(t, "unwinding")

\* The API process restarts: every task and run lock is gone, Redis is not.
Restart ==
    /\ AsyncAdapters
    /\ loop = None
    /\ Fail
    /\ task' = [t \in Task |-> <<>>]
    /\ runLock' = [r \in Run |-> None]
    /\ UNCHANGED <<registry, ceiling, locks, receipts, loop, ran, ranAgain>>

----------------------------------------------------------------------------
Request(t, r) ==
    \/ StartRun(t, r)
    \/ RequestCancel(t, r)
    \/ \E s \in Step :
           \/ \E action \in Forward : Approve(t, r, s, action)
           \/ Regenerate(t, r, s)
           \/ Back(t, r, s)
    \/ RequestRetry(t, r)

Sweep(t, r) == SweepStalled(t, r) \/ SweepBlocked(t, r)

Engine(t) ==
    \/ \E a \in Artifact : PassSuspended(t, a)
    \/ PassCompleted(t)
    \/ \E j \in 0..NumSteps : PassFailed(t, j) \/ PassBroken(t, j)

\* The steps of a task that is already under way.
Proceed(t) ==
    \/ Promote(t)
    \/ QueuedPublished(t)
    \/ StartLaunch(t)
    \/ LockedPublished(t)
    \/ SuspendedPublished(t)
    \/ TerminalPublished(t)
    \/ CancelPublished(t)
    \/ Approved(t)
    \/ DecisionPublished(t)
    \/ UnlockedPublished(t)
    \/ Unwind(t)

Next ==
    \/ \E t \in Task :
           \/ \E r \in Run : Request(t, r) \/ Sweep(t, r)
           \/ Engine(t)
           \/ Proceed(t)
           \/ PublishRaises(t)
           \/ QueuedRaises(t)
    \/ \E x \in Target : LockExpires(x)
    \/ Restart

Spec == Init /\ [][Next]_vars

\* A published call returns, the engine answers within the client's timeout, and
\* the sweeper comes round.
Fairness ==
    /\ \A t \in Task : WF_vars(Engine(t)) /\ WF_vars(Proceed(t))
    /\ \A r \in Run : WF_vars(\E t \in Task : Sweep(t, r))

FairSpec == Spec /\ Fairness

----------------------------------------------------------------------------
(***************************************************************************)
(* Safety                                                                  *)
(***************************************************************************)

\* Release is complete on every exit path (_release_and_promote: "no exit path
\* may give back only part of the set"): a run nobody works on holds a slot
\* only while it waits for another one.
NoSlotLeaks ==
    \A r \in Run, k \in Kind :
        Saved(r) /\ Unattended(r) /\ r \in ceiling[k].active =>
            registry[r].status = "queued" /\ k \in registry[r].pending.slots

\* A run that waits and that nobody works on is in the line it says it is in.
QueuedIsInLine ==
    \A r \in Run :
        HasStatus(r, "queued") /\ Unattended(r) =>
            /\ registry[r].pending.waitingOn # 0
            /\ r \in Waiting(ceiling[registry[r].pending.waitingOn])

InFlight(r) == {t \in Task : task[t] # <<>> /\ Top(t).at = "engine" /\ Top(t).run = r}

\* The engine never computes two passes of one run at the same time.
OnePassPerRun == \A r \in Run : Cardinality(InFlight(r)) <= 1

\* A pass in flight of a live run is paid for: it holds every slot it needs.
PassHoldsItsSlots ==
    \A r \in Run :
        InFlight(r) # {} /\ ~IsTerminal(registry[r]) =>
            \A k \in PassKinds(registry[r]) : r \in ceiling[k].active

\* No side effect without the human approval of exactly that action.
EffectsNeedApproval == ran \subseteq receipts

\* A decision to go on was approved by a human for exactly this run, step and
\* artifact.
Backed(r, run, approved) ==
    \A s \in Step :
        run.decision[s].action \in Forward => <<r, s, run.decision[s]>> \in approved

\* No record and no task's copy of a record, however old, says to go on without
\* that approval.
DecisionsAreBacked ==
    /\ \A r \in Run : Saved(r) => Backed(r, registry[r], receipts)
    /\ \A t \in Task : \A i \in DOMAIN task[t] :
           Backed(task[t][i].run, task[t][i].obj, receipts)

\* An approved action is executed once, whatever is retried or re-derived.
EffectAtMostOnce == ranAgain = {}

\* A completed run was approved step by step and left its effects on record.
CompletedIsApproved ==
    \A r \in Run :
        HasStatus(r, "completed") =>
            \A s \in Step :
                /\ <<r, s, registry[r].decision[s]>> \in receipts
                /\ s \in SideEffecting =>
                      /\ registry[r].effects[s] = registry[r].decision[s]
                      /\ <<r, s, registry[r].decision[s]>> \in ran

\* The reviewer is asked about one step at a time, with its artifact.
OneStepInReview ==
    \A r \in Run :
        HasStatus(r, "awaiting_human") /\ Unattended(r) =>
            \E s \in Step :
                /\ InReview(registry[r]) = {s}
                /\ registry[r].artifact[s] # None
                /\ \A q \in Step : q < s => registry[r].state[q] = "done"

Owns(r, x) ==
    /\ Saved(r)
    /\ ~IsTerminal(registry[r])
    /\ registry[r].lockTarget = x
    /\ registry[r].lockOwner = r

\* A live pass never exceeds the caps README.md promises ("configurable caps on
\* concurrent runs; over-cap work queues").
CapBoundsPasses ==
    \A k \in Kind :
        Cardinality({r \in Run : /\ InFlight(r) # {}
                                 /\ ~IsTerminal(registry[r])
                                 /\ k \in PassKinds(registry[r])}) <= Limit[k]

\* locks.py: "one owner run per shared target".
TargetExclusive ==
    \A x \in Target, p, q \in Run : Owns(p, x) /\ Owns(q, x) => p = q

\* A target is never locked by a run that is over.
NoOrphanLock ==
    \A x \in Target :
        locks[x] # None /\ Unattended(locks[x]) => ~IsTerminal(registry[locks[x]])

\* The task that holds the run lock t waits for; None when t does not wait.
WaitsFor(t) ==
    IF task[t] # <<>> /\ Top(t).at \in {"created", "promote"}
    THEN runLock[Top(t).run]
    ELSE None

\* Run locks nest when a rollback promotes other runs: no set of tasks waits for
\* locks that only they, or tasks that are gone, could release.
NoLockDeadlock ==
    \A S \in (SUBSET Task) \ {{}} :
        \E t \in S : \/ WaitsFor(t) = None
                     \/ WaitsFor(t) \notin S /\ task[WaitsFor(t)] # <<>>

\* A step that waits for approval can be approved: the approval would drive the
\* run and not be answered as a replay.
ApprovalAdvances ==
    \A r \in Run, s \in Step :
        Decidable(r, s) /\ Unattended(r) =>
            <<r, s, Approval(registry[r], s, "proceed")>> \notin receipts

----------------------------------------------------------------------------
(***************************************************************************)
(* The promise, action properties and liveness                            *)
(***************************************************************************)

Governed == INSTANCE GovernedRun WITH
    status <- [r \in Run |-> IF Saved(r) THEN registry[r].status ELSE "none"],
    approved <- receipts,
    executed <- ran

\* The service keeps the promise of GovernedRun.
KeepsThePromise == Governed!Spec

\* The outcome a run finished with is final.
OutcomeIsFinal ==
    [][\A r \in Run :
          Saved(r) /\ IsTerminal(registry[r]) =>
              registry'[r].status = registry[r].status]_vars

\* Over-cap work is never dropped.
QueuedIsDriven == \A r \in Run : HasStatus(r, "queued") ~> ~HasStatus(r, "queued")

\* A blocked run is unparked once its target is free, unless it is taken again.
BlockedOnFree(r) ==
    HasStatus(r, "blocked") /\ locks[registry[r].lockTarget] = None

BlockedIsRetried == \A r \in Run : BlockedOnFree(r) ~> ~BlockedOnFree(r)
=============================================================================

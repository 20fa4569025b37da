--------------------------- MODULE RunServiceProofs ---------------------------
(***************************************************************************)
(* What holds with either kind of adapter, for any number of runs, tasks,  *)
(* steps and artifacts, and whatever raises, expires or restarts: no side  *)
(* effect without its approval, and the types.                             *)
(*                                                                         *)
(* The engine executes what the decisions of the copy it was sent say, and *)
(* a copy may be older than the saved record.  The invariant therefore     *)
(* speaks of every copy: no saved record and no task's copy holds a        *)
(* decision to go on that was not approved.  Approvals are never taken     *)
(* back, so that a copy stays backed however stale it becomes.             *)
(***************************************************************************)
EXTENDS RunService, CeilingOpsProofs, WellFoundedInduction

Frames(q) == {q[i] : i \in DOMAIN q}

\* A run record, as far as this argument reads it, whose decisions are backed.
Sound(r, run, approved) ==
    /\ "decision" \in DOMAIN run
    /\ DOMAIN run.decision = Step
    /\ Backed(r, run, approved)

FrameFields == {"at", "run", "obj", "step", "action", "todo"}

\* A frame works on a run with a sound record, from a sound copy; the record of
\* a run that is only about to be promoted is looked at when it is.
SoundFrame(f, saved, approved) ==
    /\ DOMAIN f = FrameFields
    /\ f.run \in Run
    /\ Sound(f.run, f.obj, approved)
    /\ f.at # "promote" => Sound(f.run, saved[f.run], approved)
    /\ \A g \in f.todo : g[2] \in Run

SoundStack(s, saved, approved) ==
    /\ s \in Seq(Frames(s))
    /\ \A i \in DOMAIN s : SoundFrame(s[i], saved, approved)

Inv ==
    /\ ran \subseteq receipts
    /\ DOMAIN registry = Run
    /\ DOMAIN task = Task
    /\ \A r \in Run : Saved(r) => Sound(r, registry[r], receipts)
    /\ \A t \in Task : SoundStack(task[t], registry, receipts)

----------------------------------------------------------------------------
\* What is sound stays sound when more is approved and records are replaced by
\* sound ones.
Advances(saved, approved, saved2, approved2) ==
    /\ approved \subseteq approved2
    /\ \A r \in Run : Sound(r, saved[r], approved) => Sound(r, saved2[r], approved2)

LEMMA SoundnessStays ==
    ASSUME NEW approved, NEW approved2, approved \subseteq approved2,
           NEW r, NEW run, Sound(r, run, approved)
    PROVE  Sound(r, run, approved2)
BY DEF Sound, Backed

LEMMA StackStaysSound ==
    ASSUME NEW saved, NEW approved, NEW saved2, NEW approved2,
           Advances(saved, approved, saved2, approved2),
           NEW s, SoundStack(s, saved, approved)
    PROVE  SoundStack(s, saved2, approved2)
<1>1. ASSUME NEW i \in DOMAIN s
      PROVE  SoundFrame(s[i], saved2, approved2)
  <2>1. SoundFrame(s[i], saved, approved)
    BY DEF SoundStack
  <2>2. Sound(s[i].run, s[i].obj, approved2)
    BY <2>1, SoundnessStays DEF SoundFrame, Advances
  <2>3. QED
    BY <2>1, <2>2 DEF SoundFrame, Advances
<1>2. QED
  BY <1>1 DEF SoundStack

\* Stacks grow and shrink at the top.
LEMMA PushKeepsSound ==
    ASSUME NEW saved, NEW approved,
           NEW f, SoundFrame(f, saved, approved),
           NEW s, SoundStack(s, saved, approved)
    PROVE  SoundStack(<<f>> \o s, saved, approved)
<1> DEFINE q == <<f>> \o s
           S == Frames(s) \cup {f}
<1>1. s \in Seq(S) /\ <<f>> \in Seq(S)
  BY DEF SoundStack
<1>2. q \in Seq(S) /\ Len(q) = Len(s) + 1 /\ Len(s) \in Nat
  BY <1>1
<1>3. q[1] = f /\ \A i \in 2..Len(q) : q[i] = s[i - 1] /\ i - 1 \in DOMAIN s
  BY <1>1, <1>2
<1>4. DOMAIN q = 1..Len(q)
  BY <1>2
<1> HIDE DEF q
<1>5. q \in Seq(Frames(q))
  <2>1. \A i \in 1..Len(q) : q[i] \in Frames(q)
    BY <1>4 DEF Frames
  <2>2. QED
    BY <1>2, <1>4, <2>1
<1>6. ASSUME NEW i \in DOMAIN q
      PROVE  SoundFrame(q[i], saved, approved)
  <2>1. CASE i = 1
    BY <1>3, <2>1
  <2>2. CASE i # 1
    <3>1. i \in 2..Len(q)
      BY <1>2, <1>4, <2>2
    <3>2. QED
      BY <1>3, <3>1 DEF SoundStack
  <2>3. QED
    BY <2>1, <2>2
<1>7. QED
  BY <1>5, <1>6 DEF SoundStack, q

LEMMA PopKeepsSound ==
    ASSUME NEW saved, NEW approved, NEW s, s # <<>>,
           SoundStack(s, saved, approved)
    PROVE  /\ SoundFrame(Head(s), saved, approved)
           /\ SoundStack(Tail(s), saved, approved)
<1> DEFINE q == Tail(s)
           S == Frames(s)
<1>1. s \in Seq(S) /\ Len(s) \in Nat /\ Len(s) > 0 /\ DOMAIN s = 1..Len(s)
  BY DEF SoundStack
<1>2. Head(s) = s[1] /\ 1 \in DOMAIN s
  BY <1>1
<1>3. q \in Seq(S) /\ Len(q) = Len(s) - 1
  BY <1>1
<1>4. \A i \in 1..Len(q) : q[i] = s[i + 1] /\ i + 1 \in DOMAIN s
  BY <1>1, <1>3
<1>5. DOMAIN q = 1..Len(q)
  BY <1>3
<1> HIDE DEF q
<1>6. q \in Seq(Frames(q))
  <2>1. \A i \in 1..Len(q) : q[i] \in Frames(q)
    BY <1>5 DEF Frames
  <2>2. QED
    BY <1>3, <1>5, <2>1
<1>7. \A i \in DOMAIN q : SoundFrame(q[i], saved, approved)
  BY <1>4, <1>5 DEF SoundStack
<1>8. QED
  BY <1>2, <1>6, <1>7 DEF SoundStack, q

----------------------------------------------------------------------------
(***************************************************************************)
(* What the helpers do to the records and the stacks.                      *)
(***************************************************************************)

\* A record that differs in other fields only is as sound as before.
LEMMA OtherFields ==
    ASSUME NEW r, NEW approved, NEW run, Sound(r, run, approved),
           NEW run2, "decision" \in DOMAIN run2, run2.decision = run.decision
    PROVE  Sound(r, run2, approved)
BY DEF Sound, Backed

LEMMA NewRunIsSound ==
    ASSUME NEW r, NEW approved
    PROVE  Sound(r, NewRun, approved)
BY DEF Sound, Backed, NewRun, NoDecision, Forward

LEMMA SetCurrentIsSound ==
    ASSUME NEW r, NEW approved, NEW run, Sound(r, run, approved), NEW st
    PROVE  Sound(r, SetCurrent(run, st), approved)
<1>1. CASE InReview(run) = {}
  BY <1>1 DEF SetCurrent
<1>2. CASE InReview(run) # {}
  <2> DEFINE cur == CHOOSE s \in InReview(run) : \A q \in InReview(run) : q <= s
  <2>1. SetCurrent(run, st) = [run EXCEPT !.state[cur] = st]
    BY <1>2 DEF SetCurrent
  <2> HIDE DEF cur
  <2>2. Sound(r, [run EXCEPT !.state[cur] = st], approved)
    BY OtherFields DEF Sound
  <2>3. QED
    BY <2>1, <2>2
<1>3. QED
  BY <1>1, <1>2

\* A frame made by At.
LEMMA AtIsSound ==
    ASSUME NEW point, NEW r \in Run, NEW obj, NEW saved, NEW approved,
           Sound(r, obj, approved),
           point # "promote" => Sound(r, saved[r], approved)
    PROVE  SoundFrame(At(point, r, obj), saved, approved)
BY DEF At, SoundFrame, FrameFields

\* The promotions of a task put frames of existing runs on a sound stack.
LEMMA PromotingKeepsSound ==
    ASSUME NEW todo, \A g \in todo : g[2] \in Run,
           NEW saved, NEW approved, NEW s, SoundStack(s, saved, approved),
           NEW next \in Promoting(todo, s)
    PROVE  SoundStack(next, saved, approved)
<1>1. CASE todo = {}
  BY <1>1 DEF Promoting
<1>2. CASE todo # {}
  <2>1. PICK f \in todo :
            next = <<[At("promote", f[2], NewRun) EXCEPT !.todo = todo \ {f}]>> \o s
    BY <1>2 DEF Promoting
  <2> DEFINE top == [At("promote", f[2], NewRun) EXCEPT !.todo = todo \ {f}]
  <2>2. SoundFrame(top, saved, approved)
    BY NewRunIsSound DEF At, SoundFrame, FrameFields
  <2> HIDE DEF top
  <2>3. QED
    BY <2>1, <2>2, PushKeepsSound DEF top
<1>3. QED
  BY <1>1, <1>2

\* Saving a sound record of a run takes nothing back.
LEMMA SaveAdvances ==
    ASSUME Inv, NEW r \in Run, NEW run, Save(r, run),
           receipts \subseteq receipts', Sound(r, run, receipts')
    PROVE  /\ Advances(registry, receipts, registry', receipts')
           /\ registry'[r] = run
           /\ DOMAIN registry' = Run
           /\ \A p \in Run : Saved(p)' => Sound(p, registry'[p], receipts')
<1>1. registry' = [registry EXCEPT ![r] = run] /\ DOMAIN registry = Run
  BY DEF Save, Inv
<1>2. ASSUME NEW p \in Run, Sound(p, registry[p], receipts)
      PROVE  Sound(p, registry'[p], receipts')
  BY <1>1, <1>2, SoundnessStays
<1>3. \A p \in Run : p # r => registry'[p] = registry[p]
  BY <1>1
<1>4. ASSUME NEW p \in Run, Saved(p)'
      PROVE  Sound(p, registry'[p], receipts')
  <2>1. CASE p = r
    BY <1>1, <2>1
  <2>2. CASE p # r
    <3>1. Saved(p)
      BY <1>3, <1>4, <2>2 DEF Saved
    <3>2. QED
      BY <1>2, <3>1 DEF Inv
  <2>3. QED
    BY <2>1, <2>2
<1>5. QED
  BY <1>1, <1>2, <1>4 DEF Advances

LEMMA NoSaveAdvances ==
    ASSUME Inv, UNCHANGED registry, receipts \subseteq receipts'
    PROVE  /\ Advances(registry, receipts, registry', receipts')
           /\ DOMAIN registry' = Run
           /\ \A p \in Run : Saved(p)' => Sound(p, registry'[p], receipts')
<1>1. ASSUME NEW p \in Run, Sound(p, registry[p], receipts)
      PROVE  Sound(p, registry'[p], receipts')
  BY <1>1, SoundnessStays
<1>2. QED
  BY <1>1 DEF Advances, Inv, Saved

\* The records as a step may leave them.
RecordsKept ==
    /\ receipts \subseteq receipts'
    /\ ran' \subseteq receipts'
    /\ Advances(registry, receipts, registry', receipts')
    /\ DOMAIN registry' = Run
    /\ \A p \in Run : Saved(p)' => Sound(p, registry'[p], receipts')

\* A step that keeps the records and leaves its task with a sound stack.
LEMMA ContinueKeepsInv ==
    ASSUME Inv, RecordsKept, NEW t \in Task, NEW stack, Continue(t, stack),
           SoundStack(stack, registry', receipts')
    PROVE  Inv'
<1>1. task' = [task EXCEPT ![t] = stack] /\ DOMAIN task = Task
  BY DEF Continue, Inv
<1>2. ASSUME NEW u \in Task
      PROVE  SoundStack(task'[u], registry', receipts')
  <2>1. CASE u = t
    BY <1>1, <2>1
  <2>2. CASE u # t
    <3>1. task'[u] = task[u] /\ SoundStack(task[u], registry, receipts)
      BY <1>1, <2>2 DEF Inv
    <3>2. QED
      BY <3>1, StackStaysSound DEF RecordsKept
  <2>3. QED
    BY <2>1, <2>2
<1>3. QED
  BY <1>1, <1>2 DEF Inv, RecordsKept

\* A step that leaves the tasks alone.
LEMMA TasksKeptKeepsInv ==
    ASSUME Inv, RecordsKept, UNCHANGED task
    PROVE  Inv'
<1>1. ASSUME NEW u \in Task
      PROVE  SoundStack(task'[u], registry', receipts')
  <2>1. task'[u] = task[u] /\ SoundStack(task[u], registry, receipts)
    BY DEF Inv
  <2>2. QED
    BY <2>1, StackStaysSound DEF RecordsKept
<1>2. QED
  BY <1>1 DEF Inv, RecordsKept

----------------------------------------------------------------------------
\* A task that resumes has a sound top frame on a sound rest.
LEMMA ResumeIsSound ==
    ASSUME Inv, NEW t \in Task, task[t] # <<>>
    PROVE  /\ SoundFrame(Top(t), registry, receipts)
           /\ SoundStack(Rest(t), registry, receipts)
BY PopKeepsSound DEF Inv, Top, Rest

\* A saved copy and a frame for it.
LEMMA SaveAndContinue ==
    ASSUME Inv, NEW t \in Task, NEW r \in Run, NEW run, Save(r, run),
           receipts \subseteq receipts', ran' \subseteq receipts',
           Sound(r, run, receipts'),
           NEW f, DOMAIN f = FrameFields, f.run = r, f.obj = run,
           \A g \in f.todo : g[2] \in Run,
           NEW stack, SoundStack(stack, registry, receipts),
           Continue(t, <<f>> \o stack)
    PROVE  Inv'
<1>1. /\ RecordsKept
      /\ registry'[r] = run
  BY SaveAdvances DEF RecordsKept
<1>2. SoundFrame(f, registry', receipts')
  BY <1>1 DEF SoundFrame
<1>3. SoundStack(stack, registry', receipts')
  BY <1>1, StackStaysSound DEF RecordsKept
<1>4. SoundStack(<<f>> \o stack, registry', receipts')
  BY <1>2, <1>3, PushKeepsSound
<1>5. QED
  BY <1>1, <1>4, ContinueKeepsInv

\* _try_launch saves the caller's copy with another status and pending pass.
LEMMA TryLaunchKeepsInv ==
    ASSUME Inv, NEW t \in Task, NEW r \in Run, NEW run,
           Sound(r, run, receipts),
           NEW stack, SoundStack(stack, registry, receipts),
           TryLaunch(t, r, run, stack), UNCHANGED <<receipts, ran>>
    PROVE  Inv'
<1> DEFINE K == PassKinds(run)
           d == FirstDenied(r, K)
           launched == [run EXCEPT !.pending.slots = K, !.pending.waitingOn = 0,
                                   !.pending.recorded = TRUE, !.status = "running"]
           waiting == [run EXCEPT !.pending.slots = {k \in K : k < d},
                                  !.pending.waitingOn = d,
                                  !.pending.recorded = TRUE, !.status = "queued"]
<1>1. Sound(r, launched, receipts) /\ Sound(r, waiting, receipts)
  BY OtherFields DEF Sound
<1>2. \/ Save(r, launched) /\ Continue(t, <<At("engine", r, launched)>> \o stack)
      \/ Save(r, waiting) /\ Continue(t, <<At("queued", r, waiting)>> \o stack)
  BY DEF TryLaunch
<1> HIDE DEF launched, waiting
<1>3. ASSUME NEW point, NEW obj
      PROVE  /\ DOMAIN At(point, r, obj) = FrameFields
             /\ At(point, r, obj).run = r /\ At(point, r, obj).obj = obj
             /\ \A g \in At(point, r, obj).todo : g[2] \in Run
  BY DEF At, FrameFields
<1>4. receipts \subseteq receipts' /\ ran' \subseteq receipts' /\ receipts' = receipts
  BY DEF Inv
<1>5. CASE Save(r, launched) /\ Continue(t, <<At("engine", r, launched)>> \o stack)
  BY <1>1, <1>3, <1>4, <1>5, SaveAndContinue
<1>6. CASE Save(r, waiting) /\ Continue(t, <<At("queued", r, waiting)>> \o stack)
  BY <1>1, <1>3, <1>4, <1>6, SaveAndContinue
<1>7. QED
  BY <1>2, <1>5, <1>6

\* Giving slots back saves the caller's copy or nothing, and promotes runs.
LEMMA ReleaseAndPromoteKeepsInv ==
    ASSUME Inv, NEW t \in Task, NEW r \in Run, NEW run, Sound(r, run, receipts),
           NEW changed, NEW stack, SoundStack(stack, registry, receipts),
           ReleaseAndPromote(t, r, run, changed, stack),
           UNCHANGED receipts, ran' \subseteq receipts
    PROVE  Inv'
<1> DEFINE todo == PromotedByRelease(r, run)
           given == [run EXCEPT !.pending = NoPass]
<1>1. PICK next \in Promoting(todo, stack) : Continue(t, next)
  BY DEF ReleaseAndPromote
<1>2. \A g \in todo : g[2] \in Run
  BY DEF PromotedByRelease
<1>3. Sound(r, given, receipts)
  BY OtherFields DEF Sound
<1>4. Save(r, given) \/ UNCHANGED registry
  BY DEF ReleaseAndPromote
<1> HIDE DEF todo, given
<1>5. SoundStack(next, registry, receipts)
  BY <1>2, PromotingKeepsSound
<1>6. RecordsKept
  <2>1. CASE Save(r, given)
    BY <1>3, <2>1, SaveAdvances DEF RecordsKept
  <2>2. CASE UNCHANGED registry
    BY <2>2, NoSaveAdvances DEF RecordsKept
  <2>3. QED
    BY <1>4, <2>1, <2>2
<1>7. SoundStack(next, registry', receipts')
  BY <1>5, <1>6, StackStaysSound DEF RecordsKept
<1>8. QED
  BY <1>1, <1>6, <1>7, ContinueKeepsInv

LEMMA ReleaseResourcesKeepsInv ==
    ASSUME Inv, NEW t \in Task, NEW r \in Run, NEW run, Sound(r, run, receipts),
           NEW stack, SoundStack(stack, registry, receipts),
           ReleaseResources(t, r, run, stack),
           UNCHANGED receipts, ran' \subseteq receipts
    PROVE  Inv'
<1>1. Sound(r, [run EXCEPT !.lockOwner = None], receipts)
  BY OtherFields DEF Sound
<1>2. \/ ReleaseAndPromote(t, r, [run EXCEPT !.lockOwner = None], TRUE, stack)
      \/ ReleaseAndPromote(t, r, run, FALSE, stack)
  BY DEF ReleaseResources
<1>3. QED
  BY <1>1, <1>2, ReleaseAndPromoteKeepsInv

\* A task that only drops its top frame.
LEMMA DropKeepsInv ==
    ASSUME Inv, NEW t \in Task, task[t] # <<>>, Continue(t, Rest(t)),
           UNCHANGED <<registry, receipts, ran>>
    PROVE  Inv'
<1>1. RecordsKept
  BY NoSaveAdvances DEF RecordsKept, Inv
<1>2. SoundStack(Rest(t), registry', receipts')
  BY <1>1, ResumeIsSound, StackStaysSound DEF RecordsKept
<1>3. QED
  BY <1>1, <1>2, ContinueKeepsInv

\* The engine executes approved steps only: a step before the open one carries a
\* decision to go on, and the copy the engine was sent is sound.
LEMMA DueIsApproved ==
    ASSUME NEW r, NEW run, Sound(r, run, receipts), NEW S, S \subseteq Due(run),
           ran \subseteq receipts, Execute(r, run, S)
    PROVE  ran' \subseteq receipts
<1>1. ASSUME NEW s \in Due(run)
      PROVE  <<r, s, run.decision[s]>> \in receipts
  <2>1. s \in Step /\ s \in Nat
    BY RunServiceAssumption DEF Due, Step
  <2>2. s \notin Open(run)
    BY <2>1 DEF Due
  <2>3. run.decision[s].action \in Forward
    BY <2>1, <2>2 DEF Open
  <2>4. QED
    BY <2>1, <2>3 DEF Sound, Backed
<1>2. QED
  BY <1>1 DEF Execute

----------------------------------------------------------------------------
(***************************************************************************)
(* The actions.                                                            *)
(***************************************************************************)

LEMMA StartKeepsInv ==
    ASSUME Inv, NEW t \in Task,
           (\E r \in Run : StartRun(t, r)) \/ StartLaunch(t)
    PROVE  Inv'
<1>1. ASSUME NEW r \in Run, StartRun(t, r)
      PROVE  Inv'
  <2>1. SoundStack(<<>>, registry, receipts)
    BY DEF SoundStack
  <2>2. Continue(t, <<At("created", r, NewRun)>> \o <<>>)
    BY <1>1 DEF StartRun
  <2>3. QED
    BY <1>1, <2>1, <2>2, NewRunIsSound, SaveAndContinue
       DEF StartRun, Inv, At, FrameFields
<1>2. ASSUME StartLaunch(t)
      PROVE  Inv'
  <2>1. task[t] # <<>>
    BY <1>2 DEF StartLaunch, Resumes
  <2>2. SoundFrame(Top(t), registry, receipts) /\ SoundStack(Rest(t), registry, receipts)
    BY <2>1, ResumeIsSound
  <2>3. Sound(Top(t).run, [Top(t).obj EXCEPT !.pending = StartPass], receipts)
    BY <2>2, OtherFields DEF SoundFrame, Sound
  <2>4. QED
    BY <1>2, <2>2, <2>3, TryLaunchKeepsInv DEF StartLaunch, SoundFrame
<1>3. QED
  BY <1>1, <1>2

LEMMA PromoteKeepsInv ==
    ASSUME Inv, NEW t \in Task, Promote(t)
    PROVE  Inv'
<1> DEFINE p == Top(t).run
<1>1. task[t] # <<>>
  BY DEF Promote, Resumes
<1>2. SoundFrame(Top(t), registry, receipts) /\ SoundStack(Rest(t), registry, receipts)
  BY <1>1, ResumeIsSound
<1>3. PICK next \in Promoting(Top(t).todo, Rest(t)) :
         \/ UNCHANGED registry /\ Continue(t, next)
         \/ Saved(p) /\ TryLaunch(t, p, registry[p], next)
  BY DEF Promote
<1>4. SoundStack(next, registry, receipts)
  BY <1>2, PromotingKeepsSound DEF SoundFrame
<1>5. UNCHANGED <<receipts, ran>>
  BY DEF Promote
<1>6. CASE UNCHANGED registry /\ Continue(t, next)
  <2>1. RecordsKept
    BY <1>5, <1>6, NoSaveAdvances DEF RecordsKept, Inv
  <2>2. SoundStack(next, registry', receipts')
    BY <1>4, <2>1, StackStaysSound DEF RecordsKept
  <2>3. QED
    BY <1>6, <2>1, <2>2, ContinueKeepsInv
<1>7. CASE Saved(p) /\ TryLaunch(t, p, registry[p], next)
  <2>1. p \in Run /\ Sound(p, registry[p], receipts)
    BY <1>2, <1>7 DEF SoundFrame, Inv
  <2>2. QED
    BY <1>4, <1>5, <1>7, <2>1, TryLaunchKeepsInv
<1>8. QED
  BY <1>3, <1>6, <1>7

\* The records a pass may leave.
LEMMA OutcomesAreSound ==
    ASSUME NEW r, NEW approved, NEW run, Sound(r, run, approved), NEW s, NEW a
    PROVE  /\ Sound(r, Suspended(run, s, a), approved)
           /\ Sound(r, [run EXCEPT !.state = [q \in Step |-> "done"],
                                   !.status = "completed"], approved)
<1>1. Sound(r, Suspended(run, s, a), approved)
  BY OtherFields DEF Suspended, Sound
<1>2. Sound(r, [run EXCEPT !.state = [q \in Step |-> "done"],
                           !.status = "completed"], approved)
  BY OtherFields DEF Sound
<1>3. QED
  BY <1>1, <1>2

\* The frame after a pass keeps its run; its record is sound.
LEMMA EngineKeepsInv ==
    ASSUME Inv, NEW t \in Task, Engine(t)
    PROVE  Inv'
<1> DEFINE r == Top(t).run
           run == Top(t).obj
<1>1. Resumes(t, "engine") /\ UNCHANGED receipts
  BY DEF Engine, PassSuspended, PassCompleted, PassFailed, PassBroken
<1>2. SoundFrame(Top(t), registry, receipts) /\ SoundStack(Rest(t), registry, receipts)
  BY <1>1, ResumeIsSound DEF Resumes
<1>3. /\ r \in Run
      /\ Sound(r, run, receipts)
      /\ Sound(r, registry[r], receipts)
  BY <1>1, <1>2 DEF SoundFrame, Resumes
<1>4. \E S \in SUBSET Due(run) : Execute(r, run, S)
  BY DEF Engine, PassSuspended, PassCompleted, PassFailed, PassBroken, Prefix
<1>5. ran' \subseteq receipts
  BY <1>3, <1>4, DueIsApproved DEF Inv
<1>6. ASSUME Discard(t, r)
      PROVE  Inv'
  BY <1>1, <1>2, <1>3, <1>5, <1>6, ReleaseAndPromoteKeepsInv DEF Discard
<1>7. ASSUME NEW point, NEW saved, Sound(r, saved, receipts),
             Save(r, saved), Continue(t, <<At(point, r, saved)>> \o Rest(t))
      PROVE  Inv'
  BY <1>1, <1>2, <1>3, <1>5, <1>7, SaveAndContinue DEF At, FrameFields
<1>8. ASSUME NEW base, Sound(r, base, receipts), FailRun(t, r, base)
      PROVE  Inv'
  <2> DEFINE failed == [SetCurrent(base, "failed") EXCEPT !.status = "failed"]
  <2>1. Sound(r, failed, receipts)
    BY <1>8, SetCurrentIsSound, OtherFields DEF Sound
  <2>2. Save(r, failed) /\ Continue(t, <<At("terminal", r, failed)>> \o Rest(t))
    BY <1>8 DEF FailRun
  <2> HIDE DEF failed
  <2>3. QED
    BY <1>7, <2>1, <2>2
<1>9. Sound(r, WithEffects(registry[r], run), receipts)
  BY <1>3, OtherFields DEF WithEffects, Sound
<1>10. ASSUME NEW a \in Artifact, PassSuspended(t, a)
       PROVE  Inv'
  <2> DEFINE s == SuspendStep(run)
             base == Suspended(WithEffects(registry[r], run), s, a)
             target == TargetOf[r, s]
             held == IF target = None THEN base
                     ELSE [base EXCEPT !.lockTarget = target, !.lockOwner = r]
             parked == [base EXCEPT !.lockTarget = target,
                                    !.lockOwner = locks[target],
                                    !.status = "blocked"]
             blocked == SetCurrent(parked, "blocked")
  <2>1. Discard(t, r) \/ Park(t, r, base, target)
    BY <1>10 DEF PassSuspended
  <2>2. Sound(r, base, receipts)
    BY <1>9, OutcomesAreSound
  <2> HIDE DEF base, target
  <2>3. Sound(r, held, receipts)
    BY <2>2, OtherFields DEF Sound
  <2>4. Sound(r, parked, receipts)
    BY <2>2, OtherFields DEF Sound
  <2>5. Sound(r, blocked, receipts)
    BY <2>4, SetCurrentIsSound
  <2>6. ASSUME Park(t, r, base, target)
        PROVE  Inv'
    <3>1. \/ Save(r, held) /\ Continue(t, <<At("suspended", r, held)>> \o Rest(t))
          \/ /\ UNCHANGED registry
             /\ Continue(t, <<At("locked", r, blocked)>> \o Rest(t))
      BY <2>6 DEF Park
    <3> HIDE DEF held, parked, blocked
    <3>2. CASE Save(r, held) /\ Continue(t, <<At("suspended", r, held)>> \o Rest(t))
      BY <1>7, <2>3, <3>2
    <3>3. CASE /\ UNCHANGED registry
               /\ Continue(t, <<At("locked", r, blocked)>> \o Rest(t))
      <4>1. RecordsKept
        BY <1>1, <1>5, <3>3, NoSaveAdvances DEF RecordsKept
      <4>2. SoundFrame(At("locked", r, blocked), registry, receipts)
        BY <1>3, <2>5, AtIsSound
      <4>3. SoundStack(<<At("locked", r, blocked)>> \o Rest(t), registry, receipts)
        BY <1>2, <4>2, PushKeepsSound
      <4>4. SoundStack(<<At("locked", r, blocked)>> \o Rest(t), registry', receipts')
        BY <4>1, <4>3, StackStaysSound DEF RecordsKept
      <4>5. QED
        BY <3>3, <4>1, <4>4, ContinueKeepsInv
    <3>4. QED
      BY <3>1, <3>2, <3>3
  <2>7. QED
    BY <1>6, <2>1, <2>6
<1>11. ASSUME PassCompleted(t)
       PROVE  Inv'
  <2> DEFINE done == [WithEffects(registry[r], run) EXCEPT
                         !.state = [s \in Step |-> "done"], !.status = "completed"]
  <2>1. \/ Discard(t, r)
        \/ Save(r, done) /\ Continue(t, <<At("terminal", r, done)>> \o Rest(t))
    BY <1>11 DEF PassCompleted
  <2>2. Sound(r, done, receipts)
    BY <1>9, OutcomesAreSound
  <2> HIDE DEF done
  <2>3. QED
    BY <1>6, <1>7, <2>1, <2>2
<1>12. ASSUME NEW j \in 0..NumSteps, PassFailed(t, j)
       PROVE  Inv'
  BY <1>3, <1>6, <1>8, <1>12 DEF PassFailed
<1>13. ASSUME NEW j \in 0..NumSteps, PassBroken(t, j)
       PROVE  Inv'
  BY <1>3, <1>8, <1>13 DEF PassBroken
<1>14. QED
  BY <1>10, <1>11, <1>12, <1>13 DEF Engine

LEMMA AfterPublishKeepsInv ==
    ASSUME Inv, NEW t \in Task,
           \/ LockedPublished(t)
           \/ SuspendedPublished(t)
           \/ TerminalPublished(t)
           \/ CancelPublished(t)
           \/ QueuedPublished(t)
           \/ UnlockedPublished(t)
           \/ Unwind(t)
           \/ DecisionPublished(t)
    PROVE  Inv'
<1> DEFINE f == Top(t)
<1>1. task[t] # <<>> /\ UNCHANGED <<receipts, ran>>
  BY DEF LockedPublished, SuspendedPublished, TerminalPublished, CancelPublished,
         QueuedPublished, UnlockedPublished, Unwind, DecisionPublished,
         LeavesLock, Resumes
<1>2. SoundFrame(f, registry, receipts) /\ SoundStack(Rest(t), registry, receipts)
  BY <1>1, ResumeIsSound
<1>3. ran' \subseteq receipts /\ ran' \subseteq receipts' /\ receipts \subseteq receipts'
  BY <1>1 DEF Inv
<1>4. f.run \in Run /\ Sound(f.run, f.obj, receipts)
  BY <1>2 DEF SoundFrame
<1>5. CASE LockedPublished(t)
  <2> DEFINE g == [f EXCEPT !.at = "suspended"]
  <2>1. /\ DOMAIN g = FrameFields /\ g.run = f.run /\ g.obj = f.obj
        /\ \A x \in g.todo : x[2] \in Run
    BY <1>2 DEF SoundFrame, FrameFields
  <2>2. Save(f.run, f.obj) /\ Continue(t, <<g>> \o Rest(t))
    BY <1>5 DEF LockedPublished
  <2>3. Sound(f.run, f.obj, receipts')
    BY <1>1, <1>4
  <2> HIDE DEF f, g
  <2>4. QED
    BY <1>2, <1>3, <1>4, <2>1, <2>2, <2>3, SaveAndContinue
<1>6. CASE SuspendedPublished(t)
  BY <1>1, <1>2, <1>3, <1>4, <1>6, ReleaseAndPromoteKeepsInv DEF SuspendedPublished
<1>7. CASE TerminalPublished(t)
  BY <1>1, <1>2, <1>3, <1>4, <1>7, ReleaseResourcesKeepsInv DEF TerminalPublished
<1>8. CASE CancelPublished(t)
  BY <1>1, <1>2, <1>3, <1>4, <1>8, ReleaseResourcesKeepsInv DEF CancelPublished
<1>9. CASE QueuedPublished(t) \/ UnlockedPublished(t) \/ Unwind(t)
  BY <1>1, <1>9, DropKeepsInv
     DEF QueuedPublished, UnlockedPublished, Unwind, LeavesLock
<1>10. CASE DecisionPublished(t)
  <2> DEFINE next == IF f.action = "back" THEN StartPass ELSE ResumePass(f.step)
  <2>1. TryLaunch(t, f.run, [f.obj EXCEPT !.pending = next], Rest(t))
    BY <1>10 DEF DecisionPublished
  <2> HIDE DEF next
  <2>2. Sound(f.run, [f.obj EXCEPT !.pending = next], receipts)
    BY <1>4, OtherFields DEF Sound
  <2>3. QED
    BY <1>1, <1>2, <1>4, <2>1, <2>2, TryLaunchKeepsInv
<1>11. QED
  BY <1>5, <1>6, <1>7, <1>8, <1>9, <1>10

\* cancel saves another status.
LEMMA CancelKeepsInv ==
    ASSUME Inv, NEW t \in Task, NEW r \in Run, Cancel(t, r)
    PROVE  Inv'
<1> DEFINE cancelled == [registry[r] EXCEPT !.status = "cancelled"]
<1>1. Sound(r, cancelled, receipts)
  BY OtherFields DEF Cancel, Inv, Sound
<1>2. SoundStack(<<>>, registry, receipts)
  BY DEF SoundStack
<1>3. Save(r, cancelled) /\ Continue(t, <<At("cancelled", r, cancelled)>> \o <<>>)
  BY DEF Cancel
<1>4. UNCHANGED <<receipts, ran>>
  BY DEF Cancel
<1> HIDE DEF cancelled
<1>5. QED
  BY <1>1, <1>2, <1>3, <1>4, SaveAndContinue DEF At, FrameFields, Inv

\* Approving: first the copy is taken, then the approval is remembered together
\* with the decision that it backs.
LEMMA ApproveKeepsInv ==
    ASSUME Inv, NEW t \in Task,
           \/ \E r \in Run, s \in Step, action \in Forward : Approve(t, r, s, action)
           \/ Approved(t)
    PROVE  Inv'
<1>1. ASSUME NEW r \in Run, NEW s \in Step, NEW action \in Forward,
             Approve(t, r, s, action)
      PROVE  Inv'
  <2> DEFINE f == [At("approving", r, registry[r]) EXCEPT
                      !.step = s, !.action = action]
  <2>1. Sound(r, registry[r], receipts)
    BY <1>1 DEF Approve, Decidable, HasStatus, Inv
  <2>2. SoundFrame(f, registry, receipts)
    BY <2>1 DEF At, SoundFrame, FrameFields
  <2>3. SoundStack(<<>>, registry, receipts)
    BY DEF SoundStack
  <2>4. Continue(t, <<f>>)
    BY <1>1 DEF Approve
  <2> HIDE DEF f
  <2>5. SoundStack(<<f>> \o <<>>, registry, receipts)
    BY <2>2, <2>3, PushKeepsSound
  <2>6. <<f>> \o <<>> = <<f>>
    OBVIOUS
  <2>7. RecordsKept
    BY <1>1, NoSaveAdvances DEF RecordsKept, Approve, Inv
  <2>8. QED
    BY <2>4, <2>5, <2>6, <2>7, StackStaysSound, ContinueKeepsInv DEF RecordsKept
<1>2. ASSUME Approved(t)
      PROVE  Inv'
  <2> DEFINE f == Top(t)
             approval == Approval(f.obj, f.step, f.action)
             decided == [f.obj EXCEPT !.decision[f.step] = approval]
             g == [f EXCEPT !.at = "decided", !.obj = decided]
  <2>1. task[t] # <<>>
    BY <1>2 DEF Approved, Resumes
  <2>2. SoundFrame(f, registry, receipts) /\ SoundStack(Rest(t), registry, receipts)
    BY <2>1, ResumeIsSound
  <2>3. receipts' = receipts \cup {<<f.run, f.step, approval>>} /\ ran' = ran
    BY <1>2 DEF Approved
  <2>4. Save(f.run, decided) /\ Continue(t, <<g>> \o Rest(t))
    BY <1>2 DEF Approved
  <2>5. /\ DOMAIN g = FrameFields /\ g.run = f.run /\ g.obj = decided
        /\ \A x \in g.todo : x[2] \in Run
    BY <2>2 DEF SoundFrame, FrameFields
  <2> HIDE DEF approval, f
  <2>6. Sound(f.run, decided, receipts')
    BY <2>2, <2>3 DEF Sound, Backed, SoundFrame
  <2> HIDE DEF decided, g
  <2>7. QED
    BY <2>2, <2>3, <2>4, <2>5, <2>6, SaveAndContinue DEF SoundFrame, Inv
<1>3. QED
  BY <1>1, <1>2

\* Regenerating and going back only drop decisions to go on.
LEMMA ReviseKeepsInv ==
    ASSUME Inv, NEW t \in Task, NEW r \in Run, NEW s \in Step,
           Regenerate(t, r, s) \/ Back(t, r, s)
    PROVE  Inv'
<1>1. ASSUME NEW run, Sound(r, run, receipts), NEW action,
             Decided(t, r, s, action, run)
      PROVE  Inv'
  <2> DEFINE f == [At("decided", r, run) EXCEPT !.step = s, !.action = action]
  <2>1. /\ DOMAIN f = FrameFields /\ f.run = r /\ f.obj = run
        /\ \A x \in f.todo : x[2] \in Run
    BY DEF At, FrameFields
  <2>2. SoundStack(<<>>, registry, receipts)
    BY DEF SoundStack
  <2>3. Save(r, run) /\ Continue(t, <<f>> \o <<>>)
    BY <1>1 DEF Decided
  <2>4. UNCHANGED <<receipts, ran>>
    BY <1>1 DEF Decided
  <2> HIDE DEF f
  <2>5. QED
    BY <1>1, <2>1, <2>2, <2>3, <2>4, SaveAndContinue DEF Inv
<1>2. ASSUME Saved(r)
      PROVE  Sound(r, registry[r], receipts)
  BY <1>2 DEF Inv
<1>3. CASE Regenerate(t, r, s)
  <2> DEFINE run == [registry[r] EXCEPT !.regenerations[s] = @ + 1,
                                        !.decision[s] = RegenerateMark]
  <2>1. Sound(r, run, receipts)
    BY <1>2, <1>3 DEF Regenerate, Sound, Backed, RegenerateMark, Forward
  <2>2. Decided(t, r, s, "regenerate", run)
    BY <1>3 DEF Regenerate
  <2> HIDE DEF run
  <2>3. QED
    BY <1>1, <2>1, <2>2
<1>4. CASE Back(t, r, s)
  <2> DEFINE run == InvalidateFrom(registry[r], s - 1)
  <2>1. Sound(r, run, receipts)
    BY <1>2, <1>4 DEF Back, InvalidateFrom, Sound, Backed, NoDecision, Forward
  <2>2. Decided(t, r, s, "back", run)
    BY <1>4 DEF Back
  <2> HIDE DEF run
  <2>3. QED
    BY <1>1, <2>1, <2>2
<1>5. QED
  BY <1>3, <1>4

\* Retrying a lock changes whom the record names as the owner, and unparks.
LEMMA RetryKeepsInv ==
    ASSUME Inv, NEW t \in Task, NEW r \in Run, RetryLock(t, r)
    PROVE  Inv'
<1> DEFINE freed == [SetCurrent(registry[r], "awaiting_human") EXCEPT
                        !.lockOwner = r, !.status = "awaiting_human"]
           owned == [registry[r] EXCEPT !.lockOwner = locks[registry[r].lockTarget]]
<1>1. Sound(r, registry[r], receipts)
  BY DEF RetryLock, HasStatus, Inv
<1>2. UNCHANGED <<receipts, ran>>
  BY DEF RetryLock
<1>3. Sound(r, owned, receipts)
  BY <1>1, OtherFields DEF Sound
<1>4. Sound(r, freed, receipts)
  <2> DEFINE run == SetCurrent(registry[r], "awaiting_human")
  <2>1. Sound(r, run, receipts)
    BY <1>1, SetCurrentIsSound
  <2> HIDE DEF run
  <2>2. Sound(r, [run EXCEPT !.lockOwner = r, !.status = "awaiting_human"], receipts)
    BY <2>1, OtherFields DEF Sound
  <2>3. QED
    BY <2>2 DEF run
<1>5. \/ Save(r, owned) /\ UNCHANGED task
      \/ Save(r, freed) /\ Continue(t, <<At("unlocked", r, freed)>>)
  BY DEF RetryLock
<1> HIDE DEF owned, freed
<1>6. CASE Save(r, owned) /\ UNCHANGED task
  <2>1. RecordsKept
    BY <1>2, <1>3, <1>6, SaveAdvances DEF RecordsKept, Inv
  <2>2. QED
    BY <1>6, <2>1, TasksKeptKeepsInv
<1>7. CASE Save(r, freed) /\ Continue(t, <<At("unlocked", r, freed)>>)
  <2>1. SoundStack(<<>>, registry, receipts)
    BY DEF SoundStack
  <2>2. Continue(t, <<At("unlocked", r, freed)>> \o <<>>)
    BY <1>7
  <2>3. QED
    BY <1>2, <1>4, <1>7, <2>1, <2>2, SaveAndContinue DEF At, FrameFields, Inv
<1>8. QED
  BY <1>5, <1>6, <1>7

\* Exceptions unwind a task, a restart loses them all, and an expired target lock
\* is in no record.
LEMMA FailureKeepsInv ==
    ASSUME Inv,
           \/ \E t \in Task : PublishRaises(t) \/ QueuedRaises(t)
           \/ \E x \in Target : LockExpires(x)
           \/ Restart
    PROVE  Inv'
<1>1. ASSUME NEW t \in Task, PublishRaises(t)
      PROVE  Inv'
  BY <1>1, DropKeepsInv DEF PublishRaises
<1>2. ASSUME NEW t \in Task, QueuedRaises(t)
      PROVE  Inv'
  <2> DEFINE f == Top(t)
             g == [f EXCEPT !.at = "unwinding"]
  <2>1. task[t] # <<>> /\ UNCHANGED <<receipts, ran>> /\ f.at = "queued"
    BY <1>2 DEF QueuedRaises
  <2>2. SoundFrame(f, registry, receipts) /\ SoundStack(Rest(t), registry, receipts)
    BY <2>1, ResumeIsSound
  <2>3. ReleaseAndPromote(t, f.run, f.obj, TRUE, <<g>> \o Rest(t))
    BY <1>2 DEF QueuedRaises
  <2> HIDE DEF f
  <2>4. SoundFrame(g, registry, receipts)
    BY <2>1, <2>2 DEF SoundFrame, FrameFields
  <2> HIDE DEF g
  <2>5. SoundStack(<<g>> \o Rest(t), registry, receipts)
    BY <2>2, <2>4, PushKeepsSound
  <2>6. QED
    BY <2>1, <2>2, <2>3, <2>5, ReleaseAndPromoteKeepsInv DEF SoundFrame, Inv
<1>3. ASSUME NEW x \in Target, LockExpires(x)
      PROVE  Inv'
  <2>1. UNCHANGED <<registry, receipts, ran, task>>
    BY <1>3 DEF LockExpires
  <2>2. QED
    BY <2>1, NoSaveAdvances, TasksKeptKeepsInv DEF RecordsKept, Inv
<1>4. ASSUME Restart
      PROVE  Inv'
  <2>1. UNCHANGED <<registry, receipts, ran>> /\ task' = [t \in Task |-> <<>>]
    BY <1>4 DEF Restart
  <2>2. SoundStack(<<>>, registry', receipts')
    BY DEF SoundStack
  <2>3. QED
    BY <2>1, <2>2, NoSaveAdvances DEF Inv
<1>5. QED
  BY <1>1, <1>2, <1>3, <1>4

----------------------------------------------------------------------------
(***************************************************************************)
(* The theorems.                                                           *)
(***************************************************************************)

\* Every copy of a record is backed by approvals, and so is every effect.
THEOREM InvHolds == Spec => []Inv
<1>1. Init => Inv
  <2> SUFFICES ASSUME Init
               PROVE  Inv
    OBVIOUS
  <2>1. \A t \in Task : SoundStack(task[t], registry, receipts)
    BY DEF Init, SoundStack
  <2>2. QED
    BY <2>1 DEF Init, Inv, Saved
<1>2. Inv /\ [Next]_vars => Inv'
  <2> SUFFICES ASSUME Inv, [Next]_vars
               PROVE  Inv'
    OBVIOUS
  <2>1. ASSUME NEW t \in Task, NEW r \in Run, Request(t, r)
        PROVE  Inv'
    BY <2>1, StartKeepsInv, CancelKeepsInv, ApproveKeepsInv, ReviseKeepsInv,
       RetryKeepsInv DEF Request, RequestCancel, RequestRetry
  <2>2. ASSUME NEW t \in Task, NEW r \in Run, Sweep(t, r)
        PROVE  Inv'
    BY <2>2, CancelKeepsInv, RetryKeepsInv DEF Sweep, SweepStalled, SweepBlocked
  <2>3. ASSUME NEW t \in Task, Engine(t)
        PROVE  Inv'
    BY <2>3, EngineKeepsInv
  <2>4. ASSUME NEW t \in Task, Proceed(t)
        PROVE  Inv'
    BY <2>4, PromoteKeepsInv, StartKeepsInv, AfterPublishKeepsInv, ApproveKeepsInv
       DEF Proceed
  <2>5. ASSUME NEW t \in Task, PublishRaises(t) \/ QueuedRaises(t)
        PROVE  Inv'
    BY <2>5, FailureKeepsInv
  <2>6. CASE (\E x \in Target : LockExpires(x)) \/ Restart
    BY <2>6, FailureKeepsInv
  <2>7. CASE UNCHANGED vars
    <3>1. UNCHANGED <<registry, receipts, ran, task>>
      BY <2>7 DEF vars
    <3>2. QED
      BY <3>1, NoSaveAdvances, TasksKeptKeepsInv DEF RecordsKept, Inv
  <2>8. QED
    BY <2>1, <2>2, <2>3, <2>4, <2>5, <2>6, <2>7 DEF Next
<1>3. QED
  BY <1>1, <1>2, PTL DEF Spec

\* The engine executes no side effect that a human did not approve for exactly
\* this run, step, action and artifact.
THEOREM EffectsAreApproved == Spec => []EffectsNeedApproval
<1>1. Inv => EffectsNeedApproval
  BY DEF Inv, EffectsNeedApproval
<1>2. QED
  BY <1>1, InvHolds, PTL

\* No saved record and no copy a task works on says to go on unapproved.
THEOREM CopiesAreBacked == Spec => []DecisionsAreBacked
<1>1. Inv => DecisionsAreBacked
  BY DEF Inv, DecisionsAreBacked, SoundStack, SoundFrame, Sound
<1>2. QED
  BY <1>1, InvHolds, PTL

----------------------------------------------------------------------------
(***************************************************************************)
(* Types: whatever is saved, queued, granted or remembered stays inside    *)
(* its declared shape.                                                     *)
(*                                                                         *)
(* TypeOK is not inductive.  A frame that is about to resume reads the     *)
(* saved record of its run, so that record has to be there; `retry_lock`   *)
(* indexes the locks by the banner's target, so a blocked record has to    *)
(* name one; and an approval that is being written has to be about a step. *)
(* Typed adds these three facts.                                           *)
(***************************************************************************)

\* A record whose banner names a target whenever it is blocked.
Record == {run \in WorkflowRun : run.status = "blocked" => run.lockTarget # None}

\* A frame of a task, given the saved records.
KnownFrame(saved) ==
    {f \in Frame :
        /\ f.obj \in Record
        /\ f.at = "approving" => f.step \in Step /\ f.action \in Forward
        /\ f.at # "promote" => saved[f.run] \in Record}

\* TypeOK, strengthened by what the handlers rely on when they resume.
Typed ==
    /\ registry \in [Run -> Record \cup {None}]
    /\ ceiling \in [Kind -> Ceiling]
    /\ locks \in [Target -> Run \cup {None}]
    /\ receipts \subseteq Run \X Step \X Decision
    /\ runLock \in [Run -> Task \cup {None}]
    /\ task \in [Task -> Seq(KnownFrame(registry))]
    /\ loop \in Task \cup {None}
    /\ ran \subseteq Run \X Step \X Decision
    /\ ranAgain \subseteq ran
    /\ spent \in [requests : 0..MaxRequests, expiries : 0..MaxExpiries,
                  faults : 0..MaxFaults]

----------------------------------------------------------------------------
\* A bounded set of numbers that is not empty has a least one.
LEMMA LeastExists ==
    ASSUME NEW N \in Nat, NEW S, S \subseteq 0..N, S # {}
    PROVE  \E m \in S : \A n \in S : m <= n
<1> DEFINE U == 1..N
           T == {1..n : n \in S}
           R == StrictSubsetOrdering(U)
<1>1. IsFiniteSet(U)
  BY FS_Interval
<1>2. IsWellFoundedOn(R, SUBSET U)
  BY <1>1, FS_StrictSubsetOrderingWellFounded, FS_FiniteSubsetsOfFinite
<1>3. T \subseteq SUBSET U /\ T # {}
  <2>1. \A n \in S : n \in Nat /\ n <= N
    OBVIOUS
  <2>2. \A n \in S : 1..n \subseteq 1..N
    BY <2>1
  <2>3. QED
    BY <2>2
<1> HIDE DEF R
<1>4. PICK x \in T : \A y \in T : ~(<<y, x>> \in R)
  BY <1>2, <1>3, WFMin
<1>5. PICK m \in S : x = 1..m
  OBVIOUS
<1>6. ASSUME NEW n \in S, n < m
      PROVE  FALSE
  <2>1. 1..n \in T
    OBVIOUS
  <2>2. 1..n \subseteq 1..m /\ 1..n # 1..m
    BY <1>6
  <2>3. <<1..n, 1..m>> \in R
    BY <1>3, <1>5, <2>1, <2>2 DEF R, StrictSubsetOrdering
  <2>4. QED
    BY <1>4, <1>5, <2>1, <2>3
<1>7. QED
  BY <1>6

\* The same for the greatest.
LEMMA GreatestExists ==
    ASSUME NEW N \in Nat, NEW S, S \subseteq 0..N, S # {}
    PROVE  \E m \in S : \A n \in S : n <= m
<1> DEFINE T == {N - n : n \in S}
<1>1. \A n \in S : n \in Nat /\ n <= N
  OBVIOUS
<1>2. \A n \in S : N - n \in 0..N
  BY <1>1
<1>3. T \subseteq 0..N /\ T # {}
  BY <1>2
<1>4. PICK d \in T : \A e \in T : d <= e
  BY <1>3, LeastExists
<1>5. PICK m \in S : d = N - m
  OBVIOUS
<1>6. \A n \in S : N - m <= N - n
  BY <1>4, <1>5
<1>7. \A n \in S : n <= m
  BY <1>1, <1>6
<1>8. QED
  BY <1>7

----------------------------------------------------------------------------
(***************************************************************************)
(* Ceilings.                                                               *)
(***************************************************************************)

\* Removing an entry from a line leaves a line of runs.
LEMMA WithoutType ==
    ASSUME NEW q \in Seq(Run), NEW r
    PROVE  Without(q, r) \in Seq(Run)
<1>1. CASE \A i \in DOMAIN q : q[i] # r
  BY <1>1 DEF Without
<1>2. CASE \E i \in DOMAIN q : q[i] = r
  <2> DEFINE i == CHOOSE j \in DOMAIN q : q[j] = r
             w == [j \in 1..(Len(q) - 1) |-> IF j < i THEN q[j] ELSE q[j + 1]]
  <2>1. i \in 1..Len(q) /\ Len(q) \in Nat
    BY <1>2
  <2>2. Without(q, r) = w
    BY <1>2 DEF Without
  <2> HIDE DEF i
  <2>3. \A j \in 1..(Len(q) - 1) : w[j] \in Run
    BY <2>1
  <2>4. w \in [1..(Len(q) - 1) -> Run] /\ Len(q) - 1 \in Nat
    BY <2>1, <2>3
  <2>5. w \in Seq(Run)
    BY <2>4
  <2>6. QED
    BY <2>2, <2>5
<1>3. QED
  BY <1>1, <1>2

\* Acquiring and releasing keep a ceiling a ceiling, and promote runs only.
LEMMA CeilingTypes ==
    ASSUME NEW c \in Ceiling, NEW r \in Run, NEW limit
    PROVE  /\ AcquireSlot(c, r, limit) \in Ceiling
           /\ ReleaseSlot(c, r, limit) \in Ceiling
           /\ PromotedBy(c, r, limit) \subseteq Run
<1>1. c.active \subseteq Run /\ c.queued \in Seq(Run)
  BY DEF Ceiling
<1>2. Without(c.queued, r) \in Seq(Run)
  BY <1>1, WithoutType
<1>3. Append(Without(c.queued, r), r) \in Seq(Run)
  BY <1>2
<1>4. c.queued # <<>> => Head(c.queued) \in Run /\ Tail(c.queued) \in Seq(Run)
  BY <1>1
<1>5. AcquireSlot(c, r, limit) \in Ceiling
  BY <1>1, <1>2, <1>3 DEF AcquireSlot, Ceiling
<1>6. HandsOn(c, r, limit) => c.queued # <<>>
  BY DEF HandsOn
<1>7. ReleaseSlot(c, r, limit) \in Ceiling
  BY <1>1, <1>2, <1>4, <1>6 DEF ReleaseSlot, Ceiling
<1>8. QED
  BY <1>4, <1>5, <1>6, <1>7 DEF PromotedBy

----------------------------------------------------------------------------
(***************************************************************************)
(* Records and frames.                                                     *)
(***************************************************************************)

\* Steps and kinds are numbered from 1, and 0 is neither.
LEMMA StepsAndKinds ==
    /\ Step \subseteq 0..NumSteps /\ Step \subseteq Nat
    /\ Kind \subseteq 0..NumKinds /\ Kind \subseteq Nat
    /\ 0 \notin Step /\ 0 \notin Kind /\ 1 \in Kind
BY RunServiceAssumption DEF Step, Kind

\* The record that start saves is well formed.
LEMMA NewRunType == NewRun \in Record
BY RunServiceAssumption
   DEF Record, WorkflowRun, NewRun, NoPass, NoDecision, Status, StepState, Decision, Pass

\* What decide and start record as the next pass is a pass.
LEMMA PassTypes ==
    /\ StartPass \in Pass /\ NoPass \in Pass
    /\ \A s \in Step \cup {0} : ResumePass(s) \in Pass
BY DEF StartPass, NoPass, ResumePass, Pass

\* The updates of a record that the service makes.
LEMMA UpdateTypes ==
    ASSUME NEW run \in Record
    PROVE  /\ \A p \in Pass : [run EXCEPT !.pending = p] \in Record
           /\ \A o \in Run \cup {None} : [run EXCEPT !.lockOwner = o] \in Record
           /\ \A st \in Status \ {"blocked"} : [run EXCEPT !.status = st] \in Record
BY DEF Record, WorkflowRun

\* Setting the state of the step in review touches nothing else.
LEMMA SetCurrentType ==
    ASSUME NEW run \in Record, NEW st \in StepState
    PROVE  SetCurrent(run, st) \in Record /\ SetCurrent(run, st).status = run.status
           /\ SetCurrent(run, st).lockTarget = run.lockTarget
<1>1. CASE InReview(run) = {}
  BY <1>1 DEF SetCurrent
<1>2. CASE InReview(run) # {}
  <2> DEFINE cur == CHOOSE s \in InReview(run) : \A q \in InReview(run) : q <= s
  <2>1. SetCurrent(run, st) = [run EXCEPT !.state[cur] = st]
    BY <1>2 DEF SetCurrent
  <2> HIDE DEF cur
  <2>2. QED
    BY <2>1 DEF Record, WorkflowRun
<1>3. QED
  BY <1>1, <1>2

\* A pass aims at a step or at none, and needs known kinds.
LEMMA PassTargetType ==
    ASSUME NEW run \in Record
    PROVE  PassTarget(run) \in Step \cup {0} /\ PassKinds(run) \subseteq Kind
<1> DEFINE open == {s \in Step : run.decision[s] = NoDecision}
           least == CHOOSE s \in open : \A q \in open : s <= q
<1>1. run.pending.step \in Step \cup {0}
  BY DEF Record, WorkflowRun, Pass
<1>2. ASSUME open # {}
      PROVE  least \in Step
  <2>1. open \subseteq 0..NumSteps /\ open \subseteq Step /\ NumSteps \in Nat
    BY StepsAndKinds, RunServiceAssumption
  <2> HIDE DEF open
  <2>2. \E s \in open : \A q \in open : s <= q
    BY <1>2, <2>1, LeastExists
  <2>3. QED
    BY <2>1, <2>2
<1>3. PassTarget(run) \in {run.pending.step, 0} \/ (open # {} /\ PassTarget(run) = least)
  BY DEF PassTarget
<1>4. PassTarget(run) \in Step \cup {0}
  BY <1>1, <1>2, <1>3
<1>5. PassKinds(run) \subseteq Kind
  BY <1>4, StepsAndKinds, RunServiceAssumption DEF PassKinds
<1>6. QED
  BY <1>4, <1>5

\* A denied walk has a first denial.
LEMMA FirstDeniedType ==
    ASSUME NEW r, NEW K, K \subseteq Kind, Denied(r, K) # {}
    PROVE  /\ FirstDenied(r, K) \in Denied(r, K)
           /\ FirstDenied(r, K) \in Kind
           /\ \A k \in Denied(r, K) : FirstDenied(r, K) <= k
<1>1. Denied(r, K) \subseteq 0..NumKinds /\ Denied(r, K) \subseteq Kind /\ NumKinds \in Nat
  BY StepsAndKinds, RunServiceAssumption DEF Denied
<1>2. \E k \in Denied(r, K) : \A j \in Denied(r, K) : k <= j
  BY <1>1, LeastExists
<1>3. QED
  BY <1>1, <1>2 DEF FirstDenied

\* A run with an open step is suspended at the first of them.
LEMMA SuspendStepType ==
    ASSUME NEW run, Open(run) # {}
    PROVE  /\ SuspendStep(run) \in Step
           /\ SuspendStep(run) \in Open(run)
           /\ \A q \in Open(run) : SuspendStep(run) <= q
<1>1. Open(run) \subseteq 0..NumSteps /\ Open(run) \subseteq Step /\ NumSteps \in Nat
  BY StepsAndKinds, RunServiceAssumption DEF Open
<1>2. \E s \in Open(run) : \A q \in Open(run) : s <= q
  BY <1>1, LeastExists
<1>3. QED
  BY <1>1, <1>2 DEF SuspendStep

\* The record that a walk over the ceilings saves is well formed.
LEMMA LaunchTypes ==
    ASSUME NEW run \in Record, NEW K, K \subseteq Kind, NEW d \in Kind \cup {0},
           NEW st \in Status \ {"blocked"}
    PROVE  [run EXCEPT !.pending.slots = K, !.pending.waitingOn = d,
                       !.pending.recorded = TRUE, !.status = st] \in Record
<1>1. [run EXCEPT !.pending.slots = K, !.pending.waitingOn = d,
                  !.pending.recorded = TRUE, !.status = st]
      = [run EXCEPT !.pending = [run.pending EXCEPT !.slots = K, !.waitingOn = d,
                                                    !.recorded = TRUE],
                    !.status = st]
  BY DEF Record, WorkflowRun, Pass
<1>2. [run.pending EXCEPT !.slots = K, !.waitingOn = d, !.recorded = TRUE] \in Pass
  BY DEF Record, WorkflowRun, Pass
<1>3. QED
  BY <1>1, <1>2 DEF Record, WorkflowRun

\* Copying effects from the latest record keeps a record well formed.
LEMMA EffectTypes ==
    ASSUME NEW latest \in Record, NEW run \in Record
    PROVE  WithEffects(latest, run) \in Record
BY DEF WithEffects, Record, WorkflowRun

\* The record of a suspended pass is well formed.
LEMMA SuspendedType ==
    ASSUME NEW run \in Record, NEW s \in Step, NEW a \in Artifact
    PROVE  Suspended(run, s, a) \in Record
BY DEF Suspended, Record, WorkflowRun, Status, StepState

----------------------------------------------------------------------------
(***************************************************************************)
(* Stacks.                                                                 *)
(***************************************************************************)

\* Records are replaced by records.
Kept(saved, saved2) == \A r \in Run : saved[r] \in Record => saved2[r] \in Record

\* A stack stays well formed while records are only replaced by records.
LEMMA StacksStay ==
    ASSUME NEW saved, NEW saved2, Kept(saved, saved2)
    PROVE  Seq(KnownFrame(saved)) \subseteq Seq(KnownFrame(saved2))
<1>1. KnownFrame(saved) \subseteq KnownFrame(saved2)
  BY DEF KnownFrame, Frame, Kept
<1>2. QED
  BY <1>1

\* Pushing a frame on a stack.
LEMMA PushType ==
    ASSUME NEW F, NEW f \in F, NEW s \in Seq(F)
    PROVE  <<f>> \o s \in Seq(F)
OBVIOUS

\* Taking a stack apart.
LEMMA PopType ==
    ASSUME NEW F, NEW s \in Seq(F), s # <<>>
    PROVE  Head(s) \in F /\ Tail(s) \in Seq(F)
OBVIOUS

\* A frame made for a publish point or the engine is well formed.
LEMMA AtType ==
    ASSUME NEW saved, NEW point \in Point \ {"approving"}, NEW r \in Run,
           NEW obj \in Record, point # "promote" => saved[r] \in Record
    PROVE  At(point, r, obj) \in KnownFrame(saved)
BY DEF At, KnownFrame, Frame, Record

\* The frames that drive promotions are well formed.
LEMMA PromotingType ==
    ASSUME NEW saved, NEW todo, todo \subseteq Kind \X Run,
           NEW s \in Seq(KnownFrame(saved)), NEW next \in Promoting(todo, s)
    PROVE  next \in Seq(KnownFrame(saved))
<1>1. CASE todo = {}
  BY <1>1 DEF Promoting
<1>2. CASE todo # {}
  <2>1. PICK f \in todo :
            next = <<[At("promote", f[2], NewRun) EXCEPT !.todo = todo \ {f}]>> \o s
    BY <1>2 DEF Promoting
  <2> DEFINE top == [At("promote", f[2], NewRun) EXCEPT !.todo = todo \ {f}]
  <2>2. top \in KnownFrame(saved)
    BY NewRunType DEF At, KnownFrame, Frame, Record, Point
  <2> HIDE DEF top
  <2>3. <<top>> \o s \in Seq(KnownFrame(saved))
    BY <2>2, PushType
  <2>4. QED
    BY <2>1, <2>3 DEF top
<1>3. QED
  BY <1>1, <1>2

\* The records as a step may leave them.
RegistryTyped ==
    /\ registry' \in [Run -> Record \cup {None}]
    /\ Kept(registry, registry')

\* The tasks and the loop as a step may leave them.
TasksTyped ==
    /\ task' \in [Task -> Seq(KnownFrame(registry'))]
    /\ loop' \in Task \cup {None}

\* Saving a record keeps the registry well formed.
LEMMA SaveType ==
    ASSUME Typed, NEW r \in Run, NEW run \in Record, Save(r, run)
    PROVE  RegistryTyped /\ registry'[r] = run
BY DEF Typed, Save, RegistryTyped, Kept

\* So does leaving it alone.
LEMMA NoSaveType ==
    ASSUME Typed, UNCHANGED registry
    PROVE  RegistryTyped
BY DEF Typed, RegistryTyped, Kept

\* A task that goes on as a well-formed stack.
LEMMA ContinueType ==
    ASSUME Typed, RegistryTyped, NEW t \in Task,
           NEW stack \in Seq(KnownFrame(registry')), Continue(t, stack)
    PROVE  TasksTyped
<1>1. task \in [Task -> Seq(KnownFrame(registry'))]
  BY StacksStay DEF Typed, RegistryTyped
<1>2. QED
  BY <1>1 DEF Continue, Typed, TasksTyped

\* What a task that resumes finds in its top frame.
LEMMA ResumeType ==
    ASSUME Typed, NEW t \in Task, task[t] # <<>>
    PROVE  /\ Top(t) \in KnownFrame(registry)
           /\ Rest(t) \in Seq(KnownFrame(registry))
           /\ Top(t).run \in Run /\ Top(t).obj \in Record
           /\ Top(t).todo \subseteq Kind \X Run
           /\ Top(t).step \in Step \cup {0}
           /\ Top(t).at # "promote" => registry[Top(t).run] \in Record
<1>1. Top(t) \in KnownFrame(registry) /\ Rest(t) \in Seq(KnownFrame(registry))
  BY PopType DEF Typed, Top, Rest
<1>2. QED
  BY <1>1 DEF KnownFrame, Frame

\* A frame on a run whose record is saved on the way.
LEMMA SaveAndContinueType ==
    ASSUME Typed, NEW t \in Task, NEW r \in Run, NEW run \in Record, Save(r, run),
           NEW point \in Point \ {"approving", "promote"},
           NEW stack \in Seq(KnownFrame(registry)),
           Continue(t, <<At(point, r, run)>> \o stack)
    PROVE  RegistryTyped /\ TasksTyped
<1>1. RegistryTyped /\ registry'[r] = run
  BY SaveType
<1>2. At(point, r, run) \in KnownFrame(registry')
  BY <1>1, AtType
<1>3. stack \in Seq(KnownFrame(registry'))
  BY <1>1, StacksStay DEF RegistryTyped
<1>4. <<At(point, r, run)>> \o stack \in Seq(KnownFrame(registry'))
  BY <1>2, <1>3, PushType
<1>5. QED
  BY <1>1, <1>4, ContinueType

\* _try_launch, granted or denied, keeps every type.
LEMMA TryLaunchType ==
    ASSUME Typed, NEW t \in Task, NEW r \in Run, NEW run \in Record,
           NEW stack \in Seq(KnownFrame(registry)), TryLaunch(t, r, run, stack)
    PROVE  /\ RegistryTyped /\ TasksTyped
           /\ ceiling' \in [Kind -> Ceiling]
           /\ runLock' \in [Run -> Task \cup {None}]
<1> DEFINE K == PassKinds(run)
           d == FirstDenied(r, K)
           launched == [run EXCEPT !.pending.slots = K, !.pending.waitingOn = 0,
                                   !.pending.recorded = TRUE, !.status = "running"]
           waiting == [run EXCEPT !.pending.slots = {k \in K : k < d},
                                  !.pending.waitingOn = d,
                                  !.pending.recorded = TRUE, !.status = "queued"]
<1>1. K \subseteq Kind
  BY PassTargetType
<1>2. ASSUME NEW L, Acquire(r, L)
      PROVE  ceiling' \in [Kind -> Ceiling]
  BY <1>2, CeilingTypes DEF Acquire, Typed
<1>3. runLock' \in [Run -> Task \cup {None}]
  BY DEF TryLaunch, Unlock, Typed
<1> HIDE DEF K
<1>4. CASE Denied(r, K) = {}
  <2>1. /\ Acquire(r, K) /\ Save(r, launched)
        /\ Continue(t, <<At("engine", r, launched)>> \o stack)
    BY <1>4 DEF TryLaunch, K
  <2>2. launched \in Record
    BY <1>1, LaunchTypes DEF Status
  <2> HIDE DEF launched
  <2>3. QED
    BY <1>2, <1>3, <2>1, <2>2, SaveAndContinueType DEF Point
<1>5. CASE Denied(r, K) # {}
  <2>1. /\ Acquire(r, {k \in K : k <= d}) /\ Save(r, waiting)
        /\ Continue(t, <<At("queued", r, waiting)>> \o stack)
    BY <1>5 DEF TryLaunch, K
  <2>2. d \in Kind
    BY <1>1, <1>5, FirstDeniedType
  <2> HIDE DEF d
  <2>3. waiting \in Record
    BY <1>1, <2>2, LaunchTypes DEF Status
  <2> HIDE DEF waiting
  <2>4. QED
    BY <1>2, <1>3, <2>1, <2>3, SaveAndContinueType DEF Point, PublishPoint
<1>6. QED
  BY <1>4, <1>5

\* A record gives back known kinds only.
LEMMA ReleasedType ==
    ASSUME NEW run \in Record
    PROVE  Released(run) \subseteq Kind
BY StepsAndKinds DEF Released, Record, WorkflowRun, Pass

\* _release_slots and the promotions it starts keep every type.
LEMMA ReleaseType ==
    ASSUME Typed, NEW t \in Task, NEW r \in Run, NEW run \in Record, NEW changed,
           NEW stack \in Seq(KnownFrame(registry)),
           ReleaseAndPromote(t, r, run, changed, stack)
    PROVE  /\ RegistryTyped /\ TasksTyped
           /\ ceiling' \in [Kind -> Ceiling]
<1> DEFINE todo == PromotedByRelease(r, run)
           given == [run EXCEPT !.pending = NoPass]
<1>1. PICK next \in Promoting(todo, stack) : Continue(t, next)
  BY DEF ReleaseAndPromote
<1>2. todo \subseteq Kind \X Run
  BY ReleasedType DEF PromotedByRelease
<1>3. given \in Record
  BY UpdateTypes, PassTypes
<1>4. Save(r, given) \/ UNCHANGED registry
  BY DEF ReleaseAndPromote
<1> HIDE DEF todo, given
<1>5. RegistryTyped
  BY <1>3, <1>4, SaveType, NoSaveType
<1>6. next \in Seq(KnownFrame(registry'))
  BY <1>2, <1>5, PromotingType, StacksStay DEF RegistryTyped
<1>7. TasksTyped
  BY <1>1, <1>5, <1>6, ContinueType
<1>8. ceiling' \in [Kind -> Ceiling]
  BY CeilingTypes DEF ReleaseAndPromote, Typed
<1>9. QED
  BY <1>5, <1>7, <1>8

\* So does _release_resources.
LEMMA ResourcesType ==
    ASSUME Typed, NEW t \in Task, NEW r \in Run, NEW run \in Record,
           NEW stack \in Seq(KnownFrame(registry)),
           ReleaseResources(t, r, run, stack)
    PROVE  /\ RegistryTyped /\ TasksTyped
           /\ ceiling' \in [Kind -> Ceiling]
           /\ locks' \in [Target -> Run \cup {None}]
<1>1. [run EXCEPT !.lockOwner = None] \in Record
  BY UpdateTypes
<1>2. \/ ReleaseAndPromote(t, r, [run EXCEPT !.lockOwner = None], TRUE, stack)
      \/ ReleaseAndPromote(t, r, run, FALSE, stack)
  BY DEF ReleaseResources
<1>3. locks' \in [Target -> Run \cup {None}]
  BY DEF ReleaseResources, Typed
<1>4. QED
  BY <1>1, <1>2, <1>3, ReleaseType

----------------------------------------------------------------------------
(***************************************************************************)
(* The actions.                                                            *)
(***************************************************************************)

\* Counting a request stays within its bound.
LEMMA AskType ==
    ASSUME Typed, Ask \/ UNCHANGED spent
    PROVE  spent' \in [requests : 0..MaxRequests, expiries : 0..MaxExpiries,
                       faults : 0..MaxFaults]
<1>1. spent \in [requests : 0..MaxRequests, expiries : 0..MaxExpiries,
                  faults : 0..MaxFaults]
  BY DEF Typed
<1>2. CASE Ask
  <2>1. spent.requests \in 0..MaxRequests /\ spent.requests < MaxRequests
    BY <1>1, <1>2 DEF Ask
  <2>2. spent.requests + 1 \in 0..MaxRequests
    BY <2>1, RunServiceAssumption
  <2>3. spent' = [spent EXCEPT !.requests = spent.requests + 1]
    BY <1>2 DEF Ask
  <2>4. QED
    BY <1>1, <2>2, <2>3
<1>3. QED
  BY <1>1, <1>2

\* Counting a fault stays within its bound.
LEMMA FailType ==
    ASSUME Typed, Fail
    PROVE  spent' \in [requests : 0..MaxRequests, expiries : 0..MaxExpiries,
                       faults : 0..MaxFaults]
<1>1. spent \in [requests : 0..MaxRequests, expiries : 0..MaxExpiries,
                  faults : 0..MaxFaults]
  BY DEF Typed
<1>2. spent.faults \in 0..MaxFaults /\ spent.faults < MaxFaults
  BY <1>1 DEF Fail
<1>3. spent.faults + 1 \in 0..MaxFaults
  BY <1>2, RunServiceAssumption
<1>4. spent' = [spent EXCEPT !.faults = spent.faults + 1]
  BY DEF Fail
<1>5. QED
  BY <1>1, <1>3, <1>4

\* start keeps every type.
LEMMA StartType ==
    ASSUME Typed, NEW t \in Task,
           (\E r \in Run : StartRun(t, r)) \/ StartLaunch(t)
    PROVE  Typed'
<1>1. ASSUME NEW r \in Run, StartRun(t, r)
      PROVE  Typed'
  <2>1. Save(r, NewRun) /\ Continue(t, <<At("created", r, NewRun)>> \o <<>>)
    BY <1>1 DEF StartRun
  <2>2. <<>> \in Seq(KnownFrame(registry)) /\ "created" \in Point \ {"approving", "promote"}
    BY DEF Point, PublishPoint
  <2>3. RegistryTyped /\ TasksTyped
    BY <2>1, <2>2, NewRunType, SaveAndContinueType
  <2>4. QED
    BY <1>1, <2>3 DEF StartRun, Typed, RegistryTyped, TasksTyped
<1>2. ASSUME StartLaunch(t)
      PROVE  Typed'
  <2>1. task[t] # <<>>
    BY <1>2 DEF StartLaunch, Resumes
  <2>2. [Top(t).obj EXCEPT !.pending = StartPass] \in Record
    BY <2>1, ResumeType, UpdateTypes, PassTypes
  <2>3. TryLaunch(t, Top(t).run, [Top(t).obj EXCEPT !.pending = StartPass], Rest(t))
    BY <1>2 DEF StartLaunch
  <2>4. /\ RegistryTyped /\ TasksTyped
        /\ ceiling' \in [Kind -> Ceiling]
        /\ runLock' \in [Run -> Task \cup {None}]
    BY <2>1, <2>2, <2>3, ResumeType, TryLaunchType
  <2>5. QED
    BY <1>2, <2>4 DEF StartLaunch, Typed, RegistryTyped, TasksTyped
<1>3. QED
  BY <1>1, <1>2

\* _promote keeps every type.
LEMMA PromoteType ==
    ASSUME Typed, NEW t \in Task, Promote(t)
    PROVE  Typed'
<1> DEFINE p == Top(t).run
<1>1. task[t] # <<>>
  BY DEF Promote, Resumes
<1>2. PICK next \in Promoting(Top(t).todo, Rest(t)) :
         \/ UNCHANGED <<registry, ceiling, runLock>> /\ Continue(t, next)
         \/ Saved(p) /\ TryLaunch(t, p, registry[p], next)
  BY DEF Promote
<1>3. next \in Seq(KnownFrame(registry))
  BY <1>1, ResumeType, PromotingType
<1>4. UNCHANGED <<locks, receipts, ran, ranAgain, spent>>
  BY DEF Promote
<1>5. CASE UNCHANGED <<registry, ceiling, runLock>> /\ Continue(t, next)
  <2>1. RegistryTyped /\ TasksTyped
    BY <1>3, <1>5, NoSaveType, ContinueType
  <2>2. QED
    BY <1>4, <1>5, <2>1 DEF Typed, RegistryTyped, TasksTyped
<1>6. CASE Saved(p) /\ TryLaunch(t, p, registry[p], next)
  <2>1. p \in Run /\ registry[p] \in Record
    BY <1>1, <1>6, ResumeType DEF Typed, Saved
  <2>2. /\ RegistryTyped /\ TasksTyped
        /\ ceiling' \in [Kind -> Ceiling]
        /\ runLock' \in [Run -> Task \cup {None}]
    BY <1>3, <1>6, <2>1, TryLaunchType
  <2>3. QED
    BY <1>4, <2>2 DEF Typed, RegistryTyped, TasksTyped
<1>7. QED
  BY <1>2, <1>5, <1>6

\* The engine executes decisions of known steps.
LEMMA ExecuteType ==
    ASSUME Typed, NEW r \in Run, NEW run \in Record, NEW S, S \subseteq Due(run),
           Execute(r, run, S)
    PROVE  /\ ran' \subseteq Run \X Step \X Decision
           /\ ranAgain' \subseteq ran'
<1>1. \A s \in S : s \in Step /\ run.decision[s] \in Decision
  BY RunServiceAssumption DEF Due, Record, WorkflowRun
<1>2. QED
  BY <1>1 DEF Execute, Typed

\* Every way a pass can end keeps every type.
LEMMA EngineType ==
    ASSUME Typed, NEW t \in Task, Engine(t)
    PROVE  Typed'
<1> DEFINE r == Top(t).run
           run == Top(t).obj
<1>1. Resumes(t, "engine") /\ UNCHANGED <<receipts, spent>>
  BY DEF Engine, PassSuspended, PassCompleted, PassFailed, PassBroken
<1>2. /\ task[t] # <<>> /\ r \in Run /\ run \in Record /\ registry[r] \in Record
      /\ Rest(t) \in Seq(KnownFrame(registry))
  BY <1>1, ResumeType DEF Resumes
<1>3. \E S \in SUBSET Due(run) : Execute(r, run, S)
  BY DEF Engine, PassSuspended, PassCompleted, PassFailed, PassBroken, Prefix
<1>4. ran' \subseteq Run \X Step \X Decision /\ ranAgain' \subseteq ran'
  BY <1>2, <1>3, ExecuteType
<1>5. SUFFICES /\ RegistryTyped /\ TasksTyped
               /\ ceiling' \in [Kind -> Ceiling]
               /\ locks' \in [Target -> Run \cup {None}]
               /\ runLock' \in [Run -> Task \cup {None}]
  BY <1>1, <1>4 DEF Typed, RegistryTyped, TasksTyped
<1>6. ASSUME Discard(t, r)
      PROVE  /\ RegistryTyped /\ TasksTyped
             /\ ceiling' \in [Kind -> Ceiling]
             /\ locks' \in [Target -> Run \cup {None}]
             /\ runLock' \in [Run -> Task \cup {None}]
  BY <1>2, <1>6, ReleaseType DEF Discard, Typed
<1>7. ASSUME NEW base \in Record, FailRun(t, r, base)
      PROVE  /\ RegistryTyped /\ TasksTyped
             /\ ceiling' \in [Kind -> Ceiling]
             /\ locks' \in [Target -> Run \cup {None}]
             /\ runLock' \in [Run -> Task \cup {None}]
  <2> DEFINE failed == [SetCurrent(base, "failed") EXCEPT !.status = "failed"]
  <2>1. failed \in Record
    BY SetCurrentType, UpdateTypes DEF StepState, Status, Terminal
  <2>2. Save(r, failed) /\ Continue(t, <<At("terminal", r, failed)>> \o Rest(t))
    BY <1>7 DEF FailRun
  <2> HIDE DEF failed, r
  <2>3. RegistryTyped /\ TasksTyped
    BY <1>2, <2>1, <2>2, SaveAndContinueType DEF Point, PublishPoint
  <2>4. QED
    BY <1>7, <2>3 DEF FailRun, Typed
<1>8. WithEffects(registry[r], run) \in Record
  BY <1>2, EffectTypes
<1>9. ASSUME NEW a \in Artifact, PassSuspended(t, a)
      PROVE  /\ RegistryTyped /\ TasksTyped
             /\ ceiling' \in [Kind -> Ceiling]
             /\ locks' \in [Target -> Run \cup {None}]
             /\ runLock' \in [Run -> Task \cup {None}]
  <2> DEFINE s == SuspendStep(run)
             base == Suspended(WithEffects(registry[r], run), s, a)
             target == TargetOf[r, s]
             held == IF target = None THEN base
                     ELSE [base EXCEPT !.lockTarget = target, !.lockOwner = r]
             parked == [base EXCEPT !.lockTarget = target,
                                    !.lockOwner = locks[target],
                                    !.status = "blocked"]
             blocked == SetCurrent(parked, "blocked")
  <2>1. \/ Discard(t, r)
        \/ UNCHANGED <<runLock, ceiling>> /\ Park(t, r, base, target)
    BY <1>9 DEF PassSuspended
  <2>2. s \in Step
    BY <1>9, SuspendStepType DEF PassSuspended
  <2>3. base \in Record
    BY <1>8, <2>2, SuspendedType
  <2>4. target \in Target \cup {None}
    <3>1. <<r, s>> \in Run \X Step
      BY <1>2, <2>2
    <3>2. TargetOf \in [Run \X Step -> Target \cup {None}]
      BY RunServiceAssumption
    <3> HIDE DEF s, r
    <3>3. QED
      BY <3>1, <3>2, Zenon DEF target
  <2> HIDE DEF base, target, r, run, s
  <2>5. held \in Record
    BY <1>2, <2>3, <2>4 DEF Record, WorkflowRun
  <2>6. ASSUME UNCHANGED <<runLock, ceiling>>, Park(t, r, base, target)
        PROVE  /\ RegistryTyped /\ TasksTyped
               /\ locks' \in [Target -> Run \cup {None}]
    <3>1. CASE /\ locks' = IF target = None THEN locks
                           ELSE [locks EXCEPT ![target] = r]
               /\ Save(r, held)
               /\ Continue(t, <<At("suspended", r, held)>> \o Rest(t))
      <4> HIDE DEF held
      <4>1. locks' \in [Target -> Run \cup {None}]
        BY <1>2, <2>4, <3>1 DEF Typed
      <4>2. RegistryTyped /\ TasksTyped
        BY <1>2, <2>5, <3>1, SaveAndContinueType DEF Point, PublishPoint
      <4>3. QED
        BY <4>1, <4>2
    <3>2. CASE /\ target # None
               /\ UNCHANGED <<locks, registry>>
               /\ Continue(t, <<At("locked", r, blocked)>> \o Rest(t))
      <4>1. locks[target] \in Run \cup {None} /\ target \in Target
        BY <2>4, <3>2 DEF Typed
      <4>2. parked \in Record
        BY <2>3, <3>2, <4>1 DEF Record, WorkflowRun, Status
      <4> HIDE DEF parked
      <4>3. blocked \in Record
        BY <4>2, SetCurrentType DEF StepState
      <4> HIDE DEF blocked
      <4>4. At("locked", r, blocked) \in KnownFrame(registry)
        BY <1>2, <4>3, AtType DEF Point, PublishPoint
      <4>5. RegistryTyped
        BY <3>2, NoSaveType
      <4>6. <<At("locked", r, blocked)>> \o Rest(t) \in Seq(KnownFrame(registry'))
        BY <1>2, <3>2, <4>4, PushType
      <4>7. TasksTyped
        BY <3>2, <4>5, <4>6, ContinueType
      <4>8. QED
        BY <3>2, <4>5, <4>7 DEF Typed
    <3>3. QED
      BY <2>6, <3>1, <3>2 DEF Park
  <2>7. QED
    BY <1>6, <2>1, <2>6 DEF Typed, r
<1>10. ASSUME PassCompleted(t)
       PROVE  /\ RegistryTyped /\ TasksTyped
              /\ ceiling' \in [Kind -> Ceiling]
              /\ locks' \in [Target -> Run \cup {None}]
              /\ runLock' \in [Run -> Task \cup {None}]
  <2> DEFINE base == WithEffects(registry[r], run)
             done == [base EXCEPT !.state = [s \in Step |-> "done"],
                                  !.status = "completed"]
  <2>1. \/ Discard(t, r)
        \/ /\ UNCHANGED <<runLock, ceiling, locks>>
           /\ Save(r, done) /\ Continue(t, <<At("terminal", r, done)>> \o Rest(t))
    BY <1>10 DEF PassCompleted
  <2> HIDE DEF base
  <2>2. done \in Record
    BY <1>8 DEF Record, WorkflowRun, Status, Terminal, StepState, base
  <2> HIDE DEF done, r
  <2>3. ASSUME Save(r, done), Continue(t, <<At("terminal", r, done)>> \o Rest(t))
        PROVE  RegistryTyped /\ TasksTyped
    BY <1>2, <2>2, <2>3, SaveAndContinueType DEF Point, PublishPoint
  <2>4. QED
    BY <1>6, <2>1, <2>3 DEF Typed, r
<1>11. ASSUME NEW j \in 0..NumSteps, PassFailed(t, j)
       PROVE  /\ RegistryTyped /\ TasksTyped
              /\ ceiling' \in [Kind -> Ceiling]
              /\ locks' \in [Target -> Run \cup {None}]
              /\ runLock' \in [Run -> Task \cup {None}]
  BY <1>2, <1>6, <1>7, <1>11 DEF PassFailed
<1>12. ASSUME NEW j \in 0..NumSteps, PassBroken(t, j)
       PROVE  /\ RegistryTyped /\ TasksTyped
              /\ ceiling' \in [Kind -> Ceiling]
              /\ locks' \in [Target -> Run \cup {None}]
              /\ runLock' \in [Run -> Task \cup {None}]
  BY <1>2, <1>7, <1>12 DEF PassBroken
<1>13. QED
  BY <1>9, <1>10, <1>11, <1>12 DEF Engine

\* A task that drops its top frame.
LEMMA DropType ==
    ASSUME Typed, NEW t \in Task, task[t] # <<>>, Continue(t, Rest(t)),
           UNCHANGED registry
    PROVE  RegistryTyped /\ TasksTyped
<1>1. RegistryTyped
  BY NoSaveType
<1>2. Rest(t) \in Seq(KnownFrame(registry'))
  BY ResumeType
<1>3. QED
  BY <1>1, <1>2, ContinueType

\* Whatever follows a publish point, but for start, decide and approve.
LEMMA AfterPublishType ==
    ASSUME Typed, NEW t \in Task,
           \/ LockedPublished(t)
           \/ SuspendedPublished(t)
           \/ TerminalPublished(t)
           \/ CancelPublished(t)
           \/ QueuedPublished(t)
           \/ UnlockedPublished(t)
           \/ Unwind(t)
           \/ DecisionPublished(t)
    PROVE  Typed'
<1> DEFINE f == Top(t)
<1>1. task[t] # <<>> /\ UNCHANGED <<receipts, ran, ranAgain, spent>>
  BY DEF LockedPublished, SuspendedPublished, TerminalPublished, CancelPublished,
         QueuedPublished, UnlockedPublished, Unwind, DecisionPublished,
         LeavesLock, Resumes
<1>2. /\ f \in KnownFrame(registry) /\ f.run \in Run /\ f.obj \in Record
      /\ Rest(t) \in Seq(KnownFrame(registry))
      /\ f.step \in Step \cup {0}
  BY <1>1, ResumeType
<1>3. CASE LockedPublished(t)
  <2> DEFINE g == [f EXCEPT !.at = "suspended"]
  <2>1. /\ Save(f.run, f.obj) /\ Continue(t, <<g>> \o Rest(t))
        /\ UNCHANGED <<ceiling, locks, runLock>>
    BY <1>3 DEF LockedPublished
  <2>2. RegistryTyped /\ registry'[f.run] = f.obj
    BY <1>2, <2>1, SaveType
  <2>3. g \in KnownFrame(registry')
    BY <1>2, <2>2 DEF KnownFrame, Frame, Point, PublishPoint
  <2> HIDE DEF f, g
  <2>4. Rest(t) \in Seq(KnownFrame(registry'))
    BY <1>2, <2>2, StacksStay DEF RegistryTyped
  <2>5. <<g>> \o Rest(t) \in Seq(KnownFrame(registry'))
    BY <2>3, <2>4, PushType
  <2>6. TasksTyped
    BY <2>1, <2>2, <2>5, ContinueType
  <2>7. QED
    BY <1>1, <2>1, <2>2, <2>6 DEF Typed, RegistryTyped, TasksTyped
<1>4. CASE SuspendedPublished(t)
  <2>1. /\ ReleaseAndPromote(t, f.run, f.obj, FALSE, Rest(t))
        /\ UNCHANGED <<locks, runLock>>
    BY <1>4 DEF SuspendedPublished
  <2>2. RegistryTyped /\ TasksTyped /\ ceiling' \in [Kind -> Ceiling]
    BY <1>2, <2>1, ReleaseType
  <2>3. QED
    BY <1>1, <2>1, <2>2 DEF Typed, RegistryTyped, TasksTyped
<1>5. CASE TerminalPublished(t) \/ CancelPublished(t)
  <2>1. /\ ReleaseResources(t, f.run, f.obj, Rest(t))
        /\ runLock' = runLock \/ Unlock(f.run)
    BY <1>5 DEF TerminalPublished, CancelPublished
  <2>2. /\ RegistryTyped /\ TasksTyped /\ ceiling' \in [Kind -> Ceiling]
        /\ locks' \in [Target -> Run \cup {None}]
    BY <1>2, <2>1, ResourcesType
  <2>3. runLock' \in [Run -> Task \cup {None}]
    BY <2>1 DEF Unlock, Typed
  <2>4. QED
    BY <1>1, <2>2, <2>3 DEF Typed, RegistryTyped, TasksTyped
<1>6. CASE QueuedPublished(t) \/ UnlockedPublished(t) \/ Unwind(t)
  <2>1. /\ Unlock(f.run) /\ Continue(t, Rest(t))
        /\ UNCHANGED <<registry, ceiling, locks>>
    BY <1>6 DEF QueuedPublished, UnlockedPublished, Unwind, LeavesLock
  <2>2. RegistryTyped /\ TasksTyped
    BY <1>1, <2>1, DropType
  <2>3. runLock' \in [Run -> Task \cup {None}]
    BY <2>1 DEF Unlock, Typed
  <2>4. QED
    BY <1>1, <2>1, <2>2, <2>3 DEF Typed, RegistryTyped, TasksTyped
<1>7. CASE DecisionPublished(t)
  <2> DEFINE next == IF f.action = "back" THEN StartPass ELSE ResumePass(f.step)
  <2>1. /\ TryLaunch(t, f.run, [f.obj EXCEPT !.pending = next], Rest(t))
        /\ UNCHANGED locks
    BY <1>7 DEF DecisionPublished
  <2>2. next \in Pass
    BY <1>2, PassTypes
  <2> HIDE DEF next, f
  <2>3. [f.obj EXCEPT !.pending = next] \in Record
    BY <1>2, <2>2, UpdateTypes
  <2>4. /\ RegistryTyped /\ TasksTyped
        /\ ceiling' \in [Kind -> Ceiling]
        /\ runLock' \in [Run -> Task \cup {None}]
    BY <1>2, <2>1, <2>3, TryLaunchType
  <2>5. QED
    BY <1>1, <2>1, <2>4 DEF Typed, RegistryTyped, TasksTyped
<1>8. QED
  BY <1>3, <1>4, <1>5, <1>6, <1>7

\* Taking the lock of a run.
LEMMA LockType ==
    ASSUME Typed, NEW t \in Task, NEW r \in Run, Lock(t, r)
    PROVE  runLock' \in [Run -> Task \cup {None}]
BY DEF Lock, Typed

\* cancel keeps every type.
LEMMA CancelType ==
    ASSUME Typed, NEW t \in Task, NEW r \in Run, Cancel(t, r), Ask \/ UNCHANGED spent
    PROVE  Typed'
<1> DEFINE cancelled == [registry[r] EXCEPT !.status = "cancelled"]
<1>1. /\ Save(r, cancelled) /\ Continue(t, <<At("cancelled", r, cancelled)>> \o <<>>)
      /\ UNCHANGED <<ceiling, locks, receipts, ran, ranAgain>>
      /\ Lock(t, r)
  BY DEF Cancel
<1>2. registry[r] \in Record
  BY DEF Cancel, Saved, Typed
<1>3. cancelled \in Record
  BY <1>2, UpdateTypes DEF Status, Terminal
<1>4. <<>> \in Seq(KnownFrame(registry)) /\ "cancelled" \in Point \ {"approving", "promote"}
  BY DEF Point, PublishPoint
<1> HIDE DEF cancelled
<1>5. RegistryTyped /\ TasksTyped
  BY <1>1, <1>3, <1>4, SaveAndContinueType
<1>6. QED
  BY <1>1, <1>5, LockType, AskType DEF Typed, RegistryTyped, TasksTyped

\* An approval is a decision, and a record may hold it.
LEMMA ApprovalType ==
    ASSUME NEW run \in Record, NEW s \in Step, NEW action \in Forward
    PROVE  /\ Approval(run, s, action) \in Decision
           /\ [run EXCEPT !.decision[s] = Approval(run, s, action)] \in Record
<1>1. Approval(run, s, action) \in Decision
  BY DEF Approval, Decision, Forward, Record, WorkflowRun
<1>2. QED
  BY <1>1 DEF Record, WorkflowRun

\* decide with proceed or edit keeps every type.
LEMMA ApproveType ==
    ASSUME Typed, NEW t \in Task,
           \/ \E r \in Run, s \in Step, action \in Forward : Approve(t, r, s, action)
           \/ Approved(t)
    PROVE  Typed'
<1>1. ASSUME NEW r \in Run, NEW s \in Step, NEW action \in Forward,
             Approve(t, r, s, action)
      PROVE  Typed'
  <2> DEFINE f == [At("approving", r, registry[r]) EXCEPT
                      !.step = s, !.action = action]
  <2>1. registry[r] \in Record
    BY <1>1 DEF Approve, Decidable, HasStatus, Saved, Typed
  <2>2. f \in KnownFrame(registry)
    BY <2>1 DEF At, KnownFrame, Frame, Point, PublishPoint, Forward, Action, Record
  <2>3. /\ Continue(t, <<f>>) /\ Lock(t, r) /\ Ask
        /\ UNCHANGED <<registry, ceiling, locks, receipts, ran, ranAgain>>
    BY <1>1 DEF Approve
  <2> HIDE DEF f
  <2>4. RegistryTyped
    BY <2>3, NoSaveType
  <2>5. <<f>> \in Seq(KnownFrame(registry'))
    BY <2>2, <2>3
  <2>6. TasksTyped
    BY <2>3, <2>4, <2>5, ContinueType
  <2>7. QED
    BY <2>3, <2>4, <2>6, LockType, AskType DEF Typed, RegistryTyped, TasksTyped
<1>2. ASSUME Approved(t)
      PROVE  Typed'
  <2> DEFINE f == Top(t)
             approval == Approval(f.obj, f.step, f.action)
             decided == [f.obj EXCEPT !.decision[f.step] = approval]
             g == [f EXCEPT !.at = "decided", !.obj = decided]
  <2>1. task[t] # <<>> /\ f.at = "approving"
    BY <1>2 DEF Approved, Resumes
  <2>2. /\ f \in KnownFrame(registry) /\ f.run \in Run /\ f.obj \in Record
        /\ Rest(t) \in Seq(KnownFrame(registry))
    BY <2>1, ResumeType
  <2>3. f.step \in Step /\ f.action \in Forward
    BY <2>1, <2>2 DEF KnownFrame
  <2>4. approval \in Decision /\ decided \in Record
    BY <2>2, <2>3, ApprovalType
  <2>5. /\ receipts' = receipts \cup {<<f.run, f.step, approval>>}
        /\ Save(f.run, decided)
        /\ Continue(t, <<g>> \o Rest(t))
        /\ UNCHANGED <<runLock, ceiling, locks, ran, ranAgain, spent>>
    BY <1>2 DEF Approved
  <2> HIDE DEF approval, decided
  <2>6. RegistryTyped /\ registry'[f.run] = decided
    BY <2>2, <2>4, <2>5, SaveType
  <2>7. g \in KnownFrame(registry')
    BY <2>2, <2>4, <2>6 DEF KnownFrame, Frame, Point, PublishPoint, Record
  <2> HIDE DEF f, g
  <2>8. Rest(t) \in Seq(KnownFrame(registry'))
    BY <2>2, <2>6, StacksStay DEF RegistryTyped
  <2>9. <<g>> \o Rest(t) \in Seq(KnownFrame(registry'))
    BY <2>7, <2>8, PushType
  <2>10. TasksTyped
    BY <2>5, <2>6, <2>9, ContinueType
  <2>11. receipts' \subseteq Run \X Step \X Decision
    BY <2>2, <2>3, <2>4, <2>5 DEF Typed
  <2>12. QED
    BY <2>5, <2>6, <2>10, <2>11 DEF Typed, RegistryTyped, TasksTyped
<1>3. QED
  BY <1>1, <1>2

\* decide with regenerate or back keeps every type.
LEMMA ReviseType ==
    ASSUME Typed, NEW t \in Task, NEW r \in Run, NEW s \in Step,
           Regenerate(t, r, s) \/ Back(t, r, s)
    PROVE  Typed'
<1>1. ASSUME NEW run \in Record, NEW action \in Action, Decided(t, r, s, action, run)
      PROVE  Typed'
  <2> DEFINE f == [At("decided", r, run) EXCEPT !.step = s, !.action = action]
  <2>1. /\ Save(r, run) /\ Continue(t, <<f>>) /\ Lock(t, r) /\ Ask
        /\ UNCHANGED <<ceiling, locks, receipts, ran, ranAgain>>
    BY <1>1 DEF Decided
  <2>2. RegistryTyped /\ registry'[r] = run
    BY <2>1, SaveType
  <2>3. f \in KnownFrame(registry')
    BY <2>2 DEF At, KnownFrame, Frame, Point, PublishPoint, Record
  <2> HIDE DEF f
  <2>4. <<f>> \in Seq(KnownFrame(registry'))
    BY <2>3
  <2>5. TasksTyped
    BY <2>1, <2>2, <2>4, ContinueType
  <2>6. QED
    BY <2>1, <2>2, <2>5, LockType, AskType DEF Typed, RegistryTyped, TasksTyped
<1>2. ASSUME Saved(r)
      PROVE  registry[r] \in Record
  BY <1>2 DEF Saved, Typed
<1>3. CASE Regenerate(t, r, s)
  <2> DEFINE count == registry[r].regenerations[s] + 1
             run == [registry[r] EXCEPT !.regenerations[s] = count,
                                        !.decision[s] = RegenerateMark]
  <2>1. /\ registry[r] \in Record
        /\ registry[r].regenerations[s] < MaxRegenerations
        /\ Decided(t, r, s, "regenerate", run)
    BY <1>2, <1>3 DEF Regenerate
  <2>2. registry[r].regenerations[s] \in 0..MaxRegenerations
    BY <2>1 DEF Record, WorkflowRun
  <2>3. count \in 0..MaxRegenerations
    BY <2>1, <2>2, RunServiceAssumption
  <2>4. RegenerateMark \in Decision
    BY DEF RegenerateMark, Decision
  <2> HIDE DEF count
  <2>5. run \in Record
    BY <2>1, <2>3, <2>4 DEF Record, WorkflowRun
  <2> HIDE DEF run
  <2>6. QED
    BY <1>1, <2>1, <2>5 DEF Action
<1>4. CASE Back(t, r, s)
  <2> DEFINE run == InvalidateFrom(registry[r], s - 1)
  <2>1. registry[r] \in Record /\ Decided(t, r, s, "back", run)
    BY <1>2, <1>4 DEF Back
  <2>2. run \in Record
    BY <2>1 DEF InvalidateFrom, Record, WorkflowRun, NoDecision, Decision, StepState
  <2> HIDE DEF run
  <2>3. QED
    BY <1>1, <2>1, <2>2 DEF Action
<1>5. QED
  BY <1>3, <1>4

\* retry_lock keeps every type.
LEMMA RetryType ==
    ASSUME Typed, NEW t \in Task, NEW r \in Run, RetryLock(t, r), Ask \/ UNCHANGED spent
    PROVE  Typed'
<1> DEFINE target == registry[r].lockTarget
           run == SetCurrent(registry[r], "awaiting_human")
           freed == [run EXCEPT !.lockOwner = r, !.status = "awaiting_human"]
           owned == [registry[r] EXCEPT !.lockOwner = locks[target]]
<1>1. registry[r] \in Record /\ registry[r].status = "blocked"
  BY DEF RetryLock, HasStatus, Saved, Typed
<1>2. target \in Target /\ locks[target] \in Run \cup {None}
  BY <1>1 DEF Record, WorkflowRun, Typed
<1>3. run \in Record
  BY <1>1, SetCurrentType DEF StepState
<1>4. owned \in Record
  BY <1>1, <1>2, UpdateTypes
<1>5. UNCHANGED <<ceiling, receipts, ran, ranAgain>>
  BY DEF RetryLock
<1>6. \/ Save(r, owned) /\ UNCHANGED <<locks, runLock, task, loop>>
      \/ /\ Save(r, freed) /\ Lock(t, r)
         /\ locks' = [locks EXCEPT ![target] = r]
         /\ Continue(t, <<At("unlocked", r, freed)>> \o <<>>)
  BY DEF RetryLock
<1> HIDE DEF run
<1>7. freed \in Record
  BY <1>3 DEF Record, WorkflowRun, Status
<1> HIDE DEF owned, freed, target
<1>8. CASE Save(r, owned) /\ UNCHANGED <<locks, runLock, task, loop>>
  <2>1. RegistryTyped
    BY <1>4, <1>8, SaveType
  <2>2. TasksTyped
    BY <1>8, <2>1, StacksStay DEF Typed, RegistryTyped, TasksTyped
  <2>3. QED
    BY <1>5, <1>8, <2>1, <2>2, AskType DEF Typed, RegistryTyped, TasksTyped
<1>9. CASE /\ Save(r, freed) /\ Lock(t, r)
           /\ locks' = [locks EXCEPT ![target] = r]
           /\ Continue(t, <<At("unlocked", r, freed)>> \o <<>>)
  <2>1. <<>> \in Seq(KnownFrame(registry)) /\ "unlocked" \in Point \ {"approving", "promote"}
    BY DEF Point, PublishPoint
  <2>2. RegistryTyped /\ TasksTyped
    BY <1>7, <1>9, <2>1, SaveAndContinueType
  <2>3. locks' \in [Target -> Run \cup {None}]
    BY <1>9 DEF Typed
  <2>4. QED
    BY <1>5, <1>9, <2>2, <2>3, LockType, AskType DEF Typed, RegistryTyped, TasksTyped
<1>10. QED
  BY <1>6, <1>8, <1>9

\* Failures, expiries and restarts keep every type.
LEMMA FailureType ==
    ASSUME Typed,
           \/ \E t \in Task : PublishRaises(t) \/ QueuedRaises(t)
           \/ \E x \in Target : LockExpires(x)
           \/ Restart
    PROVE  Typed'
<1>1. ASSUME NEW t \in Task, PublishRaises(t)
      PROVE  Typed'
  <2>1. /\ task[t] # <<>> /\ Fail /\ Continue(t, Rest(t))
        /\ Unlock(Top(t).run) \/ UNCHANGED runLock
        /\ UNCHANGED <<registry, ceiling, locks, receipts, ran, ranAgain>>
    BY <1>1 DEF PublishRaises
  <2>2. RegistryTyped /\ TasksTyped
    BY <2>1, DropType
  <2>3. runLock' \in [Run -> Task \cup {None}]
    BY <2>1 DEF Unlock, Typed
  <2>4. QED
    BY <2>1, <2>2, <2>3, FailType DEF Typed, RegistryTyped, TasksTyped
<1>2. ASSUME NEW t \in Task, QueuedRaises(t)
      PROVE  Typed'
  <2> DEFINE f == Top(t)
             g == [f EXCEPT !.at = "unwinding"]
  <2>1. /\ task[t] # <<>> /\ Fail /\ f.at = "queued"
        /\ UNCHANGED <<runLock, locks, receipts, ran, ranAgain>>
        /\ ReleaseAndPromote(t, f.run, f.obj, TRUE, <<g>> \o Rest(t))
    BY <1>2 DEF QueuedRaises
  <2>2. /\ f \in KnownFrame(registry) /\ f.run \in Run /\ f.obj \in Record
        /\ Rest(t) \in Seq(KnownFrame(registry))
    BY <2>1, ResumeType
  <2>3. g \in KnownFrame(registry)
    BY <2>1, <2>2 DEF KnownFrame, Frame, Point
  <2> HIDE DEF f, g
  <2>4. <<g>> \o Rest(t) \in Seq(KnownFrame(registry))
    BY <2>2, <2>3, PushType
  <2>5. RegistryTyped /\ TasksTyped /\ ceiling' \in [Kind -> Ceiling]
    BY <2>1, <2>2, <2>4, ReleaseType
  <2>6. QED
    BY <2>1, <2>5, FailType DEF Typed, RegistryTyped, TasksTyped
<1>3. ASSUME NEW x \in Target, LockExpires(x)
      PROVE  Typed'
  <2>1. /\ UNCHANGED <<registry, ceiling, receipts, runLock, task, loop, ran, ranAgain>>
        /\ spent.expiries < MaxExpiries
        /\ spent' = [spent EXCEPT !.expiries = spent.expiries + 1]
        /\ locks' = [locks EXCEPT ![x] = None]
    BY <1>3 DEF LockExpires
  <2>2. spent \in [requests : 0..MaxRequests, expiries : 0..MaxExpiries,
                   faults : 0..MaxFaults]
    BY DEF Typed
  <2>3. spent.expiries + 1 \in 0..MaxExpiries
    BY <2>1, <2>2, RunServiceAssumption
  <2>4. spent' \in [requests : 0..MaxRequests, expiries : 0..MaxExpiries,
                    faults : 0..MaxFaults]
    BY <2>1, <2>2, <2>3
  <2>5. locks' \in [Target -> Run \cup {None}]
    BY <2>1 DEF Typed
  <2>6. QED
    BY <2>1, <2>4, <2>5 DEF Typed
<1>4. ASSUME Restart
      PROVE  Typed'
  <2>1. /\ UNCHANGED <<registry, ceiling, locks, receipts, loop, ran, ranAgain>>
        /\ task' = [t \in Task |-> <<>>]
        /\ runLock' = [r \in Run |-> None]
        /\ Fail
    BY <1>4 DEF Restart
  <2>2. task' \in [Task -> Seq(KnownFrame(registry'))]
    BY <2>1
  <2>3. QED
    BY <2>1, <2>2, FailType DEF Typed
<1>5. QED
  BY <1>1, <1>2, <1>3, <1>4

----------------------------------------------------------------------------
\* Every handler finds the record, the banner and the step it works with.
THEOREM TypedHolds == Spec => []Typed
<1>1. Init => Typed
  <2> SUFFICES ASSUME Init
               PROVE  Typed
    OBVIOUS
  <2>1. FreeCeiling \in Ceiling
    BY DEF FreeCeiling, Ceiling
  <2>2. task \in [Task -> Seq(KnownFrame(registry))]
    BY DEF Init
  <2>3. [requests |-> 0, expiries |-> 0, faults |-> 0]
            \in [requests : 0..MaxRequests, expiries : 0..MaxExpiries,
                 faults : 0..MaxFaults]
    BY RunServiceAssumption
  <2>4. QED
    BY <2>1, <2>2, <2>3 DEF Init, Typed
<1>2. Typed /\ [Next]_vars => Typed'
  <2> SUFFICES ASSUME Typed, [Next]_vars
               PROVE  Typed'
    OBVIOUS
  <2>1. ASSUME NEW t \in Task, NEW r \in Run, Request(t, r)
        PROVE  Typed'
    BY <2>1, StartType, CancelType, ApproveType, ReviseType, RetryType
       DEF Request, RequestCancel, RequestRetry
  <2>2. ASSUME NEW t \in Task, NEW r \in Run, Sweep(t, r)
        PROVE  Typed'
    BY <2>2, CancelType, RetryType DEF Sweep, SweepStalled, SweepBlocked
  <2>3. ASSUME NEW t \in Task, Engine(t)
        PROVE  Typed'
    BY <2>3, EngineType
  <2>4. ASSUME NEW t \in Task, Proceed(t)
        PROVE  Typed'
    BY <2>4, PromoteType, StartType, AfterPublishType, ApproveType DEF Proceed
  <2>5. ASSUME NEW t \in Task, PublishRaises(t) \/ QueuedRaises(t)
        PROVE  Typed'
    BY <2>5, FailureType
  <2>6. CASE (\E x \in Target : LockExpires(x)) \/ Restart
    BY <2>6, FailureType
  <2>7. CASE UNCHANGED vars
    BY <2>7 DEF vars, Typed
  <2>8. QED
    BY <2>1, <2>2, <2>3, <2>4, <2>5, <2>6, <2>7 DEF Next
<1>3. QED
  BY <1>1, <1>2, PTL DEF Spec

\* runs/service.py keeps its types whatever is interleaved, raised, expired or
\* restarted, with either kind of adapter.
THEOREM RunTypes == Spec => []TypeOK
<1>1. Typed => TypeOK
  <2> SUFFICES ASSUME Typed
               PROVE  TypeOK
    OBVIOUS
  <2>1. KnownFrame(registry) \subseteq Frame /\ Record \subseteq WorkflowRun
    BY DEF KnownFrame, Record
  <2>2. task \in [Task -> Seq(Frame)]
    BY <2>1 DEF Typed
  <2>3. QED
    BY <2>1, <2>2 DEF Typed, TypeOK
<1>2. QED
  BY <1>1, TypedHolds, PTL

----------------------------------------------------------------------------
(***************************************************************************)
(* Run locks, which a handler takes before it reads a record.              *)
(*                                                                         *)
(* RunLocks says that a lock is held exactly by the task that is inside    *)
(* it, and what such a task can have on its stack: at most its top frame   *)
(* is inside a lock, and below it the runs whose rollback it is driving    *)
(* promotions for. So a task that waits for a lock waits for one that is   *)
(* under way, rollbacks aside.                                             *)
(***************************************************************************)

\* The points at which a task is inside the lock of its frame's run. An
\* exception that unwinds still is, while the promotions above it are driven.
InLock == UnderLock \cup {"unwinding"}

\* The run whose lock a frame, and the runs whose locks a stack, stands for.
FrameLocks(f) == IF f.at \in InLock THEN {f.run} ELSE {}

StackLocks(s) == UNION {FrameLocks(s[i]) : i \in DOMAIN s}

\* No run lock is taken twice by one stack (they are not reentrant).
OnceLocked(s) ==
    \A i, j \in DOMAIN s : i # j => FrameLocks(s[i]) \cap FrameLocks(s[j]) = {}

\* What can be left to do below the run a task is working on.
Settled(s) == \A i \in DOMAIN s : s[i].at \in {"promote", "unwinding"}

Nested(s) == OnceLocked(s) /\ (s # <<>> => Settled(Tail(s)))

\* A run lock is held exactly by the task that is inside it.
RunLocks ==
    \A t \in Task :
        /\ Nested(task[t])
        /\ \A r \in Run : runLock[r] = t <=> r \in StackLocks(task[t])

\* What a task has left to do below the run it is working on.
Below(t) == IF task[t] = <<>> THEN <<>> ELSE Rest(t)

\* The promotions of a release, with the kind of the slot each one gets.
Promotions(r, run) ==
    {f \in Released(run) \X Run : f[2] \in PromotedBy(ceiling[f[1]], r, Limit[f[1]])}

----------------------------------------------------------------------------
\* A frame on top of a stack adds its lock.
LEMMA PushLocks ==
    ASSUME NEW F, NEW s \in Seq(F), NEW f, NEW q, q = <<f>> \o s
    PROVE  /\ q # <<>> /\ Head(q) = f /\ Tail(q) = s
           /\ StackLocks(q) = FrameLocks(f) \cup StackLocks(s)
           /\ OnceLocked(q) <=> OnceLocked(s) /\ FrameLocks(f) \cap StackLocks(s) = {}
           /\ Settled(q) <=> f.at \in {"promote", "unwinding"} /\ Settled(s)
<1>1. /\ q # <<>> /\ Head(q) = f /\ Tail(q) = s
      /\ Len(s) \in Nat /\ DOMAIN s = 1..Len(s)
      /\ DOMAIN q = 1..(Len(s) + 1) /\ q[1] = f
      /\ \A i \in 1..Len(s) : q[i + 1] = s[i]
  OBVIOUS
<1>2. \A i \in DOMAIN q : i = 1 \/ (i - 1 \in DOMAIN s /\ q[i] = s[i - 1])
  BY <1>1
<1>3. 1 \in DOMAIN q /\ \A i \in DOMAIN s : i + 1 \in DOMAIN q /\ q[i + 1] = s[i] /\ i + 1 # 1
  BY <1>1
<1>4. StackLocks(q) = FrameLocks(f) \cup StackLocks(s)
  <2>1. ASSUME NEW x \in StackLocks(q)
        PROVE  x \in FrameLocks(f) \cup StackLocks(s)
    BY <1>1, <1>2 DEF StackLocks
  <2>2. ASSUME NEW x \in FrameLocks(f) \cup StackLocks(s)
        PROVE  x \in StackLocks(q)
    BY <1>1, <1>3 DEF StackLocks
  <2>3. QED
    BY <2>1, <2>2
<1>5. ASSUME OnceLocked(q)
      PROVE  OnceLocked(s) /\ FrameLocks(f) \cap StackLocks(s) = {}
  <2>1. ASSUME NEW i \in DOMAIN s, NEW j \in DOMAIN s, i # j
        PROVE  FrameLocks(s[i]) \cap FrameLocks(s[j]) = {}
    <3>1. i + 1 # j + 1
      BY <1>1, <2>1
    <3>2. QED
      BY <1>3, <1>5, <3>1 DEF OnceLocked
  <2>2. \A i \in DOMAIN s : FrameLocks(f) \cap FrameLocks(s[i]) = {}
    BY <1>1, <1>3, <1>5 DEF OnceLocked
  <2>3. QED
    BY <2>1, <2>2 DEF OnceLocked, StackLocks
<1>6. ASSUME OnceLocked(s), FrameLocks(f) \cap StackLocks(s) = {}
      PROVE  OnceLocked(q)
  <2>1. \A i \in DOMAIN s : FrameLocks(s[i]) \subseteq StackLocks(s)
    BY DEF StackLocks
  <2>2. ASSUME NEW i \in DOMAIN q, NEW j \in DOMAIN q, i # j
        PROVE  FrameLocks(q[i]) \cap FrameLocks(q[j]) = {}
    <3>1. CASE i = 1
      BY <1>1, <1>2, <1>6, <2>1, <2>2, <3>1
    <3>2. CASE j = 1
      BY <1>1, <1>2, <1>6, <2>1, <2>2, <3>2
    <3>3. CASE i # 1 /\ j # 1
      <4>1. i - 1 # j - 1
        BY <1>1, <2>2
      <4>2. QED
        BY <1>2, <1>6, <3>3, <4>1 DEF OnceLocked
    <3>4. QED
      BY <3>1, <3>2, <3>3
  <2>3. QED
    BY <2>2 DEF OnceLocked
<1>7. Settled(q) <=> f.at \in {"promote", "unwinding"} /\ Settled(s)
  BY <1>1, <1>2, <1>3 DEF Settled
<1>8. QED
  BY <1>1, <1>4, <1>5, <1>6, <1>7

\* The stack that drives `todo` first takes no lock for that yet.
LEMMA PromotingLocks ==
    ASSUME NEW F, NEW s \in Seq(F), NEW todo, NEW next \in Promoting(todo, s)
    PROVE  /\ StackLocks(next) = StackLocks(s)
           /\ OnceLocked(next) <=> OnceLocked(s)
           /\ Settled(s) => Settled(next)
<1>1. CASE todo = {}
  BY <1>1 DEF Promoting
<1>2. CASE todo # {}
  <2>1. PICK f \in todo :
            next = <<[At("promote", f[2], NewRun) EXCEPT !.todo = todo \ {f}]>> \o s
    BY <1>2 DEF Promoting
  <2> DEFINE top == [At("promote", f[2], NewRun) EXCEPT !.todo = todo \ {f}]
  <2>2. top.at = "promote"
    BY DEF At
  <2>3. FrameLocks(top) = {}
    BY <2>2 DEF FrameLocks, InLock, UnderLock
  <2> HIDE DEF top
  <2>4. next = <<top>> \o s
    BY <2>1 DEF top
  <2>5. /\ next # <<>> /\ StackLocks(next) = FrameLocks(top) \cup StackLocks(s)
        /\ OnceLocked(next) <=> OnceLocked(s) /\ FrameLocks(top) \cap StackLocks(s) = {}
        /\ Settled(next) <=> top.at \in {"promote", "unwinding"} /\ Settled(s)
    BY <2>4, PushLocks
  <2>6. QED
    BY <2>2, <2>3, <2>5
<1>3. QED
  BY <1>1, <1>2

----------------------------------------------------------------------------
\* A task whose stack is s, when a step is over, has the locks of s.
LEMMA LocksFollow ==
    ASSUME Typed, RunLocks, NEW t \in Task, NEW s, Nested(s), Continue(t, s),
           \A r \in Run : runLock'[r] # runLock[r] =>
               runLock[r] \in {t, None} /\ runLock'[r] \in {t, None},
           \A r \in Run : runLock'[r] = t <=> r \in StackLocks(s)
    PROVE  RunLocks'
<1>1. /\ task'[t] = s
      /\ \A u \in Task \ {t} : task'[u] = task[u]
  BY DEF Continue, Typed
<1>2. ASSUME NEW u \in Task \ {t}, NEW r \in Run
      PROVE  runLock'[r] = u <=> runLock[r] = u
  BY RunServiceAssumption
<1>3. ASSUME NEW u \in Task
      PROVE  /\ Nested(task'[u])
             /\ \A r \in Run : runLock'[r] = u <=> r \in StackLocks(task'[u])
  BY <1>1, <1>2 DEF RunLocks
<1>4. QED
  BY <1>3 DEF RunLocks

\* What a task holds above and below its top frame.
LEMMA TopLocks ==
    ASSUME Typed, RunLocks, NEW t \in Task
    PROVE  /\ Below(t) \in Seq(KnownFrame(registry))
           /\ OnceLocked(Below(t)) /\ Settled(Below(t))
           /\ StackLocks(Below(t)) \subseteq StackLocks(task[t])
           /\ task[t] = <<>> => StackLocks(task[t]) = {}
           /\ task[t] # <<>> =>
                  /\ StackLocks(task[t]) = FrameLocks(Top(t)) \cup StackLocks(Below(t))
                  /\ FrameLocks(Top(t)) \cap StackLocks(Below(t)) = {}
<1>1. task[t] \in Seq(KnownFrame(registry)) /\ Nested(task[t])
  BY DEF Typed, RunLocks
<1>2. CASE task[t] = <<>>
  BY <1>1, <1>2 DEF Below, Nested, OnceLocked, Settled, StackLocks
<1>3. CASE task[t] # <<>>
  <2>1. task[t] = <<Top(t)>> \o Rest(t) /\ Rest(t) \in Seq(KnownFrame(registry))
    BY <1>1, <1>3 DEF Top, Rest
  <2>2. /\ StackLocks(task[t]) = FrameLocks(Top(t)) \cup StackLocks(Rest(t))
        /\ OnceLocked(Rest(t)) /\ FrameLocks(Top(t)) \cap StackLocks(Rest(t)) = {}
    BY <1>1, <2>1, PushLocks DEF Nested
  <2>3. Settled(Rest(t))
    BY <1>1, <1>3 DEF Nested, Rest
  <2>4. QED
    BY <1>3, <2>1, <2>2, <2>3 DEF Below
<1>4. QED
  BY <1>2, <1>3

\* What t goes on with below its top frame, maybe with promotions first.
IsBelow(s, t) ==
    /\ s \in Seq(KnownFrame(registry))
    /\ OnceLocked(s) /\ Settled(s)
    /\ StackLocks(s) = StackLocks(Below(t))

\* Promotions that a release starts are driven first.
LEMMA PromotingBelow ==
    ASSUME Typed, RunLocks, NEW t \in Task, NEW s, IsBelow(s, t),
           NEW todo, todo \subseteq Kind \X Run, NEW next \in Promoting(todo, s)
    PROVE  IsBelow(next, t)
BY PromotingType, PromotingLocks DEF IsBelow

\* The rest of its stack is what a task goes on with.
LEMMA RestBelow ==
    ASSUME Typed, RunLocks, NEW t \in Task
    PROVE  /\ IsBelow(Below(t), t)
           /\ task[t] # <<>> => IsBelow(Rest(t), t)
BY TopLocks DEF IsBelow, Below

\* Below a frame, or without one, such a stack is nested.
LEMMA BelowNested ==
    ASSUME NEW t \in Task, NEW s, IsBelow(s, t), NEW f
    PROVE  /\ Nested(s)
           /\ FrameLocks(f) \cap StackLocks(Below(t)) = {} => Nested(<<f>> \o s)
           /\ StackLocks(<<f>> \o s) = FrameLocks(f) \cup StackLocks(Below(t))
           /\ <<f>> \o s # <<>> /\ Head(<<f>> \o s) = f
<1>1. s \in Seq(KnownFrame(registry))
  BY DEF IsBelow
<1> DEFINE q == <<f>> \o s
<1>2. /\ q # <<>> /\ Head(q) = f /\ Tail(q) = s
      /\ StackLocks(q) = FrameLocks(f) \cup StackLocks(s)
      /\ OnceLocked(q) <=> OnceLocked(s) /\ FrameLocks(f) \cap StackLocks(s) = {}
  BY <1>1, PushLocks
<1>3. Nested(s)
  <2>1. CASE s = <<>>
    BY <2>1 DEF IsBelow, Nested
  <2>2. CASE s # <<>>
    <3>1. Settled(Tail(s))
      <4>1. /\ Len(s) \in Nat /\ DOMAIN s = 1..Len(s)
            /\ DOMAIN Tail(s) = 1..(Len(s) - 1)
            /\ \A i \in 1..(Len(s) - 1) : Tail(s)[i] = s[i + 1] /\ i + 1 \in 1..Len(s)
        BY <1>1, <2>2
      <4>2. QED
        BY <4>1 DEF IsBelow, Settled
    <3>2. QED
      BY <3>1 DEF IsBelow, Nested
  <2>3. QED
    BY <2>1, <2>2
<1> HIDE DEF q
<1>4. QED
  <2>1. /\ FrameLocks(f) \cap StackLocks(Below(t)) = {} => Nested(q)
        /\ StackLocks(q) = FrameLocks(f) \cup StackLocks(Below(t))
        /\ q # <<>> /\ Head(q) = f
    BY <1>2 DEF IsBelow, Nested
  <2>2. QED
    BY <1>3, <2>1 DEF q

----------------------------------------------------------------------------
\* Task t works on run r, which it has locked or which nobody has.
AtWork(t, r) ==
    /\ task[t] # <<>> => Top(t).run = r
    /\ runLock[r] = None \/ (task[t] # <<>> /\ Top(t).at \in InLock)

\* A run lock is not taken again below.
LEMMA NotBelow ==
    ASSUME Typed, RunLocks, NEW t \in Task, NEW r \in Run, AtWork(t, r)
    PROVE  /\ r \notin StackLocks(Below(t))
           /\ runLock[r] \in {t, None}
           /\ StackLocks(task[t]) \subseteq {r} \cup StackLocks(Below(t))
<1>1. None \notin Task
  BY RunServiceAssumption
<1>2. CASE runLock[r] = None
  <2>1. r \notin StackLocks(task[t])
    BY <1>1, <1>2 DEF RunLocks
  <2>2. QED
    BY <1>2, <2>1, TopLocks DEF AtWork, FrameLocks
<1>3. CASE task[t] # <<>> /\ Top(t).at \in InLock /\ runLock[r] # None
  <2>1. FrameLocks(Top(t)) = {r}
    BY <1>3 DEF AtWork, FrameLocks
  <2>2. r \in StackLocks(task[t]) /\ r \notin StackLocks(Below(t))
    BY <1>3, <2>1, TopLocks
  <2>3. runLock[r] = t
    BY <2>2 DEF RunLocks
  <2>4. QED
    BY <1>3, <2>1, <2>2, <2>3, TopLocks
<1>4. QED
  BY <1>2, <1>3 DEF AtWork

\* The step that leaves t in r's lock, or not, on a stack of the same locks.
LEMMA LockMoves ==
    ASSUME Typed, RunLocks, NEW t \in Task, NEW r \in Run, AtWork(t, r),
           NEW next, Nested(next), Continue(t, next), NEW taken \in {{}, {r}},
           StackLocks(next) = taken \cup StackLocks(Below(t)),
           \A q \in Run : runLock'[q] = IF q \in taken THEN t
                                        ELSE IF q = r THEN None ELSE runLock[q]
    PROVE  RunLocks'
<1>1. None \notin Task
  BY RunServiceAssumption
<1>2. /\ r \notin StackLocks(Below(t)) /\ runLock[r] \in {t, None}
      /\ StackLocks(task[t]) \subseteq {r} \cup StackLocks(Below(t))
      /\ StackLocks(Below(t)) \subseteq StackLocks(task[t])
  BY NotBelow, TopLocks
<1>3. ASSUME NEW q \in Run
      PROVE  /\ runLock'[q] # runLock[q] =>
                    runLock[q] \in {t, None} /\ runLock'[q] \in {t, None}
             /\ runLock'[q] = t <=> q \in StackLocks(next)
  <2>1. CASE q = r
    BY <1>1, <1>2, <2>1
  <2>2. CASE q # r
    <3>1. runLock'[q] = runLock[q]
      BY <2>2
    <3>2. q \in StackLocks(next) <=> q \in StackLocks(task[t])
      BY <1>2, <2>2
    <3>3. QED
      BY <3>1, <3>2 DEF RunLocks
  <2>3. QED
    BY <2>1, <2>2
<1>4. QED
  BY <1>3, LocksFollow

\* A task that is not inside the lock of the run it works on leaves the locks
\* alone.
LEMMA LocksUnmoved ==
    ASSUME Typed, RunLocks, NEW t \in Task,
           task[t] # <<>> => Top(t).at \notin InLock,
           NEW next, Nested(next), Continue(t, next),
           StackLocks(next) = StackLocks(Below(t)), UNCHANGED runLock
    PROVE  RunLocks'
<1>1. StackLocks(task[t]) = StackLocks(Below(t))
  BY TopLocks DEF FrameLocks
<1>2. \A r \in Run : runLock'[r] = t <=> r \in StackLocks(next)
  BY <1>1 DEF RunLocks
<1>3. QED
  BY <1>2, LocksFollow

\* A frame that is outside any lock, or none, on what t goes on with.
LEMMA OutsideNested ==
    ASSUME NEW t \in Task, NEW s, IsBelow(s, t), NEW f, f.at \notin InLock,
           Continue(t, s) \/ Continue(t, <<f>> \o s)
    PROVE  \E next : /\ Nested(next) /\ Continue(t, next)
                     /\ StackLocks(next) = StackLocks(Below(t))
<1>1. FrameLocks(f) = {}
  BY DEF FrameLocks
<1>2. StackLocks(s) = StackLocks(Below(t))
  BY DEF IsBelow
<1>3. Nested(s)
  BY BelowNested
<1>4. /\ FrameLocks(f) \cap StackLocks(Below(t)) = {} => Nested(<<f>> \o s)
      /\ StackLocks(<<f>> \o s) = FrameLocks(f) \cup StackLocks(Below(t))
  BY BelowNested
<1>5. CASE Continue(t, s)
  BY <1>2, <1>3, <1>5
<1>6. CASE Continue(t, <<f>> \o s)
  <2> DEFINE next == <<f>> \o s
  <2>1. Nested(next) /\ StackLocks(next) = StackLocks(Below(t)) /\ Continue(t, next)
    BY <1>1, <1>4, <1>6
  <2> HIDE DEF next
  <2>2. QED
    BY <2>1
<1>7. QED
  BY <1>5, <1>6

\* It goes on with a frame that is not inside a lock either, or without one.
LEMMA PassesOn ==
    ASSUME Typed, RunLocks, NEW t \in Task,
           task[t] # <<>> => Top(t).at \notin InLock,
           NEW s, IsBelow(s, t), NEW f, f.at \notin InLock, UNCHANGED runLock,
           Continue(t, s) \/ Continue(t, <<f>> \o s)
    PROVE  RunLocks'
<1>1. PICK next : /\ Nested(next) /\ Continue(t, next)
                  /\ StackLocks(next) = StackLocks(Below(t))
  BY OutsideNested
<1>2. QED
  BY <1>1, LocksUnmoved

\* It enters, or stays in, the lock of the run.
LEMMA EntersLock ==
    ASSUME Typed, RunLocks, NEW t \in Task, NEW r \in Run, AtWork(t, r),
           NEW s, IsBelow(s, t), NEW f, f.run = r, f.at \in InLock,
           Continue(t, <<f>> \o s), runLock' = [runLock EXCEPT ![r] = t]
    PROVE  RunLocks'
<1> DEFINE next == <<f>> \o s
           taken == {r}
<1>1. FrameLocks(f) = taken
  BY DEF FrameLocks
<1>2. r \notin StackLocks(Below(t))
  BY NotBelow
<1>3. /\ Nested(next) /\ Continue(t, next)
      /\ StackLocks(next) = taken \cup StackLocks(Below(t))
  BY <1>1, <1>2, BelowNested
<1>4. \A q \in Run : runLock'[q] = IF q \in taken THEN t
                                   ELSE IF q = r THEN None ELSE runLock[q]
  BY DEF Typed
<1>5. taken \in {{}, {r}}
  OBVIOUS
<1> HIDE DEF next, taken
<1>6. QED
  BY <1>3, <1>4, <1>5, LockMoves

\* It leaves the lock, with a frame that is outside or without one.
LEMMA LeavesRunLock ==
    ASSUME Typed, RunLocks, NEW t \in Task, NEW r \in Run, AtWork(t, r),
           NEW s, IsBelow(s, t), NEW f, f.at \notin InLock,
           Continue(t, s) \/ Continue(t, <<f>> \o s), Unlock(r)
    PROVE  RunLocks'
<1> DEFINE taken == {}
<1>2. PICK next : /\ Nested(next) /\ Continue(t, next)
                  /\ StackLocks(next) = StackLocks(Below(t))
  BY OutsideNested
<1>3. \A q \in Run : runLock'[q] = IF q \in taken THEN t
                                   ELSE IF q = r THEN None ELSE runLock[q]
  BY DEF Typed, Unlock
<1>4. taken \in {{}, {r}} /\ StackLocks(next) = taken \cup StackLocks(Below(t))
  BY <1>2
<1> HIDE DEF taken
<1>5. QED
  BY <1>2, <1>3, <1>4, LockMoves

----------------------------------------------------------------------------
(***************************************************************************)
(* The actions.                                                            *)
(***************************************************************************)

\* _try_launch: the pass is driven outside the lock, the queued run inside.
LEMMA LaunchRunLocks ==
    ASSUME Typed, RunLocks, NEW t \in Task, NEW r \in Run, AtWork(t, r),
           NEW s, IsBelow(s, t), NEW run, TryLaunch(t, r, run, s)
    PROVE  RunLocks'
<1>1. PICK f : \/ /\ f.at = "engine" /\ Unlock(r)
                  /\ Continue(t, <<f>> \o s)
               \/ /\ f.at = "queued" /\ f.run = r
                  /\ runLock' = [runLock EXCEPT ![r] = t]
                  /\ Continue(t, <<f>> \o s)
  BY DEF TryLaunch, At
<1>2. "engine" \notin InLock /\ "queued" \in InLock
  BY DEF InLock, UnderLock
<1>3. QED
  BY <1>1, <1>2, LeavesRunLock, EntersLock

\* A release goes on with the promotions it starts.
LEMMA ReleaseBelow ==
    ASSUME Typed, RunLocks, NEW t \in Task, NEW r, NEW run \in Record, NEW changed,
           NEW s, IsBelow(s, t), ReleaseAndPromote(t, r, run, changed, s)
    PROVE  \E next : IsBelow(next, t) /\ Continue(t, next)
<1> DEFINE todo == PromotedByRelease(r, run)
<1>1. PICK next \in Promoting(todo, s) : Continue(t, next)
  BY DEF ReleaseAndPromote
<1>2. todo \subseteq Kind \X Run
  BY ReleasedType DEF PromotedByRelease
<1> HIDE DEF todo
<1>3. QED
  BY <1>1, <1>2, PromotingBelow

\* So does one that gives the target back as well.
LEMMA ResourcesBelow ==
    ASSUME Typed, RunLocks, NEW t \in Task, NEW r, NEW run \in Record,
           NEW s, IsBelow(s, t), ReleaseResources(t, r, run, s)
    PROVE  \E next : IsBelow(next, t) /\ Continue(t, next)
<1>1. [run EXCEPT !.lockOwner = None] \in Record
  BY UpdateTypes
<1>2. \/ ReleaseAndPromote(t, r, [run EXCEPT !.lockOwner = None], TRUE, s)
      \/ ReleaseAndPromote(t, r, run, FALSE, s)
  BY DEF ReleaseResources
<1>3. QED
  BY <1>1, <1>2, ReleaseBelow

\* start, from the request to its first walk.
LEMMA StartRunLocks ==
    ASSUME Typed, RunLocks, NEW t \in Task,
           (\E r \in Run : StartRun(t, r)) \/ StartLaunch(t)
    PROVE  RunLocks'
<1>1. ASSUME NEW r \in Run, StartRun(t, r)
      PROVE  RunLocks'
  <2> DEFINE f == At("created", r, NewRun)
             s == Below(t)
  <2>1. task[t] = <<>> /\ UNCHANGED runLock /\ Continue(t, <<f>>)
    BY <1>1 DEF StartRun, Receives
  <2>2. f.at \notin InLock
    BY DEF At, InLock, UnderLock
  <2>3. s = <<>> /\ IsBelow(s, t)
    BY <2>1, RestBelow DEF Below
  <2> HIDE DEF f, s
  <2>4. Continue(t, <<f>> \o s)
    BY <2>1, <2>3
  <2>5. QED
    BY <2>1, <2>2, <2>3, <2>4, PassesOn
<1>2. CASE StartLaunch(t)
  <2>1. /\ task[t] # <<>> /\ runLock[Top(t).run] = None
        /\ \E run : TryLaunch(t, Top(t).run, run, Rest(t))
    BY <1>2 DEF StartLaunch, Resumes
  <2>2. PICK r \in Run : r = Top(t).run
    BY <2>1, ResumeType
  <2>3. IsBelow(Rest(t), t) /\ AtWork(t, r)
    BY <2>1, <2>2, RestBelow DEF AtWork
  <2>4. QED
    BY <2>1, <2>2, <2>3, LaunchRunLocks
<1>3. QED
  BY <1>1, <1>2

\* A promotion waits until the run's lock is free.
LEMMA PromoteRunLocks ==
    ASSUME Typed, RunLocks, NEW t \in Task, Promote(t)
    PROVE  RunLocks'
<1>1. task[t] # <<>> /\ Top(t).at = "promote" /\ runLock[Top(t).run] = None
  BY DEF Promote, Resumes
<1>2. PICK p \in Run : p = Top(t).run
  BY <1>1, ResumeType
<1>3. PICK next \in Promoting(Top(t).todo, Rest(t)) :
          \/ UNCHANGED runLock /\ Continue(t, next)
          \/ TryLaunch(t, p, registry[p], next)
  BY <1>2 DEF Promote
<1>4. IsBelow(Rest(t), t) /\ Top(t).todo \subseteq Kind \X Run
  BY <1>1, RestBelow, ResumeType
<1>5. IsBelow(next, t)
  BY <1>4, PromotingBelow
<1>6. AtWork(t, p)
  BY <1>1, <1>2 DEF AtWork
<1>7. Top(t).at \notin InLock
  BY <1>1 DEF InLock, UnderLock
<1>8. CASE UNCHANGED runLock /\ Continue(t, next)
  BY <1>5, <1>7, <1>8, PassesOn
<1>9. CASE TryLaunch(t, p, registry[p], next)
  BY <1>5, <1>6, <1>9, LaunchRunLocks
<1>10. QED
  BY <1>3, <1>8, <1>9

\* The engine answers, and what follows outside any lock: the parked run, the
\* release of the slots, the end of the run.
LEMMA EngineRunLocks ==
    ASSUME Typed, RunLocks, NEW t \in Task,
           Engine(t) \/ LockedPublished(t) \/ SuspendedPublished(t) \/ TerminalPublished(t)
    PROVE  RunLocks'
<1>1. /\ task[t] # <<>>
      /\ Top(t).at \in {"engine", "locked", "suspended", "terminal"}
      /\ UNCHANGED runLock
  BY DEF Engine, PassSuspended, PassCompleted, PassFailed, PassBroken, FailRun, Discard,
         Resumes, LockedPublished, SuspendedPublished, TerminalPublished
<1>2. Top(t).at \notin InLock
  BY <1>1 DEF InLock, UnderLock
<1>3. /\ IsBelow(Rest(t), t) /\ Top(t).run \in Run
      /\ Top(t).obj \in Record /\ registry[Top(t).run] \in Record
  BY <1>1, ResumeType, RestBelow
<1>4. \/ \E next : IsBelow(next, t) /\ Continue(t, next)
      \/ \E f : f.at \notin InLock /\ Continue(t, <<f>> \o Rest(t))
  <2>1. CASE \E run \in {Top(t).obj, registry[Top(t).run]} :
                 ReleaseAndPromote(t, Top(t).run, run, FALSE, Rest(t))
    BY <1>3, <2>1, ReleaseBelow
  <2>2. CASE ReleaseResources(t, Top(t).run, Top(t).obj, Rest(t))
    BY <1>3, <2>2, ResourcesBelow
  <2>3. CASE \E f : f.at \notin InLock /\ Continue(t, <<f>> \o Rest(t))
    BY <2>3
  <2>4. ASSUME NEW run, FailRun(t, Top(t).run, run)
        PROVE  \E f : f.at \notin InLock /\ Continue(t, <<f>> \o Rest(t))
    BY <2>4 DEF FailRun, At, InLock, UnderLock
  <2>5. ASSUME NEW a, PassSuspended(t, a), ~Discard(t, Top(t).run)
        PROVE  \E f : f.at \notin InLock /\ Continue(t, <<f>> \o Rest(t))
    BY <2>5 DEF PassSuspended, Park, At, InLock, UnderLock
  <2>6. ASSUME PassCompleted(t), ~Discard(t, Top(t).run)
        PROVE  \E f : f.at \notin InLock /\ Continue(t, <<f>> \o Rest(t))
    BY <2>6 DEF PassCompleted, At, InLock, UnderLock
  <2>7. CASE LockedPublished(t)
    <3> DEFINE f == [Top(t) EXCEPT !.at = "suspended"]
    <3>1. Continue(t, <<f>> \o Rest(t))
      BY <2>7 DEF LockedPublished
    <3>2. f.at = "suspended"
      BY <1>1, ResumeType DEF KnownFrame, Frame
    <3>3. QED
      BY <3>1, <3>2 DEF InLock, UnderLock
  <2>8. CASE Discard(t, Top(t).run)
    BY <2>1, <2>8 DEF Discard
  <2>9. QED
    BY <2>1, <2>2, <2>4, <2>5, <2>6, <2>7, <2>8
       DEF Engine, PassFailed, PassBroken, SuspendedPublished, TerminalPublished
<1>5. QED
  BY <1>1, <1>2, <1>3, <1>4, PassesOn

\* A handler leaves the lock it holds: after a walk, an unparked run, a
\* cancel or an exception.
LEMMA LeaveRunLocks ==
    ASSUME Typed, RunLocks, NEW t \in Task,
           QueuedPublished(t) \/ UnlockedPublished(t) \/ Unwind(t) \/ CancelPublished(t)
    PROVE  RunLocks'
<1>1. /\ task[t] # <<>> /\ Top(t).at \in InLock /\ Unlock(Top(t).run)
      /\ \/ Continue(t, Rest(t))
         \/ ReleaseResources(t, Top(t).run, Top(t).obj, Rest(t))
  BY DEF QueuedPublished, UnlockedPublished, Unwind, CancelPublished, LeavesLock,
         Resumes, InLock, UnderLock
<1>2. PICK r \in Run : r = Top(t).run
  BY <1>1, ResumeType
<1>3. IsBelow(Rest(t), t) /\ Top(t).obj \in Record /\ AtWork(t, r)
  BY <1>1, <1>2, ResumeType, RestBelow DEF AtWork
<1>4. PICK next : IsBelow(next, t) /\ Continue(t, next)
  BY <1>1, <1>3, ResourcesBelow
<1> DEFINE f == At("engine", r, NewRun)
<1>5. f.at \notin InLock
  BY DEF At, InLock, UnderLock
<1> HIDE DEF f
<1>6. QED
  BY <1>1, <1>2, <1>3, <1>4, <1>5, LeavesRunLock

\* A request takes the lock before it reads the record.
LEMMA RequestRunLocks ==
    ASSUME Typed, RunLocks, NEW t \in Task, NEW r \in Run,
           \/ Cancel(t, r)
           \/ \E s \in Step :
                 \/ \E action \in Forward : Approve(t, r, s, action)
                 \/ \E action, run : Decided(t, r, s, action, run)
           \/ RetryLock(t, r) /\ task' # task
    PROVE  RunLocks'
<1>1. task[t] = <<>> /\ Lock(t, r)
  BY DEF Cancel, Approve, Decided, RetryLock, Receives
<1>2. PICK f : f.run = r /\ f.at \in InLock /\ Continue(t, <<f>>)
  BY DEF Cancel, Approve, Decided, RetryLock, At, InLock, UnderLock
<1> DEFINE s == Below(t)
<1>3. s = <<>> /\ IsBelow(s, t)
  BY <1>1, RestBelow DEF Below
<1>4. AtWork(t, r) /\ runLock' = [runLock EXCEPT ![r] = t]
  BY <1>1 DEF AtWork, Lock
<1> HIDE DEF s
<1>5. Continue(t, <<f>> \o s)
  BY <1>2, <1>3
<1>6. QED
  BY <1>2, <1>3, <1>4, <1>5, EntersLock

\* A decision that is written stays inside the lock, and walks from there.
LEMMA DecisionRunLocks ==
    ASSUME Typed, RunLocks, NEW t \in Task, Approved(t) \/ DecisionPublished(t)
    PROVE  RunLocks'
<1>1. task[t] # <<>> /\ Top(t).at \in InLock
  BY DEF Approved, DecisionPublished, Resumes, InLock, UnderLock
<1>2. PICK r \in Run : r = Top(t).run
  BY <1>1, ResumeType
<1>3. IsBelow(Rest(t), t) /\ AtWork(t, r)
  BY <1>1, <1>2, RestBelow DEF AtWork
<1>4. CASE Approved(t)
  <2>1. Top(t) \in KnownFrame(registry) /\ UNCHANGED runLock
    BY <1>1, <1>4, ResumeType DEF Approved
  <2>2. PICK decided : Continue(t, <<[Top(t) EXCEPT !.at = "decided", !.obj = decided]>>
                                       \o Rest(t))
    BY <1>4 DEF Approved
  <2> DEFINE f == [Top(t) EXCEPT !.at = "decided", !.obj = decided]
  <2>3. f.run = r /\ f.at \in InLock
    BY <1>2, <2>1 DEF KnownFrame, Frame, InLock, UnderLock
  <2>4. Continue(t, <<f>> \o Rest(t))
    BY <2>2
  <2>5. runLock[r] = t
    <3>1. r \in StackLocks(task[t])
      BY <1>1, <1>2, TopLocks DEF FrameLocks
    <3>2. QED
      BY <3>1 DEF RunLocks
  <2>6. runLock' = [runLock EXCEPT ![r] = t]
    BY <2>1, <2>5 DEF Typed
  <2> HIDE DEF f
  <2>7. QED
    BY <1>3, <2>3, <2>4, <2>6, EntersLock
<1>5. CASE DecisionPublished(t)
  <2>1. \E run : TryLaunch(t, r, run, Rest(t))
    BY <1>2, <1>5 DEF DecisionPublished
  <2>2. QED
    BY <1>3, <2>1, LaunchRunLocks
<1>6. QED
  BY <1>4, <1>5

\* An exception leaves the lock at once, or unwinds inside it after a rollback.
LEMMA RaiseRunLocks ==
    ASSUME Typed, RunLocks, NEW t \in Task, PublishRaises(t) \/ QueuedRaises(t)
    PROVE  RunLocks'
<1>1. task[t] # <<>>
  BY DEF PublishRaises, QueuedRaises
<1>2. PICK r \in Run : r = Top(t).run
  BY <1>1, ResumeType
<1>3. /\ IsBelow(Rest(t), t) /\ Top(t).obj \in Record
      /\ Top(t) \in KnownFrame(registry)
  BY <1>1, ResumeType, RestBelow
<1>4. CASE PublishRaises(t)
  <2> DEFINE f == At("engine", r, NewRun)
  <2>1. f.at \notin InLock
    BY DEF At, InLock, UnderLock
  <2>2. Continue(t, Rest(t)) /\ Top(t).at # "unwinding"
    BY <1>4 DEF PublishRaises, PublishPoint
  <2> HIDE DEF f
  <2>3. CASE Top(t).at \in UnderLock
    <3>1. AtWork(t, r) /\ Unlock(r)
      BY <1>1, <1>2, <1>4, <2>3 DEF AtWork, InLock, PublishRaises
    <3>2. QED
      BY <1>3, <2>1, <2>2, <3>1, LeavesRunLock
  <2>4. CASE Top(t).at \notin UnderLock
    <3>1. Top(t).at \notin InLock /\ UNCHANGED runLock
      BY <1>4, <2>2, <2>4 DEF PublishRaises, InLock
    <3>2. QED
      BY <1>3, <2>1, <2>2, <3>1, PassesOn
  <2>5. QED
    BY <2>3, <2>4
<1>5. CASE QueuedRaises(t)
  <2> DEFINE f == [Top(t) EXCEPT !.at = "unwinding"]
             s == <<f>> \o Rest(t)
             todo == PromotedByRelease(r, Top(t).obj)
  <2>1. /\ Top(t).at = "queued" /\ UNCHANGED runLock
        /\ ReleaseAndPromote(t, r, Top(t).obj, TRUE, s)
    BY <1>2, <1>5 DEF QueuedRaises
  <2>2. f.run = r /\ f.at = "unwinding"
    BY <1>2, <1>3 DEF KnownFrame, Frame
  <2>3. FrameLocks(f) = {r} /\ FrameLocks(Top(t)) = {r}
    BY <1>2, <2>1, <2>2 DEF FrameLocks, InLock, UnderLock
  <2>4. PICK next \in Promoting(todo, s) : Continue(t, next)
    BY <2>1 DEF ReleaseAndPromote
  <2>5. /\ Rest(t) \in Seq(KnownFrame(registry)) /\ Rest(t) = Below(t)
        /\ OnceLocked(Rest(t)) /\ Settled(Rest(t))
    BY <1>1, <1>3 DEF IsBelow, Below
  <2>6. /\ StackLocks(task[t]) = {r} \cup StackLocks(Rest(t))
        /\ {r} \cap StackLocks(Rest(t)) = {}
    BY <1>1, <2>3, <2>5, TopLocks
  <2>7. f \in KnownFrame(registry)
    BY <1>3, <2>1 DEF KnownFrame, Frame, Point
  <2> HIDE DEF f, todo
  <2>8. s \in Seq(KnownFrame(registry))
    BY <2>5, <2>7, PushType
  <2>9. /\ s # <<>> /\ StackLocks(s) = FrameLocks(f) \cup StackLocks(Rest(t))
        /\ OnceLocked(s) <=> /\ OnceLocked(Rest(t))
                             /\ FrameLocks(f) \cap StackLocks(Rest(t)) = {}
        /\ Settled(s) <=> f.at \in {"promote", "unwinding"} /\ Settled(Rest(t))
    BY <2>5, PushLocks
  <2>10. OnceLocked(s) /\ Settled(s) /\ StackLocks(s) = StackLocks(task[t])
    BY <2>2, <2>3, <2>5, <2>6, <2>9
  <2> HIDE DEF s
  <2>11. OnceLocked(next) /\ Settled(next) /\ StackLocks(next) = StackLocks(task[t])
    BY <2>8, <2>10, PromotingLocks
  <2>12. Nested(next)
    <3>1. todo \subseteq Kind \X Run
      BY <1>3, ReleasedType DEF PromotedByRelease, todo
    <3>2. next \in Seq(KnownFrame(registry))
      BY <2>8, <3>1, PromotingType
    <3>3. next # <<>> => Settled(Tail(next))
      BY <2>11, <3>2 DEF Settled
    <3>4. QED
      BY <2>11, <3>3 DEF Nested
  <2>13. \A q \in Run : runLock'[q] = t <=> q \in StackLocks(next)
    BY <2>1, <2>11 DEF RunLocks
  <2>14. QED
    BY <2>1, <2>4, <2>12, <2>13, LocksFollow
<1>6. QED
  BY <1>4, <1>5 DEF PublishRaises, QueuedRaises

----------------------------------------------------------------------------
\* A run lock is held exactly by the task that is inside it, whichever
\* adapters: no exception, no rollback and no restart leaves one behind.
THEOREM RunLocksHold == Spec => []RunLocks
<1>1. Init => RunLocks
  BY RunServiceAssumption
     DEF Init, RunLocks, Nested, OnceLocked, StackLocks
<1>2. Typed /\ RunLocks /\ [Next]_vars => RunLocks'
  <2> SUFFICES ASSUME Typed, RunLocks, [Next]_vars
               PROVE  RunLocks'
    OBVIOUS
  <2>1. CASE UNCHANGED <<task, runLock>>
    BY <2>1 DEF RunLocks
  <2>2. ASSUME NEW t \in Task, NEW r \in Run, Request(t, r) \/ Sweep(t, r)
        PROVE  RunLocks'
    <3>1. CASE StartRun(t, r)
      BY <3>1, StartRunLocks
    <3>2. CASE RetryLock(t, r)
      <4>1. RetryLock(t, r) /\ task' = task => UNCHANGED <<task, runLock>>
        BY <3>2 DEF RetryLock, Receives, Continue, Typed
      <4>2. QED
        BY <2>1, <3>2, <4>1, RequestRunLocks
    <3>3. CASE Cancel(t, r) \/ \E s \in Step :
                   \/ \E action \in Forward : Approve(t, r, s, action)
                   \/ \E action, run : Decided(t, r, s, action, run)
      BY <3>3, RequestRunLocks
    <3>4. QED
      BY <2>2, <3>1, <3>2, <3>3
         DEF Request, Sweep, RequestCancel, RequestRetry, SweepStalled, SweepBlocked,
             Regenerate, Back
  <2>3. ASSUME NEW t \in Task, Engine(t) \/ Proceed(t)
        PROVE  RunLocks'
    BY <2>3, StartRunLocks, PromoteRunLocks, EngineRunLocks, LeaveRunLocks,
       DecisionRunLocks
       DEF Proceed
  <2>4. ASSUME NEW t \in Task, PublishRaises(t) \/ QueuedRaises(t)
        PROVE  RunLocks'
    BY <2>4, RaiseRunLocks
  <2>5. CASE Restart
    BY <2>5, RunServiceAssumption
       DEF Restart, RunLocks, Nested, OnceLocked, StackLocks
  <2>6. QED
    BY <2>1, <2>2, <2>3, <2>4, <2>5 DEF Next, LockExpires, vars
<1>3. QED
  BY <1>1, <1>2, TypedHolds, PTL DEF Spec

\* Task t drives the promotions of a rollback, inside the lock of the run that
\* was rolled back.
RollingBack(t) == \E i \in DOMAIN task[t] : task[t][i].at = "unwinding"

\* A task that waits for a run lock waits for a task that is under way, and
\* that does not wait itself unless it is rolling a run back.
LocksAreHeld ==
    \A t \in Task : WaitsFor(t) # None =>
        /\ WaitsFor(t) \in Task /\ task[WaitsFor(t)] # <<>>
        /\ WaitsFor(WaitsFor(t)) = None \/ RollingBack(WaitsFor(t))

\* Whichever adapters: nobody waits for the lock of a task that is gone (each
\* `async with self._run_lock` is left on every path), nor for that of a task
\* that waits for another lock, with one exception: the promotions of
\* _rollback_partial_grant are driven inside the lock of the rolled back run.
THEOREM LocksAreHeldHolds == Spec => []LocksAreHeld
<1>1. Typed /\ RunLocks => LocksAreHeld
  <2> SUFFICES ASSUME Typed, RunLocks, NEW t \in Task, WaitsFor(t) # None
               PROVE  /\ WaitsFor(t) \in Task /\ task[WaitsFor(t)] # <<>>
                      /\ WaitsFor(WaitsFor(t)) = None \/ RollingBack(WaitsFor(t))
    BY DEF LocksAreHeld
  <2>1. task[t] # <<>> /\ WaitsFor(t) = runLock[Top(t).run]
    BY DEF WaitsFor
  <2>2. PICK r \in Run : r = Top(t).run
    BY <2>1, ResumeType
  <2>3. PICK u \in Task : u = WaitsFor(t)
    BY <2>1, <2>2 DEF Typed
  <2>4. r \in StackLocks(task[u]) /\ Nested(task[u])
    BY <2>1, <2>2, <2>3 DEF RunLocks
  <2>5. PICK i \in DOMAIN task[u] : r \in FrameLocks(task[u][i])
    BY <2>4 DEF StackLocks
  <2>6. /\ task[u] # <<>> /\ task[u][i].at \in InLock
        /\ i = 1 => task[u][i] = Top(u)
        /\ i # 1 => i - 1 \in DOMAIN Tail(task[u]) /\ Tail(task[u])[i - 1] = task[u][i]
    <3>1. task[u] \in Seq(KnownFrame(registry))
      BY DEF Typed
    <3>2. QED
      BY <2>5, <3>1 DEF FrameLocks, Top
  <2>7. CASE i = 1
    <3>1. Top(u).at \notin {"created", "promote"}
      BY <2>6, <2>7 DEF InLock, UnderLock
    <3>2. QED
      BY <2>3, <2>6, <3>1 DEF WaitsFor
  <2>8. CASE i # 1
    <3>1. task[u][i].at \in {"promote", "unwinding"}
      BY <2>4, <2>6, <2>8 DEF Nested, Settled
    <3>2. task[u][i].at = "unwinding"
      BY <2>6, <3>1 DEF InLock, UnderLock
    <3>3. QED
      BY <2>3, <2>6, <3>2 DEF RollingBack
  <2>9. QED
    BY <2>7, <2>8
<1>2. QED
  BY <1>1, TypedHolds, RunLocksHold, PTL

\* With the yielding adapters too, only tasks that are rolling runs back could
\* wait for each other: no deadlock while no rollback is under way.
THEOREM DeadlockNeedsRollback ==
    Spec => []((\A t \in Task : ~RollingBack(t)) => NoLockDeadlock)
<1>1. LocksAreHeld => ((\A t \in Task : ~RollingBack(t)) => NoLockDeadlock)
  <2> SUFFICES ASSUME LocksAreHeld, \A t \in Task : ~RollingBack(t),
                      NEW S \in (SUBSET Task) \ {{}}
               PROVE  \E t \in S : \/ WaitsFor(t) = None
                                   \/ WaitsFor(t) \notin S /\ task[WaitsFor(t)] # <<>>
    BY DEF NoLockDeadlock
  <2>1. PICK t \in S : t \in Task
    OBVIOUS
  <2>2. QED
    BY <2>1 DEF LocksAreHeld
<1>2. QED
  BY <1>1, LocksAreHeldHolds, PTL

-------------------------------------------------------------------------------
(***************************************************************************)
(* The run service with the memory adapters: whenever a task gives the     *)
(* event loop up, or has it, the records, the lines, the slots and the     *)
(* tasks agree, for any number of runs, tasks, kinds and steps.            *)
(*                                                                         *)
(* With these adapters a publish or a save never yields, so that a handler *)
(* runs from its request to the engine (or to a run lock, when it          *)
(* promotes) without another one in between. What is left of concurrency   *)
(* is still hard: passes of many runs are in flight while others are       *)
(* started, decided, cancelled or promoted, and a release drives the       *)
(* promotions of other runs one by one, below the frames that were there   *)
(* before.                                                                 *)
(*                                                                         *)
(* None of the properties is inductive. A pass holds its slots because the *)
(* record it was launched from says so, and the record is right because    *)
(* nobody else walked for this run meanwhile; that is so because a         *)
(* promotion is owed for a run at most once, and only for one that was     *)
(* taken out of its line. Core says all of it: Stacked (what can be below  *)
(* the top of a stack, and who holds a run lock), Debts (who is owed a     *)
(* promotion, once), Copies (the task at work has the record as it is      *)
(* saved), and for every run PassOk (its pass), LineOk (its line), DebtOk  *)
(* (its promotion), HoldOk (its slots are on record) and PaidOk (the       *)
(* record's slots are held).                                               *)
(*                                                                         *)
(* With the Redis adapters Core is false: the handlers yield at every      *)
(* publish. The runs MCRunAsync, MCRunStale and MCRunReplay are about      *)
(* those.                                                                  *)
(***************************************************************************)

\* Whose promotion a frame, and a stack, still has to drive.
FrameOwes(f) ==
    (IF f.at = "promote" THEN {f.run} ELSE {}) \cup {g[2] : g \in f.todo}

Owes(s) == UNION {FrameOwes(s[i]) : i \in DOMAIN s}

Owed == UNION {Owes(task[t]) : t \in Task}

\* No run is owed two promotions by one frame, nor by one stack.
Once(todo) == \A g, h \in todo : g[2] = h[2] => g = h

OnceInFrame(f) ==
    /\ f.at = "promote" => f.run \notin {g[2] : g \in f.todo}
    /\ Once(f.todo)

OnceInStack(s) ==
    /\ \A i \in DOMAIN s : OnceInFrame(s[i])
    /\ \A i, j \in DOMAIN s : i # j => FrameOwes(s[i]) \cap FrameOwes(s[j]) = {}

AllPromote(s) == \A i \in DOMAIN s : s[i].at = "promote"

\* The task that has the event loop is at one of the points, for run r.
TopIs(points, r) == loop # None /\ Top(loop).run = r /\ Top(loop).at \in points

\* Below its top frame a task only has promotions to drive; between two steps
\* every task is idle or waits for the engine; a run lock is held by the task
\* that has the loop.
Stacked ==
    /\ \A t \in Task : task[t] # <<>> =>
           /\ AllPromote(Rest(t))
           /\ t # loop => Top(t).at = "engine"
           /\ Top(t).at # "promote" => Top(t).todo = {}
    /\ loop # None => task[loop] # <<>> /\ Top(loop).at # "engine"
    /\ \A r \in Run : runLock[r] # None => TopIs(UnderLock, r) /\ runLock[r] = loop

\* No run is owed two promotions.
Debts ==
    /\ \A t \in Task : OnceInStack(task[t])
    /\ \A t, u \in Task : t # u => Owes(task[t]) \cap Owes(task[u]) = {}

\* Task t computes a pass of run q, or parks it.
Passing(t, q) ==
    /\ task[t] # <<>>
    /\ Top(t).run = q
    /\ Top(t).at \in {"engine", "locked"}

InLine(q, k) == q \in Waiting(ceiling[k])
Holds(q, k) == q \in ceiling[k].active

\* The task at work carries the record as it is saved.
Copies ==
    loop # None /\ Top(loop).at \notin {"promote", "locked"} =>
        LET f == Top(loop)
        IN  /\ registry[f.run] = f.obj
            /\ f.at \in {"created", "queued"} => f.obj.status = "queued"
            /\ f.at \in {"approving", "decided", "unlocked"} =>
                   f.obj.status = "awaiting_human"
            /\ f.at = "suspended" => f.obj.status \in {"awaiting_human", "blocked"}
            /\ f.at = "terminal" => f.obj.status \in {"completed", "failed"}
            /\ f.at = "cancelled" => f.obj.status = "cancelled"
            /\ f.at = "created" => f.obj = NewRun /\ f.run \notin Owed

\* A running run has exactly one pass, computed from the saved record; only a
\* cancel leaves a pass behind.
PassOk(q) ==
    /\ \A t, u \in Task : Passing(t, q) /\ Passing(u, q) => t = u
    /\ \A t \in Task : Passing(t, q) =>
           /\ Saved(q)
           /\ registry[q].status \in {"running", "cancelled"}
           /\ Top(t).at = "engine" /\ registry[q].status = "running" =>
                  Top(t).obj = registry[q]
           /\ Top(t).at = "locked" =>
                  /\ registry[q].status = "running"
                  /\ Top(t).obj.status = "blocked"
                  /\ Top(t).obj.lockOwner # q
                  /\ Top(t).obj.pending = registry[q].pending
                  /\ Top(t).obj.decision = registry[q].decision
    /\ HasStatus(q, "running") => \E t \in Task : Passing(t, q)

\* A run is only in the line that its record names.
LineOk(q) ==
    \A k \in Kind : InLine(q, k) =>
        /\ Saved(q)
        /\ registry[q].pending.recorded
        /\ registry[q].pending.waitingOn = k
        /\ registry[q].status = "queued" \/ TopIs({"cancelled"}, q)

\* A promotion that is not driven yet is that of a queued run, out of its line,
\* or of one that was cancelled meanwhile.
DebtOk(q) ==
    q \in Owed =>
        /\ Saved(q)
        /\ registry[q].status \in {"queued"} \cup Terminal
        /\ registry[q].status = "queued" => registry[q].pending.recorded
        /\ \A k \in Kind : ~InLine(q, k)

\* Every slot is on its holder's record, or on the way to it, and its holder
\* runs, waits, or is about to give it back.
HoldOk(q) ==
    \A k \in Kind : Holds(q, k) =>
        /\ Saved(q)
        /\ registry[q].pending.recorded
        /\ \/ k \in registry[q].pending.slots
           \/ k = registry[q].pending.waitingOn /\ q \in Owed
        /\ \/ registry[q].status \in {"queued", "running"}
           \/ TopIs({"suspended", "terminal", "cancelled"}, q)

\* A running run holds all its slots, a queued one those before the kind that
\* it waits for or was promoted to.
PaidOk(q) ==
    /\ HasStatus(q, "running") => \A k \in PassKinds(registry[q]) : Holds(q, k)
    /\ HasStatus(q, "queued") /\ ~registry[q].pending.recorded => TopIs({"created"}, q)
    /\ HasStatus(q, "queued") /\ registry[q].pending.recorded =>
           LET d == registry[q].pending.waitingOn
               K == PassKinds(registry[q])
           IN  /\ d \in K
               /\ registry[q].pending.slots = {k \in K : k < d}
               /\ \A k \in K : k < d => Holds(q, k)
               /\ q \in Owed => Holds(q, d)
               /\ q \notin Owed => InLine(q, d)

RunOk(q) == PassOk(q) /\ LineOk(q) /\ DebtOk(q) /\ HoldOk(q) /\ PaidOk(q)

\* All runs are in order, with the tasks and ceilings they are in order with.
Core ==
    /\ \A k \in Kind : Good(ceiling[k], Limit[k])
    /\ Stacked
    /\ Debts
    /\ Copies
    /\ \A q \in Run : RunOk(q)

----------------------------------------------------------------------------
\* A frame put on top of a stack adds what it owes.
LEMMA PushFacts ==
    ASSUME NEW F, NEW f \in F, NEW s \in Seq(F), NEW q, q = <<f>> \o s
    PROVE  /\ q # <<>> /\ Head(q) = f /\ Tail(q) = s
           /\ Owes(q) = FrameOwes(f) \cup Owes(s)
           /\ OnceInStack(q) <=> /\ OnceInFrame(f) /\ OnceInStack(s)
                                 /\ FrameOwes(f) \cap Owes(s) = {}
<1>1. /\ q \in Seq(F) /\ q # <<>> /\ Head(q) = f /\ Tail(q) = s
      /\ Len(s) \in Nat /\ DOMAIN s = 1..Len(s)
      /\ DOMAIN q = 1..(Len(s) + 1) /\ q[1] = f
      /\ \A i \in 1..Len(s) : q[i + 1] = s[i]
  OBVIOUS
<1>2. \A i \in DOMAIN q : i = 1 \/ (i - 1 \in DOMAIN s /\ q[i] = s[i - 1])
  BY <1>1
<1>3. 1 \in DOMAIN q /\ \A i \in DOMAIN s : i + 1 \in DOMAIN q /\ q[i + 1] = s[i] /\ i + 1 # 1
  BY <1>1
<1>4. Owes(q) = FrameOwes(f) \cup Owes(s)
  <2>1. ASSUME NEW x \in Owes(q)
        PROVE  x \in FrameOwes(f) \cup Owes(s)
    BY <1>1, <1>2 DEF Owes
  <2>2. ASSUME NEW x \in FrameOwes(f) \cup Owes(s)
        PROVE  x \in Owes(q)
    BY <1>1, <1>3 DEF Owes
  <2>3. QED
    BY <2>1, <2>2
<1>5. ASSUME OnceInStack(q)
      PROVE  /\ OnceInFrame(f) /\ OnceInStack(s)
             /\ FrameOwes(f) \cap Owes(s) = {}
  <2>1. OnceInFrame(f)
    BY <1>1, <1>3, <1>5 DEF OnceInStack
  <2>2. ASSUME NEW i \in DOMAIN s, NEW j \in DOMAIN s, i # j
        PROVE  FrameOwes(s[i]) \cap FrameOwes(s[j]) = {}
    <3>1. i + 1 # j + 1
      BY <1>1, <2>2
    <3>2. QED
      BY <1>3, <1>5, <3>1, ZenonT(60) DEF OnceInStack
  <2>3. \A i \in DOMAIN s : OnceInFrame(s[i]) /\ FrameOwes(f) \cap FrameOwes(s[i]) = {}
    BY <1>1, <1>3, <1>5 DEF OnceInStack
  <2>4. QED
    BY <2>1, <2>2, <2>3 DEF OnceInStack, Owes
<1>6. ASSUME OnceInFrame(f), OnceInStack(s), FrameOwes(f) \cap Owes(s) = {}
      PROVE  OnceInStack(q)
  <2>1. \A i \in DOMAIN s : FrameOwes(s[i]) \subseteq Owes(s)
    BY DEF Owes
  <2>2. \A i \in DOMAIN q : OnceInFrame(q[i])
    BY <1>1, <1>2, <1>6 DEF OnceInStack
  <2>3. ASSUME NEW i \in DOMAIN q, NEW j \in DOMAIN q, i # j
        PROVE  FrameOwes(q[i]) \cap FrameOwes(q[j]) = {}
    <3>1. CASE i = 1
      BY <1>1, <1>2, <1>6, <2>1, <2>3, <3>1
    <3>2. CASE j = 1
      BY <1>1, <1>2, <1>6, <2>1, <2>3, <3>2
    <3>3. CASE i # 1 /\ j # 1
      <4>1. i - 1 # j - 1
        BY <1>1, <2>3
      <4>2. QED
        BY <1>2, <1>6, <3>3, <4>1 DEF OnceInStack
    <3>4. QED
      BY <3>1, <3>2, <3>3
  <2>4. QED
    BY <2>2, <2>3 DEF OnceInStack
<1>7. QED
  BY <1>1, <1>4, <1>5, <1>6

\* The same, read from a stack that is not empty.
LEMMA PopFacts ==
    ASSUME NEW F, NEW s \in Seq(F), s # <<>>
    PROVE  /\ Owes(s) = FrameOwes(Head(s)) \cup Owes(Tail(s))
           /\ OnceInStack(s) <=> /\ OnceInFrame(Head(s)) /\ OnceInStack(Tail(s))
                                 /\ FrameOwes(Head(s)) \cap Owes(Tail(s)) = {}
<1>1. Head(s) \in F /\ Tail(s) \in Seq(F) /\ s = <<Head(s)>> \o Tail(s)
  OBVIOUS
<1>2. QED
  BY <1>1, PushFacts

\* A stack of promotions starts with one, and goes on with promotions.
LEMMA PromoteTail ==
    ASSUME NEW F, NEW s \in Seq(F), AllPromote(s), s # <<>>
    PROVE  Head(s).at = "promote" /\ AllPromote(Tail(s))
<1>1. /\ Len(s) \in Nat /\ Len(s) > 0 /\ DOMAIN s = 1..Len(s) /\ Head(s) = s[1]
      /\ DOMAIN Tail(s) = 1..(Len(s) - 1)
      /\ \A i \in 1..(Len(s) - 1) : Tail(s)[i] = s[i + 1] /\ i + 1 \in 1..Len(s)
  OBVIOUS
<1>2. 1 \in DOMAIN s
  BY <1>1
<1>3. QED
  BY <1>1, <1>2 DEF AllPromote

\* The stack that drives `todo` first and then goes on with s.
LEMMA PromotingFacts ==
    ASSUME NEW F, NEW s \in Seq(F), NEW todo, NEW next \in Promoting(todo, s),
           \A f \in todo : [At("promote", f[2], NewRun) EXCEPT !.todo = todo \ {f}] \in F
    PROVE  /\ Owes(next) = {g[2] : g \in todo} \cup Owes(s)
           /\ Once(todo) /\ OnceInStack(s) /\ {g[2] : g \in todo} \cap Owes(s) = {} =>
                  OnceInStack(next)
           /\ \/ next = s
              \/ next # <<>> /\ Head(next).at = "promote" /\ Tail(next) = s
<1>1. CASE todo = {}
  BY <1>1 DEF Promoting
<1>2. CASE todo # {}
  <2>1. PICK f \in todo :
            next = <<[At("promote", f[2], NewRun) EXCEPT !.todo = todo \ {f}]>> \o s
    BY <1>2 DEF Promoting
  <2> DEFINE top == [At("promote", f[2], NewRun) EXCEPT !.todo = todo \ {f}]
  <2>2. top.at = "promote" /\ top.run = f[2] /\ top.todo = todo \ {f}
    BY DEF At
  <2>3. FrameOwes(top) = {g[2] : g \in todo}
    BY <2>2 DEF FrameOwes
  <2>4. Once(todo) => OnceInFrame(top)
    BY <2>2 DEF Once, OnceInFrame
  <2>5. top \in F
    OBVIOUS
  <2> HIDE DEF top
  <2>6. next = <<top>> \o s
    BY <2>1 DEF top
  <2>7. QED
    BY <2>2, <2>3, <2>4, <2>5, <2>6, PushFacts
<1>3. QED
  BY <1>1, <1>2

----------------------------------------------------------------------------
(***************************************************************************)
(* What a step does to the tasks.                                          *)
(***************************************************************************)

\* What a task has left to do is part of its stack and only promotes.
LEMMA BelowFacts ==
    ASSUME Typed, Stacked, Debts, NEW t \in Task
    PROVE  /\ Below(t) \in Seq(KnownFrame(registry))
           /\ AllPromote(Below(t)) /\ OnceInStack(Below(t))
           /\ Owes(Below(t)) \subseteq Owes(task[t])
           /\ Owes(task[t]) \subseteq Owed
           /\ task[t] = <<>> \/ Top(t).at # "promote" =>
                  Owes(task[t]) = Owes(Below(t))
           /\ task[t] # <<>> =>
                  /\ Owes(task[t]) = FrameOwes(Top(t)) \cup Owes(Below(t))
                  /\ OnceInFrame(Top(t))
                  /\ FrameOwes(Top(t)) \cap Owes(Below(t)) = {}
<1>1. task[t] \in Seq(KnownFrame(registry)) /\ OnceInStack(task[t])
  BY DEF Typed, Debts
<1>2. Owes(task[t]) \subseteq Owed
  BY DEF Owed
<1>3. CASE task[t] = <<>>
  BY <1>1, <1>2, <1>3 DEF Below, AllPromote
<1>4. CASE task[t] # <<>>
  <2>1. /\ Owes(task[t]) = FrameOwes(Head(task[t])) \cup Owes(Tail(task[t]))
        /\ OnceInFrame(Head(task[t])) /\ OnceInStack(Tail(task[t]))
        /\ FrameOwes(Head(task[t])) \cap Owes(Tail(task[t])) = {}
    BY <1>1, <1>4, PopFacts
  <2>2. Tail(task[t]) \in Seq(KnownFrame(registry))
    BY <1>1, <1>4
  <2>3. AllPromote(Tail(task[t]))
    BY <1>4 DEF Stacked, Rest
  <2>4. Top(t).at # "promote" => FrameOwes(Top(t)) = {}
    BY <1>4 DEF Stacked, FrameOwes
  <2>5. QED
    BY <1>2, <1>4, <2>1, <2>2, <2>3, <2>4 DEF Below, Top, Rest
<1>5. QED
  BY <1>3, <1>4

\* Task t goes on as a stack that suspends at the engine only.
LEMMA GoesOn ==
    ASSUME ~AsyncAdapters, Typed, Typed', Stacked,
           NEW t \in Task, loop \in {None, t}, NEW stack, Continue(t, stack),
           stack # <<>> => /\ AllPromote(Tail(stack))
                           /\ Head(stack).at # "promote" => Head(stack).todo = {},
           \A r \in Run : runLock'[r] # None =>
               /\ stack # <<>> /\ runLock'[r] = t
               /\ Head(stack).at \in UnderLock /\ Head(stack).run = r
    PROVE  /\ Stacked'
           /\ task'[t] = stack
           /\ \A u \in Task \ {t} : task'[u] = task[u]
           /\ loop' = IF stack = <<>> \/ Head(stack).at = "engine" THEN None ELSE t
<1>1. /\ task'[t] = stack
      /\ \A u \in Task \ {t} : task'[u] = task[u]
  BY DEF Continue, Typed
<1>2. t # None
  BY RunServiceAssumption
<1>3. stack \in Seq(KnownFrame(registry'))
  BY <1>1 DEF Typed
<1>4. stack # <<>> => Head(stack).run \in Run
  BY <1>3 DEF KnownFrame, Frame
<1>5. stack # <<>> /\ Head(stack).at = "promote" => ~Suspends(Head(stack))
  BY <1>4 DEF Suspends, UnderLock, PublishPoint
<1>6. stack # <<>> /\ Head(stack).at # "promote" =>
          (Suspends(Head(stack)) <=> Head(stack).at = "engine")
  BY DEF Suspends
<1>7. loop' = IF stack = <<>> \/ Head(stack).at = "engine" THEN None ELSE t
  BY <1>5, <1>6 DEF Continue
<1>8. Stacked'
  <2>1. ASSUME NEW u \in Task, task'[u] # <<>>
        PROVE  /\ AllPromote(Tail(task'[u]))
               /\ u # loop' => Head(task'[u]).at = "engine"
               /\ Head(task'[u]).at # "promote" => Head(task'[u]).todo = {}
    <3>1. CASE u = t
      BY <1>1, <1>7, <2>1, <3>1
    <3>2. CASE u # t
      <4>1. u # loop
        BY <3>2, RunServiceAssumption
      <4>2. QED
        BY <1>1, <2>1, <3>2, <4>1 DEF Stacked, Top, Rest
    <3>3. QED
      BY <3>1, <3>2
  <2>2. loop' # None => task'[loop'] # <<>> /\ Head(task'[loop']).at # "engine"
    BY <1>1, <1>7
  <2>3. ASSUME NEW r \in Run, runLock'[r] # None
        PROVE  /\ loop' # None /\ Head(task'[loop']).run = r
               /\ Head(task'[loop']).at \in UnderLock /\ runLock'[r] = loop'
    <3>1. stack # <<>> /\ Head(stack).at # "engine" /\ loop' = t
      BY <1>7, <2>3 DEF UnderLock
    <3>2. QED
      BY <1>1, <1>2, <2>3, <3>1
  <2>4. QED
    BY <2>1, <2>2, <2>3 DEF Stacked, Top, Rest, TopIs
<1>9. QED
  BY <1>1, <1>7, <1>8

\* Task t drops some debts and takes over new ones.
LEMMA DebtsMove ==
    ASSUME Debts, NEW t \in Task, OnceInStack(task'[t]),
           \A u \in Task \ {t} : task'[u] = task[u],
           NEW Gone, NEW More, Gone \subseteq Owes(task[t]), More \cap Owed = {},
           Owes(task'[t]) = (Owes(task[t]) \ Gone) \cup More
    PROVE  Debts' /\ Owed' = (Owed \ Gone) \cup More
<1>1. ASSUME NEW u \in Task
      PROVE  OnceInStack(task'[u])
  BY <1>1 DEF Debts
<1>2. ASSUME NEW u \in Task \ {t}
      PROVE  Owes(task'[u]) \cap Owes(task'[t]) = {} /\ Owes(task'[u]) \cap Gone = {}
             /\ Owes(task'[u]) = Owes(task[u])
  <2>1. Owes(task'[u]) = Owes(task[u]) /\ Owes(task[u]) \subseteq Owed
    BY <1>2 DEF Owed
  <2>2. Owes(task[u]) \cap Owes(task[t]) = {}
    BY <1>2 DEF Debts
  <2>3. QED
    BY <2>1, <2>2
<1>3. ASSUME NEW u \in Task, NEW v \in Task, u # v
      PROVE  Owes(task'[u]) \cap Owes(task'[v]) = {}
  <2>1. CASE u = t \/ v = t
    BY <1>2, <1>3, <2>1
  <2>2. CASE u # t /\ v # t
    BY <1>3, <2>2 DEF Debts
  <2>3. QED
    BY <2>1, <2>2
<1>4. Owed' = (Owed \ Gone) \cup More
  <2>1. ASSUME NEW x \in Owed'
        PROVE  x \in (Owed \ Gone) \cup More
    <3>1. PICK u \in Task : x \in Owes(task'[u])
      BY <2>1 DEF Owed
    <3>2. QED
      BY <1>2, <3>1 DEF Owed
  <2>2. ASSUME NEW x \in (Owed \ Gone) \cup More
        PROVE  x \in Owed'
    <3>1. \E u \in Task : x \in Owes(task'[u])
      <4>1. CASE x \in More
        BY <4>1
      <4>2. CASE x \notin More
        <5>1. PICK u \in Task : x \in Owes(task[u])
          BY <2>2, <4>2 DEF Owed
        <5>2. QED
          BY <1>2, <2>2, <4>2, <5>1
      <4>3. QED
        BY <4>1, <4>2
    <3>2. QED
      BY <3>1 DEF Owed
  <2>3. QED
    BY <2>1, <2>2
<1>5. QED
  BY <1>1, <1>3, <1>4 DEF Debts

\* Task t goes on and owes what it owed.
LEMMA DebtsStay ==
    ASSUME Debts, NEW t \in Task, OnceInStack(task'[t]),
           \A u \in Task \ {t} : task'[u] = task[u],
           Owes(task'[t]) = Owes(task[t])
    PROVE  Debts' /\ Owed' = Owed
<1> DEFINE none == {}
<1>1. /\ none \subseteq Owes(task[t]) /\ none \cap Owed = {}
      /\ Owes(task'[t]) = (Owes(task[t]) \ none) \cup none
  OBVIOUS
<1>2. (Owed \ none) \cup none = Owed
  OBVIOUS
<1> HIDE DEF none
<1>3. Debts' /\ Owed' = (Owed \ none) \cup none
  BY <1>1, DebtsMove
<1>4. QED
  BY <1>2, <1>3

----------------------------------------------------------------------------
(***************************************************************************)
(* Task t works on run r, and promotes P.                                  *)
(***************************************************************************)

\* Task t makes a step on run r, from its top frame to another frame of r or
\* to the next promotion; P are the runs it takes out of their lines, with
\* the kind of the slot that each one gets.
OnRun(t, r, P) ==
    /\ loop \in {None, t} /\ loop' \in {None, t}
    /\ \A u \in Task \ {t} : task'[u] = task[u]
    /\ task[t] # <<>> => Top(t).run = r
    /\ task'[t] # <<>> => Head(task'[t]).run = r \/ Head(task'[t]).at = "promote"
    /\ \A q \in Run \ {r} :
           /\ registry'[q] = registry[q]
           /\ q \in Owed' <=> q \in Owed \/ \E k \in Kind : <<k, q>> \in P
           /\ \A k \in Kind :
                  /\ <<k, q>> \in P => InLine(q, k)
                  /\ Holds(q, k)' <=> Holds(q, k) \/ <<k, q>> \in P
                  /\ InLine(q, k)' <=> InLine(q, k) /\ <<k, q>> \notin P

\* Such a step leaves every other run in order.
LEMMA OthersKept ==
    ASSUME Typed, Stacked, Stacked', NEW t \in Task, NEW r \in Run, NEW P,
           OnRun(t, r, P), NEW q \in Run \ {r}, RunOk(q)
    PROVE  RunOk(q)'
<1>1. /\ registry'[q] = registry[q]
      /\ q \in Owed' <=> q \in Owed \/ \E k \in Kind : <<k, q>> \in P
      /\ \A k \in Kind :
             /\ <<k, q>> \in P => InLine(q, k)
             /\ Holds(q, k)' <=> Holds(q, k) \/ <<k, q>> \in P
             /\ InLine(q, k)' <=> InLine(q, k) /\ <<k, q>> \notin P
  BY DEF OnRun
<1>2. \A u \in Task : /\ Passing(u, q)' <=> Passing(u, q)
                      /\ Passing(u, q) => Top(u)' = Top(u)
  <2>1. ASSUME NEW u \in Task \ {t}
        PROVE  task'[u] = task[u]
    BY DEF OnRun
  <2>2. ~Passing(t, q) /\ ~Passing(t, q)'
    BY DEF OnRun, Passing, Top
  <2>3. QED
    BY <2>1, <2>2 DEF Passing, Top
<1>3. \A points : "promote" \notin points => ~TopIs(points, q) /\ ~TopIs(points, q)'
  BY DEF OnRun, TopIs, Stacked, Top
<1>4. PassOk(q)'
  <2>1. PassOk(q)
    BY DEF RunOk
  <2>2. HasStatus(q, "running")' <=> HasStatus(q, "running")
    BY <1>1 DEF HasStatus, Saved
  <2>3. ASSUME NEW u \in Task, Passing(u, q)'
        PROVE  /\ Passing(u, q) /\ Head(task'[u]) = Top(u)
    BY <1>2, <2>3 DEF Top
  <2>4. QED
    BY <1>1, <1>2, <2>1, <2>2, <2>3 DEF PassOk, Saved, Top
<1>5. LineOk(q)'
  BY <1>1, <1>3 DEF RunOk, LineOk, Saved
<1>6. DebtOk(q)'
  <2>1. SUFFICES ASSUME q \in Owed'
                 PROVE  /\ Saved(q)
                        /\ registry[q].status \in {"queued"} \cup Terminal
                        /\ registry[q].status = "queued" => registry[q].pending.recorded
                        /\ \A k \in Kind : ~InLine(q, k)'
    BY <1>1 DEF DebtOk, Saved
  <2>2. CASE q \in Owed
    BY <1>1, <2>2 DEF RunOk, DebtOk
  <2>3. CASE q \notin Owed
    <3>1. PICK k \in Kind : <<k, q>> \in P
      BY <1>1, <2>1, <2>3
    <3>2. /\ Saved(q) /\ registry[q].pending.recorded
          /\ registry[q].status = "queued"
          /\ \A j \in Kind : InLine(q, j) => j = k
      BY <1>1, <1>3, <3>1 DEF RunOk, LineOk
    <3>3. QED
      BY <1>1, <3>1, <3>2
  <2>4. QED
    BY <2>2, <2>3
<1>7. HoldOk(q)'
  <2>1. SUFFICES ASSUME NEW k \in Kind, Holds(q, k)'
                 PROVE  /\ Saved(q) /\ registry[q].pending.recorded
                        /\ \/ k \in registry[q].pending.slots
                           \/ k = registry[q].pending.waitingOn /\ q \in Owed'
                        /\ registry[q].status \in {"queued", "running"}
    BY <1>1 DEF HoldOk, Saved
  <2>2. CASE Holds(q, k)
    BY <1>1, <1>3, <2>2 DEF RunOk, HoldOk
  <2>3. CASE <<k, q>> \in P
    BY <1>1, <1>3, <2>3 DEF RunOk, LineOk
  <2>4. QED
    BY <1>1, <2>1, <2>2, <2>3
<1>8. PaidOk(q)'
  <2> DEFINE d == registry[q].pending.waitingOn
             K == PassKinds(registry[q])
  <2>1. \A k \in Kind : Holds(q, k) => Holds(q, k)'
    BY <1>1
  <2>2. PaidOk(q)
    BY DEF RunOk
  <2>3. ASSUME HasStatus(q, "queued"), registry[q].pending.recorded
        PROVE  /\ d \in K /\ registry[q].pending.slots = {k \in K : k < d}
               /\ \A k \in K : k < d => Holds(q, k)
               /\ q \in Owed => Holds(q, d)
               /\ q \notin Owed => InLine(q, d)
    BY <2>2, <2>3 DEF PaidOk
  <2>4. Saved(q) => K \subseteq Kind
    BY PassTargetType DEF Typed, Saved
  <2>5. HasStatus(q, "running") => \A k \in K : Holds(q, k)'
    BY <2>1, <2>2, <2>4 DEF PaidOk, HasStatus
  <2>6. HasStatus(q, "queued") => registry[q].pending.recorded
    BY <1>3, <2>2 DEF PaidOk
  <2>7. ASSUME HasStatus(q, "queued")
        PROVE  /\ \A k \in K : k < d => Holds(q, k)'
               /\ q \in Owed' => Holds(q, d)'
               /\ q \notin Owed' => InLine(q, d)'
    <3>1. registry[q].pending.recorded /\ K \subseteq Kind /\ d \in Kind
      BY <2>3, <2>4, <2>6, <2>7 DEF HasStatus
    <3>2. \A k \in K : k < d => Holds(q, k)'
      BY <2>1, <2>3, <2>7, <3>1
    <3>3. CASE q \in Owed
      BY <1>1, <2>1, <2>3, <2>7, <3>1, <3>2, <3>3
    <3>4. CASE q \notin Owed
      <4>1. \A k \in Kind : <<k, q>> \in P => k = d
        BY <1>1 DEF RunOk, LineOk
      <4>2. InLine(q, d)
        BY <2>3, <2>7, <3>1, <3>4
      <4>3. q \in Owed' => Holds(q, d)'
        BY <1>1, <3>1, <3>4, <4>1
      <4>4. q \notin Owed' => InLine(q, d)'
        BY <1>1, <3>1, <4>2
      <4>5. QED
        BY <3>2, <4>3, <4>4
    <3>5. QED
      BY <3>3, <3>4
  <2>8. QED
    BY <1>1, <2>3, <2>5, <2>6, <2>7 DEF PaidOk, HasStatus, Saved
<1>9. QED
  BY <1>4, <1>5, <1>6, <1>7, <1>8 DEF RunOk

\* If the run that was worked on is in order, all is.
LEMMA CoreKept ==
    ASSUME Typed, Core, NEW t \in Task, NEW r \in Run, NEW P, OnRun(t, r, P),
           \A k \in Kind : Good(ceiling'[k], Limit[k]),
           Stacked', Debts', Copies', RunOk(r)'
    PROVE  Core'
<1>1. \A q \in Run \ {r} : RunOk(q)'
  BY OthersKept DEF Core
<1>2. QED
  BY <1>1 DEF Core

\* What task t may do to the locks of runs while it works on r.
LocksOnly(t, r, locked) ==
    \A q \in Run : runLock'[q] # None => locked /\ q = r /\ runLock'[q] = t

\* Task t goes on with f, on the run it worked on; no ceiling is touched.
LEMMA PushesFrame ==
    ASSUME ~AsyncAdapters, Typed, Typed', Core, NEW t \in Task, NEW r \in Run,
           loop \in {None, t},
           task[t] # <<>> => Top(t).run = r /\ Top(t).at # "promote",
           NEW f, f.run = r, f.at # "promote", f.todo = {},
           Continue(t, <<f>> \o Below(t)), UNCHANGED ceiling,
           \A q \in Run \ {r} : registry'[q] = registry[q],
           LocksOnly(t, r, f.at \in UnderLock)
    PROVE  /\ Stacked' /\ Debts' /\ OnRun(t, r, {})
           /\ Owed' = Owed
           /\ \A k \in Kind : /\ Good(ceiling'[k], Limit[k])
                              /\ InLine(r, k)' <=> InLine(r, k)
                              /\ Holds(r, k)' <=> Holds(r, k)
           /\ loop' = IF f.at = "engine" THEN None ELSE t
           /\ task'[t] # <<>> /\ Head(task'[t]) = f
           /\ \A u \in Task \ {t} : task'[u] = task[u]
           /\ \A points : TopIs(points, r)' <=> f.at # "engine" /\ f.at \in points
<1> DEFINE stack == <<f>> \o Below(t)
<1>1. /\ Below(t) \in Seq(KnownFrame(registry))
      /\ AllPromote(Below(t)) /\ OnceInStack(Below(t))
      /\ Owes(task[t]) = Owes(Below(t))
  BY BelowFacts DEF Core
<1>2. FrameOwes(f) = {} /\ OnceInFrame(f)
  BY DEF FrameOwes, OnceInFrame, Once
<1> HIDE DEF stack
<1>3. /\ stack # <<>> /\ Head(stack) = f /\ Tail(stack) = Below(t)
      /\ Owes(stack) = Owes(task[t]) /\ OnceInStack(stack)
  <2> DEFINE F == KnownFrame(registry) \cup {f}
  <2>1. Below(t) \in Seq(F) /\ f \in F /\ stack = <<f>> \o Below(t)
    BY <1>1 DEF stack
  <2> HIDE DEF F
  <2>2. /\ stack # <<>> /\ Head(stack) = f /\ Tail(stack) = Below(t)
        /\ Owes(stack) = FrameOwes(f) \cup Owes(Below(t))
        /\ OnceInStack(stack) <=> /\ OnceInFrame(f) /\ OnceInStack(Below(t))
                                  /\ FrameOwes(f) \cap Owes(Below(t)) = {}
    BY <2>1, PushFacts
  <2>3. QED
    BY <1>1, <1>2, <2>2
<1>4. /\ Stacked'
      /\ task'[t] = stack
      /\ \A u \in Task \ {t} : task'[u] = task[u]
      /\ loop' = IF f.at = "engine" THEN None ELSE t
  <2>1. Continue(t, stack)
    BY DEF stack
  <2>2. \A q \in Run : runLock'[q] # None =>
            /\ stack # <<>> /\ runLock'[q] = t
            /\ Head(stack).at \in UnderLock /\ Head(stack).run = q
    BY <1>3 DEF LocksOnly
  <2>3. Stacked /\ loop \in {None, t}
        /\ (stack # <<>> => /\ AllPromote(Tail(stack))
                            /\ Head(stack).at # "promote" => Head(stack).todo = {})
    BY <1>1, <1>3 DEF Core
  <2>4. /\ Stacked'
        /\ task'[t] = stack
        /\ \A u \in Task \ {t} : task'[u] = task[u]
        /\ loop' = IF stack = <<>> \/ Head(stack).at = "engine" THEN None ELSE t
    BY <2>1, <2>2, <2>3, GoesOn
  <2>5. QED
    BY <1>3, <2>4
<1>5. Debts' /\ Owed' = Owed
  BY <1>3, <1>4, DebtsStay DEF Core
<1>6. \A q \in Run, k \in Kind : /\ InLine(q, k)' <=> InLine(q, k)
                                 /\ Holds(q, k)' <=> Holds(q, k)
  BY DEF InLine, Holds
<1>7. OnRun(t, r, {})
  BY <1>3, <1>4, <1>5, <1>6 DEF OnRun
<1>8. t # None
  BY RunServiceAssumption
<1>9. QED
  BY <1>3, <1>4, <1>5, <1>6, <1>7, <1>8 DEF Core, TopIs, Top

\* Task t is done with a run that it is not to promote, and goes on.
LEMMA PopsFrame ==
    ASSUME ~AsyncAdapters, Typed, Typed', Core, NEW t \in Task, NEW r \in Run,
           loop \in {None, t}, task[t] # <<>>, Top(t).run = r, Top(t).at # "promote",
           Continue(t, Rest(t)), UNCHANGED <<ceiling, registry>>,
           LocksOnly(t, r, FALSE)
    PROVE  /\ Stacked' /\ Debts' /\ OnRun(t, r, {})
           /\ Owed' = Owed
           /\ task'[t] = <<>> \/ Head(task'[t]).at = "promote"
           /\ \A u \in Task \ {t} : task'[u] = task[u]
           /\ loop' \in {None, t}
<1> DEFINE stack == Rest(t)
<1>1. /\ stack \in Seq(KnownFrame(registry)) /\ AllPromote(stack) /\ OnceInStack(stack)
      /\ Owes(task[t]) = Owes(stack)
  BY BelowFacts DEF Core, Below
<1>2. stack # <<>> => Head(stack).at = "promote" /\ AllPromote(Tail(stack))
  BY <1>1, PromoteTail
<1> HIDE DEF stack
<1>3. /\ Stacked'
      /\ task'[t] = stack
      /\ \A u \in Task \ {t} : task'[u] = task[u]
      /\ loop' \in {None, t}
  <2>1. Continue(t, stack) /\ \A q \in Run : runLock'[q] = None
    BY DEF stack, LocksOnly
  <2>2. Stacked
    BY DEF Core
  <2>3. QED
    BY <1>1, <1>2, <2>1, <2>2, GoesOn
<1>4. Debts' /\ Owed' = Owed
  BY <1>1, <1>3, DebtsStay DEF Core
<1>5. \A q \in Run, k \in Kind : /\ InLine(q, k)' <=> InLine(q, k)
                                 /\ Holds(q, k)' <=> Holds(q, k)
  BY DEF InLine, Holds
<1>6. OnRun(t, r, {})
  BY <1>2, <1>3, <1>4, <1>5 DEF OnRun
<1>7. QED
  BY <1>2, <1>3, <1>4, <1>6

\* The ways in which the handlers use the run locks, as LocksOnly.
LEMMA LockFacts ==
    ASSUME Typed, Stacked, NEW t \in Task, NEW r \in Run, loop \in {None, t},
           task[t] # <<>> => Top(t).run = r
    PROVE  /\ UNCHANGED runLock /\ (loop = None \/ Top(t).at \notin UnderLock) =>
                  LocksOnly(t, r, FALSE)
           /\ UNCHANGED runLock => LocksOnly(t, r, TRUE)
           /\ Unlock(r) => LocksOnly(t, r, FALSE)
           /\ runLock' = [runLock EXCEPT ![r] = t] => LocksOnly(t, r, TRUE)
           /\ Lock(t, r) => LocksOnly(t, r, TRUE)
<1>1. ASSUME NEW q \in Run, runLock[q] # None
      PROVE  loop = t /\ runLock[q] = t /\ q = r /\ Top(t).at \in UnderLock
  <2>1. TopIs(UnderLock, q) /\ runLock[q] = loop
    BY <1>1 DEF Stacked
  <2>2. loop = t /\ task[t] # <<>>
    BY <2>1 DEF TopIs, Stacked
  <2>3. QED
    BY <2>1, <2>2 DEF TopIs
<1>2. Unlock(r) => LocksOnly(t, r, FALSE)
  <2>1. SUFFICES ASSUME Unlock(r), NEW q \in Run, runLock'[q] # None
                 PROVE  FALSE
    BY DEF LocksOnly
  <2>2. runLock[q] # None /\ q # r
    BY <2>1 DEF Unlock, Typed
  <2>3. QED
    BY <1>1, <2>2
<1>3. runLock' = [runLock EXCEPT ![r] = t] => LocksOnly(t, r, TRUE)
  <2>1. SUFFICES ASSUME runLock' = [runLock EXCEPT ![r] = t], NEW q \in Run, runLock'[q] # None
                 PROVE  q = r /\ runLock'[q] = t
    BY DEF LocksOnly
  <2>2. q # r => runLock[q] # None
    BY <2>1 DEF Typed
  <2>3. q = r => runLock'[q] = t
    BY <2>1 DEF Typed
  <2>4. QED
    BY <1>1, <2>2, <2>3
<1>4. QED
  BY <1>1, <1>2, <1>3 DEF LocksOnly, Lock

----------------------------------------------------------------------------
(***************************************************************************)
(* A run with a human: it holds nothing and nobody works on it.            *)
(***************************************************************************)

\* Run q holds nothing, waits for nothing, and no task is busy with it.
Quiet(q) ==
    /\ \A k \in Kind : ~Holds(q, k) /\ ~InLine(q, k)
    /\ q \notin Owed
    /\ \A t \in Task : ~Passing(t, q)

\* A run that is with the human is quiet.
LEMMA QuietInReview ==
    ASSUME NEW q \in Run, RunOk(q),
           \/ ~Saved(q)
           \/ HasStatus(q, "awaiting_human") \/ HasStatus(q, "blocked"),
           ~TopIs({"suspended", "terminal", "cancelled"}, q),
           ~TopIs({"cancelled"}, q)
    PROVE  Quiet(q)
<1>1. /\ PassOk(q) /\ LineOk(q) /\ DebtOk(q) /\ HoldOk(q)
      /\ Saved(q) => registry[q].status \in {"awaiting_human", "blocked"}
  BY DEF RunOk, HasStatus
<1>2. QED
  BY <1>1 DEF PassOk, LineOk, DebtOk, HoldOk, Quiet, Terminal

\* A run that is quiet, and neither queued nor running, is in order.
LEMMA QuietIsOk ==
    ASSUME NEW q \in Run, Quiet(q)',
           Saved(q)' => registry'[q].status \notin {"queued", "running"}
    PROVE  RunOk(q)'
BY DEF Quiet, RunOk, PassOk, LineOk, DebtOk, HoldOk, PaidOk, HasStatus

\* Task t goes on with f on r, which stays with the human.
LEMMA ReviewStep ==
    ASSUME ~AsyncAdapters, Typed, Typed', Core, NEW t \in Task, NEW r \in Run,
           loop \in {None, t},
           task[t] # <<>> => Top(t).run = r /\ Top(t).at = "approving" /\ loop = t,
           HasStatus(r, "awaiting_human") \/ HasStatus(r, "blocked"),
           NEW f, f.run = r, f.at \in {"approving", "decided", "unlocked"}, f.todo = {},
           Continue(t, <<f>> \o Below(t)), UNCHANGED ceiling,
           \A q \in Run \ {r} : registry'[q] = registry[q],
           registry'[r] = f.obj, f.obj.status = "awaiting_human",
           UNCHANGED runLock \/ Lock(t, r)
    PROVE  Core'
<1>1. f.at \in UnderLock /\ f.at # "promote" /\ f.at # "engine"
  BY DEF UnderLock
<1>2. LocksOnly(t, r, f.at \in UnderLock)
  BY <1>1, LockFacts DEF LocksOnly, Core
<1>3. /\ Stacked' /\ Debts' /\ OnRun(t, r, {})
      /\ Owed' = Owed
      /\ \A k \in Kind : /\ Good(ceiling'[k], Limit[k])
                         /\ InLine(r, k)' <=> InLine(r, k)
                         /\ Holds(r, k)' <=> Holds(r, k)
      /\ loop' = t
      /\ task'[t] # <<>> /\ Head(task'[t]) = f
      /\ \A u \in Task \ {t} : task'[u] = task[u]
  BY <1>1, <1>2, PushesFrame
<1>4. ~TopIs({"suspended", "terminal", "cancelled"}, r) /\ ~TopIs({"cancelled"}, r)
  BY DEF TopIs, Core, Stacked
<1>5. Quiet(r)
  BY <1>4, QuietInReview DEF Core
<1>6. Quiet(r)'
  <2>1. ASSUME NEW u \in Task
        PROVE  ~Passing(u, r)'
    <3>1. CASE u = t
      BY <1>3, <3>1 DEF Passing, Top
    <3>2. CASE u # t
      BY <1>3, <1>5, <3>2 DEF Quiet, Passing, Top
    <3>3. QED
      BY <3>1, <3>2
  <2>2. QED
    BY <1>3, <1>5, <2>1 DEF Quiet
<1>7. RunOk(r)'
  BY <1>6, QuietIsOk
<1>8. Copies'
  BY <1>3 DEF Copies, Top
<1>9. QED
  BY <1>3, <1>7, <1>8, CoreKept

\* Only the owner on a blocked run's banner changes.
LEMMA BannerStep ==
    ASSUME Typed, Core, NEW t \in Task, NEW r \in Run,
           HasStatus(r, "blocked"), loop = None, task[t] = <<>>,
           NEW run \in WorkflowRun, run.status = "blocked", Save(r, run),
           UNCHANGED <<ceiling, runLock, task, loop>>
    PROVE  Core'
<1>1. registry'[r] = run /\ \A q \in Run \ {r} : registry'[q] = registry[q]
  BY DEF Save, Typed
<1>2. Owed' = Owed
  BY DEF Owed
<1>3. /\ Stacked' /\ Debts' /\ \A k \in Kind : Good(ceiling'[k], Limit[k])
      /\ \A q \in Run, k \in Kind : /\ InLine(q, k)' <=> InLine(q, k)
                                    /\ Holds(q, k)' <=> Holds(q, k)
      /\ \A q \in Run, u \in Task : Passing(u, q)' <=> Passing(u, q)
  BY DEF Core, Stacked, Debts, Top, Rest, TopIs, InLine, Holds, Passing
<1>4. Copies'
  BY DEF Copies
<1>5. RunOk(r)'
  <2>1. Quiet(r)
    BY QuietInReview DEF Core, TopIs
  <2>2. Quiet(r)'
    BY <1>2, <1>3, <2>1 DEF Quiet
  <2>3. QED
    BY <1>1, <2>2, QuietIsOk
<1>6. OnRun(t, r, {})
  <2>1. /\ loop \in {None, t} /\ loop' \in {None, t} /\ task' = task /\ task[t] = <<>>
    OBVIOUS
  <2>2. QED
    BY <1>1, <1>2, <1>3, <2>1 DEF OnRun
<1>7. QED
  BY <1>3, <1>4, <1>5, <1>6, CoreKept

\* A human's decision, and a retry of a blocked run's lock, keep Core.
LEMMA HumanKeepsCore ==
    ASSUME ~AsyncAdapters, Typed, Typed', Core, NEW t \in Task,
           \/ \E r \in Run, s \in Step :
                  \/ \E action \in Forward : Approve(t, r, s, action)
                  \/ Regenerate(t, r, s)
                  \/ Back(t, r, s)
           \/ \E r \in Run : RetryLock(t, r)
           \/ Approved(t)
    PROVE  Core'
<1>1. ASSUME Receives(t)
      PROVE  /\ loop = None /\ task[t] = <<>> /\ Below(t) = <<>>
             /\ \A f : <<f>> = <<f>> \o Below(t)
  BY <1>1 DEF Receives, Below
<1>2. ASSUME NEW r \in Run, NEW s \in Step, NEW action \in Forward,
             Approve(t, r, s, action)
      PROVE  Core'
  <2> DEFINE f == [At("approving", r, registry[r]) EXCEPT !.step = s, !.action = action]
  <2>1. /\ f.run = r /\ f.at = "approving" /\ f.todo = {} /\ f.obj = registry[r]
    BY DEF At
  <2>2. /\ Continue(t, <<f>>) /\ UNCHANGED <<ceiling, registry>> /\ Lock(t, r)
        /\ Receives(t) /\ HasStatus(r, "awaiting_human")
    BY <1>2 DEF Approve, Decidable
  <2> HIDE DEF f
  <2>3. Continue(t, <<f>> \o Below(t))
    BY <1>1, <2>2
  <2>4. f.obj.status = "awaiting_human"
    BY <2>1, <2>2 DEF HasStatus
  <2>5. QED
    BY <1>1, <2>1, <2>2, <2>3, <2>4, ReviewStep
<1>3. ASSUME NEW r \in Run, NEW s \in Step, NEW action \in Action, NEW run,
             run.status = "awaiting_human", Decided(t, r, s, action, run)
      PROVE  Core'
  <2> DEFINE f == [At("decided", r, run) EXCEPT !.step = s, !.action = action]
  <2>1. /\ f.run = r /\ f.at = "decided" /\ f.todo = {} /\ f.obj = run
    BY DEF At
  <2>2. /\ Continue(t, <<f>>) /\ UNCHANGED ceiling /\ Lock(t, r)
        /\ Receives(t) /\ HasStatus(r, "awaiting_human") /\ Save(r, run)
    BY <1>3 DEF Decided, Decidable
  <2> HIDE DEF f
  <2>3. Continue(t, <<f>> \o Below(t))
    BY <1>1, <2>2
  <2>4. registry'[r] = f.obj /\ \A q \in Run \ {r} : registry'[q] = registry[q]
    BY <2>1, <2>2 DEF Save, Typed
  <2>5. f.obj.status = "awaiting_human"
    BY <1>3, <2>1
  <2>6. QED
    BY <1>1, <2>1, <2>2, <2>3, <2>4, <2>5, ReviewStep
<1>4. ASSUME NEW r \in Run, NEW s \in Step, Regenerate(t, r, s) \/ Back(t, r, s)
      PROVE  Core'
  <2>1. registry[r].status = "awaiting_human" /\ registry[r] \in WorkflowRun
    BY <1>4 DEF Regenerate, Back, Decided, Decidable, HasStatus, Saved, Typed, Record
  <2>2. CASE Regenerate(t, r, s)
    <3> DEFINE run == [registry[r] EXCEPT !.regenerations[s] = @ + 1,
                                          !.decision[s] = RegenerateMark]
    <3>1. run.status = "awaiting_human"
      BY <2>1 DEF WorkflowRun
    <3>2. Decided(t, r, s, "regenerate", run) /\ "regenerate" \in Action
      BY <2>2 DEF Regenerate, Action
    <3> HIDE DEF run
    <3>3. QED
      BY <1>3, <3>1, <3>2
  <2>3. CASE Back(t, r, s)
    <3> DEFINE run == InvalidateFrom(registry[r], s - 1)
    <3>1. run.status = "awaiting_human"
      BY <2>1 DEF WorkflowRun, InvalidateFrom
    <3>2. Decided(t, r, s, "back", run) /\ "back" \in Action
      BY <2>3 DEF Back, Action
    <3> HIDE DEF run
    <3>3. QED
      BY <1>3, <3>1, <3>2
  <2>4. QED
    BY <1>4, <2>2, <2>3
<1>5. ASSUME NEW r \in Run, RetryLock(t, r)
      PROVE  Core'
  <2> DEFINE target == registry[r].lockTarget
             run == SetCurrent(registry[r], "awaiting_human")
             freed == [run EXCEPT !.lockOwner = r, !.status = "awaiting_human"]
             owned == [registry[r] EXCEPT !.lockOwner = locks[target]]
             f == At("unlocked", r, freed)
  <2>1. /\ registry[r] \in Record /\ registry[r].status = "blocked"
        /\ HasStatus(r, "blocked") /\ Receives(t)
    BY <1>5 DEF RetryLock, HasStatus, Saved, Typed
  <2>2. target \in Target
    BY <2>1 DEF Record, WorkflowRun
  <2>3. CASE Save(r, owned) /\ UNCHANGED <<ceiling, runLock, task, loop>>
    <3>1. owned \in WorkflowRun /\ owned.status = "blocked"
      BY <2>1, <2>2 DEF Record, WorkflowRun, Typed
    <3> HIDE DEF owned
    <3>2. QED
      BY <1>1, <2>1, <2>3, <3>1, BannerStep
  <2>4. CASE Save(r, freed) /\ Lock(t, r) /\ Continue(t, <<f>>) /\ UNCHANGED ceiling
    <3>1. freed.status = "awaiting_human"
      <4>1. run \in Record
        BY <2>1, SetCurrentType DEF StepState
      <4>2. QED
        BY <4>1 DEF Record, WorkflowRun
    <3> HIDE DEF freed
    <3>2. /\ f.run = r /\ f.at = "unlocked" /\ f.todo = {} /\ f.obj = freed
      BY DEF At
    <3> HIDE DEF f
    <3>3. Continue(t, <<f>> \o Below(t))
      BY <1>1, <2>1, <2>4
    <3>4. registry'[r] = f.obj /\ \A q \in Run \ {r} : registry'[q] = registry[q]
      BY <2>4, <3>2 DEF Save, Typed
    <3>5. f.obj.status = "awaiting_human"
      BY <3>1, <3>2
    <3>6. QED
      BY <1>1, <2>1, <2>4, <3>2, <3>3, <3>4, <3>5, ReviewStep
  <2>5. QED
    BY <1>5, <2>3, <2>4 DEF RetryLock
<1>6. ASSUME Approved(t)
      PROVE  Core'
  <2> DEFINE r == Top(t).run
             decided == [Top(t).obj EXCEPT !.decision[Top(t).step] =
                            Approval(Top(t).obj, Top(t).step, Top(t).action)]
             f == [Top(t) EXCEPT !.at = "decided", !.obj = decided]
  <2>1. /\ Resumes(t, "approving") /\ Save(r, decided) /\ UNCHANGED <<ceiling, runLock>>
        /\ Continue(t, <<f>> \o Rest(t))
    BY <1>6 DEF Approved
  <2>2. /\ task[t] # <<>> /\ Top(t).at = "approving" /\ loop \in {None, t}
    BY <2>1 DEF Resumes
  <2>3. loop = t /\ Top(t).todo = {}
    BY <2>2, RunServiceAssumption DEF Core, Stacked
  <2>4. /\ Top(t) \in KnownFrame(registry) /\ r \in Run /\ Top(t).obj \in Record
    BY <2>2, ResumeType
  <2>5. /\ f.run = r /\ f.at = "decided" /\ f.todo = {} /\ f.obj = decided
    BY <2>3, <2>4 DEF KnownFrame, Frame
  <2>6. Top(t).obj = registry[r] /\ registry[r].status = "awaiting_human"
    BY <2>2, <2>3, RunServiceAssumption DEF Core, Copies
  <2>7. decided.status = "awaiting_human"
    BY <2>4, <2>6 DEF Record, WorkflowRun
  <2>8. HasStatus(r, "awaiting_human")
    BY <2>4, <2>6, NoneAssumption DEF HasStatus, Saved, Record
  <2>9. registry'[r] = decided /\ \A q \in Run \ {r} : registry'[q] = registry[q]
    BY <2>1, <2>4 DEF Save, Typed
  <2>10. Continue(t, <<f>> \o Below(t))
    BY <2>1, <2>2 DEF Below
  <2> HIDE DEF f, decided, r
  <2>11. QED
    <3>1. task[t] # <<>> => Top(t).run = r /\ Top(t).at = "approving" /\ loop = t
      BY <2>2, <2>3 DEF r
    <3>2. QED
      BY <2>1, <2>2, <2>4, <2>5, <2>7, <2>8, <2>9, <2>10, <3>1, ReviewStep
<1>7. QED
  BY <1>2, <1>4, <1>5, <1>6

----------------------------------------------------------------------------
(***************************************************************************)
(* Start, cancel, and the end of a pass.                                   *)
(***************************************************************************)

\* A new run is saved as queued, with nothing asked for yet.
LEMMA StartKeepsCore ==
    ASSUME ~AsyncAdapters, Typed, Typed', Core, NEW t \in Task, NEW r \in Run,
           StartRun(t, r)
    PROVE  Core'
<1> DEFINE f == At("created", r, NewRun)
<1>1. /\ loop = None /\ task[t] = <<>> /\ ~Saved(r)
      /\ Continue(t, <<f>>) /\ UNCHANGED <<ceiling, runLock>>
      /\ registry'[r] = NewRun /\ \A q \in Run \ {r} : registry'[q] = registry[q]
  BY DEF StartRun, Receives, Save, Saved, Typed
<1>2. f.run = r /\ f.at = "created" /\ f.todo = {} /\ f.obj = NewRun
  BY DEF At
<1> HIDE DEF f
<1>3. Continue(t, <<f>> \o Below(t))
  BY <1>1 DEF Below
<1>4. LocksOnly(t, r, FALSE) /\ LocksOnly(t, r, f.at \in UnderLock)
  BY <1>1, LockFacts DEF Core, LocksOnly
<1>5. /\ Stacked' /\ Debts' /\ OnRun(t, r, {})
      /\ Owed' = Owed
      /\ \A k \in Kind : /\ Good(ceiling'[k], Limit[k])
                         /\ InLine(r, k)' <=> InLine(r, k)
                         /\ Holds(r, k)' <=> Holds(r, k)
      /\ loop' = t
      /\ task'[t] # <<>> /\ Head(task'[t]) = f
      /\ \A u \in Task \ {t} : task'[u] = task[u]
      /\ \A points : TopIs(points, r)' <=> f.at # "engine" /\ f.at \in points
  BY <1>1, <1>2, <1>3, <1>4, PushesFrame
<1>6. Quiet(r)
  BY <1>1, QuietInReview DEF Core, TopIs
<1>7. \A u \in Task : ~Passing(u, r)'
  BY <1>2, <1>5, <1>6 DEF Quiet, Passing, Top
<1>8. NewRun.status = "queued" /\ ~NewRun.pending.recorded
  BY DEF NewRun, NoPass
<1>9. RunOk(r)'
  <2>1. PassOk(r)'
    BY <1>1, <1>7, <1>8 DEF PassOk, HasStatus
  <2>2. LineOk(r)' /\ DebtOk(r)' /\ HoldOk(r)'
    BY <1>5, <1>6 DEF Quiet, LineOk, DebtOk, HoldOk
  <2>3. PaidOk(r)'
    BY <1>1, <1>2, <1>5, <1>8 DEF PaidOk, HasStatus
  <2>4. QED
    BY <2>1, <2>2, <2>3 DEF RunOk
<1>10. Copies'
  BY <1>1, <1>2, <1>5, <1>6, <1>8 DEF Copies, Top, Quiet
<1>11. QED
  BY <1>5, <1>9, <1>10, CoreKept

\* A cancel leaves the pass of a running run behind, and its slots to give.
LEMMA CancelKeepsCore ==
    ASSUME ~AsyncAdapters, Typed, Typed', Core, NEW t \in Task, NEW r \in Run,
           Cancel(t, r)
    PROVE  Core'
<1> DEFINE cancelled == [registry[r] EXCEPT !.status = "cancelled"]
           f == At("cancelled", r, cancelled)
<1>1. /\ loop = None /\ task[t] = <<>> /\ Saved(r) /\ ~IsTerminal(registry[r])
      /\ Continue(t, <<f>>) /\ UNCHANGED ceiling /\ Lock(t, r)
      /\ registry'[r] = cancelled /\ \A q \in Run \ {r} : registry'[q] = registry[q]
  BY DEF Cancel, Receives, Save, Saved, Typed
<1>2. f.run = r /\ f.at = "cancelled" /\ f.todo = {} /\ f.obj = cancelled
  BY DEF At
<1>3. /\ cancelled.status = "cancelled" /\ cancelled.pending = registry[r].pending
      /\ cancelled \in WorkflowRun
  <2>1. registry[r] \in WorkflowRun
    BY <1>1 DEF Typed, Saved, Record
  <2>2. QED
    BY <2>1 DEF WorkflowRun, Status, Terminal
<1> HIDE DEF f, cancelled
<1>4. Continue(t, <<f>> \o Below(t))
  BY <1>1 DEF Below
<1>5. LocksOnly(t, r, f.at \in UnderLock)
  BY <1>1, <1>2, LockFacts DEF Core, LocksOnly, UnderLock
<1>6. /\ Stacked' /\ Debts' /\ OnRun(t, r, {})
      /\ Owed' = Owed
      /\ \A k \in Kind : /\ Good(ceiling'[k], Limit[k])
                         /\ InLine(r, k)' <=> InLine(r, k)
                         /\ Holds(r, k)' <=> Holds(r, k)
      /\ loop' = t
      /\ task'[t] # <<>> /\ Head(task'[t]) = f
      /\ \A u \in Task \ {t} : task'[u] = task[u]
      /\ \A points : TopIs(points, r)' <=> f.at # "engine" /\ f.at \in points
  BY <1>1, <1>2, <1>4, <1>5, PushesFrame
<1>7. Saved(r)' /\ registry'[r].status = "cancelled"
      /\ registry'[r].pending = registry[r].pending
  BY <1>1, <1>3, NoneAssumption DEF Saved
<1>8. \A u \in Task : Passing(u, r)' =>
          Passing(u, r) /\ Top(u)' = Top(u) /\ Top(u).at = "engine"
  BY <1>1, <1>2, <1>6 DEF Passing, Top, Core, Stacked
<1>9. RunOk(r)
  BY DEF Core
<1>10. RunOk(r)'
  <2>1. PassOk(r)'
    BY <1>7, <1>8, <1>9 DEF PassOk, RunOk, HasStatus
  <2>2. LineOk(r)'
    BY <1>2, <1>6, <1>7, <1>9 DEF LineOk, RunOk
  <2>3. DebtOk(r)'
    BY <1>6, <1>7, <1>9 DEF DebtOk, RunOk, Terminal
  <2>4. HoldOk(r)'
    BY <1>2, <1>6, <1>7, <1>9 DEF HoldOk, RunOk
  <2>5. PaidOk(r)'
    BY <1>7 DEF PaidOk, HasStatus
  <2>6. QED
    BY <2>1, <2>2, <2>3, <2>4, <2>5 DEF RunOk
<1>11. Copies'
  BY <1>1, <1>2, <1>3, <1>6 DEF Copies, Top
<1>12. QED
  BY <1>6, <1>10, <1>11, CoreKept

\* A task leaves a run's lock with nothing left to do for the run.
LEMMA LeaveKeepsCore ==
    ASSUME ~AsyncAdapters, Typed, Typed', Core, NEW t \in Task,
           QueuedPublished(t) \/ UnlockedPublished(t) \/ Unwind(t)
    PROVE  Core'
<1>1. /\ task[t] # <<>> /\ loop \in {None, t}
      /\ Top(t).at \in {"queued", "unlocked", "unwinding"}
      /\ Unlock(Top(t).run) /\ Continue(t, Rest(t)) /\ UNCHANGED <<ceiling, registry>>
  BY DEF QueuedPublished, UnlockedPublished, Unwind, LeavesLock, Resumes
<1>2. PICK r \in Run : r = Top(t).run
  BY <1>1, ResumeType
<1>3. Unlock(r)
  BY <1>1, <1>2
<1>4. LocksOnly(t, r, FALSE)
  BY <1>1, <1>2, <1>3, LockFacts DEF Core
<1>5. /\ Stacked' /\ Debts' /\ OnRun(t, r, {})
      /\ Owed' = Owed
      /\ task'[t] = <<>> \/ Head(task'[t]).at = "promote"
      /\ \A u \in Task \ {t} : task'[u] = task[u]
      /\ loop' \in {None, t}
  BY <1>1, <1>2, <1>3, <1>4, PopsFrame
<1>6. /\ ~TopIs({"cancelled"}, r) /\ ~TopIs({"created"}, r)
      /\ ~TopIs({"suspended", "terminal", "cancelled"}, r)
  BY <1>1, RunServiceAssumption DEF TopIs
<1>7. \A u \in Task : /\ Passing(u, r)' <=> Passing(u, r)
                      /\ Passing(u, r) => Top(u)' = Top(u)
  BY <1>1, <1>5 DEF Passing, Top
<1>8. \A k \in Kind : /\ InLine(r, k)' <=> InLine(r, k)
                      /\ Holds(r, k)' <=> Holds(r, k)
  BY <1>1 DEF InLine, Holds
<1>9. RunOk(r)
  BY <1>2 DEF Core
<1>10. RunOk(r)'
  <2>1. PassOk(r)'
    BY <1>1, <1>7, <1>9 DEF PassOk, RunOk, HasStatus, Saved
  <2>2. LineOk(r)'
    BY <1>1, <1>6, <1>8, <1>9 DEF LineOk, RunOk, Saved
  <2>3. DebtOk(r)'
    BY <1>1, <1>5, <1>8, <1>9 DEF DebtOk, RunOk, Saved
  <2>4. HoldOk(r)'
    BY <1>1, <1>5, <1>6, <1>8, <1>9 DEF HoldOk, RunOk, Saved
  <2>5. PaidOk(r)'
    <3>1. \A k \in PassKinds(registry[r]) : Saved(r) => k \in Kind
      BY <1>2, PassTargetType DEF Saved, Typed
    <3>2. UNCHANGED registry /\ Owed' = Owed /\ PaidOk(r)
      BY <1>1, <1>5, <1>9 DEF RunOk
    <3>3. \A k \in PassKinds(registry[r]) : Saved(r) => (Holds(r, k)' <=> Holds(r, k))
                                                     /\ (InLine(r, k)' <=> InLine(r, k))
      BY <1>8, <3>1
    <3>4. QED
      BY <1>6, <3>2, <3>3 DEF PaidOk, HasStatus, Saved
  <2>6. QED
    BY <2>1, <2>2, <2>3, <2>4, <2>5 DEF RunOk
<1>11. Copies'
  BY <1>5 DEF Copies, Stacked, Top
<1>12. \A k \in Kind : Good(ceiling'[k], Limit[k])
  BY <1>1 DEF Core
<1>13. QED
  BY <1>2, <1>5, <1>10, <1>11, <1>12, CoreKept

\* A pass ends, or its parking is out: the record says so, the slots are next.
LEMMA PassEnds ==
    ASSUME ~AsyncAdapters, Typed, Typed', Core, NEW t \in Task, NEW r \in Run,
           loop \in {None, t}, Passing(t, r), NEW f, f.run = r, f.todo = {},
           f.obj # None,
           \/ /\ f.at = "suspended" /\ f.obj.status \in {"awaiting_human", "blocked"}
              /\ registry[r].status = "running"
           \/ f.at = "terminal" /\ f.obj.status \in {"completed", "failed"},
           registry[r].status = "running" => f.obj.pending = registry[r].pending,
           registry'[r] = f.obj, \A q \in Run \ {r} : registry'[q] = registry[q],
           Continue(t, <<f>> \o Rest(t)), UNCHANGED <<ceiling, runLock>>
    PROVE  Core'
<1>1. /\ task[t] # <<>> /\ Top(t).run = r /\ Top(t).at # "promote"
      /\ Top(t).at \notin UnderLock /\ Below(t) = Rest(t)
      /\ f.at # "promote" /\ f.at # "engine" /\ f.at # "locked"
  BY DEF Passing, UnderLock, Below
<1>2. LocksOnly(t, r, FALSE) /\ LocksOnly(t, r, f.at \in UnderLock)
  BY <1>1, LockFacts DEF Core, LocksOnly
<1>3. Continue(t, <<f>> \o Below(t))
  BY <1>1
<1>4. /\ Stacked' /\ Debts' /\ OnRun(t, r, {})
      /\ Owed' = Owed
      /\ \A k \in Kind : /\ Good(ceiling'[k], Limit[k])
                         /\ InLine(r, k)' <=> InLine(r, k)
                         /\ Holds(r, k)' <=> Holds(r, k)
      /\ loop' = t
      /\ task'[t] # <<>> /\ Head(task'[t]) = f
      /\ \A u \in Task \ {t} : task'[u] = task[u]
      /\ \A points : TopIs(points, r)' <=> f.at # "engine" /\ f.at \in points
  BY <1>1, <1>2, <1>3, PushesFrame
<1>5. /\ ~TopIs({"suspended", "terminal", "cancelled"}, r) /\ ~TopIs({"cancelled"}, r)
  BY RunServiceAssumption DEF TopIs, Passing
<1>6. /\ PassOk(r) /\ LineOk(r) /\ DebtOk(r) /\ HoldOk(r)
      /\ Saved(r) /\ registry[r].status \in {"running", "cancelled"}
  BY DEF Core, RunOk, PassOk
<1>7. \A u \in Task : ~Passing(u, r)'
  <2>1. \A u \in Task \ {t} : ~Passing(u, r)
    BY <1>6 DEF PassOk
  <2>2. QED
    BY <1>1, <1>4, <2>1 DEF Passing, Top
<1>8. /\ Saved(r)' /\ registry'[r].status \notin {"queued", "running"}
      /\ registry[r].status = "running" => registry'[r].pending = registry[r].pending
  BY DEF Saved
<1>9. \A k \in Kind : ~InLine(r, k)
  BY <1>5, <1>6 DEF LineOk
<1>10. \A k \in Kind : Holds(r, k) => registry[r].status = "running"
  BY <1>5, <1>6 DEF HoldOk
<1>11. r \in Owed => registry[r].status = "cancelled"
  BY <1>6 DEF DebtOk, Terminal
<1>12. RunOk(r)'
  <2>1. PassOk(r)'
    BY <1>7, <1>8 DEF PassOk, HasStatus
  <2>2. LineOk(r)'
    BY <1>4, <1>9 DEF LineOk
  <2>3. DebtOk(r)'
    <3>1. r \in Owed => registry'[r].status \in {"completed", "failed"}
      BY <1>11
    <3>2. QED
      BY <1>4, <1>8, <1>9, <3>1 DEF DebtOk, Terminal
  <2>4. HoldOk(r)'
    BY <1>1, <1>4, <1>6, <1>8, <1>10 DEF HoldOk
  <2>5. PaidOk(r)'
    BY <1>8 DEF PaidOk, HasStatus
  <2>6. QED
    BY <2>1, <2>2, <2>3, <2>4, <2>5 DEF RunOk
<1>13. Copies'
  BY <1>1, <1>4 DEF Copies, Top
<1>14. QED
  BY <1>4, <1>12, <1>13, CoreKept

\* What a task that gets an answer from the engine finds.
LEMMA AtEngine ==
    ASSUME ~AsyncAdapters, Typed, Core, NEW t \in Task, Resumes(t, "engine")
    PROVE  /\ loop = None /\ task[t] # <<>> /\ Top(t).at = "engine"
           /\ Top(t).run \in Run /\ Top(t).obj \in Record
           /\ registry[Top(t).run] \in Record /\ Saved(Top(t).run)
           /\ Passing(t, Top(t).run)
           /\ registry[Top(t).run].status \in {"running", "cancelled"}
           /\ registry[Top(t).run].status = "running" => Top(t).obj = registry[Top(t).run]
           /\ Top(t).obj # None
<1>1. task[t] # <<>> /\ Top(t).at = "engine" /\ loop = None
  BY RunServiceAssumption DEF Resumes, Core, Stacked
<1>2. PICK r \in Run : r = Top(t).run
  BY <1>1, ResumeType
<1>3. Passing(t, r)
  BY <1>1, <1>2 DEF Passing
<1>4. /\ Saved(r) /\ registry[r].status \in {"running", "cancelled"}
      /\ registry[r].status = "running" => Top(t).obj = registry[r]
  BY <1>1, <1>2, <1>3 DEF Core, RunOk, PassOk
<1>5. Top(t).obj \in Record /\ registry[r] \in Record
  BY <1>1, <1>2, ResumeType
<1>6. QED
  BY <1>1, <1>2, <1>3, <1>4, <1>5, NoneAssumption DEF Record

\* A pass fails, with the record it started from or with the latest one.
LEMMA FailKeepsCore ==
    ASSUME ~AsyncAdapters, Typed, Typed', Core, NEW t \in Task,
           Resumes(t, "engine"), NEW run \in Record,
           FailRun(t, Top(t).run, run),
           registry[Top(t).run].status = "running" =>
               run.pending = registry[Top(t).run].pending
    PROVE  Core'
<1> DEFINE failed == [SetCurrent(run, "failed") EXCEPT !.status = "failed"]
<1>1. PICK r \in Run : r = Top(t).run
  BY AtEngine
<1>2. /\ Save(r, failed) /\ UNCHANGED <<ceiling, runLock>>
      /\ Continue(t, <<At("terminal", r, failed)>> \o Rest(t))
  BY <1>1 DEF FailRun
<1>3. /\ failed.status = "failed" /\ failed.pending = run.pending /\ failed \in WorkflowRun
  <2>1. SetCurrent(run, "failed") \in Record
    BY SetCurrentType DEF StepState
  <2>2. SetCurrent(run, "failed").pending = run.pending
    BY DEF SetCurrent, Record, WorkflowRun
  <2>3. QED
    BY <2>1, <2>2 DEF Record, WorkflowRun, Status, Terminal
<1> HIDE DEF failed
<1>4. registry'[r] = failed /\ \A q \in Run \ {r} : registry'[q] = registry[q]
  BY <1>2 DEF Save, Typed
<1> DEFINE f == At("terminal", r, failed)
<1>5. f.run = r /\ f.at = "terminal" /\ f.todo = {} /\ f.obj = failed
  BY DEF At
<1>6. Continue(t, <<f>> \o Rest(t)) /\ UNCHANGED <<ceiling, runLock>>
  BY <1>2
<1> HIDE DEF f
<1>7. f.obj # None /\ f.obj.status = "failed"
  BY <1>3, <1>5, NoneAssumption
<1>8. loop \in {None, t} /\ Passing(t, r)
      /\ (registry[r].status = "running" => f.obj.pending = registry[r].pending)
      /\ registry'[r] = f.obj
  BY <1>1, <1>3, <1>4, <1>5, AtEngine
<1>9. QED
  BY <1>4, <1>5, <1>6, <1>7, <1>8, PassEnds

\* A target is taken: the run is about to be parked.
LEMMA ParksAside ==
    ASSUME ~AsyncAdapters, Typed, Typed', Core, NEW t \in Task, NEW r \in Run,
           loop = None, Passing(t, r), NEW f, f.run = r, f.todo = {}, f.at = "locked",
           registry[r].status = "running", f.obj.status = "blocked",
           f.obj.lockOwner # r, f.obj.pending = registry[r].pending,
           f.obj.decision = registry[r].decision,
           Continue(t, <<f>> \o Rest(t)), UNCHANGED <<registry, ceiling, runLock>>
    PROVE  Core'
<1>1. /\ task[t] # <<>> /\ Top(t).run = r /\ Top(t).at # "promote"
      /\ Top(t).at \notin UnderLock /\ Below(t) = Rest(t)
      /\ f.at # "promote" /\ f.at # "engine"
  BY DEF Passing, UnderLock, Below
<1>2. LocksOnly(t, r, FALSE) /\ LocksOnly(t, r, f.at \in UnderLock)
  BY <1>1, LockFacts DEF Core, LocksOnly
<1>3. Continue(t, <<f>> \o Below(t)) /\ \A q \in Run \ {r} : registry'[q] = registry[q]
  BY <1>1
<1>4. /\ Stacked' /\ Debts' /\ OnRun(t, r, {})
      /\ Owed' = Owed
      /\ \A k \in Kind : /\ Good(ceiling'[k], Limit[k])
                         /\ InLine(r, k)' <=> InLine(r, k)
                         /\ Holds(r, k)' <=> Holds(r, k)
      /\ loop' = t
      /\ task'[t] # <<>> /\ Head(task'[t]) = f
      /\ \A u \in Task \ {t} : task'[u] = task[u]
  BY <1>1, <1>2, <1>3, PushesFrame
<1>5. /\ PassOk(r) /\ LineOk(r) /\ DebtOk(r) /\ HoldOk(r) /\ PaidOk(r)
      /\ registry' = registry /\ HasStatus(r, "running")
  BY DEF Core, RunOk, PassOk, HasStatus
<1>6. \A u \in Task : Passing(u, r)' <=> u = t
  <2>1. \A u \in Task \ {t} : ~Passing(u, r)
    BY <1>5 DEF PassOk
  <2>2. QED
    BY <1>1, <1>4, <2>1 DEF Passing, Top
<1>7. RunOk(r)'
  <2>1. PassOk(r)'
    BY <1>4, <1>5, <1>6 DEF PassOk, HasStatus, Saved, Top
  <2>2. LineOk(r)'
    BY <1>4, <1>5 DEF LineOk, HasStatus, TopIs
  <2>3. DebtOk(r)'
    BY <1>4, <1>5 DEF DebtOk, HasStatus, Saved
  <2>4. HoldOk(r)'
    BY <1>4, <1>5 DEF HoldOk, HasStatus, Saved
  <2>5. PaidOk(r)'
    <3>1. PassKinds(registry[r]) \subseteq Kind
      BY <1>5, PassTargetType DEF HasStatus, Saved, Typed
    <3>2. QED
      BY <1>4, <1>5, <3>1 DEF PaidOk, HasStatus, Saved
  <2>6. QED
    BY <2>1, <2>2, <2>3, <2>4, <2>5 DEF RunOk
<1>8. Copies'
  BY <1>1, <1>4 DEF Copies, Top
<1>9. QED
  BY <1>4, <1>7, <1>8, CoreKept

\* A pass suspends: its step's target is taken, or the run is parked.
LEMMA ParkKeepsCore ==
    ASSUME ~AsyncAdapters, Typed, Typed', Core, NEW t \in Task,
           Resumes(t, "engine"), registry[Top(t).run].status = "running",
           NEW run \in Record, run.status = "awaiting_human",
           run.pending = registry[Top(t).run].pending,
           run.decision = registry[Top(t).run].decision,
           NEW target \in Target \cup {None},
           Park(t, Top(t).run, run, target), UNCHANGED <<ceiling, runLock>>
    PROVE  Core'
<1>1. PICK r \in Run : r = Top(t).run
  BY AtEngine
<1> DEFINE held == IF target = None THEN run
                   ELSE [run EXCEPT !.lockTarget = target, !.lockOwner = r]
           marked == [run EXCEPT !.lockTarget = target,
                                 !.lockOwner = locks[target],
                                 !.status = "blocked"]
           blocked == SetCurrent(marked, "blocked")
<1>2. \/ Save(r, held) /\ Continue(t, <<At("suspended", r, held)>> \o Rest(t))
      \/ /\ target # None /\ locks[target] \notin {None, r} /\ UNCHANGED registry
         /\ Continue(t, <<At("locked", r, blocked)>> \o Rest(t))
  BY <1>1 DEF Park
<1>3. loop = None /\ loop \in {None, t} /\ Passing(t, r) /\ registry[r].status = "running"
  BY <1>1, AtEngine
<1>4. CASE Save(r, held) /\ Continue(t, <<At("suspended", r, held)>> \o Rest(t))
  <2> DEFINE f == At("suspended", r, held)
  <2>1. held.status = "awaiting_human" /\ held.pending = registry[r].pending
        /\ held \in WorkflowRun
    BY <1>1 DEF Record, WorkflowRun
  <2>2. f.run = r /\ f.at = "suspended" /\ f.todo = {} /\ f.obj = held
    BY DEF At
  <2>3. registry'[r] = held /\ \A q \in Run \ {r} : registry'[q] = registry[q]
    BY <1>4 DEF Save, Typed
  <2>4. Continue(t, <<f>> \o Rest(t))
    BY <1>4
  <2> HIDE DEF f, held
  <2>5. f.obj # None /\ f.obj.status = "awaiting_human"
        /\ f.obj.pending = registry[r].pending /\ registry'[r] = f.obj
    BY <2>1, <2>2, <2>3, NoneAssumption
  <2>6. QED
    BY <1>3, <2>2, <2>3, <2>4, <2>5, PassEnds
<1>5. CASE /\ target # None /\ locks[target] \notin {None, r} /\ UNCHANGED registry
           /\ Continue(t, <<At("locked", r, blocked)>> \o Rest(t))
  <2> DEFINE f == At("locked", r, blocked)
  <2>1. /\ marked \in Record /\ marked.status = "blocked" /\ marked.lockOwner # r
        /\ marked.pending = registry[r].pending /\ marked.decision = registry[r].decision
    <3>1. locks[target] \in Run \cup {None}
      BY <1>5 DEF Typed
    <3>2. QED
      BY <1>1, <1>5, <3>1 DEF Record, WorkflowRun, Status
  <2>2. /\ blocked.status = marked.status /\ blocked.lockOwner = marked.lockOwner
        /\ blocked.pending = marked.pending /\ blocked.decision = marked.decision
    BY <2>1 DEF SetCurrent, Record, WorkflowRun
  <2>3. f.run = r /\ f.at = "locked" /\ f.todo = {} /\ f.obj = blocked
    BY DEF At
  <2>4. Continue(t, <<f>> \o Rest(t)) /\ UNCHANGED <<registry, ceiling, runLock>>
    BY <1>5
  <2> HIDE DEF f, blocked, marked
  <2>5. /\ f.obj.status = "blocked" /\ f.obj.lockOwner # r
        /\ f.obj.pending = registry[r].pending /\ f.obj.decision = registry[r].decision
    BY <2>1, <2>2, <2>3
  <2>6. QED
    BY <1>3, <2>3, <2>4, <2>5, ParksAside
<1>6. QED
  BY <1>2, <1>4, <1>5

\* run.locked is out, and the blocked record is saved.
LEMMA LockedKeepsCore ==
    ASSUME ~AsyncAdapters, Typed, Typed', Core, NEW t \in Task, LockedPublished(t)
    PROVE  Core'
<1>1. task[t] # <<>> /\ Top(t).at = "locked" /\ loop \in {None, t}
  BY DEF LockedPublished, Resumes
<1>2. PICK r \in Run : r = Top(t).run
  BY <1>1, ResumeType
<1>3. Passing(t, r)
  BY <1>1, <1>2 DEF Passing
<1>4. /\ registry[r].status = "running" /\ Top(t).obj.status = "blocked"
      /\ Top(t).obj.pending = registry[r].pending
  BY <1>1, <1>2, <1>3 DEF Core, RunOk, PassOk
<1> DEFINE f == [Top(t) EXCEPT !.at = "suspended"]
<1>5. /\ Save(r, Top(t).obj) /\ UNCHANGED <<ceiling, runLock>>
      /\ Continue(t, <<f>> \o Rest(t))
  BY <1>2 DEF LockedPublished
<1>6. /\ Top(t) \in KnownFrame(registry) /\ Top(t).obj \in Record
      /\ Top(t).todo = {}
  BY <1>1, ResumeType DEF Core, Stacked
<1>7. f.run = r /\ f.at = "suspended" /\ f.todo = {} /\ f.obj = Top(t).obj
  BY <1>2, <1>6 DEF KnownFrame, Frame
<1>8. registry'[r] = Top(t).obj /\ \A q \in Run \ {r} : registry'[q] = registry[q]
  BY <1>5 DEF Save, Typed
<1> HIDE DEF f
<1>9. /\ f.obj # None /\ f.obj.status = "blocked" /\ registry'[r] = f.obj
      /\ f.obj.pending = registry[r].pending
  BY <1>4, <1>6, <1>7, <1>8, NoneAssumption DEF Record
<1>10. QED
  BY <1>1, <1>3, <1>4, <1>5, <1>7, <1>8, <1>9, PassEnds

----------------------------------------------------------------------------
(***************************************************************************)
(* Giving slots back.                                                      *)
(***************************************************************************)

\* A run waits in one line only, so that a release promotes it once.
LEMMA PromotedOnce ==
    ASSUME Typed, Core, NEW r \in Run, NEW run \in Record
    PROVE  /\ PromotedByRelease(r, run) = Promotions(r, run)
           /\ Once(Promotions(r, run))
           /\ \A f \in Promotions(r, run) :
                  /\ f \in Kind \X Run /\ f[2] # r /\ InLine(f[2], f[1])
                  /\ f[2] \notin Owed
<1>1. Released(run) \subseteq Kind
  BY ReleasedType
<1>2. ASSUME NEW f \in Promotions(r, run)
      PROVE  /\ f \in Kind \X Run /\ f[1] \in Kind /\ f[2] \in Run /\ f[2] # r
             /\ InLine(f[2], f[1]) /\ f = <<f[1], f[2]>>
             /\ registry[f[2]].pending.waitingOn = f[1] /\ f[2] \notin Owed
  <2>1. f \in Kind \X Run /\ f[1] \in Kind /\ f[2] \in Run /\ f = <<f[1], f[2]>>
        /\ f[2] \in PromotedBy(ceiling[f[1]], r, Limit[f[1]])
    BY <1>1, <1>2 DEF Promotions
  <2>2. PICK k \in Kind, q \in Run : f[1] = k /\ f[2] = q
    BY <2>1
  <2>3. Good(ceiling[k], Limit[k]) /\ Limit[k] \in Nat \ {0}
    BY RunServiceAssumption DEF Core
  <2>4. PromotedBy(ceiling[k], r, Limit[k]) \subseteq Waiting(ceiling[k]) \ {r}
    <3>1. PromotedBy(ceiling[k], r, Limit[k]) \subseteq Waiting(ceiling[k])
      BY <2>3, ReleaseKeepsGood
    <3>2. PromotedBy(ceiling[k], r, Limit[k]) # {} => r \notin Waiting(ceiling[k])
      BY DEF PromotedBy, HandsOn
    <3>3. QED
      BY <3>1, <3>2
  <2>5. q # r /\ InLine(q, k)
    BY <2>1, <2>2, <2>4 DEF InLine
  <2>6. registry[q].pending.waitingOn = k /\ q \notin Owed
    BY <2>5 DEF Core, RunOk, LineOk, DebtOk
  <2>7. QED
    BY <2>1, <2>2, <2>5, <2>6
<1>3. ASSUME NEW f \in Promotions(r, run), NEW g \in Promotions(r, run), f[2] = g[2]
      PROVE  f = g
  BY <1>2, <1>3
<1>4. PromotedByRelease(r, run) = Promotions(r, run)
  <2>1. ASSUME NEW f \in Promotions(r, run), NEW g \in Promotions(r, run), g[2] = f[2]
        PROVE  g[1] <= f[1]
    <3>1. g = f /\ f[1] \in Nat
      BY <1>2, <1>3, <2>1, StepsAndKinds
    <3>2. QED
      BY <3>1
  <2>2. QED
    BY <2>1 DEF PromotedByRelease, Promotions
<1>5. QED
  BY <1>2, <1>3, <1>4 DEF Once

\* What a release does to the ceilings.
LEMMA ReleaseCeilings ==
    ASSUME Typed, Core, NEW r \in Run, NEW run \in Record,
           ceiling' = [k \in Kind |-> IF k \in Released(run)
                                      THEN ReleaseSlot(ceiling[k], r, Limit[k])
                                      ELSE ceiling[k]],
           NEW k \in Kind
    PROVE  /\ Good(ceiling'[k], Limit[k])
           /\ k \in Released(run) => ~Holds(r, k)' /\ ~InLine(r, k)'
           /\ k \notin Released(run) => /\ Holds(r, k)' <=> Holds(r, k)
                                        /\ InLine(r, k)' <=> InLine(r, k)
           /\ \A q \in Run \ {r} :
                  /\ Holds(q, k)' <=> Holds(q, k) \/ <<k, q>> \in Promotions(r, run)
                  /\ InLine(q, k)' <=> InLine(q, k) /\ <<k, q>> \notin Promotions(r, run)
<1>1. Good(ceiling[k], Limit[k]) /\ Limit[k] \in Nat \ {0}
  BY RunServiceAssumption DEF Core
<1>2. CASE k \in Released(run)
  <2> DEFINE P == PromotedBy(ceiling[k], r, Limit[k])
  <2>1. ceiling'[k] = ReleaseSlot(ceiling[k], r, Limit[k])
    BY <1>2
  <2>2. Good(ceiling'[k], Limit[k])
    BY <1>1, <2>1, ReleaseKeepsGood
  <2>3. /\ ceiling'[k].active = (ceiling[k].active \ {r}) \cup P
        /\ Waiting(ceiling'[k]) = (Waiting(ceiling[k]) \ {r}) \ P
        /\ P \subseteq Waiting(ceiling[k]) \ {r}
    BY <1>1, <2>1, ReleaseEffect
  <2>4. \A q \in Run : <<k, q>> \in Promotions(r, run) <=> q \in P
    BY <1>2 DEF Promotions
  <2> HIDE DEF P
  <2>5. QED
    BY <1>2, <2>2, <2>3, <2>4 DEF Holds, InLine
<1>3. CASE k \notin Released(run)
  <2>1. ceiling'[k] = ceiling[k]
    BY <1>3
  <2>2. \A q \in Run : <<k, q>> \notin Promotions(r, run)
    BY <1>3 DEF Promotions
  <2>3. QED
    BY <1>1, <1>3, <2>1, <2>2 DEF Holds, InLine
<1>4. QED
  BY <1>2, <1>3

\* Task t gives back what run r holds, and goes on with the promotions.
LEMMA ReleaseKeepsCore ==
    ASSUME ~AsyncAdapters, Typed, Typed', Core, NEW t \in Task, NEW r \in Run,
           loop \in {None, t}, task[t] # <<>>, Top(t).run = r, Top(t).at # "promote",
           NEW run \in Record, Saved(r), run.pending = registry[r].pending,
           run.status = registry[r].status, run.status \notin {"queued", "running"},
           LocksOnly(t, r, FALSE),
           NEW changed, ReleaseAndPromote(t, r, run, changed, Rest(t))
    PROVE  Core'
<1> DEFINE P == Promotions(r, run)
           More == {g[2] : g \in P}
           F == KnownFrame(registry) \cup
                {[At("promote", f[2], NewRun) EXCEPT !.todo = P \ {f}] : f \in P}
<1>1. PICK next \in Promoting(P, Rest(t)) : Continue(t, next)
  BY PromotedOnce DEF ReleaseAndPromote
<1>2. /\ Once(P)
      /\ \A f \in P : f \in Kind \X Run /\ f[2] # r /\ InLine(f[2], f[1]) /\ f[2] \notin Owed
  BY PromotedOnce
<1>3. /\ Rest(t) \in Seq(F) /\ AllPromote(Rest(t)) /\ OnceInStack(Rest(t))
      /\ Owes(task[t]) = Owes(Rest(t)) /\ Owes(task[t]) \subseteq Owed
  <2>1. /\ Below(t) \in Seq(KnownFrame(registry)) /\ AllPromote(Below(t))
        /\ OnceInStack(Below(t)) /\ Owes(task[t]) = Owes(Below(t))
        /\ Owes(task[t]) \subseteq Owed
    BY BelowFacts DEF Core
  <2>2. KnownFrame(registry) \subseteq F
    OBVIOUS
  <2>3. Rest(t) = Below(t)
    BY DEF Below
  <2> HIDE DEF F
  <2>4. Rest(t) \in Seq(F)
    BY <2>1, <2>2, <2>3
  <2>5. QED
    BY <2>1, <2>3, <2>4
<1>4. More \cap Owed = {}
  BY <1>2
<1>5. /\ Owes(next) = More \cup Owes(Rest(t))
      /\ OnceInStack(next)
      /\ next = Rest(t) \/ (next # <<>> /\ Head(next).at = "promote" /\ Tail(next) = Rest(t))
  <2>1. \A f \in P : [At("promote", f[2], NewRun) EXCEPT !.todo = P \ {f}] \in F
    OBVIOUS
  <2>2. More \cap Owes(Rest(t)) = {}
    BY <1>3, <1>4
  <2> HIDE DEF F, P
  <2>3. QED
    BY <1>1, <1>2, <1>3, <2>1, <2>2, PromotingFacts
<1>6. next # <<>> => Head(next).at = "promote" /\ AllPromote(Tail(next))
  BY <1>3, <1>5, PromoteTail
<1> HIDE DEF F
<1>7. /\ Stacked'
      /\ task'[t] = next
      /\ \A u \in Task \ {t} : task'[u] = task[u]
      /\ loop' \in {None, t}
  <2>1. \A q \in Run : runLock'[q] = None
    BY DEF LocksOnly
  <2>2. Stacked
    BY DEF Core
  <2> HIDE DEF P
  <2>3. QED
    BY <1>1, <1>6, <2>1, <2>2, GoesOn
<1>8. Debts' /\ Owed' = Owed \cup More
  <2> DEFINE none == {}
  <2>1. /\ none \subseteq Owes(task[t]) /\ More \cap Owed = {}
        /\ Owes(task'[t]) = (Owes(task[t]) \ none) \cup More
        /\ OnceInStack(task'[t]) /\ Debts
    BY <1>3, <1>4, <1>5, <1>7 DEF Core
  <2>2. (Owed \ none) \cup More = Owed \cup More
    OBVIOUS
  <2> HIDE DEF none, More
  <2>3. Debts' /\ Owed' = (Owed \ none) \cup More
    BY <1>7, <2>1, DebtsMove
  <2>4. QED
    BY <2>2, <2>3
<1>9. ceiling' = [k \in Kind |-> IF k \in Released(run)
                                 THEN ReleaseSlot(ceiling[k], r, Limit[k])
                                 ELSE ceiling[k]]
  BY DEF ReleaseAndPromote
<1>10. \A k \in Kind :
          /\ Good(ceiling'[k], Limit[k])
          /\ k \in Released(run) => ~Holds(r, k)' /\ ~InLine(r, k)'
          /\ k \notin Released(run) => /\ Holds(r, k)' <=> Holds(r, k)
                                       /\ InLine(r, k)' <=> InLine(r, k)
          /\ \A q \in Run \ {r} :
                 /\ Holds(q, k)' <=> Holds(q, k) \/ <<k, q>> \in P
                 /\ InLine(q, k)' <=> InLine(q, k) /\ <<k, q>> \notin P
  BY <1>9, ReleaseCeilings
<1>11. /\ \A q \in Run \ {r} : registry'[q] = registry[q]
       /\ registry'[r] = registry[r] \/ registry'[r] = [run EXCEPT !.pending = NoPass]
  BY DEF ReleaseAndPromote, Save, Typed
<1>12. Saved(r)' /\ registry'[r].status = registry[r].status
  <2>1. /\ [run EXCEPT !.pending = NoPass].status = run.status
        /\ [run EXCEPT !.pending = NoPass] \in WorkflowRun
    BY PassTypes DEF Record, WorkflowRun
  <2>2. QED
    BY <1>11, <2>1, NoneAssumption DEF Saved
<1>13. OnRun(t, r, P)
  <2>1. \A q \in Run : q \in More <=> \E k \in Kind : <<k, q>> \in P
    <3>1. \A f \in P : f = <<f[1], f[2]>> /\ f[1] \in Kind /\ f[2] \in Run
      BY <1>2
    <3> HIDE DEF P
    <3>2. QED
      BY <3>1
  <2>2. \A q \in Run, k \in Kind : <<k, q>> \in P => InLine(q, k)
    BY <1>2
  <2> HIDE DEF P, More
  <2>3. QED
    BY <1>6, <1>7, <1>8, <1>10, <1>11, <2>1, <2>2 DEF OnRun
<1>14. PassOk(r) /\ LineOk(r) /\ DebtOk(r) /\ HoldOk(r)
  BY DEF Core, RunOk
<1>15. \A k \in Kind : Holds(r, k) \/ InLine(r, k) => k \in Released(run)
  BY <1>14, StepsAndKinds DEF HoldOk, LineOk, Released
<1>16. \A k \in Kind : ~Holds(r, k)' /\ ~InLine(r, k)'
  BY <1>10, <1>15
<1>17. \A u \in Task : Passing(u, r)' => /\ Passing(u, r) /\ Top(u)' = Top(u)
  BY <1>6, <1>7 DEF Passing, Top
<1>18. r \in Owed' => r \in Owed
  BY <1>2, <1>8
<1> HIDE DEF P, More
<1>19. RunOk(r)'
  <2>1. PassOk(r)'
    BY <1>12, <1>14, <1>17 DEF PassOk, HasStatus, Saved
  <2>2. LineOk(r)' /\ HoldOk(r)'
    BY <1>16 DEF LineOk, HoldOk
  <2>3. DebtOk(r)'
    BY <1>12, <1>14, <1>16, <1>18 DEF DebtOk
  <2>4. PaidOk(r)'
    BY <1>12 DEF PaidOk, HasStatus
  <2>5. QED
    BY <2>1, <2>2, <2>3, <2>4 DEF RunOk
<1>20. Copies'
  BY <1>6, <1>7 DEF Copies, Stacked, Top
<1>21. QED
  BY <1>7, <1>8, <1>10, <1>13, <1>19, <1>20, CoreKept

\* _release_resources, with or without a target lock to give back.
LEMMA ResourcesKeepCore ==
    ASSUME ~AsyncAdapters, Typed, Typed', Core, NEW t \in Task, NEW r \in Run,
           loop \in {None, t}, task[t] # <<>>, Top(t).run = r, Top(t).at # "promote",
           NEW run \in Record, Saved(r), run.pending = registry[r].pending,
           run.status = registry[r].status, run.status \notin {"queued", "running"},
           LocksOnly(t, r, FALSE), ReleaseResources(t, r, run, Rest(t))
    PROVE  Core'
<1> DEFINE given == [run EXCEPT !.lockOwner = None]
<1>1. \/ ReleaseAndPromote(t, r, given, TRUE, Rest(t))
      \/ ReleaseAndPromote(t, r, run, FALSE, Rest(t))
  BY DEF ReleaseResources
<1>2. given \in Record /\ given.pending = run.pending /\ given.status = run.status
  BY UpdateTypes DEF Record, WorkflowRun
<1> HIDE DEF given
<1>3. QED
  BY <1>1, <1>2, ReleaseKeepsCore

\* run.suspended or the terminal event is out: the slots go back.
LEMMA PublishedKeepsCore ==
    ASSUME ~AsyncAdapters, Typed, Typed', Core, NEW t \in Task,
           SuspendedPublished(t) \/ TerminalPublished(t) \/ CancelPublished(t)
    PROVE  Core'
<1>1. /\ task[t] # <<>> /\ loop \in {None, t}
      /\ Top(t).at \in {"suspended", "terminal", "cancelled"}
  BY DEF SuspendedPublished, TerminalPublished, CancelPublished, Resumes
<1>2. PICK r \in Run : r = Top(t).run
  BY <1>1, ResumeType
<1>3. PICK run \in Record : run = Top(t).obj
  BY <1>1, ResumeType
<1>4. loop = t /\ loop # None
  BY <1>1, RunServiceAssumption DEF Core, Stacked
<1>5. run = registry[r] /\ run.status \notin {"queued", "running"}
  BY <1>1, <1>2, <1>3, <1>4 DEF Core, Copies
<1>6. Saved(r)
  BY <1>5, NoneAssumption DEF Saved, Record
<1>7. LocksOnly(t, r, FALSE)
  <2>1. \/ UNCHANGED runLock /\ Top(t).at \in {"suspended", "terminal"}
        \/ Unlock(r)
    BY <1>2, <1>1 DEF SuspendedPublished, TerminalPublished, CancelPublished, Resumes
  <2>2. "suspended" \notin UnderLock /\ "terminal" \notin UnderLock
    BY DEF UnderLock
  <2>3. QED
    BY <1>1, <1>2, <2>1, <2>2, LockFacts DEF Core
<1>8. \/ ReleaseAndPromote(t, r, run, FALSE, Rest(t))
      \/ ReleaseResources(t, r, run, Rest(t))
  BY <1>2, <1>3 DEF SuspendedPublished, TerminalPublished, CancelPublished
<1>9. Top(t).at # "promote"
  BY <1>1
<1>10. QED
  BY <1>1, <1>2, <1>5, <1>6, <1>7, <1>8, <1>9, ReleaseKeepsCore, ResourcesKeepCore

\* The outcome of a cancelled run's pass is thrown away.
LEMMA DiscardKeepsCore ==
    ASSUME ~AsyncAdapters, Typed, Typed', Core, NEW t \in Task,
           Resumes(t, "engine"), Discard(t, Top(t).run)
    PROVE  Core'
<1>1. PICK r \in Run : r = Top(t).run
  BY AtEngine
<1>2. /\ loop \in {None, t} /\ task[t] # <<>> /\ Top(t).at = "engine"
      /\ Saved(r) /\ registry[r] \in Record
      /\ registry[r].status \in {"running", "cancelled"}
  BY <1>1, AtEngine
<1>3. /\ IsTerminal(registry[r]) /\ UNCHANGED runLock
      /\ ReleaseAndPromote(t, r, registry[r], FALSE, Rest(t))
  BY <1>1 DEF Discard
<1>4. registry[r].status = "cancelled"
  BY <1>2, <1>3 DEF IsTerminal, Terminal
<1>5. LocksOnly(t, r, FALSE)
  BY <1>1, <1>2, <1>3, LockFacts DEF Core, UnderLock
<1>6. QED
  BY <1>1, <1>2, <1>3, <1>4, <1>5, ReleaseKeepsCore

----------------------------------------------------------------------------
\* What is due is copied into the latest record; nothing else of it changes.
LEMMA EngineKeepsCore ==
    ASSUME ~AsyncAdapters, Typed, Typed', Core, NEW t \in Task, Engine(t)
    PROVE  Core'
<1> DEFINE run == Top(t).obj
           latest == WithEffects(registry[Top(t).run], run)
<1>1. Resumes(t, "engine")
  BY DEF Engine, PassSuspended, PassCompleted, PassFailed, PassBroken
<1>2. PICK r \in Run : r = Top(t).run
  BY <1>1, AtEngine
<1>3. /\ loop = None /\ task[t] # <<>> /\ Passing(t, r)
      /\ run \in Record /\ registry[r] \in Record
      /\ registry[r].status \in {"running", "cancelled"}
      /\ registry[r].status = "running" => run = registry[r]
  BY <1>1, <1>2, AtEngine
<1>4. ~IsTerminal(registry[r]) => registry[r].status = "running"
  BY <1>3 DEF IsTerminal, Terminal
<1>5. latest \in Record /\ latest.pending = registry[r].pending
      /\ latest.decision = registry[r].decision
  <2>1. latest \in Record
    BY <1>2, <1>3, EffectTypes
  <2>2. QED
    BY <1>2, <1>3, <2>1 DEF WithEffects, Record, WorkflowRun
<1>6. CASE Discard(t, r)
  BY <1>1, <1>2, <1>6, DiscardKeepsCore
<1>7. ASSUME NEW a \in Artifact, PassSuspended(t, a), ~Discard(t, r)
      PROVE  Core'
  <2> DEFINE s == SuspendStep(run)
             parked == Suspended(latest, s, a)
             target == TargetOf[r, s]
  <2>1. /\ ~IsTerminal(registry[r]) /\ UNCHANGED <<ceiling, runLock>>
        /\ Open(run) # {} /\ Park(t, r, parked, target)
    BY <1>2, <1>7 DEF PassSuspended
  <2>2. s \in Step
    BY <2>1, SuspendStepType
  <2>3. target \in Target \cup {None}
    <3>1. <<r, s>> \in Run \X Step
      BY <2>2
    <3>2. QED
      BY <3>1, RunServiceAssumption, Zenon
  <2> HIDE DEF latest, s, target
  <2>4. parked \in Record
    BY <1>5, <1>7, <2>2, SuspendedType
  <2>5. /\ parked.status = "awaiting_human" /\ parked.pending = registry[r].pending
        /\ parked.decision = registry[r].decision
    BY <1>5, <2>4 DEF Suspended, Record, WorkflowRun
  <2> HIDE DEF parked
  <2>6. QED
    BY <1>1, <1>2, <1>4, <2>1, <2>3, <2>4, <2>5, ParkKeepsCore
<1>8. ASSUME PassCompleted(t), ~Discard(t, r)
      PROVE  Core'
  <2> DEFINE done == [latest EXCEPT !.state = [s \in Step |-> "done"],
                                    !.status = "completed"]
             f == At("terminal", r, done)
  <2>1. /\ ~IsTerminal(registry[r]) /\ UNCHANGED <<ceiling, runLock>>
        /\ Save(r, done) /\ Continue(t, <<f>> \o Rest(t))
    BY <1>2, <1>8 DEF PassCompleted
  <2> HIDE DEF latest
  <2>2. done.status = "completed" /\ done.pending = registry[r].pending
        /\ done \in WorkflowRun
    BY <1>5 DEF Record, WorkflowRun, Status, Terminal, StepState
  <2>3. f.run = r /\ f.at = "terminal" /\ f.todo = {} /\ f.obj = done
    BY DEF At
  <2>4. registry'[r] = done /\ \A q \in Run \ {r} : registry'[q] = registry[q]
    BY <2>1 DEF Save, Typed
  <2> HIDE DEF f, done
  <2>5. f.obj # None /\ f.obj.status = "completed" /\ registry'[r] = f.obj
        /\ f.obj.pending = registry[r].pending
    BY <2>2, <2>3, <2>4, NoneAssumption
  <2>6. QED
    BY <1>3, <2>1, <2>3, <2>4, <2>5, PassEnds
<1>9. ASSUME NEW j \in 0..NumSteps, PassFailed(t, j) \/ PassBroken(t, j), ~Discard(t, r)
      PROVE  Core'
  <2>1. FailRun(t, r, registry[r]) \/ FailRun(t, r, run)
    BY <1>2, <1>9 DEF PassFailed, PassBroken
  <2>2. QED
    BY <1>1, <1>2, <1>3, <2>1, FailKeepsCore
<1>10. QED
  BY <1>6, <1>7, <1>8, <1>9 DEF Engine

----------------------------------------------------------------------------
(***************************************************************************)
(* Asking for slots.                                                       *)
(***************************************************************************)

\* A holder is not denied.
LEMMA AcquireHolder ==
    ASSUME NEW c, NEW r, NEW limit, r \in c.active
    PROVE  r \in AcquireSlot(c, r, limit).active
BY DEF AcquireSlot

\* What a walk of r over the kinds A does to the ceilings.
LEMMA AcquireCeilings ==
    ASSUME Typed, Core, NEW r \in Run, NEW A, Acquire(r, A), NEW k \in Kind
    PROVE  /\ Good(ceiling'[k], Limit[k])
           /\ \A q \in Run \ {r} : /\ Holds(q, k)' <=> Holds(q, k)
                                   /\ InLine(q, k)' <=> InLine(q, k)
           /\ k \notin A => /\ Holds(r, k)' <=> Holds(r, k)
                            /\ InLine(r, k)' <=> InLine(r, k)
           /\ k \in A =>
                  LET granted == r \in AcquireSlot(ceiling[k], r, Limit[k]).active
                  IN  /\ Holds(r, k)' <=> granted
                      /\ InLine(r, k)' <=> ~granted
                      /\ Holds(r, k) => granted
<1>1. Good(ceiling[k], Limit[k]) /\ Limit[k] \in Nat \ {0}
  BY RunServiceAssumption DEF Core
<1>2. CASE k \in A
  <2> DEFINE c == ceiling'[k]
  <2>1. c = AcquireSlot(ceiling[k], r, Limit[k])
    BY <1>2 DEF Acquire
  <2>2. Good(c, Limit[k])
    BY <1>1, <2>1, AcquireKeepsGood
  <2>3. /\ r \in c.active => /\ c.active = ceiling[k].active \cup {r}
                             /\ Waiting(c) = Waiting(ceiling[k]) \ {r}
        /\ r \notin c.active => /\ c.active = ceiling[k].active
                                /\ Waiting(c) = Waiting(ceiling[k]) \cup {r}
    BY <1>1, <2>1, AcquireEffect
  <2>4. Holds(r, k) => r \in c.active
    BY <2>3 DEF Holds
  <2>5. QED
    BY <1>2, <2>1, <2>2, <2>3, <2>4 DEF Holds, InLine
<1>3. CASE k \notin A
  BY <1>1, <1>3 DEF Acquire, Holds, InLine
<1>4. QED
  BY <1>2, <1>3

\* Task t goes on with f on run r, whose promotion, if it was owed, is driven.
LEMMA LaunchMoves ==
    ASSUME ~AsyncAdapters, Typed, Typed', Core, NEW t \in Task, NEW r \in Run,
           loop = t, task[t] # <<>>, Top(t).run = r,
           NEW f, f.run = r, f.todo = {}, f.at # "promote", NEW stack,
           stack \in Seq(KnownFrame(registry)), AllPromote(stack), OnceInStack(stack),
           Owes(stack) = Owes(task[t]) \ {r},
           r \in Owed => r \in Owes(task[t]),
           Continue(t, <<f>> \o stack), LocksOnly(t, r, f.at \in UnderLock),
           \A q \in Run \ {r} : registry'[q] = registry[q],
           \A k \in Kind, q \in Run \ {r} : /\ Holds(q, k)' <=> Holds(q, k)
                                            /\ InLine(q, k)' <=> InLine(q, k)
    PROVE  /\ Stacked' /\ Debts' /\ OnRun(t, r, {})
           /\ r \notin Owed'
           /\ loop' = IF f.at = "engine" THEN None ELSE t
           /\ task'[t] # <<>> /\ Head(task'[t]) = f
           /\ \A u \in Task \ {t} : task'[u] = task[u]
<1> DEFINE next == <<f>> \o stack
<1>1. FrameOwes(f) = {} /\ OnceInFrame(f)
  BY DEF FrameOwes, OnceInFrame, Once
<1> HIDE DEF next
<1>2. /\ next # <<>> /\ Head(next) = f /\ Tail(next) = stack
      /\ Owes(next) = Owes(task[t]) \ {r} /\ OnceInStack(next)
  <2> DEFINE F == KnownFrame(registry) \cup {f}
  <2>1. stack \in Seq(F) /\ f \in F /\ next = <<f>> \o stack
    BY DEF next
  <2> HIDE DEF F
  <2>2. /\ next # <<>> /\ Head(next) = f /\ Tail(next) = stack
        /\ Owes(next) = FrameOwes(f) \cup Owes(stack)
        /\ OnceInStack(next) <=> /\ OnceInFrame(f) /\ OnceInStack(stack)
                                 /\ FrameOwes(f) \cap Owes(stack) = {}
    BY <2>1, PushFacts
  <2>3. QED
    BY <1>1, <2>2
<1>3. /\ Stacked'
      /\ task'[t] = next
      /\ \A u \in Task \ {t} : task'[u] = task[u]
      /\ loop' = IF f.at = "engine" THEN None ELSE t
  <2>1. Continue(t, next)
    BY DEF next
  <2>2. \A q \in Run : runLock'[q] # None =>
            /\ next # <<>> /\ runLock'[q] = t
            /\ Head(next).at \in UnderLock /\ Head(next).run = q
    BY <1>2 DEF LocksOnly
  <2>3. Stacked /\ loop \in {None, t}
        /\ (next # <<>> => /\ AllPromote(Tail(next))
                           /\ Head(next).at # "promote" => Head(next).todo = {})
    BY <1>2 DEF Core
  <2>4. /\ Stacked'
        /\ task'[t] = next
        /\ \A u \in Task \ {t} : task'[u] = task[u]
        /\ loop' = IF next = <<>> \/ Head(next).at = "engine" THEN None ELSE t
    BY <2>1, <2>2, <2>3, GoesOn
  <2>5. QED
    BY <1>2, <2>4
<1>4. Debts' /\ Owed' = Owed \ {r}
  <2> DEFINE gone == Owes(task[t]) \cap {r}
             more == {}
  <2>1. /\ gone \subseteq Owes(task[t]) /\ more \cap Owed = {}
        /\ Owes(task'[t]) = (Owes(task[t]) \ gone) \cup more
        /\ OnceInStack(task'[t]) /\ Debts
        /\ \A u \in Task \ {t} : task'[u] = task[u]
    BY <1>2, <1>3 DEF Core
  <2>2. (Owed \ gone) \cup more = Owed \ {r}
    OBVIOUS
  <2> HIDE DEF gone, more
  <2>3. Debts' /\ Owed' = (Owed \ gone) \cup more
    BY <2>1, DebtsMove
  <2>4. QED
    BY <2>2, <2>3
<1>5. OnRun(t, r, {})
  BY <1>2, <1>3, <1>4 DEF OnRun
<1>6. QED
  BY <1>2, <1>3, <1>4, <1>5

\* The record that a walk saves, whether it was granted everything or not.
Walked(run, A, d, st) ==
    [run EXCEPT !.pending.slots = A, !.pending.waitingOn = d,
                !.pending.recorded = TRUE, !.status = st]

\* The record that a walk saves has its type, and says what the walk did.
LEMMA WalkRecord ==
    ASSUME NEW run \in Record, NEW A, A \subseteq Kind, NEW d \in Kind \cup {0},
           NEW st \in Status
    PROVE  /\ Walked(run, A, d, st) \in WorkflowRun /\ Walked(run, A, d, st) # None
           /\ Walked(run, A, d, st).status = st
           /\ Walked(run, A, d, st).pending.recorded
           /\ Walked(run, A, d, st).pending.slots = A
           /\ Walked(run, A, d, st).pending.waitingOn = d
           /\ PassKinds(Walked(run, A, d, st)) = PassKinds(run)
<1> DEFINE pass == [run.pending EXCEPT !.slots = A, !.waitingOn = d, !.recorded = TRUE]
           new == [run EXCEPT !.pending = pass, !.status = st]
<1>1. Walked(run, A, d, st) = new
  BY DEF Walked, Record, WorkflowRun, Pass
<1>2. /\ pass \in Pass /\ pass.recorded /\ pass.slots = A /\ pass.waitingOn = d
      /\ pass.start = run.pending.start /\ pass.step = run.pending.step
  BY DEF Record, WorkflowRun, Pass
<1> HIDE DEF pass
<1>3. /\ new \in WorkflowRun /\ new.status = st /\ new.decision = run.decision
      /\ new.pending = pass
  BY <1>2 DEF Record, WorkflowRun
<1> HIDE DEF new
<1>4. PassTarget(new) = PassTarget(run)
  BY <1>2, <1>3 DEF PassTarget
<1>5. QED
  BY <1>1, <1>2, <1>3, <1>4, NoneAssumption DEF PassKinds

\* Task t walks the ceilings for run r, which nobody else works on and which
\* holds the first kinds of its walk, if any.
LEMMA LaunchKeepsCore ==
    ASSUME ~AsyncAdapters, Typed, Typed', Core, NEW t \in Task, NEW r \in Run,
           loop = t, task[t] # <<>>, Top(t).run = r,
           NEW run \in Record, NEW stack, TryLaunch(t, r, run, stack),
           stack \in Seq(KnownFrame(registry)), AllPromote(stack), OnceInStack(stack),
           Owes(stack) = Owes(task[t]) \ {r},
           r \in Owed => r \in Owes(task[t]),
           \A u \in Task : ~Passing(u, r),
           \A k \in Kind :
               /\ ~InLine(r, k)
               /\ Holds(r, k) => /\ k \in PassKinds(run)
                                 /\ \A j \in PassKinds(run) : j < k => Holds(r, j)
    PROVE  Core'
<1> DEFINE K == PassKinds(run)
           d == FirstDenied(r, K)
           launched == [run EXCEPT !.pending.slots = K, !.pending.waitingOn = 0,
                                   !.pending.recorded = TRUE, !.status = "running"]
           waiting == [run EXCEPT !.pending.slots = {k \in K : k < d},
                                  !.pending.waitingOn = d,
                                  !.pending.recorded = TRUE, !.status = "queued"]
<1>1. K \subseteq Kind
  BY PassTargetType
<1>2. \/ /\ Denied(r, K) = {} /\ Acquire(r, K) /\ Save(r, launched) /\ Unlock(r)
         /\ Continue(t, <<At("engine", r, launched)>> \o stack)
      \/ /\ Denied(r, K) # {} /\ Acquire(r, {k \in K : k <= d}) /\ Save(r, waiting)
         /\ runLock' = [runLock EXCEPT ![r] = t]
         /\ Continue(t, <<At("queued", r, waiting)>> \o stack)
  BY DEF TryLaunch
<1>3. ASSUME NEW f, f.run = r, f.todo = {}, f.at \in {"engine", "queued"},
             Continue(t, <<f>> \o stack), LocksOnly(t, r, f.at \in UnderLock),
             NEW A, Acquire(r, A), Save(r, f.obj)
      PROVE  /\ Stacked' /\ Debts' /\ OnRun(t, r, {})
             /\ r \notin Owed'
             /\ loop' = IF f.at = "engine" THEN None ELSE t
             /\ task'[t] # <<>> /\ Head(task'[t]) = f
             /\ \A u \in Task \ {t} : task'[u] = task[u]
             /\ registry'[r] = f.obj
             /\ \A u \in Task : Passing(u, r)' <=> u = t /\ f.at = "engine"
  <2>1. registry'[r] = f.obj /\ \A q \in Run \ {r} : registry'[q] = registry[q]
    BY <1>3 DEF Save, Typed
  <2>2. \A k \in Kind, q \in Run \ {r} : /\ Holds(q, k)' <=> Holds(q, k)
                                         /\ InLine(q, k)' <=> InLine(q, k)
    BY <1>3, AcquireCeilings
  <2>3. f.at # "promote"
    BY <1>3
  <2>4. /\ Stacked' /\ Debts' /\ OnRun(t, r, {})
        /\ r \notin Owed'
        /\ loop' = IF f.at = "engine" THEN None ELSE t
        /\ task'[t] # <<>> /\ Head(task'[t]) = f
        /\ \A u \in Task \ {t} : task'[u] = task[u]
    BY <1>3, <2>1, <2>2, <2>3, LaunchMoves
  <2>5. \A u \in Task : Passing(u, r)' <=> u = t /\ f.at = "engine"
    BY <1>3, <2>4 DEF Passing, Top
  <2>6. QED
    BY <2>1, <2>4, <2>5
<1>4. /\ launched \in WorkflowRun /\ launched # None /\ launched.status = "running"
      /\ launched.pending.slots = K /\ launched.pending.recorded
      /\ launched.pending.waitingOn = 0 /\ PassKinds(launched) = K
  <2>1. launched = Walked(run, K, 0, "running")
    BY DEF Walked
  <2> HIDE DEF launched
  <2>2. QED
    BY <1>1, <2>1, WalkRecord DEF Status
<1>5. ASSUME Denied(r, K) # {}
      PROVE  /\ d \in Denied(r, K) /\ d \in Kind /\ d \in K
             /\ \A k \in Denied(r, K) : d <= k
             /\ waiting \in WorkflowRun /\ waiting # None /\ waiting.status = "queued"
             /\ waiting.pending.slots = {k \in K : k < d} /\ waiting.pending.recorded
             /\ waiting.pending.waitingOn = d /\ PassKinds(waiting) = K
  <2>1. /\ d \in Denied(r, K) /\ d \in Kind
        /\ \A k \in Denied(r, K) : d <= k
    BY <1>1, <1>5, FirstDeniedType
  <2>2. d \in K
    BY <2>1 DEF Denied
  <2> HIDE DEF d, K
  <2>3. {k \in K : k < d} \subseteq Kind
    BY <1>1
  <2>4. /\ waiting \in WorkflowRun /\ waiting # None /\ waiting.status = "queued"
        /\ waiting.pending.slots = {k \in K : k < d} /\ waiting.pending.recorded
        /\ waiting.pending.waitingOn = d /\ PassKinds(waiting) = PassKinds(run)
    <3>1. waiting = Walked(run, {k \in K : k < d}, d, "queued")
      BY DEF Walked
    <3> HIDE DEF waiting
    <3>2. QED
      BY <2>1, <2>3, <3>1, WalkRecord DEF Status
  <2>5. QED
    BY <2>1, <2>2, <2>4 DEF K
<1>6. \A k \in Kind :
          /\ ~InLine(r, k)
          /\ Holds(r, k) => k \in K /\ \A j \in K : j < k => Holds(r, j)
  OBVIOUS
<1> HIDE DEF launched, waiting, d, K
<1>7. CASE /\ Denied(r, K) = {} /\ Acquire(r, K) /\ Save(r, launched) /\ Unlock(r)
           /\ Continue(t, <<At("engine", r, launched)>> \o stack)
  <2> DEFINE f == At("engine", r, launched)
  <2>1. f.run = r /\ f.at = "engine" /\ f.todo = {} /\ f.obj = launched
    BY DEF At
  <2>2. Continue(t, <<f>> \o stack)
    BY <1>7
  <2> HIDE DEF f
  <2>3. LocksOnly(t, r, f.at \in UnderLock)
    BY <1>7, LockFacts DEF Core, LocksOnly
  <2>4. /\ Stacked' /\ Debts' /\ OnRun(t, r, {}) /\ r \notin Owed' /\ loop' = None
        /\ task'[t] # <<>> /\ Head(task'[t]) = f
        /\ registry'[r] = launched
        /\ \A u \in Task : Passing(u, r)' <=> u = t
    BY <1>3, <1>7, <2>1, <2>2, <2>3
  <2>5. \A k \in Kind : /\ Good(ceiling'[k], Limit[k])
                        /\ ~InLine(r, k)'
                        /\ Holds(r, k)' <=> k \in K
    BY <1>6, <1>7, AcquireCeilings DEF Denied
  <2>6. RunOk(r)'
    <3>1. PassOk(r)'
      BY <1>4, <2>1, <2>4 DEF PassOk, HasStatus, Saved, Top
    <3>2. LineOk(r)' /\ DebtOk(r)'
      BY <2>4, <2>5 DEF LineOk, DebtOk
    <3>3. HoldOk(r)'
      BY <1>4, <2>4, <2>5 DEF HoldOk, Saved
    <3>4. PaidOk(r)'
      BY <1>1, <1>4, <2>4, <2>5 DEF PaidOk, HasStatus
    <3>5. QED
      BY <3>1, <3>2, <3>3, <3>4 DEF RunOk
  <2>7. Copies'
    BY <2>4 DEF Copies
  <2>8. QED
    BY <2>4, <2>5, <2>6, <2>7, CoreKept
<1>8. CASE /\ Denied(r, K) # {} /\ Acquire(r, {k \in K : k <= d}) /\ Save(r, waiting)
           /\ runLock' = [runLock EXCEPT ![r] = t]
           /\ Continue(t, <<At("queued", r, waiting)>> \o stack)
  <2> DEFINE f == At("queued", r, waiting)
             A == {k \in K : k <= d}
  <2>1. f.run = r /\ f.at = "queued" /\ f.todo = {} /\ f.obj = waiting
    BY DEF At
  <2>2. Continue(t, <<f>> \o stack)
    BY <1>8
  <2> HIDE DEF f
  <2>3. LocksOnly(t, r, f.at \in UnderLock)
    <3>1. f.at \in UnderLock
      BY <2>1 DEF UnderLock
    <3>2. QED
      BY <1>8, <3>1, LockFacts, ZenonT(60) DEF Core, LocksOnly
  <2>4. /\ Stacked' /\ Debts' /\ OnRun(t, r, {}) /\ r \notin Owed' /\ loop' = t
        /\ task'[t] # <<>> /\ Head(task'[t]) = f
        /\ registry'[r] = waiting
        /\ \A u \in Task : ~Passing(u, r)'
    BY <1>3, <1>8, <2>1, <2>2, <2>3
  <2>5. ASSUME NEW k \in Kind
        PROVE  /\ Good(ceiling'[k], Limit[k])
               /\ InLine(r, k)' <=> k = d
               /\ Holds(r, k)' <=> k \in K /\ k < d
    <3> DEFINE granted == r \in AcquireSlot(ceiling[k], r, Limit[k]).active
    <3>1. k \in Nat /\ d \in Nat
      BY <1>5, <1>8, StepsAndKinds
    <3>2. /\ d \in Denied(r, K) /\ d \in K /\ \A j \in Denied(r, K) : d <= j
      BY <1>5, <1>8
    <3>3. k \in K => (k \in Denied(r, K) <=> ~granted)
      BY DEF Denied
    <3>4. /\ Good(ceiling'[k], Limit[k])
          /\ k \notin A => /\ Holds(r, k)' <=> Holds(r, k)
                           /\ InLine(r, k)' <=> InLine(r, k)
          /\ k \in A => /\ Holds(r, k)' <=> granted
                        /\ InLine(r, k)' <=> ~granted
      BY <1>8, AcquireCeilings
    <3>5. \A j \in Kind : Holds(r, j) /\ j \in K => j \notin Denied(r, K)
      BY <1>8, AcquireHolder DEF Denied, Holds
    <3> HIDE DEF granted, A
    <3>6. CASE k \in A
      <4>1. k \in K /\ k <= d
        BY <3>6 DEF A
      <4>2. CASE k = d
        BY <3>1, <3>2, <3>3, <3>4, <3>6, <4>2
      <4>3. CASE k # d
        <5>1. k < d
          BY <3>1, <4>1, <4>3
        <5>2. k \notin Denied(r, K)
          BY <3>1, <3>2, <5>1
        <5>3. QED
          BY <3>3, <3>4, <3>6, <4>1, <4>3, <5>1, <5>2
      <4>4. QED
        BY <4>2, <4>3
    <3>7. CASE k \notin A
      <4>1. k \notin K \/ d < k
        BY <3>1, <3>7 DEF A
      <4>2. ~Holds(r, k)
        <5>1. SUFFICES ASSUME Holds(r, k)
                       PROVE  FALSE
          OBVIOUS
        <5>2. k \in K /\ d < k
          BY <1>6, <4>1, <5>1
        <5>3. Holds(r, d)
          BY <1>6, <3>2, <5>1, <5>2
        <5>4. QED
          BY <1>5, <1>8, <3>2, <3>5, <5>3
      <4>3. QED
        BY <1>6, <3>1, <3>2, <3>4, <3>7, <4>1, <4>2
    <3>8. QED
      BY <3>6, <3>7
  <2>6. RunOk(r)'
    <3>1. PassOk(r)'
      BY <1>5, <1>8, <2>4 DEF PassOk, HasStatus
    <3>2. LineOk(r)' /\ DebtOk(r)'
      BY <1>5, <1>8, <2>4, <2>5 DEF LineOk, DebtOk, Saved
    <3>3. HoldOk(r)'
      BY <1>5, <1>8, <2>4, <2>5 DEF HoldOk, Saved
    <3>4. PaidOk(r)'
      BY <1>1, <1>5, <1>8, <2>4, <2>5 DEF PaidOk, HasStatus
    <3>5. QED
      BY <3>1, <3>2, <3>3, <3>4 DEF RunOk
  <2>7. Copies'
    BY <1>5, <1>8, <2>1, <2>4 DEF Copies, Top
  <2>8. QED
    BY <2>4, <2>5, <2>6, <2>7, CoreKept
<1>9. QED
  BY <1>2, <1>7, <1>8

\* A run that holds nothing asks for the slots of its first or its next pass.
LEMMA FreshLaunch ==
    ASSUME ~AsyncAdapters, Typed, Typed', Core, NEW t \in Task, NEW r \in Run,
           loop = t, task[t] # <<>>, Top(t).run = r, Top(t).at # "promote",
           NEW run \in Record, TryLaunch(t, r, run, Rest(t)), Quiet(r)
    PROVE  Core'
<1>1. /\ Rest(t) \in Seq(KnownFrame(registry)) /\ AllPromote(Rest(t))
      /\ OnceInStack(Rest(t)) /\ Owes(task[t]) = Owes(Rest(t))
      /\ Owes(task[t]) \subseteq Owed
  BY BelowFacts DEF Core, Below
<1>2. /\ r \notin Owed /\ \A u \in Task : ~Passing(u, r)
      /\ \A k \in Kind : ~InLine(r, k) /\ ~Holds(r, k)
  BY DEF Quiet
<1>3. Owes(Rest(t)) = Owes(task[t]) \ {r}
  BY <1>1, <1>2
<1>4. \A k \in Kind : /\ ~InLine(r, k)
                      /\ Holds(r, k) => /\ k \in PassKinds(run)
                                        /\ \A j \in PassKinds(run) : j < k => Holds(r, j)
  BY <1>2
<1>5. QED
  BY <1>1, <1>2, <1>3, <1>4, LaunchKeepsCore

\* A new run, or one that was decided on, asks for its slots.
LEMMA DecisionKeepsCore ==
    ASSUME ~AsyncAdapters, Typed, Typed', Core, NEW t \in Task,
           StartLaunch(t) \/ DecisionPublished(t)
    PROVE  Core'
<1>1. /\ task[t] # <<>> /\ loop \in {None, t} /\ Top(t).at \in {"created", "decided"}
  BY DEF StartLaunch, DecisionPublished, Resumes
<1>2. loop = t /\ loop # None
  BY <1>1, RunServiceAssumption DEF Core, Stacked
<1>3. PICK r \in Run : r = Top(t).run
  BY <1>1, ResumeType
<1>4. /\ registry[r] = Top(t).obj /\ registry[r] \in Record /\ Saved(r)
      /\ Top(t).step \in Step \cup {0}
  BY <1>1, <1>2, <1>3, ResumeType, NoneAssumption DEF Core, Copies, Saved, Record
<1>5. RunOk(r) /\ Top(t).at # "promote" /\ ~TopIs({"cancelled"}, r)
      /\ ~TopIs({"suspended", "terminal", "cancelled"}, r)
  BY <1>1, <1>2 DEF Core, TopIs
<1>6. CASE Top(t).at = "created"
  <2>1. StartLaunch(t)
    BY <1>6 DEF StartLaunch, DecisionPublished, Resumes
  <2> DEFINE run == [registry[r] EXCEPT !.pending = StartPass]
  <2>2. TryLaunch(t, r, run, Rest(t)) /\ run \in Record
    BY <1>3, <1>4, <2>1, PassTypes, UpdateTypes DEF StartLaunch
  <2>3. r \notin Owed /\ registry[r] = NewRun
    BY <1>2, <1>3, <1>4, <1>6 DEF Core, Copies
  <2>4. registry[r].status = "queued" /\ ~registry[r].pending.recorded
    BY <2>3 DEF NewRun, NoPass
  <2>5. Quiet(r)
    BY <1>5, <2>3, <2>4 DEF RunOk, PassOk, LineOk, HoldOk, Quiet
  <2> HIDE DEF run
  <2>6. QED
    BY <1>1, <1>2, <1>3, <1>5, <2>2, <2>5, FreshLaunch
<1>7. CASE Top(t).at = "decided"
  <2>1. DecisionPublished(t)
    BY <1>7 DEF StartLaunch, DecisionPublished, Resumes
  <2> DEFINE next == IF Top(t).action = "back" THEN StartPass ELSE ResumePass(Top(t).step)
             run == [registry[r] EXCEPT !.pending = next]
  <2>2. next \in Pass
    BY <1>4, PassTypes
  <2>3. TryLaunch(t, r, run, Rest(t))
    BY <1>3, <1>4, <2>1 DEF DecisionPublished
  <2> HIDE DEF next
  <2>4. run \in Record
    BY <1>4, <2>2, UpdateTypes
  <2>5. HasStatus(r, "awaiting_human")
    BY <1>2, <1>4, <1>7 DEF Core, Copies, HasStatus
  <2>6. Quiet(r)
    BY <1>5, <2>5, QuietInReview
  <2> HIDE DEF run
  <2>7. QED
    BY <1>1, <1>2, <1>3, <1>5, <2>3, <2>4, <2>6, FreshLaunch
<1>8. QED
  BY <1>1, <1>6, <1>7

\* A promotion that finds its run over.
LEMMA SkipKeepsCore ==
    ASSUME ~AsyncAdapters, Typed, Typed', Core, NEW t \in Task, NEW r \in Run,
           loop = t, task[t] # <<>>, Top(t).run = r, Top(t).at = "promote",
           HasStatus(r, "completed") \/ HasStatus(r, "failed") \/ HasStatus(r, "cancelled"),
           NEW stack, AllPromote(stack), OnceInStack(stack),
           Owes(stack) = Owes(task[t]) \ {r}, r \in Owes(task[t]),
           stack # <<>> => Head(stack).at = "promote" /\ AllPromote(Tail(stack)),
           Continue(t, stack), UNCHANGED <<registry, ceiling, runLock>>
    PROVE  Core'
<1>1. LocksOnly(t, r, FALSE)
  BY LockFacts DEF Core, UnderLock
<1>2. /\ Stacked'
      /\ task'[t] = stack
      /\ \A u \in Task \ {t} : task'[u] = task[u]
      /\ loop' \in {None, t}
  <2>1. \A q \in Run : runLock'[q] = None
    BY <1>1 DEF LocksOnly
  <2>2. Stacked
    BY DEF Core
  <2>3. QED
    BY <2>1, <2>2, GoesOn
<1>3. Debts' /\ Owed' = Owed \ {r}
  <2> DEFINE gone == {r}
             more == {}
  <2>1. /\ gone \subseteq Owes(task[t]) /\ more \cap Owed = {}
        /\ Owes(task'[t]) = (Owes(task[t]) \ gone) \cup more
        /\ OnceInStack(task'[t]) /\ Debts
        /\ \A u \in Task \ {t} : task'[u] = task[u]
    BY <1>2 DEF Core
  <2>2. (Owed \ gone) \cup more = Owed \ {r}
    OBVIOUS
  <2> HIDE DEF gone, more
  <2>3. Debts' /\ Owed' = (Owed \ gone) \cup more
    BY <2>1, DebtsMove
  <2>4. QED
    BY <2>2, <2>3
<1>4. \A q \in Run, k \in Kind : /\ InLine(q, k)' <=> InLine(q, k)
                                 /\ Holds(q, k)' <=> Holds(q, k)
  BY DEF InLine, Holds
<1>5. OnRun(t, r, {})
  BY <1>2, <1>3, <1>4 DEF OnRun
<1>6. ~TopIs({"suspended", "terminal", "cancelled"}, r) /\ ~TopIs({"cancelled"}, r)
  BY DEF TopIs
<1>7. /\ PassOk(r) /\ LineOk(r) /\ HoldOk(r) /\ UNCHANGED registry
      /\ Saved(r) /\ registry[r].status \in {"completed", "failed", "cancelled"}
  BY DEF Core, RunOk, HasStatus
<1>8. \A k \in Kind : ~InLine(r, k)' /\ ~Holds(r, k)'
  BY <1>4, <1>6, <1>7 DEF LineOk, HoldOk
<1>9. \A u \in Task : Passing(u, r)' => Passing(u, r) /\ Top(u)' = Top(u)
  BY <1>2 DEF Passing, Top
<1>10. RunOk(r)'
  <2>1. PassOk(r)'
    BY <1>7, <1>9 DEF PassOk, HasStatus, Saved
  <2>2. LineOk(r)' /\ DebtOk(r)' /\ HoldOk(r)'
    BY <1>3, <1>8 DEF LineOk, DebtOk, HoldOk
  <2>3. PaidOk(r)'
    BY <1>7 DEF PaidOk, HasStatus, Saved
  <2>4. QED
    BY <2>1, <2>2, <2>3 DEF RunOk
<1>11. Copies'
  BY <1>2 DEF Copies, Stacked, Top
<1>12. \A k \in Kind : Good(ceiling'[k], Limit[k])
  BY DEF Core
<1>13. QED
  BY <1>2, <1>3, <1>5, <1>10, <1>11, <1>12, CoreKept

\* PromotingFacts for a stack of the model and runs that it does not owe yet.
LEMMA PromotingOnce ==
    ASSUME NEW s \in Seq(KnownFrame(registry)), NEW todo, NEW next \in Promoting(todo, s),
           Once(todo), OnceInStack(s), {g[2] : g \in todo} \cap Owes(s) = {}
    PROVE  /\ Owes(next) = {g[2] : g \in todo} \cup Owes(s)
           /\ OnceInStack(next)
           /\ next = s \/ (next # <<>> /\ Head(next).at = "promote" /\ Tail(next) = s)
<1> DEFINE F == KnownFrame(registry) \cup
                {[At("promote", f[2], NewRun) EXCEPT !.todo = todo \ {f}] : f \in todo}
<1>1. \A f \in todo : [At("promote", f[2], NewRun) EXCEPT !.todo = todo \ {f}] \in F
  OBVIOUS
<1>2. KnownFrame(registry) \subseteq F
  OBVIOUS
<1> HIDE DEF F
<1>3. s \in Seq(F)
  BY <1>2
<1>4. CASE todo = {}
  BY <1>4 DEF Promoting
<1>5. CASE todo # {}
  <2>1. PICK f \in todo :
            next = <<[At("promote", f[2], NewRun) EXCEPT !.todo = todo \ {f}]>> \o s
    BY <1>5 DEF Promoting
  <2> DEFINE top == [At("promote", f[2], NewRun) EXCEPT !.todo = todo \ {f}]
  <2>2. top.at = "promote" /\ top.run = f[2] /\ top.todo = todo \ {f}
    BY DEF At
  <2>3. FrameOwes(top) = {g[2] : g \in todo}
    BY <2>2 DEF FrameOwes
  <2>4. OnceInFrame(top)
    BY <2>2 DEF Once, OnceInFrame
  <2>5. top \in F
    BY <1>1
  <2> HIDE DEF top
  <2>6. next = <<top>> \o s
    BY <2>1 DEF top
  <2>7. QED
    BY <1>3, <2>2, <2>3, <2>4, <2>5, <2>6, PushFacts
<1>6. QED
  BY <1>4, <1>5

\* A promotion is skipped, granted, or denied further down the line.
LEMMA PromoteKeepsCore ==
    ASSUME ~AsyncAdapters, Typed, Typed', Core, NEW t \in Task, Promote(t)
    PROVE  Core'
<1>1. task[t] # <<>> /\ loop \in {None, t} /\ Top(t).at = "promote"
  BY DEF Promote, Resumes
<1>2. loop = t /\ loop # None
  BY <1>1, RunServiceAssumption DEF Core, Stacked
<1>3. PICK r \in Run : r = Top(t).run
  BY <1>1, ResumeType
<1>4. PICK next \in Promoting(Top(t).todo, Rest(t)) :
         \/ /\ ~Saved(r) \/ IsTerminal(registry[r])
            /\ UNCHANGED <<registry, ceiling, runLock>>
            /\ Continue(t, next)
         \/ /\ Saved(r) /\ ~IsTerminal(registry[r])
            /\ TryLaunch(t, r, registry[r], next)
  BY <1>3 DEF Promote
<1>5. /\ Rest(t) \in Seq(KnownFrame(registry)) /\ AllPromote(Rest(t))
      /\ OnceInStack(Rest(t))
      /\ Owes(task[t]) = FrameOwes(Top(t)) \cup Owes(Rest(t))
      /\ OnceInFrame(Top(t)) /\ FrameOwes(Top(t)) \cap Owes(Rest(t)) = {}
      /\ Owes(task[t]) \subseteq Owed
  BY <1>1, BelowFacts DEF Core, Below
<1> DEFINE todo == Top(t).todo
           More == {g[2] : g \in todo}
<1>6. /\ FrameOwes(Top(t)) = {r} \cup More /\ r \notin More /\ Once(todo)
      /\ todo \subseteq Kind \X Run
  BY <1>1, <1>3, <1>5, ResumeType DEF FrameOwes, OnceInFrame
<1>7. next \in Seq(KnownFrame(registry))
  BY <1>4, <1>5, <1>6, PromotingType
<1>8. /\ Owes(next) = More \cup Owes(Rest(t)) /\ OnceInStack(next)
      /\ next = Rest(t) \/ (next # <<>> /\ Head(next).at = "promote" /\ Tail(next) = Rest(t))
  <2>1. /\ OnceInStack(Rest(t))
        /\ {g[2] : g \in todo} \cap Owes(Rest(t)) = {}
    BY <1>5, <1>6
  <2>2. next \in Promoting(todo, Rest(t))
    BY <1>4
  <2>3. Rest(t) \in Seq(KnownFrame(registry)) /\ Once(todo)
    BY <1>5, <1>6
  <2> HIDE DEF todo, More
  <2>4. /\ Owes(next) = {g[2] : g \in todo} \cup Owes(Rest(t))
        /\ OnceInStack(next)
        /\ next = Rest(t) \/ (next # <<>> /\ Head(next).at = "promote" /\ Tail(next) = Rest(t))
    BY <2>1, <2>2, <2>3, PromotingOnce
  <2>5. QED
    BY <2>4 DEF More
<1> HIDE DEF todo, More
<1>9. /\ Owes(next) = Owes(task[t]) \ {r} /\ r \in Owes(task[t]) /\ r \in Owed
  BY <1>5, <1>6, <1>8
<1>10. next # <<>> => Head(next).at = "promote" /\ AllPromote(Tail(next))
  BY <1>5, <1>8, PromoteTail
<1>11. AllPromote(next)
  <2>1. CASE next = <<>>
    BY <2>1 DEF AllPromote
  <2>2. CASE next # <<>>
    <3>1. ASSUME NEW i \in DOMAIN next
          PROVE  next[i].at = "promote"
      <4>1. /\ Len(next) \in Nat /\ DOMAIN next = 1..Len(next) /\ Head(next) = next[1]
            /\ DOMAIN Tail(next) = 1..(Len(next) - 1)
            /\ \A j \in 1..(Len(next) - 1) : Tail(next)[j] = next[j + 1]
        BY <1>7, <2>2
      <4>2. i = 1 \/ (i - 1 \in 1..(Len(next) - 1) /\ next[i] = Tail(next)[i - 1])
        BY <3>1, <4>1
      <4>3. QED
        BY <1>10, <2>2, <4>1, <4>2 DEF AllPromote
    <3>2. QED
      BY <3>1 DEF AllPromote
  <2>3. QED
    BY <2>1, <2>2
<1>12. /\ RunOk(r) /\ Saved(r) /\ registry[r] \in Record
       /\ registry[r].status \in {"queued"} \cup Terminal
       /\ registry[r].status = "queued" => registry[r].pending.recorded
       /\ \A k \in Kind : ~InLine(r, k)
  <2>1. RunOk(r)
    BY DEF Core
  <2>2. QED
    BY <1>9, <2>1 DEF RunOk, DebtOk, Typed, Saved
<1>13. CASE IsTerminal(registry[r])
  <2>1. UNCHANGED <<registry, ceiling, runLock>> /\ Continue(t, next)
    BY <1>4, <1>12, <1>13
  <2>2. HasStatus(r, "completed") \/ HasStatus(r, "failed") \/ HasStatus(r, "cancelled")
    BY <1>12, <1>13 DEF HasStatus, IsTerminal, Terminal
  <2>3. QED
    BY <1>1, <1>2, <1>3, <1>8, <1>9, <1>10, <1>11, <2>1, <2>2, SkipKeepsCore
<1>14. CASE ~IsTerminal(registry[r])
  <2> DEFINE d == registry[r].pending.waitingOn
             K == PassKinds(registry[r])
  <2>1. TryLaunch(t, r, registry[r], next)
    BY <1>4, <1>12, <1>14
  <2>2. HasStatus(r, "queued") /\ registry[r].pending.recorded
    BY <1>12, <1>14 DEF HasStatus, IsTerminal
  <2>3. /\ d \in K /\ registry[r].pending.slots = {k \in K : k < d}
        /\ \A k \in K : k < d => Holds(r, k)
        /\ Holds(r, d)
    BY <1>9, <1>12, <2>2 DEF RunOk, PaidOk
  <2>4. K \subseteq Kind /\ Kind \subseteq Nat
    BY <1>12, PassTargetType, StepsAndKinds
  <2>5. ASSUME NEW k \in Kind, Holds(r, k)
        PROVE  k \in K /\ \A j \in K : j < k => Holds(r, j)
    <3>1. k \in registry[r].pending.slots \/ k = d
      BY <1>12, <2>5 DEF RunOk, HoldOk
    <3>2. k \in K /\ k <= d
      BY <2>3, <2>4, <3>1
    <3>3. ASSUME NEW j \in K, j < k
          PROVE  Holds(r, j)
      <4>1. j \in Nat /\ k \in Nat /\ d \in Nat
        BY <2>3, <2>4, <2>5, <3>3
      <4>2. j < d
        BY <3>2, <3>3, <4>1
      <4>3. QED
        BY <2>3, <4>2
    <3>4. QED
      BY <3>2, <3>3
  <2>6. \A u \in Task : ~Passing(u, r)
    BY <1>12, <2>2 DEF RunOk, PassOk, HasStatus
  <2> HIDE DEF d
  <2>7. \A k \in Kind :
            /\ ~InLine(r, k)
            /\ Holds(r, k) => /\ k \in PassKinds(registry[r])
                              /\ \A j \in PassKinds(registry[r]) : j < k => Holds(r, j)
    BY <1>12, <2>5
  <2>8. QED
    BY <1>1, <1>2, <1>3, <1>7, <1>8, <1>9, <1>11, <1>12, <2>1, <2>6, <2>7, LaunchKeepsCore
<1>15. QED
  BY <1>13, <1>14

\* A lock that expires while the loop is idle changes neither task nor record.
LEMMA ExpiryKeepsCore ==
    ASSUME Core,
           UNCHANGED <<registry, ceiling, runLock, task, loop>>
    PROVE  Core'
<1>1. /\ Owed' = Owed
      /\ \A points, q : TopIs(points, q)' <=> TopIs(points, q)
      /\ \A t, q : Passing(t, q)' <=> Passing(t, q)
      /\ \A q, k : InLine(q, k)' <=> InLine(q, k)
      /\ \A q, k : Holds(q, k)' <=> Holds(q, k)
  BY DEF Owed, TopIs, Passing, InLine, Holds, Top
<1>2. Stacked' /\ Debts' /\ Copies'
  BY <1>1 DEF Core, Stacked, Debts, Copies, Top, Rest, TopIs
<1>3. ASSUME NEW q \in Run
      PROVE  RunOk(q)'
  <2>1. RunOk(q)
    BY DEF Core
  <2>2. PassOk(q)'
    BY <1>1, <2>1 DEF RunOk, PassOk, Saved, HasStatus, Top
  <2>3. LineOk(q)' /\ DebtOk(q)' /\ HoldOk(q)'
    BY <1>1, <2>1 DEF RunOk, LineOk, DebtOk, HoldOk, Saved
  <2>4. PaidOk(q)'
    BY <1>1, <2>1 DEF RunOk, PaidOk, HasStatus, Saved
  <2>5. QED
    BY <2>2, <2>3, <2>4 DEF RunOk
<1>4. \A k \in Kind : Good(ceiling'[k], Limit[k])
  BY DEF Core
<1>5. QED
  BY <1>2, <1>3, <1>4 DEF Core

\* With the memory adapters every handler runs to the engine without another
\* one in between, and everything Core says of stacks, promotions, passes,
\* lines and slots holds whenever a task has the event loop or gives it up:
\* service.py's _run_lock, _try_launch, _release_and_promote and _promote
\* keep one another's records true.
THEOREM CoreHolds == ASSUME ~AsyncAdapters PROVE Spec => []Core
<1>1. Init => Core
  <2> SUFFICES ASSUME Init
               PROVE  Core
    OBVIOUS
  <2>1. /\ \A t \in Task : task[t] = <<>>
        /\ loop = None
        /\ \A r \in Run : registry[r] = None /\ runLock[r] = None
        /\ \A k \in Kind : ceiling[k] = FreeCeiling
    BY DEF Init
  <2>2. \A k \in Kind : Good(ceiling[k], Limit[k])
    BY <2>1, FreeIsGood, RunServiceAssumption
  <2>3. \A t \in Task : Owes(task[t]) = {} /\ OnceInStack(task[t])
    BY <2>1 DEF Owes, OnceInStack
  <2>4. Owed = {} /\ Debts
    BY <2>3 DEF Owed, Debts
  <2>5. Stacked /\ Copies
    BY <2>1 DEF Stacked, Copies
  <2>6. \A q \in Run, k \in Kind : ~InLine(q, k) /\ ~Holds(q, k)
    BY <2>1 DEF InLine, Holds, Waiting, FreeCeiling
  <2>7. \A q \in Run : ~Saved(q)
    BY <2>1 DEF Saved
  <2>8. ASSUME NEW q \in Run
        PROVE  RunOk(q)
    BY <2>1, <2>4, <2>6, <2>7
       DEF RunOk, PassOk, LineOk, DebtOk, HoldOk, PaidOk, Passing, HasStatus
  <2>9. QED
    BY <2>2, <2>4, <2>5, <2>8 DEF Core
<1>2. Typed /\ Typed' /\ Core /\ [Next]_vars => Core'
  <2> SUFFICES ASSUME Typed, Typed', Core, [Next]_vars
               PROVE  Core'
    OBVIOUS
  <2>1. ASSUME NEW t \in Task, NEW r \in Run, Request(t, r)
        PROVE  Core'
    BY <2>1, StartKeepsCore, CancelKeepsCore, HumanKeepsCore
       DEF Request, RequestCancel, RequestRetry
  <2>2. ASSUME NEW t \in Task, NEW r \in Run, Sweep(t, r)
        PROVE  Core'
    BY <2>2, CancelKeepsCore, HumanKeepsCore DEF Sweep, SweepStalled, SweepBlocked
  <2>3. ASSUME NEW t \in Task, Engine(t)
        PROVE  Core'
    BY <2>3, EngineKeepsCore
  <2>4. ASSUME NEW t \in Task, Proceed(t)
        PROVE  Core'
    BY <2>4, PromoteKeepsCore, LeaveKeepsCore, DecisionKeepsCore, LockedKeepsCore,
       PublishedKeepsCore, HumanKeepsCore
       DEF Proceed
  <2>5. ASSUME NEW t \in Task, PublishRaises(t) \/ QueuedRaises(t)
        PROVE  Core'
    BY <2>5 DEF PublishRaises, QueuedRaises
  <2>6. CASE Restart
    BY <2>6 DEF Restart
  <2>7. ASSUME NEW x \in Target, LockExpires(x)
        PROVE  Core'
    BY <2>7, ExpiryKeepsCore DEF LockExpires
  <2>8. CASE UNCHANGED vars
    BY <2>8, ExpiryKeepsCore DEF vars
  <2>9. QED
    BY <2>1, <2>2, <2>3, <2>4, <2>5, <2>6, <2>7, <2>8 DEF Next
<1>3. QED
  BY <1>1, <1>2, TypedHolds, PTL DEF Spec

\* A run nobody works on is neither owed a promotion nor on top of a task.
LEMMA UnattendedIsIdle ==
    ASSUME Typed, Core, NEW r \in Run, Unattended(r)
    PROVE  /\ r \notin Owed
           /\ \A t \in Task : ~Passing(t, r)
           /\ \A points : ~TopIs(points, r)
<1>1. \A t \in Task : task[t] # <<>> => 1 \in DOMAIN task[t] /\ Top(t) = task[t][1]
  BY DEF Typed, Top
<1>2. \A t \in Task : task[t] # <<>> => Top(t).run # r
  BY <1>1 DEF Unattended
<1>3. r \notin Owed
  BY DEF Owed, Owes, FrameOwes, Unattended
<1>4. loop # None => loop \in Task /\ task[loop] # <<>>
  BY DEF Typed, Core, Stacked
<1>5. QED
  BY <1>2, <1>3, <1>4 DEF Passing, TopIs

\* With the memory adapters the engine never computes two passes of one run at
\* the same time: a run is launched only while it is queued or awaits its human,
\* and then no earlier pass of it is out.
THEOREM MemoryOnePassPerRun == ASSUME ~AsyncAdapters PROVE Spec => []OnePassPerRun
<1>1. Core => OnePassPerRun
  <2> SUFFICES ASSUME Core, NEW r \in Run
               PROVE  Cardinality(InFlight(r)) <= 1
    BY DEF OnePassPerRun
  <2>1. \A t, u \in InFlight(r) : t = u
    BY DEF Core, RunOk, PassOk, Passing, InFlight
  <2>2. CASE InFlight(r) = {}
    BY <2>2, FS_EmptySet
  <2>3. CASE InFlight(r) # {}
    <3>1. PICK t \in InFlight(r) : TRUE
      BY <2>3
    <3>2. InFlight(r) = {t}
      BY <2>1, <3>1
    <3>3. Cardinality({t}) = 1
      BY FS_Singleton
    <3>4. QED
      BY <3>2, <3>3
  <2>4. QED
    BY <2>2, <2>3
<1>2. QED
  BY <1>1, CoreHolds, PTL

\* The pass of a run that is not over holds all that it needs.
LEMMA LivePassHolds ==
    ASSUME Core, NEW r \in Run, InFlight(r) # {}, ~IsTerminal(registry[r])
    PROVE  \A k \in PassKinds(registry[r]) : r \in ceiling[k].active
<1>1. PICK t \in Task : Passing(t, r)
  BY DEF InFlight, Passing
<1>2. RunOk(r)
  BY DEF Core
<1>3. HasStatus(r, "running")
  BY <1>1, <1>2 DEF RunOk, PassOk, HasStatus, IsTerminal, Terminal
<1>4. QED
  BY <1>2, <1>3 DEF RunOk, PaidOk, Holds

\* With the memory adapters a pass of a run that is not over holds every slot
\* of its step's kinds: what _try_launch was granted is given back only when
\* the pass is out or the run is cancelled.
THEOREM MemoryPassHoldsItsSlots ==
    ASSUME ~AsyncAdapters PROVE Spec => []PassHoldsItsSlots
<1>1. Core => PassHoldsItsSlots
  BY LivePassHolds DEF PassHoldsItsSlots
<1>2. QED
  BY <1>1, CoreHolds, PTL

\* With the memory adapters the cap of a kind bounds the passes in flight
\* that need it, not only the slots on record: README.md's "configurable caps
\* on concurrent runs; over-cap work queues".
THEOREM MemoryCapBoundsPasses ==
    ASSUME ~AsyncAdapters PROVE Spec => []CapBoundsPasses
<1>1. Core => CapBoundsPasses
  <2> SUFFICES ASSUME Core, NEW k \in Kind
               PROVE  Cardinality({r \in Run : /\ InFlight(r) # {}
                                               /\ ~IsTerminal(registry[r])
                                               /\ k \in PassKinds(registry[r])}) <= Limit[k]
    BY DEF CapBoundsPasses
  <2> DEFINE S == {r \in Run : /\ InFlight(r) # {}
                               /\ ~IsTerminal(registry[r])
                               /\ k \in PassKinds(registry[r])}
  <2>1. S \subseteq ceiling[k].active
    BY LivePassHolds
  <2>2. Good(ceiling[k], Limit[k])
    BY DEF Core
  <2>3. /\ ceiling[k].active \subseteq Run
        /\ Cardinality(ceiling[k].active) <= Limit[k]
    BY <2>2 DEF Good, Ceiling
  <2> HIDE DEF S
  <2>4. IsFiniteSet(ceiling[k].active)
    BY <2>3, RunAssumption, FS_Subset
  <2>5. Cardinality(S) <= Cardinality(ceiling[k].active)
    BY <2>1, <2>4, FS_Subset
  <2>6. IsFiniteSet(S)
    BY <2>1, <2>4, FS_Subset
  <2>7. /\ Cardinality(S) \in Nat /\ Cardinality(ceiling[k].active) \in Nat
        /\ Limit[k] \in Nat
    BY <2>4, <2>6, FS_CardinalityType, RunServiceAssumption
  <2>8. QED
    BY <2>3, <2>5, <2>7 DEF S
<1>2. QED
  BY <1>1, CoreHolds, PTL

\* With the memory adapters no exit path of a pass keeps a slot: a run that
\* no task is busy with holds slots only while it is queued for another one.
THEOREM MemoryNoSlotLeaks == ASSUME ~AsyncAdapters PROVE Spec => []NoSlotLeaks
<1>1. Typed /\ Core => NoSlotLeaks
  <2> SUFFICES ASSUME Typed, Core, NEW r \in Run, NEW k \in Kind,
                      Saved(r), Unattended(r), r \in ceiling[k].active
               PROVE  registry[r].status = "queued" /\ k \in registry[r].pending.slots
    BY DEF NoSlotLeaks
  <2>1. RunOk(r) /\ Holds(r, k)
    BY DEF Core, Holds
  <2>2. QED
    BY <2>1, UnattendedIsIdle DEF RunOk, HoldOk, PassOk, HasStatus
<1>2. QED
  BY <1>1, TypedHolds, CoreHolds, PTL

\* With the memory adapters a queued run that no task is busy with is in the
\* line that its record names, so that the release of that kind will find it:
\* no promotion is lost between _release_slots and _promote.
THEOREM MemoryQueuedIsInLine == ASSUME ~AsyncAdapters PROVE Spec => []QueuedIsInLine
<1>1. Typed /\ Core => QueuedIsInLine
  <2> SUFFICES ASSUME Typed, Core, NEW r \in Run, HasStatus(r, "queued"), Unattended(r)
               PROVE  /\ registry[r].pending.waitingOn # 0
                      /\ r \in Waiting(ceiling[registry[r].pending.waitingOn])
    BY DEF QueuedIsInLine
  <2>1. RunOk(r) /\ Saved(r) /\ registry[r] \in Record
    BY DEF Core, HasStatus, Saved, Typed
  <2>2. PassKinds(registry[r]) \subseteq Kind
    BY <2>1, PassTargetType
  <2>3. /\ registry[r].pending.waitingOn \in PassKinds(registry[r])
        /\ InLine(r, registry[r].pending.waitingOn)
    BY <2>1, UnattendedIsIdle DEF RunOk, PaidOk
  <2>4. QED
    BY <2>2, <2>3 DEF Kind, InLine
<1>2. QED
  BY <1>1, TypedHolds, CoreHolds, PTL

----------------------------------------------------------------------------
(***************************************************************************)
(* What the run service with the memory adapters decides, executes and     *)
(* owns, for any number of runs, tasks and steps, and the refinement of    *)
(* GovernedRun.                                                            *)
(*                                                                         *)
(* An approved action is executed once because the engine skips a step     *)
(* whose recorded effect has the hash of its decision. That this is enough *)
(* needs the record to be true whenever a pass is computed from it: Fresh  *)
(* (a decision that is not on record as executed was not executed),        *)
(* Reported (what is on record was), for the saved record and for the copy *)
(* that a pass carries. They rest on Core: a run has one pass, and nobody  *)
(* else changes its record while the pass is out, except a cancel, after   *)
(* which the outcome is thrown away. RecordOk, PassedOk, ApprovingOk and   *)
(* OwnerOk are the parts of the invariant Ledger; each step is shown to    *)
(* keep them for the run that it works on, and to leave every other run    *)
(* alone.                                                                  *)
(***************************************************************************)

\* Which of a record's decisions `done` has executed is on record as an effect.
Fresh(r, run, done) ==
    \A s \in Step :
        run.decision[s].action \in Forward /\ <<r, s, run.decision[s]>> \in done =>
            run.effects[s] = run.decision[s]

\* What is on record as an effect was executed.
Reported(r, run, done) ==
    \A s \in Step :
        run.effects[s].action \in Forward => <<r, s, run.effects[s]>> \in done

\* Every step was decided to go on, and its effect, if it has one, is on record.
Finished(run) ==
    \A s \in Step :
        /\ run.decision[s].action \in Forward
        /\ s \in SideEffecting => run.effects[s] = run.decision[s]

\* Everything before a step in review was decided to go on.
Reached(run) ==
    \A q \in InReview(run), s \in Step : s < q => run.decision[s].action \in Forward

\* One step is in review, with its artifact, and everything before it is done.
OneReviewed(run) ==
    \E s \in Step :
        /\ InReview(run) = {s}
        /\ run.artifact[s] # None
        /\ \A q \in Step : q < s => run.state[q] = "done"

\* The saved record of run q.  While a conflict is announced the effects of the
\* pass are only on the copy that is saved next.
RecordOk(q) ==
    Saved(q) =>
        LET run == registry[q]
        IN  /\ Reported(q, run, ran)
            /\ ~IsTerminal(run) => /\ Reached(run)
                                   /\ ~TopIs({"locked"}, q) => Fresh(q, run, ran)
            /\ run.status = "completed" => Finished(run)
            /\ run.status \in {"awaiting_human", "blocked"} /\ ~TopIs({"decided"}, q) =>
                   OneReviewed(run)

\* The copy a pass of run q computes from, or parks.
PassedOk(q) ==
    \A t \in Task : Passing(t, q) =>
        /\ Fresh(q, Top(t).obj, ran) /\ Reported(q, Top(t).obj, ran)
        /\ Top(t).at = "locked" => OneReviewed(Top(t).obj) /\ Reached(Top(t).obj)

\* An approval that is being written was not remembered before.
ApprovingOk(q) ==
    TopIs({"approving"}, q) =>
        LET f == Top(loop)
        IN  <<q, f.step, Approval(f.obj, f.step, f.action)>> \notin receipts

\* Unless locks expire, the owner on a live run's record has the lock.
OwnerOk(q) ==
    spent.expiries = 0 => \A x \in Target : Owns(q, x) => locks[x] = q

\* What the record, the pass, the approval under way and the lock of q say.
LedgerOf(q) == RecordOk(q) /\ PassedOk(q) /\ ApprovingOk(q) /\ OwnerOk(q)

\* No effect was executed twice, and every run's ledger is right.
Ledger == ranAgain = {} /\ \A q \in Run : LedgerOf(q)

----------------------------------------------------------------------------
(***************************************************************************)
(* Steps that leave decisions, effects and steps as they are.              *)
(***************************************************************************)

\* The record of q is replaced by one that says the same of its steps.
Carried(q) ==
    /\ Saved(q) /\ registry'[q] # None
    /\ registry'[q].decision = registry[q].decision
    /\ registry'[q].effects = registry[q].effects
    /\ registry'[q].state = registry[q].state
    /\ registry'[q].artifact = registry[q].artifact
    /\ registry'[q].lockTarget = registry[q].lockTarget
    /\ registry'[q].lockOwner \in {registry[q].lockOwner, None}
    /\ IsTerminal(registry[q]) => registry'[q].status = registry[q].status
    /\ registry'[q].status \in {"completed", "awaiting_human", "blocked"} =>
           registry'[q].status = registry[q].status

\* The record of q is the one it was, or says the same of its steps.
Carries(q) == registry'[q] = registry[q] \/ Carried(q)

\* No effect of run q is executed.
NoEffect(q) == \A s, d : <<q, s, d>> \in ran' => <<q, s, d>> \in ran

\* A pass of q is the one it was, or computed from the record as it is saved now.
PassKept(q) ==
    \A u \in Task : Passing(u, q)' =>
        \/ Passing(u, q) /\ Top(u)' = Top(u)
        \/ /\ Top(u)'.at = "engine" /\ Top(u)'.obj = registry'[q]
           /\ registry'[q] # None /\ registry'[q].status = "running"

\* Unless a lock expired, a run that is not over keeps the targets it has.
LockKept(q) ==
    spent'.expiries = 0 =>
        IsTerminal(registry[q]) \/ \A x \in Target : locks[x] = q => locks'[x] = q

\* A step that leaves a run's steps alone leaves its ledger right.
LEMMA CarriedStays ==
    ASSUME NEW q \in Run, LedgerOf(q), Carries(q), ran \subseteq ran',
           NoEffect(q) \/ (IsTerminal(registry[q]) /\ \A u \in Task : ~Passing(u, q)'),
           ~TopIs({"locked"}, q),
           TopIs({"decided"}, q) =>
               \/ TopIs({"decided"}, q)'
               \/ registry'[q].status \notin {"awaiting_human", "blocked"},
           PassKept(q), ~TopIs({"approving"}, q)', LockKept(q),
           spent'.expiries = 0 => spent.expiries = 0
    PROVE  LedgerOf(q)'
<1> DEFINE run == registry[q]
           now == registry'[q]
<1>1. ASSUME Saved(q)'
      PROVE  /\ Saved(q)
             /\ now.decision = run.decision /\ now.effects = run.effects
             /\ now.state = run.state /\ now.artifact = run.artifact
             /\ now.lockTarget = run.lockTarget
             /\ now.lockOwner \in {run.lockOwner, None}
             /\ IsTerminal(run) => now.status = run.status
             /\ now.status \in {"completed", "awaiting_human", "blocked"} =>
                    now.status = run.status
  BY <1>1 DEF Carries, Carried, Saved
<1>2. ASSUME Saved(q)', ~IsTerminal(now)
      PROVE  /\ ~IsTerminal(run) /\ NoEffect(q)
             /\ Reached(run) /\ Fresh(q, run, ran) /\ Reported(q, run, ran)
  <2>1. ~IsTerminal(run)
    BY <1>1, <1>2 DEF IsTerminal
  <2>2. QED
    BY <1>1, <1>2, <2>1 DEF LedgerOf, RecordOk
<1>3. ASSUME Saved(q)'
      PROVE  RecordOk(q)'
  <2>1. Reported(q, now, ran')
    BY <1>1, <1>3 DEF LedgerOf, RecordOk, Reported
  <2>2. ASSUME ~IsTerminal(now)
        PROVE  Reached(now) /\ Fresh(q, now, ran')
    BY <1>1, <1>2, <1>3, <2>2 DEF Reached, InReview, Fresh, NoEffect
  <2>3. now.status = "completed" => Finished(now)
    BY <1>1, <1>3 DEF LedgerOf, RecordOk, Finished
  <2>4. ASSUME now.status \in {"awaiting_human", "blocked"}, ~TopIs({"decided"}, q)'
        PROVE  OneReviewed(now)
    <3>1. OneReviewed(run)
      BY <1>1, <1>3, <2>4 DEF LedgerOf, RecordOk
    <3>2. InReview(now) = InReview(run)
      BY <1>1, <1>3 DEF InReview
    <3>3. QED
      BY <1>1, <1>3, <3>1, <3>2 DEF OneReviewed
  <2>5. QED
    BY <2>1, <2>2, <2>3, <2>4 DEF RecordOk, IsTerminal
<1>4. PassedOk(q)'
  <2>1. SUFFICES ASSUME NEW u \in Task, Passing(u, q)'
                 PROVE  /\ Fresh(q, Top(u)'.obj, ran') /\ Reported(q, Top(u)'.obj, ran')
                        /\ Top(u)'.at = "locked" =>
                               OneReviewed(Top(u)'.obj) /\ Reached(Top(u)'.obj)
    BY DEF PassedOk, Fresh, Reported, OneReviewed, Reached, InReview
  <2>2. NoEffect(q)
    BY <2>1
  <2>3. CASE Passing(u, q) /\ Top(u)' = Top(u)
    <3>1. /\ Fresh(q, Top(u).obj, ran) /\ Reported(q, Top(u).obj, ran)
          /\ Top(u).at = "locked" => OneReviewed(Top(u).obj) /\ Reached(Top(u).obj)
      BY <2>3 DEF LedgerOf, PassedOk
    <3> DEFINE obj == Top(u).obj
    <3> HIDE DEF obj
    <3>2. Fresh(q, obj, ran') /\ Reported(q, obj, ran')
      BY <2>2, <3>1 DEF obj, Fresh, Reported, NoEffect
    <3>3. QED
      BY <2>3, <3>1, <3>2 DEF obj
  <2>4. CASE /\ Top(u)'.at = "engine" /\ Top(u)'.obj = now
             /\ now # None /\ now.status = "running"
    <3>1. Saved(q)' /\ ~IsTerminal(now)
      BY <2>4 DEF Saved, IsTerminal, Terminal
    <3>2. Fresh(q, now, ran') /\ Reported(q, now, ran')
      BY <1>1, <1>2, <3>1 DEF Fresh, Reported, NoEffect
    <3>3. QED
      BY <2>4, <3>2
  <2>5. QED
    BY <2>1, <2>3, <2>4 DEF PassKept
<1>5. OwnerOk(q)'
  <2>1. SUFFICES ASSUME spent'.expiries = 0, NEW x \in Target, Owns(q, x)'
                 PROVE  locks'[x] = q
    BY DEF OwnerOk
  <2>2. Saved(q)' /\ ~IsTerminal(now) /\ now.lockTarget = x /\ now.lockOwner = q
    BY <2>1 DEF Owns, IsTerminal
  <2>3. ~IsTerminal(run)
    BY <1>2, <2>2
  <2>4. Owns(q, x)
    BY <1>1, <2>2, <2>3, RunServiceAssumption DEF Owns
  <2>5. QED
    BY <2>1, <2>3, <2>4 DEF LedgerOf, OwnerOk, LockKept
<1>6. QED
  BY <1>3, <1>4, <1>5 DEF LedgerOf, RecordOk, ApprovingOk

----------------------------------------------------------------------------
\* A step of task t that works on run r.
StepsOn(t, r) ==
    /\ loop \in {None, t} /\ loop' \in {None, t}
    /\ \A u \in Task \ {t} : task'[u] = task[u]
    /\ task[t] # <<>> => Top(t).run = r
    /\ task'[t] # <<>> => Head(task'[t]).run = r \/ Head(task'[t]).at = "promote"
    /\ \A q \in Run \ {r} : registry'[q] = registry[q] /\ NoEffect(q) /\ LockKept(q)
    /\ ran \subseteq ran'

\* A step on run r leaves the ledger of every other run right.
LEMMA OthersStay ==
    ASSUME Core, Core', NEW t \in Task, NEW r \in Run, StepsOn(t, r),
           NEW q \in Run \ {r}, LedgerOf(q),
           spent'.expiries = 0 => spent.expiries = 0
    PROVE  LedgerOf(q)'
<1>1. \A points : ~TopIs(points, q)
  BY DEF StepsOn, TopIs, Core, Stacked
<1>2. ~TopIs({"approving"}, q)'
  BY DEF StepsOn, TopIs, Core, Stacked, Top
<1>3. PassKept(q)
  BY DEF StepsOn, PassKept, Passing, Top
<1>4. Carries(q) /\ NoEffect(q) /\ LockKept(q) /\ ran \subseteq ran'
  BY DEF StepsOn, Carries
<1>5. QED
  BY <1>1, <1>2, <1>3, <1>4, CarriedStays

\* It is enough to look at the run that the task works on.
LEMMA StepKeepsLedger ==
    ASSUME Core, Core', Ledger, NEW t \in Task, NEW r \in Run, StepsOn(t, r),
           ranAgain' = {}, LedgerOf(r)',
           spent'.expiries = 0 => spent.expiries = 0
    PROVE  Ledger'
BY OthersStay DEF Ledger

\* Task t goes on, and the record of r says the same of its steps.
LEMMA SchedulesLedger ==
    ASSUME Core, Core', Ledger, NEW t \in Task, NEW r \in Run, StepsOn(t, r),
           Carries(r), LockKept(r), ranAgain' = {},
           NoEffect(r) \/ (IsTerminal(registry[r]) /\ \A u \in Task : ~Passing(u, r)'),
           loop = t => Top(t).at # "locked",
           loop = t /\ Top(t).at = "decided" =>
               registry'[r].status \notin {"awaiting_human", "blocked"},
           task'[t] # <<>> =>
               /\ Head(task'[t]).at \notin {"locked", "approving"}
               /\ Head(task'[t]).at = "engine" =>
                      /\ Head(task'[t]).obj = registry'[r] /\ Saved(r)'
                      /\ registry'[r].status = "running",
           spent'.expiries = 0 => spent.expiries = 0
    PROVE  Ledger'
<1>1. ~TopIs({"locked"}, r)
  BY DEF StepsOn, TopIs
<1>2. TopIs({"decided"}, r) => registry'[r].status \notin {"awaiting_human", "blocked"}
  BY DEF StepsOn, TopIs
<1>3. ~TopIs({"approving"}, r)'
  BY DEF StepsOn, TopIs, Core, Stacked, Top
<1>4. PassKept(r)
  BY DEF StepsOn, PassKept, Passing, Top, Saved
<1>5. ran \subseteq ran' /\ LedgerOf(r)
  BY DEF StepsOn, Ledger
<1>6. LedgerOf(r)'
  BY <1>1, <1>2, <1>3, <1>4, <1>5, CarriedStays
<1>7. QED
  BY <1>6, StepKeepsLedger

----------------------------------------------------------------------------
\* How a task goes on.
LEMMA Continues ==
    ASSUME Typed, Typed', NEW t \in Task, NEW stack, Continue(t, stack)
    PROVE  /\ task'[t] = stack /\ loop' \in {None, t}
           /\ \A u \in Task \ {t} : task'[u] = task[u]
BY DEF Continue, Typed

\* When a frame is done, a promotion comes next or the task is done too.
LEMMA PoppedTop ==
    ASSUME NEW F, NEW s \in Seq(F), AllPromote(s), NEW todo, NEW next \in Promoting(todo, s),
           next # <<>>
    PROVE  Head(next).at = "promote"
<1>1. CASE next = s
  BY <1>1, PromoteTail
<1>2. CASE next # s
  <2>1. PICK f \in todo :
            next = <<[At("promote", f[2], NewRun) EXCEPT !.todo = todo \ {f}]>> \o s
    BY <1>2 DEF Promoting
  <2>2. Head(next) = [At("promote", f[2], NewRun) EXCEPT !.todo = todo \ {f}]
    BY <2>1
  <2>3. QED
    BY <2>2 DEF At
<1>3. QED
  BY <1>1, <1>2

\* Changes of a record that say nothing of its steps.
LEMMA SameFields ==
    ASSUME NEW run \in Record
    PROVE  /\ \A p : LET new == [run EXCEPT !.pending = p]
                     IN  /\ new.decision = run.decision /\ new.effects = run.effects
                         /\ new.state = run.state /\ new.artifact = run.artifact
                         /\ new.lockTarget = run.lockTarget
                         /\ new.lockOwner = run.lockOwner /\ new.status = run.status
           /\ \A p, st : LET new == [run EXCEPT !.pending = p, !.status = st]
                         IN  /\ new.decision = run.decision /\ new.effects = run.effects
                             /\ new.state = run.state /\ new.artifact = run.artifact
                             /\ new.lockTarget = run.lockTarget
                             /\ new.lockOwner = run.lockOwner /\ new.status = st
BY DEF Record, WorkflowRun

\* The record that a walk saves says nothing new of its steps.
LEMMA WalkedSays ==
    ASSUME NEW run \in Record, NEW A, NEW d, NEW st
    PROVE  LET new == Walked(run, A, d, st)
           IN  /\ new.decision = run.decision /\ new.effects = run.effects
               /\ new.state = run.state /\ new.artifact = run.artifact
               /\ new.lockTarget = run.lockTarget
               /\ new.lockOwner = run.lockOwner /\ new.status = st
<1> DEFINE pass == [run.pending EXCEPT !.slots = A, !.waitingOn = d, !.recorded = TRUE]
<1>1. Walked(run, A, d, st) = [run EXCEPT !.pending = pass, !.status = st]
  BY DEF Walked, Record, WorkflowRun, Pass
<1> HIDE DEF pass
<1>2. QED
  BY <1>1, SameFields

\* A live run's record asks for its slots.
LEMMA LaunchLedger ==
    ASSUME Typed, Typed', Core, Core', Ledger, NEW t \in Task, NEW r \in Run,
           loop \in {None, t}, task[t] # <<>>, Top(t).run = r, Top(t).at # "locked",
           Saved(r), ~IsTerminal(registry[r]), registry[r] \in Record,
           NEW run \in Record, registry[r].decision = run.decision,
           registry[r].effects = run.effects, registry[r].state = run.state,
           registry[r].artifact = run.artifact,
           registry[r].lockTarget = run.lockTarget,
           registry[r].lockOwner = run.lockOwner,
           NEW stack \in Seq(KnownFrame(registry)), TryLaunch(t, r, run, stack),
           UNCHANGED <<locks, ran, ranAgain>>,
           spent'.expiries = 0 => spent.expiries = 0
    PROVE  Ledger'
<1>1. PICK A, d, st :
          /\ st \in {"running", "queued"}
          /\ Save(r, Walked(run, A, d, st))
          /\ Continue(t, <<At(IF st = "running" THEN "engine" ELSE "queued", r,
                              Walked(run, A, d, st))>> \o stack)
  BY DEF TryLaunch, Walked
<1> DEFINE new == Walked(run, A, d, st)
           f == At(IF st = "running" THEN "engine" ELSE "queued", r, new)
<1>2. /\ new.decision = run.decision /\ new.effects = run.effects
      /\ new.state = run.state /\ new.artifact = run.artifact
      /\ new.lockTarget = run.lockTarget
      /\ new.lockOwner = run.lockOwner /\ new.status = st
  BY WalkedSays
<1>3. registry'[r] = new /\ \A q \in Run \ {r} : registry'[q] = registry[q]
  BY <1>1 DEF Save, Typed
<1>4. /\ f.run = r /\ f.obj = new /\ f.at \in {"engine", "queued"}
      /\ f.at = "engine" => st = "running"
  BY <1>1 DEF At
<1> HIDE DEF new
<1>5. Continue(t, <<f>> \o stack)
  BY <1>1 DEF new
<1> HIDE DEF f
<1>6. Head(<<f>> \o stack) = f /\ <<f>> \o stack # <<>>
  OBVIOUS
<1>7. /\ task'[t] # <<>> /\ Head(task'[t]) = f /\ loop' \in {None, t}
      /\ \A u \in Task \ {t} : task'[u] = task[u]
  BY <1>5, <1>6, Continues
<1>8. new # None
  <2>1. Head(task'[t]) \in KnownFrame(registry')
    BY <1>7 DEF Typed
  <2>2. registry'[r] \in Record
    BY <1>4, <1>7, <2>1 DEF KnownFrame
  <2>3. QED
    BY <1>3, <2>2, NoneAssumption DEF Record
<1>9. StepsOn(t, r) /\ LockKept(r) /\ NoEffect(r)
  BY <1>3, <1>4, <1>7 DEF StepsOn, LockKept, NoEffect
<1>10. Carries(r)
  BY <1>1, <1>2, <1>8, <1>3 DEF Carries, Carried
<1>11. ranAgain' = {}
  BY DEF Ledger
<1>12. QED
  BY <1>1, <1>2, <1>8, <1>3, <1>4, <1>7, <1>9, <1>10, <1>11, SchedulesLedger DEF Saved

\* The slots of r go back, and with them perhaps its target.
LEMMA ReleaseLedger ==
    ASSUME Typed, Typed', Core, Core', Ledger, NEW t \in Task, NEW r \in Run,
           loop \in {None, t}, task[t] # <<>>, Top(t).run = r,
           Top(t).at \notin {"locked", "promote", "decided"},
           Saved(r), registry[r] \in Record, NEW run \in Record,
           run.status = registry[r].status, run.decision = registry[r].decision,
           run.effects = registry[r].effects, run.state = registry[r].state,
           run.artifact = registry[r].artifact,
           run.lockTarget = registry[r].lockTarget,
           run.lockOwner \in {registry[r].lockOwner, None},
           NEW changed, ReleaseAndPromote(t, r, run, changed, Rest(t)),
           ran \subseteq ran', ranAgain' = {},
           \A q \in Run \ {r} : NoEffect(q),
           NoEffect(r) \/ (IsTerminal(registry[r]) /\ Top(t).at = "engine"),
           \A q \in Run : LockKept(q),
           spent'.expiries = 0 => spent.expiries = 0
    PROVE  Ledger'
<1> DEFINE new == [run EXCEPT !.pending = NoPass]
           P == PromotedByRelease(r, run)
<1>1. /\ Save(r, new) \/ UNCHANGED registry
      /\ \E next \in Promoting(P, Rest(t)) : Continue(t, next)
  BY DEF ReleaseAndPromote
<1>2. PICK next \in Promoting(P, Rest(t)) : Continue(t, next)
  BY <1>1
<1>3. /\ new.decision = run.decision /\ new.effects = run.effects
      /\ new.state = run.state /\ new.artifact = run.artifact
      /\ new.lockTarget = run.lockTarget
      /\ new.lockOwner = run.lockOwner /\ new.status = run.status
  BY SameFields
<1>4. new # None
  BY UpdateTypes, PassTypes, NoneAssumption DEF Record
<1> HIDE DEF new, P
<1>5. /\ registry'[r] = new \/ registry'[r] = registry[r]
      /\ \A q \in Run \ {r} : registry'[q] = registry[q]
  BY <1>1 DEF Save, Typed
<1>6. Carries(r)
  BY <1>3, <1>4, <1>5 DEF Carries, Carried
<1>7. Rest(t) \in Seq(KnownFrame(registry)) /\ AllPromote(Rest(t))
  BY ResumeType DEF Core, Stacked
<1>8. /\ task'[t] = next /\ loop' \in {None, t}
      /\ \A u \in Task \ {t} : task'[u] = task[u]
  BY <1>2, Continues
<1>9. task'[t] # <<>> => Head(task'[t]).at = "promote"
  BY <1>7, <1>8, PoppedTop
<1>10. StepsOn(t, r)
  BY <1>5, <1>8, <1>9 DEF StepsOn
<1>11. ASSUME Top(t).at = "engine", NEW u \in Task, Passing(u, r)'
       PROVE  FALSE
  <2>1. u # t
    BY <1>9, <1>11 DEF Passing, Top
  <2>2. Passing(u, r) /\ Passing(t, r)
    BY <1>8, <1>11, <2>1 DEF Passing, Top
  <2>3. QED
    BY <2>1, <2>2 DEF Core, RunOk, PassOk
<1>12. QED
  BY <1>6, <1>9, <1>10, <1>11, SchedulesLedger

\* A task leaves the lock of r, or skips its promotion.
LEMMA PopLedger ==
    ASSUME Typed, Typed', Core, Core', Ledger, NEW t \in Task, NEW r \in Run,
           loop \in {None, t}, task[t] # <<>>, Top(t).run = r,
           Top(t).at \notin {"locked", "decided"},
           NEW todo, NEW next \in Promoting(todo, Rest(t)), Continue(t, next),
           UNCHANGED <<registry, locks, ran, ranAgain>>,
           spent'.expiries = 0 => spent.expiries = 0
    PROVE  Ledger'
<1>1. Rest(t) \in Seq(KnownFrame(registry)) /\ AllPromote(Rest(t))
  BY ResumeType DEF Core, Stacked
<1>2. /\ task'[t] = next /\ loop' \in {None, t}
      /\ \A u \in Task \ {t} : task'[u] = task[u]
  BY Continues
<1>3. task'[t] # <<>> => Head(task'[t]).at = "promote"
  BY <1>1, <1>2, PoppedTop
<1>4. StepsOn(t, r) /\ LockKept(r) /\ NoEffect(r) /\ Carries(r)
  BY <1>2, <1>3 DEF StepsOn, LockKept, NoEffect, Carries
<1>5. ranAgain' = {}
  BY DEF Ledger
<1>6. QED
  BY <1>3, <1>4, <1>5, SchedulesLedger

\* A task leaves a run's lock.
LEMMA LeaveLedger ==
    ASSUME Typed, Typed', Core, Core', Ledger, NEW t \in Task,
           QueuedPublished(t) \/ UnlockedPublished(t) \/ Unwind(t),
           spent'.expiries = 0 => spent.expiries = 0
    PROVE  Ledger'
<1>1. /\ loop \in {None, t} /\ task[t] # <<>>
      /\ Top(t).at \in {"queued", "unlocked", "unwinding"}
      /\ Continue(t, Rest(t)) /\ UNCHANGED <<registry, locks, ran, ranAgain>>
  BY DEF QueuedPublished, UnlockedPublished, Unwind, LeavesLock, Resumes
<1>2. PICK r \in Run : r = Top(t).run
  BY <1>1, ResumeType
<1>3. Rest(t) \in Promoting({}, Rest(t))
  BY DEF Promoting
<1> DEFINE none == {}
<1>4. Rest(t) \in Promoting(none, Rest(t))
  BY <1>3
<1> HIDE DEF none
<1>5. QED
  BY <1>1, <1>2, <1>4, PopLedger

\* A promotion is driven or skipped.
LEMMA PromoteLedger ==
    ASSUME Typed, Typed', Core, Core', Ledger, NEW t \in Task, Promote(t),
           spent'.expiries = 0 => spent.expiries = 0
    PROVE  Ledger'
<1>1. task[t] # <<>> /\ loop \in {None, t} /\ Top(t).at = "promote"
  BY DEF Promote, Resumes
<1>2. PICK r \in Run : r = Top(t).run
  BY <1>1, ResumeType
<1>3. PICK next \in Promoting(Top(t).todo, Rest(t)) :
         \/ UNCHANGED registry /\ Continue(t, next)
         \/ /\ Saved(r) /\ ~IsTerminal(registry[r])
            /\ TryLaunch(t, r, registry[r], next)
  BY <1>2 DEF Promote
<1>4. UNCHANGED <<locks, ran, ranAgain>>
  BY DEF Promote
<1>5. CASE UNCHANGED registry /\ Continue(t, next)
  BY <1>1, <1>2, <1>4, <1>5, PopLedger
<1>6. CASE /\ Saved(r) /\ ~IsTerminal(registry[r])
           /\ TryLaunch(t, r, registry[r], next)
  <2>1. registry[r] \in Record
    BY <1>6 DEF Typed, Saved
  <2>2. next \in Seq(KnownFrame(registry))
    BY <1>1, ResumeType, PromotingType
  <2>3. QED
    BY <1>1, <1>2, <1>4, <1>6, <2>1, <2>2, LaunchLedger
<1>7. QED
  BY <1>3, <1>5, <1>6

\* The pass of a new run, or of a decision.
LEMMA DecisionLedger ==
    ASSUME ~AsyncAdapters, Typed, Typed', Core, Core', Ledger, NEW t \in Task,
           StartLaunch(t) \/ DecisionPublished(t),
           spent'.expiries = 0 => spent.expiries = 0
    PROVE  Ledger'
<1>1. /\ task[t] # <<>> /\ loop \in {None, t} /\ Top(t).at \in {"created", "decided"}
      /\ UNCHANGED <<locks, ran, ranAgain>>
  BY DEF StartLaunch, DecisionPublished, Resumes
<1>2. loop = t /\ loop # None
  BY <1>1, RunServiceAssumption DEF Core, Stacked
<1>3. PICK r \in Run : r = Top(t).run
  BY <1>1, ResumeType
<1>4. /\ registry[r] = Top(t).obj /\ registry[r] \in Record /\ Saved(r)
      /\ registry[r].status \in {"queued", "awaiting_human"}
      /\ Rest(t) \in Seq(KnownFrame(registry)) /\ Top(t).step \in Step \cup {0}
  BY <1>1, <1>2, <1>3, ResumeType, NoneAssumption DEF Core, Copies, Saved, Record
<1>5. ~IsTerminal(registry[r])
  BY <1>4 DEF IsTerminal, Terminal
<1>6. PICK p \in Pass : TryLaunch(t, r, [registry[r] EXCEPT !.pending = p], Rest(t))
  BY <1>3, <1>4, PassTypes DEF StartLaunch, DecisionPublished
<1> DEFINE run == [registry[r] EXCEPT !.pending = p]
<1>7. /\ run \in Record
      /\ run.decision = registry[r].decision /\ run.effects = registry[r].effects
      /\ run.state = registry[r].state /\ run.artifact = registry[r].artifact
      /\ run.lockTarget = registry[r].lockTarget
      /\ run.lockOwner = registry[r].lockOwner
  BY <1>4, UpdateTypes, SameFields
<1> HIDE DEF run
<1>8. TryLaunch(t, r, run, Rest(t))
  BY <1>6 DEF run
<1>9. QED
  BY <1>1, <1>3, <1>4, <1>5, <1>7, <1>8, LaunchLedger

\* A pass is out, or a cancel: the slots and the target lock go back.
LEMMA PublishedLedger ==
    ASSUME ~AsyncAdapters, Typed, Typed', Core, Core', Ledger, NEW t \in Task,
           SuspendedPublished(t) \/ TerminalPublished(t) \/ CancelPublished(t),
           spent'.expiries = 0 => spent.expiries = 0
    PROVE  Ledger'
<1>1. /\ task[t] # <<>> /\ loop \in {None, t}
      /\ Top(t).at \in {"suspended", "terminal", "cancelled"}
      /\ UNCHANGED <<ran, ranAgain>>
  BY DEF SuspendedPublished, TerminalPublished, CancelPublished, Resumes
<1>2. PICK r \in Run : r = Top(t).run
  BY <1>1, ResumeType
<1>3. PICK run \in Record : run = Top(t).obj
  BY <1>1, ResumeType
<1>4. loop = t /\ loop # None
  BY <1>1, RunServiceAssumption DEF Core, Stacked
<1>5. run = registry[r] /\ Saved(r)
  BY <1>1, <1>2, <1>3, <1>4, NoneAssumption DEF Core, Copies, Saved, Record
<1>6. ranAgain' = {} /\ ran \subseteq ran' /\ \A q \in Run : NoEffect(q)
  BY <1>1 DEF Ledger, NoEffect
<1>7. CASE UNCHANGED locks /\ ReleaseAndPromote(t, r, run, FALSE, Rest(t))
  <2>1. \A q \in Run : LockKept(q)
    BY <1>7 DEF LockKept
  <2>2. QED
    BY <1>1, <1>2, <1>5, <1>6, <1>7, <2>1, ReleaseLedger
<1>8. CASE /\ Top(t).at # "suspended"
           /\ locks' = [locks EXCEPT ![run.lockTarget] = IF @ = r THEN None ELSE @]
           /\ ReleaseAndPromote(t, r, [run EXCEPT !.lockOwner = None], TRUE, Rest(t))
  <2> DEFINE given == [run EXCEPT !.lockOwner = None]
  <2>1. /\ given \in Record /\ given.status = run.status /\ given.decision = run.decision
        /\ given.effects = run.effects /\ given.state = run.state
        /\ given.artifact = run.artifact /\ given.lockTarget = run.lockTarget
        /\ given.lockOwner = None
    BY UpdateTypes DEF Record, WorkflowRun
  <2>2. ReleaseAndPromote(t, r, given, TRUE, Rest(t))
    BY <1>8
  <2> HIDE DEF given
  <2>3. IsTerminal(registry[r])
    BY <1>1, <1>2, <1>3, <1>4, <1>5, <1>8 DEF Core, Copies, IsTerminal, Terminal
  <2>4. \A q \in Run \ {r} : \A x \in Target : locks[x] = q => locks'[x] = q
    BY <1>8 DEF Typed
  <2>5. \A q \in Run : LockKept(q)
    BY <2>3, <2>4 DEF LockKept
  <2>6. QED
    BY <1>1, <1>2, <1>5, <1>6, <2>1, <2>2, <2>5, ReleaseLedger
<1>9. QED
  BY <1>1, <1>2, <1>3, <1>7, <1>8
     DEF SuspendedPublished, TerminalPublished, CancelPublished, ReleaseResources, Resumes

\* A cancel changes the status only; the steps are as they were.
LEMMA CancelLedger ==
    ASSUME Typed, Typed', Core, Core', Ledger, NEW t \in Task, NEW r \in Run, Cancel(t, r),
           spent'.expiries = 0 => spent.expiries = 0
    PROVE  Ledger'
<1> DEFINE cancelled == [registry[r] EXCEPT !.status = "cancelled"]
           f == At("cancelled", r, cancelled)
<1>1. /\ loop = None /\ task[t] = <<>> /\ Saved(r) /\ ~IsTerminal(registry[r])
      /\ Save(r, cancelled) /\ Continue(t, <<f>>)
      /\ UNCHANGED <<locks, ran, ranAgain>>
  BY DEF Cancel, Receives
<1>2. registry[r] \in Record
  BY <1>1 DEF Typed, Saved
<1>3. /\ cancelled # None /\ cancelled.status = "cancelled"
      /\ cancelled.decision = registry[r].decision
      /\ cancelled.effects = registry[r].effects
      /\ cancelled.state = registry[r].state
      /\ cancelled.artifact = registry[r].artifact
      /\ cancelled.lockTarget = registry[r].lockTarget
      /\ cancelled.lockOwner = registry[r].lockOwner
  <2>1. cancelled \in WorkflowRun
    BY <1>2 DEF Record, WorkflowRun, Status, Terminal
  <2>2. QED
    BY <1>2, <2>1, NoneAssumption DEF Record, WorkflowRun
<1>4. registry'[r] = cancelled /\ \A q \in Run \ {r} : registry'[q] = registry[q]
  BY <1>1 DEF Save, Typed
<1>5. f.run = r /\ f.at = "cancelled"
  BY DEF At
<1> HIDE DEF cancelled, f
<1>6. /\ task'[t] = <<f>> /\ loop' \in {None, t}
      /\ \A u \in Task \ {t} : task'[u] = task[u]
  BY <1>1, Continues
<1>7. Head(task'[t]) = f
  BY <1>6
<1>8. StepsOn(t, r) /\ LockKept(r) /\ NoEffect(r)
  BY <1>1, <1>4, <1>5, <1>6, <1>7 DEF StepsOn, LockKept, NoEffect
<1>9. Carries(r)
  BY <1>1, <1>3, <1>4 DEF Carries, Carried
<1>10. ranAgain' = {} /\ loop # t
  BY <1>1, RunServiceAssumption DEF Ledger
<1>11. QED
  BY <1>5, <1>7, <1>8, <1>9, <1>10, SchedulesLedger

\* A new run has no decision, no effect and no lock.
LEMMA StartLedger ==
    ASSUME Typed, Typed', Core, Core', Ledger, NEW t \in Task, NEW r \in Run,
           StartRun(t, r),
           spent'.expiries = 0 => spent.expiries = 0
    PROVE  Ledger'
<1> DEFINE f == At("created", r, NewRun)
<1>1. /\ loop = None /\ task[t] = <<>> /\ ~Saved(r)
      /\ Save(r, NewRun) /\ Continue(t, <<f>>)
      /\ UNCHANGED <<locks, ran, ranAgain>>
  BY DEF StartRun, Receives, Saved
<1>2. registry'[r] = NewRun /\ \A q \in Run \ {r} : registry'[q] = registry[q]
  BY <1>1 DEF Save, Typed
<1>3. f.run = r /\ f.at = "created"
  BY DEF At
<1> HIDE DEF f
<1>4. /\ task'[t] = <<f>> /\ loop' \in {None, t}
      /\ \A u \in Task \ {t} : task'[u] = task[u]
  BY <1>1, Continues
<1>5. Head(task'[t]) = f
  BY <1>4
<1>6. StepsOn(t, r)
  BY <1>1, <1>2, <1>3, <1>4, <1>5 DEF StepsOn, LockKept, NoEffect
<1>7. /\ NewRun.status = "queued" /\ NewRun.lockOwner = None
      /\ \A s \in Step : /\ NewRun.state[s] = "pending"
                         /\ NewRun.decision[s].action \notin Forward
                         /\ NewRun.effects[s].action \notin Forward
  BY DEF NewRun, NoDecision, Forward
<1>8. RecordOk(r)'
  <2>1. InReview(NewRun) = {}
    BY <1>7 DEF InReview
  <2>2. /\ Reported(r, NewRun, ran') /\ Reached(NewRun) /\ Fresh(r, NewRun, ran')
    BY <1>7, <2>1 DEF Reported, Reached, Fresh
  <2>3. QED
    BY <1>2, <1>7, <2>2 DEF RecordOk, IsTerminal, Terminal
<1>9. PassedOk(r)'
  <2>1. \A u \in Task : ~Passing(u, r)
    BY <1>1 DEF Core, RunOk, PassOk
  <2>2. \A u \in Task : ~Passing(u, r)'
    BY <1>3, <1>4, <1>5, <2>1 DEF Passing, Top
  <2>3. QED
    BY <2>2 DEF PassedOk
<1>10. ApprovingOk(r)'
  BY <1>3, <1>4, <1>5 DEF ApprovingOk, TopIs, Top
<1>11. OwnerOk(r)'
  BY <1>2, <1>7, RunServiceAssumption DEF OwnerOk, Owns
<1>12. ranAgain' = {}
  BY <1>1 DEF Ledger
<1>13. QED
  BY <1>6, <1>8, <1>9, <1>10, <1>11, <1>12, StepKeepsLedger DEF LedgerOf

----------------------------------------------------------------------------
(***************************************************************************)
(* Steps of a run that is with a human.                                    *)
(***************************************************************************)

\* The record of r that is saved is one for a human to look at.
LEMMA ReviewLedger ==
    ASSUME Core, Core', Ledger, NEW t \in Task, NEW r \in Run, StepsOn(t, r),
           ranAgain' = {}, NEW new, registry'[r] = new,
           new.status \in {"awaiting_human", "blocked"},
           Reported(r, new, ran'), Reached(new), Fresh(r, new, ran'),
           TopIs({"decided"}, r)' \/ OneReviewed(new),
           ApprovingOk(r)', OwnerOk(r)',
           spent'.expiries = 0 => spent.expiries = 0
    PROVE  Ledger'
<1>1. RecordOk(r)'
  BY DEF RecordOk
<1>2. ASSUME NEW u \in Task, Passing(u, r)'
      PROVE  FALSE
  <2>1. PassOk(r)'
    BY DEF Core, RunOk
  <2>2. QED
    BY <1>2, <2>1 DEF PassOk
<1>3. PassedOk(r)'
  BY <1>2 DEF PassedOk
<1>4. QED
  BY <1>1, <1>3, StepKeepsLedger DEF LedgerOf

\* What SetCurrent does to the one step in review.
LEMMA SetCurrentSays ==
    ASSUME NEW run \in WorkflowRun, NEW s \in Step, InReview(run) = {s},
           NEW st \in {"awaiting_human", "blocked"}
    PROVE  LET new == SetCurrent(run, st)
           IN  /\ new = [run EXCEPT !.state[s] = st]
               /\ new.status = run.status /\ InReview(new) = {s}
               /\ new.decision = run.decision /\ new.effects = run.effects
               /\ new.artifact = run.artifact
               /\ new.lockTarget = run.lockTarget /\ new.lockOwner = run.lockOwner
               /\ \A q \in Step \ {s} : new.state[q] = run.state[q]
<1> DEFINE cur == CHOOSE c \in InReview(run) : \A q \in InReview(run) : q <= c
           new == [run EXCEPT !.state[s] = st]
<1>1. cur = s
  <2>1. s \in InReview(run) /\ s <= s
    BY StepsAndKinds
  <2>2. \E c \in InReview(run) : \A q \in InReview(run) : q <= c
    BY <2>1
  <2>3. cur \in InReview(run)
    BY <2>2
  <2>4. QED
    BY <2>3
<1>2. SetCurrent(run, st) = new
  BY <1>1 DEF SetCurrent
<1>3. /\ new.status = run.status
      /\ new.decision = run.decision /\ new.effects = run.effects
      /\ new.artifact = run.artifact
      /\ new.lockTarget = run.lockTarget /\ new.lockOwner = run.lockOwner
      /\ new.state[s] = st
      /\ \A q \in Step \ {s} : new.state[q] = run.state[q]
  BY DEF WorkflowRun
<1> HIDE DEF new
<1>4. InReview(new) = {s}
  <2>1. \A q \in Step : q \in InReview(new) <=> q \in InReview(run)
    BY <1>3 DEF InReview
  <2>2. InReview(new) \subseteq Step /\ InReview(run) \subseteq Step
    BY DEF InReview
  <2>3. QED
    BY <2>1, <2>2
<1>5. QED
  BY <1>2, <1>3, <1>4 DEF new

\* A run that nobody works on, and that waits for a human.
LEMMA WithHuman ==
    ASSUME Typed, Ledger, NEW r \in Run, loop = None,
           HasStatus(r, "awaiting_human") \/ HasStatus(r, "blocked")
    PROVE  /\ registry[r] \in Record /\ ~IsTerminal(registry[r]) /\ LedgerOf(r)
           /\ Reported(r, registry[r], ran) /\ Reached(registry[r])
           /\ Fresh(r, registry[r], ran) /\ OneReviewed(registry[r])
<1>1. /\ registry[r] \in Record /\ Saved(r)
      /\ registry[r].status \in {"awaiting_human", "blocked"}
  BY DEF HasStatus, Saved, Typed
<1>2. ~IsTerminal(registry[r])
  BY <1>1 DEF IsTerminal, Terminal
<1>3. RecordOk(r) /\ LedgerOf(r)
  BY DEF Ledger, LedgerOf
<1>4. QED
  BY <1>1, <1>2, <1>3 DEF RecordOk, TopIs

\* An approval is looked up and not found; nothing is saved yet.
LEMMA ApproveLedger ==
    ASSUME Typed, Typed', Core, Core', Ledger, NEW t \in Task, NEW r \in Run,
           NEW s \in Step, NEW action \in Forward, Approve(t, r, s, action),
           spent'.expiries = 0 => spent.expiries = 0
    PROVE  Ledger'
<1> DEFINE f == [At("approving", r, registry[r]) EXCEPT !.step = s, !.action = action]
<1>1. /\ loop = None /\ task[t] = <<>> /\ HasStatus(r, "awaiting_human")
      /\ <<r, s, Approval(registry[r], s, action)>> \notin receipts
      /\ Continue(t, <<f>>)
      /\ UNCHANGED <<registry, locks, receipts, ran, ranAgain>>
  BY DEF Approve, Receives, Decidable
<1>2. f.run = r /\ f.at = "approving" /\ f.obj = registry[r] /\ f.step = s /\ f.action = action
  BY DEF At
<1> HIDE DEF f
<1>3. /\ task'[t] = <<f>> /\ loop' \in {None, t}
      /\ \A u \in Task \ {t} : task'[u] = task[u]
  BY <1>1, Continues
<1>4. Head(task'[t]) = f
  BY <1>3
<1>5. StepsOn(t, r)
  BY <1>1, <1>2, <1>3, <1>4 DEF StepsOn, LockKept, NoEffect
<1>6. /\ registry[r] \in Record /\ ~IsTerminal(registry[r]) /\ LedgerOf(r)
      /\ Reported(r, registry[r], ran) /\ Reached(registry[r])
      /\ Fresh(r, registry[r], ran) /\ OneReviewed(registry[r])
  BY <1>1, WithHuman
<1>7. ApprovingOk(r)'
  BY <1>1, <1>2, <1>3, <1>4 DEF ApprovingOk, TopIs, Top, Approval
<1>8. OwnerOk(r)'
  BY <1>1, <1>6 DEF LedgerOf, OwnerOk, Owns, Saved
<1>9. ranAgain' = {} /\ ran' = ran /\ registry'[r] = registry[r]
  BY <1>1 DEF Ledger
<1>10. registry[r].status = "awaiting_human"
  BY <1>1 DEF HasStatus
<1> DEFINE new == registry[r]
<1> HIDE DEF new
<1>11. /\ registry'[r] = new /\ new.status \in {"awaiting_human", "blocked"}
       /\ Reported(r, new, ran') /\ Reached(new)
       /\ Fresh(r, new, ran') /\ OneReviewed(new)
  BY <1>6, <1>9, <1>10 DEF new
<1>12. QED
  BY <1>5, <1>7, <1>8, <1>9, <1>11, ReviewLedger

\* A decision is saved; the step it is about is no longer asked about.
LEMMA DecidedLedger ==
    ASSUME ~AsyncAdapters, Typed, Typed', Core, Core', Ledger, NEW t \in Task, NEW r \in Run,
           NEW f, f.run = r, f.at = "decided", NEW stack, Continue(t, stack),
           stack # <<>>, Head(stack) = f,
           loop \in {None, t}, task[t] # <<>> => Top(t).run = r,
           ~IsTerminal(registry[r]),
           NEW new, Save(r, new), new.status = "awaiting_human",
           new.lockTarget = registry[r].lockTarget, new.lockOwner = registry[r].lockOwner,
           Saved(r), Reported(r, new, ran), Reached(new), Fresh(r, new, ran),
           UNCHANGED <<locks, ran, ranAgain>>,
           spent'.expiries = 0 => spent.expiries = 0
    PROVE  Ledger'
<1>1. /\ task'[t] = stack /\ loop' \in {None, t}
      /\ \A u \in Task \ {t} : task'[u] = task[u]
  BY Continues
<1>2. registry'[r] = new /\ \A q \in Run \ {r} : registry'[q] = registry[q]
  BY DEF Save, Typed
<1>3. StepsOn(t, r)
  BY <1>1, <1>2 DEF StepsOn, LockKept, NoEffect
<1>4. TopIs({"decided"}, r)'
  <2>1. loop' = t
    BY <1>1 DEF Core, Stacked, Top
  <2>2. QED
    BY <1>1, <2>1, RunServiceAssumption DEF TopIs, Top
<1>5. ApprovingOk(r)'
  BY <1>1 DEF ApprovingOk, TopIs, Top
<1>6. OwnerOk(r)'
  BY <1>2 DEF OwnerOk, Owns, Ledger, LedgerOf
<1>7. ranAgain' = {} /\ ran' = ran
  BY DEF Ledger
<1>8. QED
  BY <1>2, <1>3, <1>4, <1>5, <1>6, <1>7, ReviewLedger

\* "regenerate" takes the decision of the step in review back, "back" that of
\* the steps from the one before it on.
LEMMA ReviseLedger ==
    ASSUME ~AsyncAdapters, Typed, Typed', Core, Core', Ledger, NEW t \in Task,
           NEW r \in Run, NEW s \in Step, Regenerate(t, r, s) \/ Back(t, r, s),
           spent'.expiries = 0 => spent.expiries = 0
    PROVE  Ledger'
<1>1. PICK action, new :
          /\ Decided(t, r, s, action, new)
          /\ \/ new = [registry[r] EXCEPT !.regenerations[s] = @ + 1,
                                          !.decision[s] = RegenerateMark]
             \/ new = InvalidateFrom(registry[r], s - 1)
  BY DEF Regenerate, Back
<1> DEFINE f == [At("decided", r, new) EXCEPT !.step = s, !.action = action]
<1>2. /\ loop = None /\ task[t] = <<>> /\ Saved(r)
      /\ HasStatus(r, "awaiting_human") /\ registry[r].state[s] = "awaiting_human"
      /\ Save(r, new) /\ Continue(t, <<f>>)
      /\ UNCHANGED <<locks, ran, ranAgain>>
  BY <1>1 DEF Decided, Receives, Decidable, HasStatus
<1>3. f.run = r /\ f.at = "decided"
  BY DEF At
<1> HIDE DEF f
<1>4. /\ registry[r] \in Record /\ ~IsTerminal(registry[r])
      /\ Reported(r, registry[r], ran) /\ Reached(registry[r])
      /\ Fresh(r, registry[r], ran) /\ OneReviewed(registry[r])
  BY <1>2, WithHuman
<1>5. InReview(registry[r]) = {s}
  <2>1. s \in InReview(registry[r])
    BY <1>2 DEF InReview
  <2>2. QED
    BY <1>4, <2>1 DEF OneReviewed
<1>6. /\ new.status = registry[r].status /\ new.effects = registry[r].effects
      /\ new.lockTarget = registry[r].lockTarget /\ new.lockOwner = registry[r].lockOwner
      /\ \A q \in Step : \/ new.decision[q] = registry[r].decision[q]
                         \/ new.decision[q].action \notin Forward
      /\ \A q \in InReview(new), p \in Step : p < q => new.decision[p] = registry[r].decision[p]
      /\ InReview(new) \subseteq {s}
  <2>1. CASE new = [registry[r] EXCEPT !.regenerations[s] = @ + 1,
                                       !.decision[s] = RegenerateMark]
    <3>1. /\ new.status = registry[r].status /\ new.effects = registry[r].effects
          /\ new.lockTarget = registry[r].lockTarget
          /\ new.lockOwner = registry[r].lockOwner /\ new.state = registry[r].state
          /\ new.decision[s].action \notin Forward
          /\ \A q \in Step \ {s} : new.decision[q] = registry[r].decision[q]
      BY <1>4, <2>1 DEF Record, WorkflowRun, RegenerateMark, Forward
    <3>2. InReview(new) = {s}
      BY <1>5, <3>1 DEF InReview
    <3>3. \A p \in Step : p < s => p # s
      BY StepsAndKinds
    <3>4. QED
      BY <3>1, <3>2, <3>3
  <2>2. CASE new = InvalidateFrom(registry[r], s - 1)
    <3>1. /\ new.status = registry[r].status /\ new.effects = registry[r].effects
          /\ new.lockTarget = registry[r].lockTarget
          /\ new.lockOwner = registry[r].lockOwner
          /\ new.state = [q \in Step |-> IF q >= s - 1 THEN "pending"
                                                        ELSE registry[r].state[q]]
          /\ new.decision = [q \in Step |-> IF q >= s - 1 THEN NoDecision
                                                           ELSE registry[r].decision[q]]
      BY <1>4, <2>2 DEF InvalidateFrom, Record, WorkflowRun
    <3>2. \A q \in Step : \/ new.decision[q] = registry[r].decision[q]
                          \/ new.decision[q].action \notin Forward
      BY <3>1 DEF NoDecision, Forward
    <3>3. s >= s - 1
      BY StepsAndKinds
    <3>4. InReview(new) = {}
      <4>1. SUFFICES ASSUME NEW q \in Step, new.state[q] \in {"awaiting_human", "blocked"}
                     PROVE  FALSE
        BY DEF InReview
      <4>2. new.state[q] = registry[r].state[q] /\ ~(q >= s - 1)
        BY <3>1, <4>1
      <4>3. q \in InReview(registry[r])
        BY <4>1, <4>2 DEF InReview
      <4>4. QED
        BY <1>5, <3>3, <4>2, <4>3
    <3>5. QED
      BY <3>1, <3>2, <3>4
  <2>3. QED
    BY <1>1, <2>1, <2>2
<1>7. Reported(r, new, ran) /\ Reached(new) /\ Fresh(r, new, ran)
  <2>1. Reported(r, new, ran)
    BY <1>4, <1>6 DEF Reported
  <2>2. Fresh(r, new, ran)
    BY <1>4, <1>6 DEF Fresh
  <2>3. Reached(new)
    BY <1>4, <1>5, <1>6 DEF Reached
  <2>4. QED
    BY <2>1, <2>2, <2>3
<1>8. new.status = "awaiting_human"
  BY <1>2, <1>6 DEF HasStatus
<1>9. <<f>> # <<>> /\ Head(<<f>>) = f
  OBVIOUS
<1> DEFINE stack == <<f>>
<1> HIDE DEF stack
<1>10. Continue(t, stack) /\ stack # <<>> /\ Head(stack) = f
  BY <1>2, <1>9 DEF stack
<1>11. QED
  BY <1>2, <1>3, <1>4, <1>6, <1>7, <1>8, <1>10, DecidedLedger

\* An approval is written and saved: no effect was executed for it yet, since
\* every execution is approved and this approval is new.
LEMMA ApprovedLedger ==
    ASSUME ~AsyncAdapters, Typed, Typed', Core, Core', Ledger, EffectsNeedApproval,
           NEW t \in Task, Approved(t),
           spent'.expiries = 0 => spent.expiries = 0
    PROVE  Ledger'
<1> DEFINE approval == Approval(Top(t).obj, Top(t).step, Top(t).action)
           new == [Top(t).obj EXCEPT !.decision[Top(t).step] = approval]
           f == [Top(t) EXCEPT !.at = "decided", !.obj = new]
<1>1. /\ task[t] # <<>> /\ Top(t).at = "approving" /\ loop \in {None, t}
      /\ Save(Top(t).run, new) /\ Continue(t, <<f>> \o Rest(t))
      /\ UNCHANGED <<locks, ran, ranAgain>>
  BY DEF Approved, Resumes
<1>2. loop = t /\ loop # None
  BY <1>1, RunServiceAssumption DEF Core, Stacked
<1>3. PICK r \in Run : r = Top(t).run
  BY <1>1, ResumeType
<1>4. /\ Top(t) \in KnownFrame(registry) /\ Top(t).obj \in Record
      /\ Top(t).step \in Step /\ Top(t).action \in Forward
      /\ Rest(t) \in Seq(KnownFrame(registry))
  BY <1>1, ResumeType DEF KnownFrame
<1>5. registry[r] = Top(t).obj /\ registry[r].status = "awaiting_human"
  BY <1>1, <1>2, <1>3 DEF Core, Copies
<1>6. Saved(r) /\ ~IsTerminal(registry[r])
  BY <1>4, <1>5, NoneAssumption DEF Saved, Record, IsTerminal, Terminal
<1>7. /\ new.status = registry[r].status /\ new.effects = registry[r].effects
      /\ new.state = registry[r].state
      /\ new.lockTarget = registry[r].lockTarget /\ new.lockOwner = registry[r].lockOwner
      /\ new.decision[Top(t).step] = approval
      /\ \A q \in Step \ {Top(t).step} : new.decision[q] = registry[r].decision[q]
  BY <1>4, <1>5 DEF Record, WorkflowRun
<1>8. f.run = r /\ f.at = "decided"
  BY <1>3, <1>4 DEF KnownFrame, Frame
<1>9. approval.action \in Forward
  BY <1>4 DEF Approval
<1>10. <<r, Top(t).step, approval>> \notin ran
  <2>1. ApprovingOk(r) /\ TopIs({"approving"}, r)
    BY <1>1, <1>2, <1>3 DEF Ledger, LedgerOf, TopIs
  <2>2. <<r, Top(t).step, approval>> \notin receipts
    BY <1>2, <2>1 DEF ApprovingOk
  <2>3. QED
    BY <2>2 DEF EffectsNeedApproval
<1>11. /\ Reported(r, registry[r], ran) /\ Reached(registry[r])
       /\ Fresh(r, registry[r], ran)
  <2>1. RecordOk(r) /\ ~TopIs({"locked"}, r)
    BY <1>1, <1>2 DEF Ledger, LedgerOf, TopIs
  <2>2. QED
    BY <1>6, <2>1 DEF RecordOk
<1> HIDE DEF approval, new
<1>12. Reported(r, new, ran) /\ Reached(new) /\ Fresh(r, new, ran)
  <2>1. Reported(r, new, ran)
    BY <1>7, <1>11 DEF Reported
  <2>2. Reached(new)
    BY <1>7, <1>9, <1>11 DEF Reached, InReview
  <2>3. Fresh(r, new, ran)
    <3>1. ASSUME NEW s \in Step, new.decision[s].action \in Forward,
                 <<r, s, new.decision[s]>> \in ran
          PROVE  new.effects[s] = new.decision[s]
      <4>1. s # Top(t).step
        BY <1>7, <1>10, <3>1
      <4>2. new.decision[s] = registry[r].decision[s]
        BY <1>7, <4>1
      <4>3. QED
        BY <1>7, <1>11, <3>1, <4>2 DEF Fresh
    <3>2. QED
      BY <3>1 DEF Fresh
  <2>4. QED
    BY <2>1, <2>2, <2>3
<1> HIDE DEF f
<1>13. <<f>> \o Rest(t) # <<>> /\ Head(<<f>> \o Rest(t)) = f
  BY <1>4
<1> DEFINE stack == <<f>> \o Rest(t)
<1> HIDE DEF stack
<1>14. Continue(t, stack) /\ stack # <<>> /\ Head(stack) = f
  BY <1>1, <1>13 DEF stack
<1>15. QED
  BY <1>1, <1>3, <1>5, <1>6, <1>7, <1>8, <1>12, <1>14, DecidedLedger

\* The banner of a blocked run names the new owner, or the run gets its target.
LEMMA RetryLedger ==
    ASSUME Typed, Typed', Core, Core', Ledger, NEW t \in Task, NEW r \in Run,
           RetryLock(t, r),
           spent'.expiries = 0 => spent.expiries = 0
    PROVE  Ledger'
<1> DEFINE target == registry[r].lockTarget
           run == SetCurrent(registry[r], "awaiting_human")
           freed == [run EXCEPT !.lockOwner = r, !.status = "awaiting_human"]
           owned == [registry[r] EXCEPT !.lockOwner = locks[target]]
           f == At("unlocked", r, freed)
<1>1. /\ loop = None /\ task[t] = <<>> /\ HasStatus(r, "blocked")
      /\ UNCHANGED <<ran, ranAgain>>
      /\ \/ /\ locks[target] \notin {None, r} /\ Save(r, owned)
            /\ UNCHANGED <<locks, task, loop>>
         \/ /\ locks[target] \in {None, r} /\ locks' = [locks EXCEPT ![target] = r]
            /\ Save(r, freed) /\ Continue(t, <<f>>)
  BY DEF RetryLock, Receives
<1>2. /\ registry[r] \in Record /\ ~IsTerminal(registry[r])
      /\ Reported(r, registry[r], ran) /\ Reached(registry[r])
      /\ Fresh(r, registry[r], ran) /\ OneReviewed(registry[r])
  BY <1>1, WithHuman
<1>3. registry[r].status = "blocked" /\ target \in Target
  BY <1>1, <1>2 DEF HasStatus, Record, WorkflowRun
<1>4. ranAgain' = {} /\ ran' = ran
  BY <1>1 DEF Ledger
<1>5. CASE /\ locks[target] \notin {None, r} /\ Save(r, owned)
           /\ UNCHANGED <<locks, task, loop>>
  <2>1. /\ owned.status = "blocked" /\ owned.lockOwner # r
        /\ owned.decision = registry[r].decision /\ owned.effects = registry[r].effects
        /\ owned.state = registry[r].state /\ owned.artifact = registry[r].artifact
    BY <1>2, <1>3, <1>5 DEF Record, WorkflowRun
  <2> HIDE DEF owned, freed, f
  <2>2. registry'[r] = owned /\ \A q \in Run \ {r} : registry'[q] = registry[q]
    BY <1>5 DEF Save, Typed
  <2>3. StepsOn(t, r)
    BY <1>1, <1>4, <1>5, <2>2 DEF StepsOn, LockKept, NoEffect
  <2>4. InReview(owned) = InReview(registry[r])
    BY <2>1 DEF InReview
  <2>5. /\ Reported(r, owned, ran') /\ Reached(owned) /\ Fresh(r, owned, ran')
        /\ OneReviewed(owned)
    BY <1>2, <1>4, <2>1, <2>4 DEF Reported, Reached, Fresh, OneReviewed
  <2>6. ApprovingOk(r)' /\ OwnerOk(r)'
    BY <1>1, <1>5, <2>1, <2>2 DEF ApprovingOk, TopIs, OwnerOk, Owns
  <2>7. QED
    BY <1>4, <2>1, <2>2, <2>3, <2>5, <2>6, ReviewLedger
<1>6. CASE /\ locks[target] \in {None, r} /\ locks' = [locks EXCEPT ![target] = r]
           /\ Save(r, freed) /\ Continue(t, <<f>>)
  <2>1. PICK s \in Step : InReview(registry[r]) = {s} /\ registry[r].artifact[s] # None
                          /\ \A q \in Step : q < s => registry[r].state[q] = "done"
    BY <1>2 DEF OneReviewed
  <2>2. /\ run \in WorkflowRun /\ InReview(run) = {s}
        /\ run.decision = registry[r].decision /\ run.effects = registry[r].effects
        /\ run.artifact = registry[r].artifact
        /\ run.lockTarget = target
        /\ \A q \in Step \ {s} : run.state[q] = registry[r].state[q]
    BY <1>2, <2>1, SetCurrentSays, SetCurrentType DEF Record, StepState
  <2> HIDE DEF run
  <2>3. /\ freed.status = "awaiting_human" /\ freed.lockTarget = target
        /\ freed.decision = registry[r].decision /\ freed.effects = registry[r].effects
        /\ freed.artifact = registry[r].artifact /\ freed.state = run.state
    BY <2>2 DEF WorkflowRun
  <2>4. f.run = r /\ f.at = "unlocked"
    BY DEF At
  <2> HIDE DEF freed, f, owned
  <2>5. InReview(freed) = {s}
    BY <2>2, <2>3 DEF InReview
  <2>6. registry'[r] = freed /\ \A q \in Run \ {r} : registry'[q] = registry[q]
    BY <1>6 DEF Save, Typed
  <2>7. /\ task'[t] = <<f>> /\ loop' \in {None, t}
        /\ \A u \in Task \ {t} : task'[u] = task[u]
    BY <1>6, Continues
  <2>8. Head(task'[t]) = f
    BY <2>7
  <2>9. locks'[target] = r /\ \A q \in Run \ {r} : LockKept(q)
    BY <1>3, <1>6, RunServiceAssumption DEF Typed, LockKept
  <2>10. StepsOn(t, r)
    BY <1>1, <1>4, <2>4, <2>6, <2>7, <2>8, <2>9 DEF StepsOn, NoEffect
  <2>11. Reported(r, freed, ran') /\ Reached(freed) /\ Fresh(r, freed, ran')
    BY <1>2, <1>4, <2>1, <2>3, <2>5 DEF Reported, Reached, Fresh
  <2>12. OneReviewed(freed)
    <3>1. \A q \in Step : q < s => q # s
      BY StepsAndKinds
    <3>2. QED
      BY <2>1, <2>2, <2>3, <2>5, <3>1 DEF OneReviewed
  <2>13. ApprovingOk(r)' /\ OwnerOk(r)'
    BY <2>3, <2>4, <2>6, <2>7, <2>8, <2>9 DEF ApprovingOk, TopIs, Top, OwnerOk, Owns
  <2>14. QED
    BY <1>4, <2>3, <2>6, <2>10, <2>11, <2>12, <2>13, ReviewLedger
<1>7. QED
  BY <1>1, <1>5, <1>6

----------------------------------------------------------------------------
(***************************************************************************)
(* The engine, and the lock conflict it may report.                        *)
(***************************************************************************)

\* What is due was not executed yet: a pass executes nothing a second time.
LEMMA PassEffects ==
    ASSUME Ledger, NEW t \in Task, NEW r \in Run, Passing(t, r),
           NEW S, S \subseteq Due(Top(t).obj), Execute(r, Top(t).obj, S)
    PROVE  /\ ranAgain' = {} /\ ran \subseteq ran'
           /\ \A q \in Run \ {r} : NoEffect(q)
           /\ \A s \in S : <<r, s, Top(t).obj.decision[s]>> \in ran'
           /\ \A s, d : <<r, s, d>> \in ran' =>
                  \/ <<r, s, d>> \in ran
                  \/ s \in S /\ d = Top(t).obj.decision[s]
<1> DEFINE run == Top(t).obj
           executed == {<<r, s, run.decision[s]>> : s \in S}
<1>1. ran' = ran \cup executed /\ ranAgain' = ranAgain \cup (ran \cap executed)
  BY DEF Execute
<1>2. ASSUME NEW s \in S
      PROVE  <<r, s, run.decision[s]>> \notin ran
  <2>1. /\ s \in Step /\ run.effects[s] # run.decision[s]
        /\ \A q \in Open(run) : s < q
    BY <1>2, RunServiceAssumption DEF Due
  <2>2. s \notin Open(run)
    BY <2>1, StepsAndKinds
  <2>3. run.decision[s].action \in Forward
    BY <2>1, <2>2 DEF Open
  <2>4. Fresh(r, run, ran)
    BY DEF Ledger, LedgerOf, PassedOk
  <2>5. QED
    BY <2>1, <2>3, <2>4 DEF Fresh
<1>3. ran \cap executed = {}
  BY <1>2
<1>4. ranAgain' = {}
  BY <1>1, <1>3 DEF Ledger
<1>5. QED
  BY <1>1, <1>4 DEF NoEffect

\* The record with the effects the whole pass reports.
LEMMA MergedEffects ==
    ASSUME Ledger, NEW t \in Task, NEW r \in Run, Passing(t, r),
           Top(t).obj \in Record, registry[r] = Top(t).obj,
           Execute(r, Top(t).obj, Due(Top(t).obj)),
           NEW new, new.decision = Top(t).obj.decision,
           new.effects = WithEffects(Top(t).obj, Top(t).obj).effects
    PROVE  /\ Fresh(r, new, ran') /\ Reported(r, new, ran')
           /\ Open(Top(t).obj) = {} => Finished(new)
<1> DEFINE run == Top(t).obj
           S == Due(run)
<1>1. /\ \A s \in S : <<r, s, run.decision[s]>> \in ran'
      /\ \A s, d : <<r, s, d>> \in ran' =>
             <<r, s, d>> \in ran \/ (s \in S /\ d = run.decision[s])
      /\ ran \subseteq ran'
  BY PassEffects
<1>2. Fresh(r, run, ran) /\ Reported(r, run, ran)
  BY DEF Ledger, LedgerOf, PassedOk
<1>3. \A s \in Step : new.effects[s] = IF s \in S THEN run.decision[s] ELSE run.effects[s]
  BY DEF WithEffects, Record, WorkflowRun
<1>4. Open(run) = {} => \A s \in SideEffecting : s \in S \/ run.effects[s] = run.decision[s]
  BY DEF Due
<1>5. Open(run) = {} => \A s \in Step : run.decision[s].action \in Forward
  BY DEF Open
<1> HIDE DEF S, run
<1>6. Fresh(r, new, ran')
  BY <1>1, <1>2, <1>3 DEF Fresh, run
<1>7. Reported(r, new, ran')
  BY <1>1, <1>2, <1>3 DEF Reported, run
<1>8. Open(run) = {} => Finished(new)
  BY <1>3, <1>4, <1>5 DEF Finished, run
<1>9. QED
  BY <1>6, <1>7, <1>8 DEF run

\* The engine's task gives the pass up for a publish point.
LEMMA EngineStep ==
    ASSUME ~AsyncAdapters, Typed, Typed', Core, Core', NEW t \in Task, NEW r \in Run,
           Passing(t, r), Top(t).at \in {"engine", "locked"}, loop \in {None, t},
           NEW f, f.run = r, f.at # "engine",
           Continue(t, <<f>> \o Rest(t)),
           \A q \in Run \ {r} : registry'[q] = registry[q] /\ NoEffect(q) /\ LockKept(q),
           ran \subseteq ran'
    PROVE  /\ StepsOn(t, r) /\ task'[t] # <<>> /\ Head(task'[t]) = f /\ loop' = t
           /\ \A u \in Task \ {t} : task'[u] = task[u] /\ ~Passing(u, r)'
<1>1. task[t] # <<>> /\ Top(t).run = r
  BY DEF Passing
<1>2. Rest(t) \in Seq(KnownFrame(registry))
  BY <1>1, ResumeType
<1>3. Head(<<f>> \o Rest(t)) = f /\ <<f>> \o Rest(t) # <<>>
  BY <1>2
<1>4. /\ task'[t] # <<>> /\ Head(task'[t]) = f /\ loop' \in {None, t}
      /\ \A u \in Task \ {t} : task'[u] = task[u]
  BY <1>3, Continues
<1>5. loop' = t
  BY <1>4 DEF Core, Stacked, Top
<1>6. \A u \in Task \ {t} : ~Passing(u, r)'
  <2>1. \A u \in Task \ {t} : ~Passing(u, r)
    BY DEF Core, RunOk, PassOk
  <2>2. QED
    BY <1>4, <2>1 DEF Passing, Top
<1>7. StepsOn(t, r)
  BY <1>1, <1>4 DEF StepsOn
<1>8. QED
  BY <1>4, <1>5, <1>6, <1>7

\* The record of a parked run is saved.
LEMMA LockedLedger ==
    ASSUME ~AsyncAdapters, Typed, Typed', Core, Core', Ledger, NEW t \in Task,
           LockedPublished(t),
           spent'.expiries = 0 => spent.expiries = 0
    PROVE  Ledger'
<1> DEFINE f == [Top(t) EXCEPT !.at = "suspended"]
           new == Top(t).obj
<1>1. /\ task[t] # <<>> /\ Top(t).at = "locked" /\ loop \in {None, t}
      /\ Save(Top(t).run, new) /\ Continue(t, <<f>> \o Rest(t))
      /\ UNCHANGED <<locks, ran, ranAgain>>
  BY DEF LockedPublished, Resumes
<1>2. PICK r \in Run : r = Top(t).run
  BY <1>1, ResumeType
<1>3. Passing(t, r)
  BY <1>1, <1>2 DEF Passing
<1>4. new.status = "blocked" /\ new.lockOwner # r
  BY <1>1, <1>3 DEF Core, RunOk, PassOk
<1>5. f.run = r /\ f.at = "suspended"
  BY <1>1, <1>2, ResumeType DEF KnownFrame, Frame
<1>6. /\ Fresh(r, new, ran) /\ Reported(r, new, ran)
      /\ OneReviewed(new) /\ Reached(new)
  BY <1>1, <1>3 DEF Ledger, LedgerOf, PassedOk
<1>7. registry'[r] = new /\ \A q \in Run \ {r} : registry'[q] = registry[q]
  BY <1>1, <1>2 DEF Save, Typed
<1>8. ranAgain' = {} /\ ran' = ran
  BY <1>1 DEF Ledger
<1>9. \A q \in Run \ {r} : NoEffect(q) /\ LockKept(q)
  BY <1>1 DEF NoEffect, LockKept
<1> HIDE DEF f, new
<1>10. StepsOn(t, r) /\ task'[t] # <<>> /\ Head(task'[t]) = f /\ loop' = t
  BY <1>1, <1>3, <1>5, <1>7, <1>8, <1>9, EngineStep
<1>11. ApprovingOk(r)'
  BY <1>5, <1>10 DEF ApprovingOk, TopIs, Top
<1>12. OwnerOk(r)'
  BY <1>4, <1>7 DEF OwnerOk, Owns
<1>13. QED
  BY <1>4, <1>6, <1>7, <1>8, <1>10, <1>11, <1>12, ReviewLedger

\* The outcome of a run that finished or failed is saved.
LEMMA EndsLedger ==
    ASSUME Core, Core', Ledger, NEW t \in Task, NEW r \in Run, StepsOn(t, r),
           ranAgain' = {}, NEW new, registry'[r] = new,
           new.status \in {"completed", "failed"}, Reported(r, new, ran'),
           new.status = "completed" => Finished(new),
           task'[t] # <<>>, Head(task'[t]).at = "terminal", loop' = t,
           spent'.expiries = 0 => spent.expiries = 0
    PROVE  Ledger'
<1>1. RecordOk(r)'
  BY DEF RecordOk, IsTerminal, Terminal
<1>2. PassedOk(r)'
  <2>1. \A u \in Task : ~Passing(u, r)'
    BY DEF Core, RunOk, PassOk
  <2>2. QED
    BY <2>1 DEF PassedOk
<1>3. ApprovingOk(r)'
  BY DEF ApprovingOk, TopIs, Top
<1>4. OwnerOk(r)'
  BY DEF OwnerOk, Owns, IsTerminal, Terminal
<1>5. QED
  BY <1>1, <1>2, <1>3, <1>4, StepKeepsLedger DEF LedgerOf

\* A pass that suspends leaves one step in review.
LEMMA SuspendedSays ==
    ASSUME NEW latest \in WorkflowRun, NEW s \in Step, NEW a \in Artifact,
           Reached(latest), latest.decision[s].action \notin Forward,
           \A q \in Step : q < s => latest.decision[q].action \in Forward
    PROVE  LET new == Suspended(latest, s, a)
           IN  /\ new.status = "awaiting_human"
               /\ new.decision = latest.decision /\ new.effects = latest.effects
               /\ new.lockTarget = latest.lockTarget /\ new.lockOwner = latest.lockOwner
               /\ new.pending = latest.pending
               /\ OneReviewed(new) /\ Reached(new) /\ InReview(new) = {s}
<1> DEFINE new == Suspended(latest, s, a)
<1>1. /\ new.status = "awaiting_human"
      /\ new.decision = latest.decision /\ new.effects = latest.effects
      /\ new.lockTarget = latest.lockTarget /\ new.lockOwner = latest.lockOwner
      /\ new.pending = latest.pending
      /\ new.artifact[s] = a
      /\ new.state = [q \in Step |-> IF q < s THEN "done"
                                     ELSE IF q = s THEN "awaiting_human"
                                     ELSE latest.state[q]]
  BY DEF Suspended, WorkflowRun
<1> HIDE DEF new
<1>2. InReview(new) = {s}
  <2>1. s \in InReview(new)
    <3>1. ~(s < s)
      BY StepsAndKinds
    <3>2. QED
      BY <1>1, <3>1 DEF InReview
  <2>2. ASSUME NEW q \in InReview(new), q # s
        PROVE  FALSE
    <3>1. q \in Step /\ ~(q < s) /\ new.state[q] = latest.state[q]
      BY <1>1, <2>2 DEF InReview
    <3>2. s < q
      BY <2>2, <3>1, StepsAndKinds
    <3>3. q \in InReview(latest)
      BY <2>2, <3>1 DEF InReview
    <3>4. QED
      BY <3>2, <3>3 DEF Reached
  <2>3. QED
    BY <2>1, <2>2
<1>3. Reached(new)
  BY <1>1, <1>2 DEF Reached
<1>4. a # None
  BY RunServiceAssumption
<1>5. OneReviewed(new)
  BY <1>1, <1>2, <1>4 DEF OneReviewed
<1>6. QED
  BY <1>1, <1>2, <1>3, <1>5 DEF new

\* The pass's record is saved with its target, or parked in front of it.
LEMMA ParkLedger ==
    ASSUME ~AsyncAdapters, Typed, Typed', Core, Core', Ledger, NEW t \in Task,
           NEW r \in Run, Passing(t, r), loop = None, Top(t).at = "engine",
           registry[r].status = "running", Saved(r),
           NEW run \in Record, run.status = "awaiting_human",
           run.lockTarget = registry[r].lockTarget,
           run.lockOwner = registry[r].lockOwner,
           NEW s \in Step, InReview(run) = {s}, OneReviewed(run), Reached(run),
           Fresh(r, run, ran'), Reported(r, run, ran'),
           NEW target \in Target \cup {None}, Park(t, r, run, target),
           ranAgain' = {}, ran \subseteq ran', \A q \in Run \ {r} : NoEffect(q),
           spent'.expiries = 0 => spent.expiries = 0
    PROVE  Ledger'
<1> DEFINE held == IF target = None THEN run
                   ELSE [run EXCEPT !.lockTarget = target, !.lockOwner = r]
           marked == [run EXCEPT !.lockTarget = target, !.lockOwner = locks[target],
                                 !.status = "blocked"]
           blocked == SetCurrent(marked, "blocked")
<1>1. \/ /\ target = None \/ locks[target] \in {None, r}
         /\ locks' = IF target = None THEN locks ELSE [locks EXCEPT ![target] = r]
         /\ Save(r, held) /\ Continue(t, <<At("suspended", r, held)>> \o Rest(t))
      \/ /\ target # None /\ UNCHANGED <<locks, registry>>
         /\ Continue(t, <<At("locked", r, blocked)>> \o Rest(t))
  BY DEF Park
<1>2. task[t] # <<>> /\ loop \in {None, t}
  BY DEF Passing
<1>3. CASE /\ target = None \/ locks[target] \in {None, r}
           /\ locks' = IF target = None THEN locks ELSE [locks EXCEPT ![target] = r]
           /\ Save(r, held) /\ Continue(t, <<At("suspended", r, held)>> \o Rest(t))
  <2> DEFINE f == At("suspended", r, held)
  <2>1. /\ held.status = "awaiting_human" /\ held.decision = run.decision
        /\ held.effects = run.effects /\ held.state = run.state
        /\ held.artifact = run.artifact
        /\ target = None => held = run
        /\ target # None => held.lockTarget = target
    BY DEF Record, WorkflowRun
  <2>2. f.run = r /\ f.at = "suspended"
    BY DEF At
  <2>3. registry'[r] = held /\ \A q \in Run \ {r} : registry'[q] = registry[q]
    BY <1>3 DEF Save, Typed
  <2>4. /\ target # None => locks'[target] = r
        /\ target = None => locks' = locks
        /\ \A q \in Run \ {r} : LockKept(q)
    BY <1>3, RunServiceAssumption DEF Typed, LockKept
  <2> HIDE DEF held, f, blocked, marked
  <2>5. Continue(t, <<f>> \o Rest(t))
    BY <1>3 DEF f
  <2>6. StepsOn(t, r) /\ task'[t] # <<>> /\ Head(task'[t]) = f /\ loop' = t
    BY <1>2, <2>2, <2>3, <2>4, <2>5, EngineStep
  <2>7. InReview(held) = InReview(run)
    BY <2>1 DEF InReview
  <2>8. /\ Reported(r, held, ran') /\ Reached(held) /\ Fresh(r, held, ran')
        /\ OneReviewed(held)
    BY <2>1, <2>7 DEF Reported, Reached, Fresh, OneReviewed
  <2>9. ApprovingOk(r)'
    BY <2>2, <2>6 DEF ApprovingOk, TopIs, Top
  <2>10. OwnerOk(r)'
    <3>1. CASE target = None
      <4>1. OwnerOk(r) /\ ~IsTerminal(registry[r])
        BY DEF Ledger, LedgerOf, IsTerminal, Terminal
      <4>2. QED
        BY <2>1, <2>3, <2>4, <3>1, <4>1 DEF OwnerOk, Owns
    <3>2. CASE target # None
      BY <2>1, <2>3, <2>4, <3>2 DEF OwnerOk, Owns
    <3>3. QED
      BY <3>1, <3>2
  <2>11. QED
    BY <2>1, <2>3, <2>6, <2>8, <2>9, <2>10, ReviewLedger
<1>4. CASE /\ target # None /\ UNCHANGED <<locks, registry>>
           /\ Continue(t, <<At("locked", r, blocked)>> \o Rest(t))
  <2> DEFINE f == At("locked", r, blocked)
  <2>1. /\ marked \in WorkflowRun /\ marked.decision = run.decision
        /\ marked.effects = run.effects /\ marked.state = run.state
        /\ marked.artifact = run.artifact
    <3>1. locks[target] \in Run \cup {None}
      BY <1>4 DEF Typed
    <3>2. QED
      BY <1>4, <3>1 DEF Record, WorkflowRun, Status
  <2>2. InReview(marked) = {s}
    BY <2>1 DEF InReview
  <2> HIDE DEF marked, held
  <2>3. /\ blocked.decision = run.decision /\ blocked.effects = run.effects
        /\ blocked.artifact = run.artifact /\ InReview(blocked) = {s}
        /\ \A q \in Step \ {s} : blocked.state[q] = run.state[q]
    BY <2>1, <2>2, SetCurrentSays
  <2>4. f.run = r /\ f.at = "locked" /\ f.obj = blocked
    BY DEF At
  <2> HIDE DEF f, blocked
  <2>5. Continue(t, <<f>> \o Rest(t))
    BY <1>4 DEF f
  <2>6. \A q \in Run \ {r} : registry'[q] = registry[q] /\ NoEffect(q) /\ LockKept(q)
    BY <1>4 DEF LockKept
  <2>7. /\ StepsOn(t, r) /\ task'[t] # <<>> /\ Head(task'[t]) = f /\ loop' = t
        /\ \A u \in Task \ {t} : ~Passing(u, r)'
    BY <1>2, <2>4, <2>5, <2>6, EngineStep
  <2>8. /\ Fresh(r, blocked, ran') /\ Reported(r, blocked, ran') /\ Reached(blocked)
    BY <2>3 DEF Fresh, Reported, Reached
  <2>9. OneReviewed(blocked)
    <3>1. run.artifact[s] # None /\ \A q \in Step : q < s => run.state[q] = "done"
      BY DEF OneReviewed
    <3>2. \A q \in Step : q < s => q # s
      BY StepsAndKinds
    <3>3. QED
      BY <2>3, <3>1, <3>2 DEF OneReviewed
  <2>10. PassedOk(r)'
    <3>1. \A u \in Task : Passing(u, r)' => u = t
      BY <2>7
    <3>2. Top(t)'.obj = blocked
      BY <2>4, <2>7 DEF Top
    <3>3. QED
      BY <2>8, <2>9, <3>1, <3>2 DEF PassedOk
  <2>11. TopIs({"locked"}, r)' /\ ~TopIs({"approving"}, r)'
    BY <2>4, <2>7, RunServiceAssumption DEF TopIs, Top
  <2>12. RecordOk(r)'
    <3>1. /\ Reported(r, registry[r], ran) /\ Reached(registry[r])
      BY DEF Ledger, LedgerOf, RecordOk, IsTerminal, Terminal
    <3>2. Reported(r, registry[r], ran')
      BY <3>1 DEF Reported
    <3>3. QED
      BY <1>4, <2>11, <3>1, <3>2 DEF RecordOk
  <2>13. OwnerOk(r)' /\ ApprovingOk(r)'
    BY <1>4, <2>11 DEF Ledger, LedgerOf, OwnerOk, Owns, ApprovingOk, Saved, IsTerminal
  <2>14. QED
    BY <2>7, <2>10, <2>12, <2>13, StepKeepsLedger DEF LedgerOf
<1>5. QED
  BY <1>1, <1>3, <1>4

\* A pass that failed leaves what is on record as it was.
LEMMA FailsLedger ==
    ASSUME ~AsyncAdapters, Typed, Typed', Core, Core', Ledger, NEW t \in Task,
           NEW r \in Run, Passing(t, r), loop = None, Top(t).at = "engine",
           NEW run \in Record, Reported(r, run, ran), FailRun(t, r, run),
           ranAgain' = {}, ran \subseteq ran', \A q \in Run \ {r} : NoEffect(q),
           spent'.expiries = 0 => spent.expiries = 0
    PROVE  Ledger'
<1> DEFINE marked == SetCurrent(run, "failed")
           failed == [marked EXCEPT !.status = "failed"]
           f == At("terminal", r, failed)
<1>1. /\ Save(r, failed) /\ UNCHANGED locks
      /\ Continue(t, <<f>> \o Rest(t))
  BY DEF FailRun
<1>2. marked \in Record /\ marked.effects = run.effects
  <2>1. marked \in Record
    BY SetCurrentType DEF StepState
  <2>2. QED
    BY <2>1 DEF SetCurrent, Record, WorkflowRun
<1> HIDE DEF marked
<1>3. failed.status = "failed" /\ failed.effects = run.effects
  BY <1>2 DEF Record, WorkflowRun
<1>4. f.run = r /\ f.at = "terminal"
  BY DEF At
<1> HIDE DEF f, failed
<1>5. registry'[r] = failed /\ \A q \in Run \ {r} : registry'[q] = registry[q]
  BY <1>1 DEF Save, Typed
<1>6. \A q \in Run \ {r} : LockKept(q)
  BY <1>1 DEF LockKept
<1>7. Continue(t, <<f>> \o Rest(t)) /\ loop \in {None, t}
  BY <1>1
<1>8. StepsOn(t, r) /\ task'[t] # <<>> /\ Head(task'[t]) = f /\ loop' = t
  BY <1>4, <1>5, <1>6, <1>7, EngineStep
<1>9. Reported(r, failed, ran')
  BY <1>3 DEF Reported
<1>10. QED
  BY <1>3, <1>4, <1>5, <1>8, <1>9, EndsLedger

\* The outcome of a pass of a run that was cancelled meanwhile is dropped; what
\* the pass executed stays executed.
LEMMA DiscardLedger ==
    ASSUME ~AsyncAdapters, Typed, Typed', Core, Core', Ledger, NEW t \in Task,
           NEW r \in Run, Resumes(t, "engine"), r = Top(t).run, Discard(t, r),
           ranAgain' = {}, ran \subseteq ran', \A q \in Run \ {r} : NoEffect(q),
           spent'.expiries = 0 => spent.expiries = 0
    PROVE  Ledger'
<1>1. /\ loop \in {None, t} /\ task[t] # <<>> /\ Top(t).at = "engine"
      /\ Saved(r) /\ registry[r] \in Record
  BY AtEngine
<1>2. /\ IsTerminal(registry[r]) /\ UNCHANGED locks
      /\ ReleaseAndPromote(t, r, registry[r], FALSE, Rest(t))
  BY DEF Discard
<1>3. \A q \in Run : LockKept(q)
  BY <1>2 DEF LockKept
<1>4. QED
  BY <1>1, <1>2, <1>3, ReleaseLedger

\* A pass that answers executed what was due, and nothing else.
LEMMA EngineExecutes ==
    ASSUME NEW t \in Task, NEW r \in Run, r = Top(t).run, Engine(t)
    PROVE  \E S \in SUBSET Due(Top(t).obj) : Execute(r, Top(t).obj, S)
<1>1. ASSUME NEW a \in Artifact, PassSuspended(t, a)
      PROVE  Execute(r, Top(t).obj, Due(Top(t).obj))
  BY <1>1 DEF PassSuspended
<1>2. ASSUME PassCompleted(t)
      PROVE  Execute(r, Top(t).obj, Due(Top(t).obj))
  BY <1>2 DEF PassCompleted
<1>3. ASSUME NEW j \in 0..NumSteps, PassFailed(t, j) \/ PassBroken(t, j)
      PROVE  Execute(r, Top(t).obj, Prefix(Top(t).obj, j))
  BY <1>3 DEF PassFailed, PassBroken
<1>4. \A j \in 0..NumSteps : Prefix(Top(t).obj, j) \subseteq Due(Top(t).obj)
  BY DEF Prefix
<1>5. QED
  BY <1>1, <1>2, <1>3, <1>4 DEF Engine

\* A pass that suspends saves its run with the next step in review.
LEMMA SuspendLedger ==
    ASSUME ~AsyncAdapters, Typed, Typed', Core, Core', Ledger, NEW t \in Task,
           NEW r \in Run, r = Top(t).run, Resumes(t, "engine"),
           NEW a \in Artifact, PassSuspended(t, a), ~Discard(t, r),
           ranAgain' = {}, ran \subseteq ran', \A q \in Run \ {r} : NoEffect(q),
           spent'.expiries = 0 => spent.expiries = 0
    PROVE  Ledger'
<1> DEFINE run == Top(t).obj
           latest == WithEffects(run, run)
           s == SuspendStep(run)
           parked == Suspended(latest, s, a)
           target == TargetOf[r, s]
<1>1. /\ loop = None /\ Passing(t, r) /\ Top(t).at = "engine" /\ Saved(r)
      /\ run \in Record /\ registry[r] \in Record
      /\ registry[r].status \in {"running", "cancelled"}
      /\ registry[r].status = "running" => run = registry[r]
  BY AtEngine
<1>2. ~IsTerminal(registry[r]) /\ Open(run) # {} /\ Execute(r, run, Due(run))
  BY DEF PassSuspended
<1>3. registry[r].status = "running" /\ run = registry[r]
  BY <1>1, <1>2 DEF IsTerminal, Terminal
<1>4. Park(t, r, parked, target)
  BY <1>3 DEF PassSuspended
<1>5. s \in Step /\ s \in Open(run) /\ \A q \in Open(run) : s <= q
  BY <1>2, SuspendStepType
<1>6. target \in Target \cup {None}
  <2>1. <<r, s>> \in Run \X Step
    BY <1>5
  <2>2. QED
    BY <2>1, RunServiceAssumption, Zenon
<1>7. latest \in Record
  BY <1>1, EffectTypes
<1>8. /\ latest.decision = run.decision /\ latest.state = run.state
      /\ latest.lockTarget = run.lockTarget /\ latest.lockOwner = run.lockOwner
  BY <1>1 DEF WithEffects, Record, WorkflowRun
<1> HIDE DEF latest, s, parked, target
<1>9. /\ latest.decision[s].action \notin Forward
      /\ \A q \in Step : q < s => latest.decision[q].action \in Forward
  <2>1. \A q \in Step : q < s => q \notin Open(run)
    BY <1>5, StepsAndKinds
  <2>2. QED
    BY <1>5, <1>8, <2>1 DEF Open
<1>10. Reached(latest)
  <2>1. Reached(run)
    BY <1>1, <1>2, <1>3 DEF Ledger, LedgerOf, RecordOk
  <2>2. QED
    BY <1>8, <2>1 DEF Reached, InReview
<1>11. /\ parked.status = "awaiting_human"
       /\ parked.decision = latest.decision /\ parked.effects = latest.effects
       /\ parked.lockTarget = latest.lockTarget /\ parked.lockOwner = latest.lockOwner
       /\ OneReviewed(parked) /\ Reached(parked) /\ InReview(parked) = {s}
  BY <1>5, <1>7, <1>9, <1>10, SuspendedSays DEF parked, Record
<1>12. parked \in Record
  BY <1>5, <1>7, SuspendedType DEF parked
<1>13. Fresh(r, parked, ran') /\ Reported(r, parked, ran')
  <2>1. parked.effects = WithEffects(run, run).effects
    BY <1>11 DEF latest
  <2>2. QED
    BY <1>1, <1>2, <1>3, <1>8, <1>11, <2>1, MergedEffects
<1>14. /\ parked.lockTarget = registry[r].lockTarget
       /\ parked.lockOwner = registry[r].lockOwner
  BY <1>3, <1>8, <1>11
<1>15. QED
  BY <1>1, <1>3, <1>4, <1>5, <1>6, <1>11, <1>12, <1>13, <1>14, ParkLedger

\* A pass that finds every step decided completes its run.
LEMMA CompleteLedger ==
    ASSUME ~AsyncAdapters, Typed, Typed', Core, Core', Ledger, NEW t \in Task,
           NEW r \in Run, r = Top(t).run, Resumes(t, "engine"),
           PassCompleted(t), ~Discard(t, r),
           ranAgain' = {}, ran \subseteq ran', \A q \in Run \ {r} : NoEffect(q),
           spent'.expiries = 0 => spent.expiries = 0
    PROVE  Ledger'
<1> DEFINE run == Top(t).obj
           latest == WithEffects(run, run)
           done == [latest EXCEPT !.state = [s \in Step |-> "done"],
                                  !.status = "completed"]
           f == At("terminal", r, done)
<1>1. /\ loop = None /\ Passing(t, r) /\ Top(t).at = "engine" /\ Saved(r)
      /\ run \in Record /\ registry[r] \in Record
      /\ registry[r].status \in {"running", "cancelled"}
      /\ registry[r].status = "running" => run = registry[r]
  BY AtEngine
<1>2. ~IsTerminal(registry[r]) /\ Open(run) = {} /\ Execute(r, run, Due(run))
  BY DEF PassCompleted
<1>3. registry[r].status = "running" /\ run = registry[r]
  BY <1>1, <1>2 DEF IsTerminal, Terminal
<1>4. UNCHANGED locks /\ Save(r, done) /\ Continue(t, <<f>> \o Rest(t))
  BY <1>3 DEF PassCompleted
<1>5. latest \in Record /\ latest.decision = run.decision
  <2>1. latest \in Record
    BY <1>1, EffectTypes
  <2>2. QED
    BY <1>1, <2>1 DEF WithEffects, Record, WorkflowRun
<1> HIDE DEF latest
<1>6. /\ done.status = "completed" /\ done.decision = run.decision
      /\ done.effects = latest.effects
  BY <1>5 DEF Record, WorkflowRun
<1>7. f.run = r /\ f.at = "terminal"
  BY DEF At
<1> HIDE DEF f, done
<1>8. registry'[r] = done /\ \A q \in Run \ {r} : registry'[q] = registry[q]
  BY <1>4 DEF Save, Typed
<1>9. Reported(r, done, ran') /\ Finished(done)
  <2>1. done.effects = WithEffects(run, run).effects
    BY <1>6 DEF latest
  <2>2. QED
    BY <1>1, <1>2, <1>3, <1>6, <2>1, MergedEffects
<1>10. \A q \in Run \ {r} : LockKept(q)
  BY <1>4 DEF LockKept
<1>11. StepsOn(t, r) /\ task'[t] # <<>> /\ Head(task'[t]) = f /\ loop' = t
  BY <1>1, <1>4, <1>7, <1>8, <1>10, EngineStep
<1>12. QED
  BY <1>6, <1>7, <1>8, <1>9, <1>11, EndsLedger

\* A pass ends: what it executed is on the record it came from, and new.
LEMMA EngineLedger ==
    ASSUME ~AsyncAdapters, Typed, Typed', Core, Core', Ledger, NEW t \in Task,
           Engine(t),
           spent'.expiries = 0 => spent.expiries = 0
    PROVE  Ledger'
<1>1. Resumes(t, "engine")
  BY DEF Engine, PassSuspended, PassCompleted, PassFailed, PassBroken
<1>2. PICK r \in Run : r = Top(t).run
  BY <1>1, AtEngine
<1>3. /\ loop = None /\ Passing(t, r) /\ Top(t).at = "engine" /\ Saved(r)
      /\ Top(t).obj \in Record /\ registry[r] \in Record
  BY <1>1, <1>2, AtEngine
<1>4. PICK S \in SUBSET Due(Top(t).obj) : Execute(r, Top(t).obj, S)
  BY <1>2, EngineExecutes
<1>5. ranAgain' = {} /\ ran \subseteq ran' /\ \A q \in Run \ {r} : NoEffect(q)
  BY <1>3, <1>4, PassEffects
<1>6. CASE Discard(t, r)
  BY <1>1, <1>2, <1>5, <1>6, DiscardLedger
<1>7. ASSUME NEW a \in Artifact, PassSuspended(t, a), ~Discard(t, r)
      PROVE  Ledger'
  BY <1>1, <1>2, <1>5, <1>7, SuspendLedger
<1>8. ASSUME PassCompleted(t), ~Discard(t, r)
      PROVE  Ledger'
  BY <1>1, <1>2, <1>5, <1>8, CompleteLedger
<1>9. ASSUME NEW j \in 0..NumSteps, PassFailed(t, j) \/ PassBroken(t, j), ~Discard(t, r)
      PROVE  Ledger'
  <2>1. FailRun(t, r, registry[r]) \/ FailRun(t, r, Top(t).obj)
    BY <1>2, <1>9 DEF PassFailed, PassBroken
  <2>2. Reported(r, registry[r], ran) /\ Reported(r, Top(t).obj, ran)
    BY <1>3 DEF Ledger, LedgerOf, RecordOk, PassedOk
  <2>3. QED
    BY <1>3, <1>5, <2>1, <2>2, FailsLedger
<1>10. QED
  BY <1>6, <1>7, <1>8, <1>9 DEF Engine

----------------------------------------------------------------------------
\* A target lock that expires is counted.
LEMMA ExpiryLedger ==
    ASSUME Typed, Core, Ledger, NEW x \in Target, LockExpires(x)
    PROVE  Ledger'
<1>1. /\ loop = None /\ spent' = [spent EXCEPT !.expiries = @ + 1]
      /\ UNCHANGED <<registry, task, loop, ran, ranAgain>>
  BY DEF LockExpires
<1>2. spent'.expiries # 0
  BY <1>1 DEF Typed
<1>3. ASSUME NEW q \in Run
      PROVE  LedgerOf(q)'
  <2>1. LedgerOf(q) /\ Carries(q) /\ ran \subseteq ran' /\ NoEffect(q)
    BY <1>1 DEF Ledger, Carries, NoEffect
  <2>2. \A points : ~TopIs(points, q) /\ ~TopIs(points, q)'
    BY <1>1 DEF TopIs
  <2>3. PassKept(q)
    BY <1>1 DEF PassKept, Passing, Top
  <2>4. LockKept(q)
    BY <1>2 DEF LockKept
  <2>5. QED
    BY <1>2, <2>1, <2>2, <2>3, <2>4, CarriedStays
<1>4. QED
  BY <1>1, <1>3 DEF Ledger

\* Nothing but an expiry counts as one.
LEMMA OnlyExpiriesCount ==
    ASSUME Typed, [Next]_vars
    PROVE  \/ spent'.expiries = 0 => spent.expiries = 0
           \/ \E x \in Target : LockExpires(x)
<1>1. \/ UNCHANGED spent \/ Ask \/ Fail \/ \E x \in Target : LockExpires(x)
  <2>1. ASSUME NEW t \in Task, NEW r \in Run, Request(t, r)
        PROVE  UNCHANGED spent \/ Ask
    BY <2>1 DEF Request, StartRun, RequestCancel, Approve, Regenerate, Back, Decided,
                RequestRetry
  <2>2. ASSUME NEW t \in Task, NEW r \in Run, Sweep(t, r)
        PROVE  UNCHANGED spent
    BY <2>2 DEF Sweep, SweepStalled, SweepBlocked
  <2>3. ASSUME NEW t \in Task, Engine(t)
        PROVE  UNCHANGED spent
    BY <2>3 DEF Engine, PassSuspended, PassCompleted, PassFailed, PassBroken
  <2>4. ASSUME NEW t \in Task, Proceed(t)
        PROVE  UNCHANGED spent
    BY <2>4 DEF Proceed, Promote, QueuedPublished, StartLaunch, LockedPublished,
                SuspendedPublished, TerminalPublished, CancelPublished, Approved,
                DecisionPublished, UnlockedPublished, Unwind, LeavesLock
  <2>5. ASSUME NEW t \in Task, PublishRaises(t) \/ QueuedRaises(t)
        PROVE  Fail
    BY <2>5 DEF PublishRaises, QueuedRaises
  <2>6. CASE Restart
    BY <2>6 DEF Restart
  <2>7. CASE UNCHANGED vars
    BY <2>7 DEF vars
  <2>8. QED
    BY <2>1, <2>2, <2>3, <2>4, <2>5, <2>6, <2>7 DEF Next
<1>2. QED
  BY <1>1 DEF Ask, Fail, Typed

\* Nothing happens.
LEMMA StutterLedger ==
    ASSUME Ledger, UNCHANGED vars
    PROVE  Ledger'
<1>1. UNCHANGED <<registry, locks, receipts, task, loop, ran, ranAgain, spent>>
  BY DEF vars
<1>2. /\ \A q : Saved(q)' <=> Saved(q)
      /\ \A points, q : TopIs(points, q)' <=> TopIs(points, q)
      /\ \A t, q : Passing(t, q)' <=> Passing(t, q)
      /\ \A t : Top(t)' = Top(t)
  BY <1>1 DEF Saved, TopIs, Passing, Top
<1>3. ASSUME NEW q \in Run
      PROVE  LedgerOf(q)'
  <2>1. LedgerOf(q)
    BY DEF Ledger
  <2>2. RecordOk(q)'
    BY <1>1, <1>2, <2>1 DEF LedgerOf, RecordOk, Fresh, Reported
  <2>3. PassedOk(q)'
    BY <1>1, <1>2, <2>1
       DEF LedgerOf, PassedOk, Fresh, Reported, OneReviewed, Reached, InReview
  <2>4. ApprovingOk(q)' /\ OwnerOk(q)'
    BY <1>1, <1>2, <2>1 DEF LedgerOf, ApprovingOk, Approval, OwnerOk, Owns, IsTerminal, Top
  <2>5. QED
    BY <2>2, <2>3, <2>4 DEF LedgerOf
<1>4. QED
  BY <1>1, <1>3 DEF Ledger

\* With the memory adapters what the engine executed is always on the run's
\* record or on the pass that executed it, so that no later pass finds it due
\* again (flow.ts's effect check, runs/mastra_client.py's merge of the
\* effects); the step in review is the first that is not decided, and an
\* owner on record has its lock.
THEOREM LedgerHolds == ASSUME ~AsyncAdapters PROVE Spec => []Ledger
<1>1. Init => Ledger
  <2> SUFFICES ASSUME Init
               PROVE  Ledger
    OBVIOUS
  <2>1. /\ ranAgain = {} /\ loop = None
        /\ \A t \in Task : task[t] = <<>>
        /\ \A q \in Run : ~Saved(q)
    BY DEF Init, Saved
  <2>2. QED
    BY <2>1 DEF Ledger, LedgerOf, RecordOk, PassedOk, ApprovingOk, OwnerOk,
                TopIs, Passing, Owns
<1>2. /\ Typed /\ Typed' /\ Core /\ Core' /\ EffectsNeedApproval /\ Ledger
      /\ [Next]_vars
      => Ledger'
  <2> SUFFICES ASSUME Typed, Typed', Core, Core', EffectsNeedApproval, Ledger,
                      [Next]_vars
               PROVE  Ledger'
    OBVIOUS
  <2> SUFFICES ASSUME spent'.expiries = 0 => spent.expiries = 0
               PROVE  Ledger'
    BY OnlyExpiriesCount, ExpiryLedger
  <2>1. ASSUME NEW t \in Task, NEW r \in Run, Request(t, r)
        PROVE  Ledger'
    BY <2>1, StartLedger, CancelLedger, ApproveLedger, ReviseLedger, RetryLedger
       DEF Request, RequestCancel, RequestRetry
  <2>2. ASSUME NEW t \in Task, NEW r \in Run, Sweep(t, r)
        PROVE  Ledger'
    BY <2>2, CancelLedger, RetryLedger DEF Sweep, SweepStalled, SweepBlocked
  <2>3. ASSUME NEW t \in Task, Engine(t)
        PROVE  Ledger'
    BY <2>3, EngineLedger
  <2>4. ASSUME NEW t \in Task, Proceed(t)
        PROVE  Ledger'
    BY <2>4, PromoteLedger, LeaveLedger, DecisionLedger, LockedLedger,
       PublishedLedger, ApprovedLedger
       DEF Proceed
  <2>5. ASSUME NEW t \in Task, PublishRaises(t) \/ QueuedRaises(t)
        PROVE  Ledger'
    BY <2>5 DEF PublishRaises, QueuedRaises
  <2>6. CASE Restart
    BY <2>6 DEF Restart
  <2>7. ASSUME NEW x \in Target, LockExpires(x)
        PROVE  Ledger'
    BY <2>7, ExpiryLedger
  <2>8. CASE UNCHANGED vars
    BY <2>8, StutterLedger
  <2>9. QED
    BY <2>1, <2>2, <2>3, <2>4, <2>5, <2>6, <2>7, <2>8 DEF Next
<1>3. QED
  BY <1>1, <1>2, TypedHolds, CoreHolds, EffectsAreApproved, PTL DEF Spec

\* With the memory adapters an approved action is executed at most once,
\* whatever is retried, gone back to, regenerated, failed or cancelled.
THEOREM MemoryEffectAtMostOnce ==
    ASSUME ~AsyncAdapters PROVE Spec => []EffectAtMostOnce
<1>1. Ledger => EffectAtMostOnce
  BY DEF Ledger, EffectAtMostOnce
<1>2. QED
  BY <1>1, LedgerHolds, PTL

\* With the memory adapters a completed run was approved step by step, by
\* receipts for exactly what its record says, and its side-effecting steps
\* were executed and are on record.
THEOREM MemoryCompletedIsApproved ==
    ASSUME ~AsyncAdapters PROVE Spec => []CompletedIsApproved
<1>1. Ledger /\ DecisionsAreBacked => CompletedIsApproved
  <2> SUFFICES ASSUME Ledger, DecisionsAreBacked, NEW r \in Run,
                      HasStatus(r, "completed"), NEW s \in Step
               PROVE  /\ <<r, s, registry[r].decision[s]>> \in receipts
                      /\ s \in SideEffecting =>
                            /\ registry[r].effects[s] = registry[r].decision[s]
                            /\ <<r, s, registry[r].decision[s]>> \in ran
    BY DEF CompletedIsApproved
  <2>1. Saved(r) /\ Finished(registry[r]) /\ Reported(r, registry[r], ran)
    BY DEF Ledger, LedgerOf, RecordOk, HasStatus
  <2>2. /\ registry[r].decision[s].action \in Forward
        /\ s \in SideEffecting => registry[r].effects[s] = registry[r].decision[s]
    BY <2>1 DEF Finished
  <2>3. <<r, s, registry[r].decision[s]>> \in receipts
    BY <2>1, <2>2 DEF DecisionsAreBacked, Backed
  <2>4. s \in SideEffecting => <<r, s, registry[r].decision[s]>> \in ran
    BY <2>1, <2>2 DEF Reported
  <2>5. QED
    BY <2>2, <2>3, <2>4
<1>2. QED
  BY <1>1, LedgerHolds, CopiesAreBacked, PTL

\* With the memory adapters a run that awaits its human has one step in
\* review, with an artifact to look at and everything before it done: decide
\* finds the step it is asked about.
THEOREM MemoryOneStepInReview ==
    ASSUME ~AsyncAdapters PROVE Spec => []OneStepInReview
<1>1. Typed /\ Core /\ Ledger => OneStepInReview
  <2> SUFFICES ASSUME Typed, Core, Ledger, NEW r \in Run,
                      HasStatus(r, "awaiting_human"), Unattended(r)
               PROVE  OneReviewed(registry[r])
    BY DEF OneStepInReview, OneReviewed
  <2>1. ~TopIs({"decided"}, r)
    BY UnattendedIsIdle
  <2>2. QED
    BY <2>1 DEF Ledger, LedgerOf, RecordOk, HasStatus
<1>2. QED
  BY <1>1, TypedHolds, CoreHolds, LedgerHolds, PTL

\* With the memory adapters two runs that are not over never both own a
\* target, as long as no lock's TTL has run out (locks.py: "one owner run per
\* shared target"). What happens after one has is the run MCRunExpiry.
THEOREM MemoryTargetExclusive ==
    ASSUME ~AsyncAdapters PROVE Spec => [](spent.expiries = 0 => TargetExclusive)
<1>1. Ledger => (spent.expiries = 0 => TargetExclusive)
  <2> SUFFICES ASSUME Ledger, spent.expiries = 0, NEW x \in Target,
                      NEW p \in Run, NEW q \in Run, Owns(p, x), Owns(q, x)
               PROVE  p = q
    BY DEF TargetExclusive
  <2>1. locks[x] = p /\ locks[x] = q
    BY DEF Ledger, LedgerOf, OwnerOk
  <2>2. QED
    BY <2>1
<1>2. QED
  BY <1>1, LedgerHolds, PTL

----------------------------------------------------------------------------
(***************************************************************************)
(* The promise: every step is one of GovernedRun, or changes nothing of    *)
(* what it speaks of.                                                      *)
(***************************************************************************)

\* What the promise sees of a run.
SavedStatus == [r \in Run |-> IF Saved(r) THEN registry[r].status ELSE "none"]

\* A step that the promise allows.
PromiseStep == [Governed!Next]_(Governed!governedVars)

\* The saved status of one run changes.
LEMMA StatusMoves ==
    ASSUME NEW r \in Run, \A q \in Run \ {r} : registry'[q] = registry[q],
           NEW from, SavedStatus[r] \in from,
           NEW to, registry'[r] # None, registry'[r].status = to
    PROVE  Governed!Moves(r, from, to)
<1>1. SavedStatus' = [SavedStatus EXCEPT ![r] = to]
  BY DEF SavedStatus, Saved
<1>2. QED
  BY <1>1 DEF SavedStatus, Governed!Moves

\* No saved status changes.
LEMMA StatusStays ==
    ASSUME NEW r \in Run, \A q \in Run \ {r} : registry'[q] = registry[q],
           \/ registry'[r] = registry[r]
           \/ /\ Saved(r) /\ registry'[r] # None
              /\ registry'[r].status = registry[r].status
    PROVE  SavedStatus' = SavedStatus
BY DEF SavedStatus, Saved

\* Steps the promise does not see.
LEMMA StutterPromise ==
    ASSUME SavedStatus' = SavedStatus, receipts' = receipts, ran' = ran
    PROVE  PromiseStep
BY DEF PromiseStep, SavedStatus, Governed!governedVars

\* What the pass of one run executed was approved for that run.
LEMMA PromiseExecutes ==
    ASSUME NEW r \in Run, Typed', EffectsNeedApproval', receipts' = receipts,
           ran \subseteq ran', \A q \in Run \ {r} : NoEffect(q)
    PROVE  Governed!Executes(r)
<1>1. ASSUME NEW e \in ran' \ ran
      PROVE  e \in receipts \cap ({r} \X Step \X Decision)
  <2>1. e \in Run \X Step \X Decision /\ e \in receipts
    BY <1>1 DEF Typed, EffectsNeedApproval
  <2>2. PICK q \in Run, s \in Step, d \in Decision : e = <<q, s, d>>
    BY <2>1
  <2>3. q = r
    BY <1>1, <2>2 DEF NoEffect
  <2>4. QED
    BY <2>1, <2>2, <2>3
<1>2. QED
  BY <1>1 DEF Governed!Executes

----------------------------------------------------------------------------
\* A run that asks for its slots is scheduled, at once or in a line.
LEMMA LaunchPromise ==
    ASSUME Typed, Typed', NEW t \in Task, NEW r \in Run, Saved(r),
           registry[r].status \in {"queued", "awaiting_human"},
           NEW run \in Record, NEW stack \in Seq(KnownFrame(registry)),
           TryLaunch(t, r, run, stack), UNCHANGED <<receipts, ran>>
    PROVE  PromiseStep
<1>1. PICK A, d, st :
          /\ st \in {"running", "queued"}
          /\ Save(r, Walked(run, A, d, st))
          /\ Continue(t, <<At(IF st = "running" THEN "engine" ELSE "queued", r,
                              Walked(run, A, d, st))>> \o stack)
  BY DEF TryLaunch, Walked
<1> DEFINE new == Walked(run, A, d, st)
           f == At(IF st = "running" THEN "engine" ELSE "queued", r, new)
<1>2. new.status = st
  BY WalkedSays
<1>3. registry'[r] = new /\ \A q \in Run \ {r} : registry'[q] = registry[q]
  BY <1>1 DEF Save, Typed
<1>4. f.run = r /\ f.at \in {"engine", "queued"}
  BY <1>1 DEF At
<1> HIDE DEF new
<1>5. Continue(t, <<f>> \o stack)
  BY <1>1 DEF new
<1> HIDE DEF f
<1>6. Head(<<f>> \o stack) = f /\ <<f>> \o stack # <<>>
  OBVIOUS
<1>7. Head(task'[t]) \in KnownFrame(registry') /\ Head(task'[t]) = f
  <2>1. task'[t] # <<>> /\ Head(task'[t]) = f
    BY <1>5, <1>6, Continues
  <2>2. QED
    BY <2>1 DEF Typed
<1>8. registry'[r] # None
  BY <1>4, <1>7, NoneAssumption DEF KnownFrame, Record
<1>9. SavedStatus[r] \in {"queued", "awaiting_human"}
  BY DEF SavedStatus
<1>10. Governed!Moves(r, {"queued", "awaiting_human"}, st)
  BY <1>2, <1>3, <1>8, <1>9, StatusMoves
<1>11. Governed!Schedule(r)
  BY <1>1, <1>10 DEF Governed!Schedule
<1>12. QED
  BY <1>11 DEF PromiseStep, Governed!Next

\* Giving slots back changes no saved status.
LEMMA ReleaseSays ==
    ASSUME Typed, NEW t \in Task, NEW r \in Run, Saved(r),
           NEW run \in Record, run.status = registry[r].status,
           NEW changed, NEW stack, ReleaseAndPromote(t, r, run, changed, stack)
    PROVE  SavedStatus' = SavedStatus
<1> DEFINE new == [run EXCEPT !.pending = NoPass]
<1>1. Save(r, new) \/ UNCHANGED registry
  BY DEF ReleaseAndPromote
<1>2. new # None /\ new.status = run.status
  BY UpdateTypes, PassTypes, SameFields, NoneAssumption DEF Record
<1> HIDE DEF new
<1>3. /\ registry'[r] = new \/ registry'[r] = registry[r]
      /\ \A q \in Run \ {r} : registry'[q] = registry[q]
  BY <1>1 DEF Save, Typed
<1>4. QED
  BY <1>2, <1>3, StatusStays

\* Starting, driving and releasing a run.
LEMMA ProceedPromise ==
    ASSUME ~AsyncAdapters, Typed, Typed', Core, Core', NEW t \in Task,
           \/ Promote(t) \/ StartLaunch(t) \/ DecisionPublished(t)
           \/ QueuedPublished(t) \/ UnlockedPublished(t) \/ Unwind(t)
           \/ SuspendedPublished(t) \/ TerminalPublished(t) \/ CancelPublished(t)
    PROVE  PromiseStep
<1>1. /\ task[t] # <<>> /\ loop \in {None, t} /\ UNCHANGED <<receipts, ran>>
      /\ Top(t).at \in {"promote", "created", "decided", "queued", "unlocked",
                        "unwinding", "suspended", "terminal", "cancelled"}
  BY DEF Promote, StartLaunch, DecisionPublished, QueuedPublished, UnlockedPublished,
         Unwind, SuspendedPublished, TerminalPublished, CancelPublished, LeavesLock, Resumes
<1>2. PICK r \in Run : r = Top(t).run
  BY <1>1, ResumeType
<1>3. loop = t /\ loop # None
  BY <1>1, RunServiceAssumption DEF Core, Stacked
<1>4. Rest(t) \in Seq(KnownFrame(registry)) /\ Top(t).obj \in Record
      /\ Top(t).step \in Step \cup {0}
  BY <1>1, ResumeType
<1>5. ASSUME Top(t).at # "promote"
      PROVE  registry[r] \in Record /\ Saved(r)
  BY <1>1, <1>2, <1>5, ResumeType, NoneAssumption DEF Record, Saved
<1>6. ASSUME Promote(t)
      PROVE  PromiseStep
  <2>1. PICK next \in Promoting(Top(t).todo, Rest(t)) :
           \/ UNCHANGED registry
           \/ /\ Saved(r) /\ ~IsTerminal(registry[r])
              /\ TryLaunch(t, r, registry[r], next)
    BY <1>2, <1>6 DEF Promote
  <2>2. CASE UNCHANGED registry
    BY <1>1, <2>2, StutterPromise DEF SavedStatus, Saved
  <2>3. CASE /\ Saved(r) /\ ~IsTerminal(registry[r])
             /\ TryLaunch(t, r, registry[r], next)
    <3>1. registry[r] \in Record
      BY <2>3 DEF Typed, Saved
    <3>2. r \in Owed
      <4>1. Top(t).at = "promote" /\ 1 \in DOMAIN task[t] /\ Top(t) = task[t][1]
        BY <1>1, <1>6 DEF Promote, Resumes, Typed, Top
      <4>2. r \in FrameOwes(Top(t))
        BY <1>2, <4>1 DEF FrameOwes
      <4>3. QED
        BY <4>1, <4>2 DEF Owed, Owes
    <3>3. registry[r].status = "queued"
      BY <2>3, <3>2 DEF Core, RunOk, DebtOk, IsTerminal
    <3>4. next \in Seq(KnownFrame(registry))
      BY <1>1, ResumeType, PromotingType
    <3>5. QED
      BY <1>1, <2>3, <3>1, <3>3, <3>4, LaunchPromise
  <2>4. QED
    BY <2>1, <2>2, <2>3
<1>7. ASSUME StartLaunch(t) \/ DecisionPublished(t)
      PROVE  PromiseStep
  <2>1. Top(t).at \in {"created", "decided"}
    BY <1>7 DEF StartLaunch, DecisionPublished, Resumes
  <2>2. registry[r].status \in {"queued", "awaiting_human"} /\ Saved(r)
    BY <1>2, <1>3, <1>5, <2>1 DEF Core, Copies
  <2>3. PICK p \in Pass : TryLaunch(t, r, [Top(t).obj EXCEPT !.pending = p], Rest(t))
    BY <1>2, <1>4, <1>7, PassTypes DEF StartLaunch, DecisionPublished
  <2> DEFINE run == [Top(t).obj EXCEPT !.pending = p]
  <2>4. run \in Record
    BY <1>4, UpdateTypes
  <2> HIDE DEF run
  <2>5. TryLaunch(t, r, run, Rest(t))
    BY <2>3 DEF run
  <2>6. QED
    BY <1>1, <1>4, <2>2, <2>4, <2>5, LaunchPromise
<1>8. ASSUME QueuedPublished(t) \/ UnlockedPublished(t) \/ Unwind(t)
      PROVE  PromiseStep
  BY <1>1, <1>8, StutterPromise
     DEF QueuedPublished, UnlockedPublished, Unwind, LeavesLock, SavedStatus, Saved
<1>9. ASSUME SuspendedPublished(t) \/ TerminalPublished(t) \/ CancelPublished(t)
      PROVE  PromiseStep
  <2>1. Top(t).at \in {"suspended", "terminal", "cancelled"}
    BY <1>9 DEF SuspendedPublished, TerminalPublished, CancelPublished, Resumes
  <2>2. Saved(r) /\ registry[r] = Top(t).obj
    BY <1>2, <1>3, <1>5, <2>1 DEF Core, Copies
  <2> DEFINE given == [Top(t).obj EXCEPT !.lockOwner = None]
  <2>3. \/ ReleaseAndPromote(t, r, Top(t).obj, FALSE, Rest(t))
        \/ ReleaseAndPromote(t, r, given, TRUE, Rest(t))
    BY <1>2, <1>9
       DEF SuspendedPublished, TerminalPublished, CancelPublished, ReleaseResources
  <2>4. given \in Record /\ given.status = Top(t).obj.status
    BY <1>4, UpdateTypes DEF Record, WorkflowRun
  <2> HIDE DEF given
  <2>5. SavedStatus' = SavedStatus
    BY <1>4, <2>2, <2>3, <2>4, ReleaseSays
  <2>6. QED
    BY <1>1, <2>5, StutterPromise
<1>10. QED
  BY <1>6, <1>7, <1>8, <1>9

\* Requests of humans and of the sweeper.
LEMMA RequestPromise ==
    ASSUME Typed, Typed', NEW t \in Task, NEW r \in Run,
           \/ StartRun(t, r) \/ Cancel(t, r) \/ RetryLock(t, r)
           \/ \E s \in Step :
                  \/ \E action \in Forward : Approve(t, r, s, action)
                  \/ Regenerate(t, r, s) \/ Back(t, r, s)
    PROVE  PromiseStep
<1>1. UNCHANGED <<receipts, ran>>
  BY DEF StartRun, Cancel, RetryLock, Approve, Regenerate, Back, Decided
<1>2. ASSUME StartRun(t, r)
      PROVE  PromiseStep
  <2>1. registry[r] = None /\ Save(r, NewRun)
    BY <1>2 DEF StartRun
  <2>2. registry'[r] = NewRun /\ \A q \in Run \ {r} : registry'[q] = registry[q]
    BY <2>1 DEF Save, Typed
  <2>3. NewRun # None /\ NewRun.status = "queued"
    BY NewRunType, NoneAssumption DEF Record, NewRun
  <2>4. SavedStatus[r] \in {"none"}
    BY <2>1 DEF SavedStatus, Saved
  <2>5. Governed!Moves(r, {"none"}, "queued")
    BY <2>2, <2>3, <2>4, StatusMoves
  <2>6. Governed!Create(r)
    BY <1>1, <2>5 DEF Governed!Create
  <2>7. QED
    BY <2>6 DEF PromiseStep, Governed!Next
<1>3. ASSUME Cancel(t, r)
      PROVE  PromiseStep
  <2> DEFINE cancelled == [registry[r] EXCEPT !.status = "cancelled"]
  <2>1. Saved(r) /\ ~IsTerminal(registry[r]) /\ Save(r, cancelled)
    BY <1>3 DEF Cancel
  <2>2. registry[r] \in Record /\ registry[r].status \in Status
    BY <2>1 DEF Typed, Saved, Record, WorkflowRun
  <2>3. cancelled \in Record /\ cancelled.status = "cancelled"
    BY <2>2, UpdateTypes DEF Record, WorkflowRun, Status, Terminal
  <2> HIDE DEF cancelled
  <2>4. registry'[r] = cancelled /\ \A q \in Run \ {r} : registry'[q] = registry[q]
    BY <2>1 DEF Save, Typed
  <2>5. SavedStatus[r] \in Governed!Unfinished
    BY <2>1, <2>2 DEF SavedStatus, Governed!Unfinished, Status, Terminal, IsTerminal
  <2>6. registry'[r] # None /\ registry'[r].status = "cancelled"
    BY <2>3, <2>4, NoneAssumption DEF Record
  <2>7. Governed!Moves(r, Governed!Unfinished, "cancelled")
    BY <2>4, <2>5, <2>6, StatusMoves
  <2>8. Governed!Cancel(r)
    BY <1>1, <2>7 DEF Governed!Cancel
  <2>9. QED
    BY <2>8 DEF PromiseStep, Governed!Next
<1>4. ASSUME RetryLock(t, r)
      PROVE  PromiseStep
  <2> DEFINE target == registry[r].lockTarget
             run == SetCurrent(registry[r], "awaiting_human")
             freed == [run EXCEPT !.lockOwner = r, !.status = "awaiting_human"]
             owned == [registry[r] EXCEPT !.lockOwner = locks[target]]
  <2>1. Saved(r) /\ registry[r].status = "blocked" /\ (Save(r, owned) \/ Save(r, freed))
    BY <1>4 DEF RetryLock, HasStatus
  <2>2. registry[r] \in Record
    BY <2>1 DEF Typed, Saved
  <2>3. run \in Record
    BY <2>2, SetCurrentType DEF StepState
  <2>4. owned \in Record /\ owned.status = "blocked"
    <3>1. locks[target] \in Run \cup {None}
      BY <2>1, <2>2 DEF Typed, Record, WorkflowRun
    <3>2. QED
      BY <2>1, <2>2, <3>1, UpdateTypes DEF Record, WorkflowRun
  <2> HIDE DEF run, target
  <2>5. freed \in Record /\ freed.status = "awaiting_human"
    BY <2>3 DEF Record, WorkflowRun, Status
  <2> HIDE DEF owned, freed
  <2>6. /\ registry'[r] = owned \/ registry'[r] = freed
        /\ \A q \in Run \ {r} : registry'[q] = registry[q]
    BY <2>1 DEF Save, Typed
  <2>7. registry'[r] # None
    BY <2>4, <2>5, <2>6, NoneAssumption DEF Record
  <2>8. CASE registry'[r] = owned
    <3>1. SavedStatus' = SavedStatus
      BY <2>1, <2>4, <2>6, <2>7, <2>8, StatusStays
    <3>2. QED
      BY <1>1, <3>1, StutterPromise
  <2>9. CASE registry'[r] = freed
    <3>1. SavedStatus[r] \in {"blocked"}
      BY <2>1 DEF SavedStatus
    <3>2. Governed!Moves(r, {"blocked"}, "awaiting_human")
      BY <2>5, <2>6, <2>7, <2>9, <3>1, StatusMoves
    <3>3. Governed!Unblock(r)
      BY <1>1, <3>2 DEF Governed!Unblock
    <3>4. QED
      BY <3>3 DEF PromiseStep, Governed!Next
  <2>10. QED
    BY <2>6, <2>8, <2>9
<1>5. ASSUME NEW s \in Step, NEW action \in Forward, Approve(t, r, s, action)
      PROVE  PromiseStep
  BY <1>1, <1>5, StutterPromise DEF Approve, SavedStatus, Saved
<1>6. ASSUME NEW s \in Step, Regenerate(t, r, s) \/ Back(t, r, s)
      PROVE  PromiseStep
  <2>1. PICK new :
            /\ Save(r, new) /\ HasStatus(r, "awaiting_human")
            /\ \/ new = [registry[r] EXCEPT !.regenerations[s] = @ + 1,
                                            !.decision[s] = RegenerateMark]
               \/ new = InvalidateFrom(registry[r], s - 1)
    BY <1>6 DEF Regenerate, Back, Decided, Decidable
  <2>2. Saved(r) /\ registry[r] \in Record
    BY <2>1 DEF HasStatus, Saved, Typed
  <2>3. new.status = registry[r].status
    BY <2>1, <2>2 DEF InvalidateFrom, Record, WorkflowRun
  <2>4. registry'[r] = new /\ \A q \in Run \ {r} : registry'[q] = registry[q]
    BY <2>1 DEF Save, Typed
  <2>5. new # None
    <3>1. task'[t] # <<>> /\ Head(task'[t]).run = r /\ Head(task'[t]).at = "decided"
      <4>1. PICK f : f.run = r /\ f.at = "decided" /\ Continue(t, <<f>>)
        BY <1>6 DEF Regenerate, Back, Decided, At
      <4>2. task'[t] = <<f>>
        BY <4>1, Continues
      <4>3. QED
        BY <4>1, <4>2
    <3>2. Head(task'[t]) \in KnownFrame(registry')
      BY <3>1 DEF Typed
    <3>3. registry'[r] \in Record
      BY <3>1, <3>2 DEF KnownFrame
    <3>4. QED
      BY <2>4, <3>3, NoneAssumption DEF Record
  <2>6. SavedStatus' = SavedStatus
    BY <2>2, <2>3, <2>4, <2>5, StatusStays
  <2>7. QED
    BY <1>1, <2>6, StutterPromise
<1>7. QED
  BY <1>2, <1>3, <1>4, <1>5, <1>6

\* An approval is remembered once, and only while the run asks for it.
LEMMA ApprovedPromise ==
    ASSUME Typed, Typed', Core, Core', Ledger, NEW t \in Task, Approved(t)
    PROVE  PromiseStep
<1> DEFINE approval == Approval(Top(t).obj, Top(t).step, Top(t).action)
           new == [Top(t).obj EXCEPT !.decision[Top(t).step] = approval]
<1>1. /\ task[t] # <<>> /\ Top(t).at = "approving" /\ loop \in {None, t}
      /\ receipts' = receipts \cup {<<Top(t).run, Top(t).step, approval>>}
      /\ Save(Top(t).run, new) /\ UNCHANGED ran
  BY DEF Approved, Resumes
<1>2. loop = t /\ loop # None
  BY <1>1, RunServiceAssumption DEF Core, Stacked
<1>3. PICK r \in Run : r = Top(t).run
  BY <1>1, ResumeType
<1>4. Top(t).obj \in Record /\ Top(t).step \in Step /\ Top(t).action \in Forward
  BY <1>1, ResumeType DEF KnownFrame
<1>5. registry[r] = Top(t).obj /\ registry[r].status = "awaiting_human"
  BY <1>1, <1>2, <1>3 DEF Core, Copies
<1>6. Saved(r)
  BY <1>4, <1>5, NoneAssumption DEF Saved, Record
<1>7. approval \in Decision
  BY <1>4 DEF Approval, Decision, Record, WorkflowRun, Forward
<1>8. <<r, Top(t).step, approval>> \notin receipts
  <2>1. ApprovingOk(r) /\ TopIs({"approving"}, r)
    BY <1>1, <1>2, <1>3 DEF Ledger, LedgerOf, TopIs
  <2>2. QED
    BY <1>2, <2>1 DEF ApprovingOk
<1> HIDE DEF approval
<1>9. new \in WorkflowRun /\ new.status = Top(t).obj.status
  BY <1>4, <1>7 DEF Record, WorkflowRun
<1> HIDE DEF new
<1>10. registry'[r] = new /\ \A q \in Run \ {r} : registry'[q] = registry[q]
  BY <1>1, <1>3 DEF Save, Typed
<1>11. SavedStatus' = SavedStatus
  BY <1>5, <1>6, <1>9, <1>10, NoneAssumption, StatusStays
<1>12. Governed!ApproveStep(r, Top(t).step, approval)
  <2>1. SavedStatus[r] = "awaiting_human"
    BY <1>5, <1>6 DEF SavedStatus
  <2>2. QED
    BY <1>1, <1>3, <1>8, <1>11, <2>1 DEF Governed!ApproveStep, SavedStatus
<1>13. QED
  BY <1>4, <1>7, <1>12 DEF PromiseStep, Governed!Next

\* A pass ends in front of a human or a locked target.
LEMMA SuspendPromise ==
    ASSUME ~AsyncAdapters, Typed, Core, NEW t \in Task, NEW r \in Run,
           r = Top(t).run, Resumes(t, "engine"), registry[r].status = "running",
           NEW a \in Artifact, PassSuspended(t, a), ~Discard(t, r),
           Governed!Executes(r), receipts' = receipts
    PROVE  PromiseStep
<1> DEFINE run == Top(t).obj
           latest == WithEffects(registry[r], run)
           s == SuspendStep(run)
           parked == Suspended(latest, s, a)
           target == TargetOf[r, s]
           held == IF target = None THEN parked
                   ELSE [parked EXCEPT !.lockTarget = target, !.lockOwner = r]
<1>1. run \in Record /\ registry[r] \in Record /\ Saved(r)
  BY AtEngine
<1>2. Open(run) # {} /\ Park(t, r, parked, target)
  BY DEF PassSuspended
<1>3. s \in Step
  BY <1>2, SuspendStepType
<1>4. latest \in Record
  BY <1>1, EffectTypes
<1>5. target \in Target \cup {None}
  <2>1. <<r, s>> \in Run \X Step
    BY <1>3
  <2>2. QED
    BY <2>1, RunServiceAssumption, Zenon
<1> HIDE DEF latest, s, target
<1>6. parked \in Record /\ parked.status = "awaiting_human"
  BY <1>3, <1>4, SuspendedType DEF Suspended, Record, WorkflowRun
<1>7. Save(r, held) \/ UNCHANGED registry
  BY <1>2 DEF Park
<1> HIDE DEF parked
<1>8. held \in Record /\ held.status = "awaiting_human"
  BY <1>5, <1>6 DEF Record, WorkflowRun
<1> HIDE DEF held
<1>9. SavedStatus[r] = "running"
  BY <1>1 DEF SavedStatus
<1>10. CASE Save(r, held)
  <2>1. registry'[r] = held /\ \A q \in Run \ {r} : registry'[q] = registry[q]
    BY <1>10 DEF Save, Typed
  <2>2. registry'[r] # None /\ registry'[r].status = "awaiting_human"
    BY <1>8, <2>1, NoneAssumption DEF Record
  <2> DEFINE from == {"running"}
  <2>3. SavedStatus[r] \in from
    BY <1>9
  <2> HIDE DEF from
  <2>4. Governed!Moves(r, from, "awaiting_human")
    BY <2>1, <2>2, <2>3, StatusMoves
  <2>5. Governed!AskHuman(r)
    BY <2>4 DEF from, Governed!AskHuman
  <2>6. QED
    BY <2>5 DEF PromiseStep, Governed!Next
<1>11. CASE UNCHANGED registry
  <2>1. SavedStatus' = SavedStatus
    BY <1>11 DEF SavedStatus, Saved
  <2>2. Governed!Announce(r)
    BY <1>9, <2>1 DEF Governed!Announce, SavedStatus
  <2>3. QED
    BY <2>2 DEF PromiseStep, Governed!Next
<1>12. QED
  BY <1>7, <1>10, <1>11

\* A pass completes its run when every step was approved.
LEMMA CompletePromise ==
    ASSUME ~AsyncAdapters, Typed, Core, Ledger, DecisionsAreBacked, NEW t \in Task,
           NEW r \in Run, r = Top(t).run, Resumes(t, "engine"),
           registry[r].status = "running", PassCompleted(t), ~Discard(t, r),
           Governed!Executes(r), receipts' = receipts
    PROVE  PromiseStep
<1> DEFINE run == Top(t).obj
           latest == WithEffects(run, run)
           done == [latest EXCEPT !.state = [s \in Step |-> "done"],
                                  !.status = "completed"]
<1>1. /\ Passing(t, r) /\ Saved(r) /\ run \in Record /\ run = registry[r]
  BY AtEngine
<1>2. Open(run) = {} /\ Execute(r, run, Due(run)) /\ Save(r, done)
  BY <1>1 DEF PassCompleted
<1>3. latest \in Record /\ latest.decision = run.decision
  <2>1. latest \in Record
    BY <1>1, EffectTypes
  <2>2. QED
    BY <1>1, <2>1 DEF WithEffects, Record, WorkflowRun
<1> HIDE DEF latest
<1>4. /\ done \in WorkflowRun /\ done.status = "completed"
      /\ done.decision = run.decision /\ done.effects = latest.effects
  BY <1>3 DEF Record, WorkflowRun, Status, Terminal, StepState
<1> HIDE DEF done
<1>5. Reported(r, done, ran') /\ Finished(done)
  <2>1. done.effects = WithEffects(run, run).effects
    BY <1>4 DEF latest
  <2>2. QED
    BY <1>1, <1>2, <1>4, <2>1, MergedEffects
<1>6. registry'[r] = done /\ \A q \in Run \ {r} : registry'[q] = registry[q]
  BY <1>2 DEF Save, Typed
<1>7. registry'[r] # None /\ registry'[r].status = "completed"
  BY <1>4, <1>6, NoneAssumption
<1>8. SavedStatus[r] \in {"running"}
  BY <1>1 DEF SavedStatus
<1>9. Governed!Moves(r, {"running"}, "completed")
  BY <1>6, <1>7, <1>8, StatusMoves
<1>10. ASSUME NEW s \in Step
       PROVE  \E d \in Decision :
                  /\ <<r, s, d>> \in receipts
                  /\ s \in SideEffecting => <<r, s, d>> \in ran'
  <2>1. done.decision[s].action \in Forward /\ done.decision[s] \in Decision
    BY <1>4, <1>5 DEF Finished, WorkflowRun
  <2>2. <<r, s, done.decision[s]>> \in receipts
    BY <1>1, <1>4, <2>1 DEF DecisionsAreBacked, Backed
  <2>3. s \in SideEffecting => <<r, s, done.decision[s]>> \in ran'
    BY <1>5, <2>1 DEF Finished, Reported
  <2>4. QED
    BY <2>1, <2>2, <2>3
<1>11. Governed!Complete(r)
  BY <1>9, <1>10 DEF Governed!Complete
<1>12. QED
  BY <1>11 DEF PromiseStep, Governed!Next

\* A pass fails its run, cancelled meanwhile or not.
LEMMA FailPromise ==
    ASSUME Typed, NEW t \in Task, NEW r \in Run, Saved(r),
           registry[r].status \in {"running", "cancelled"},
           NEW run \in Record, FailRun(t, r, run),
           Governed!Executes(r), receipts' = receipts
    PROVE  PromiseStep
<1> DEFINE marked == SetCurrent(run, "failed")
           failed == [marked EXCEPT !.status = "failed"]
<1>1. Save(r, failed)
  BY DEF FailRun
<1>2. marked \in Record
  BY SetCurrentType DEF StepState
<1> HIDE DEF marked
<1>3. failed \in WorkflowRun /\ failed.status = "failed"
  BY <1>2 DEF Record, WorkflowRun, Status, Terminal
<1> HIDE DEF failed
<1>4. registry'[r] = failed /\ \A q \in Run \ {r} : registry'[q] = registry[q]
  BY <1>1 DEF Save, Typed
<1>5. registry'[r] # None /\ registry'[r].status = "failed"
  BY <1>3, <1>4, NoneAssumption
<1>6. SavedStatus[r] \in {"running", "cancelled"}
  BY DEF SavedStatus
<1>7. Governed!Moves(r, {"running", "cancelled"}, "failed")
  BY <1>4, <1>5, <1>6, StatusMoves
<1>8. Governed!Fail(r)
  BY <1>7 DEF Governed!Fail
<1>9. QED
  BY <1>8 DEF PromiseStep, Governed!Next

\* A pass ends as the promise says, and executes approved actions only.
LEMMA EnginePromise ==
    ASSUME ~AsyncAdapters, Typed, Typed', Core, Ledger, EffectsNeedApproval',
           DecisionsAreBacked, NEW t \in Task, Engine(t)
    PROVE  PromiseStep
<1>1. Resumes(t, "engine") /\ receipts' = receipts
  BY DEF Engine, PassSuspended, PassCompleted, PassFailed, PassBroken
<1>2. PICK r \in Run : r = Top(t).run
  BY <1>1, AtEngine
<1>3. /\ Passing(t, r) /\ Saved(r)
      /\ Top(t).obj \in Record /\ registry[r] \in Record
      /\ registry[r].status \in {"running", "cancelled"}
  BY <1>1, <1>2, AtEngine
<1>4. PICK S \in SUBSET Due(Top(t).obj) : Execute(r, Top(t).obj, S)
  BY <1>2, EngineExecutes
<1>5. ran \subseteq ran' /\ \A q \in Run \ {r} : NoEffect(q)
  BY <1>3, <1>4, PassEffects
<1>6. Governed!Executes(r)
  BY <1>1, <1>5, PromiseExecutes
<1>7. CASE Discard(t, r)
  <2>1. registry[r].status = "cancelled"
    BY <1>3, <1>7 DEF Discard, IsTerminal, Terminal
  <2>2. SavedStatus' = SavedStatus
    BY <1>3, <1>7, ReleaseSays DEF Discard
  <2>3. Governed!Overtaken(r)
    BY <1>1, <1>3, <1>6, <2>1, <2>2 DEF Governed!Overtaken, SavedStatus
  <2>4. QED
    BY <2>3 DEF PromiseStep, Governed!Next
<1>8. ASSUME NEW a \in Artifact, PassSuspended(t, a), ~Discard(t, r)
      PROVE  PromiseStep
  <2>1. registry[r].status = "running"
    BY <1>2, <1>3, <1>8 DEF PassSuspended, IsTerminal, Terminal
  <2>2. QED
    BY <1>1, <1>2, <1>6, <1>8, <2>1, SuspendPromise
<1>9. ASSUME PassCompleted(t), ~Discard(t, r)
      PROVE  PromiseStep
  <2>1. registry[r].status = "running"
    BY <1>2, <1>3, <1>9 DEF PassCompleted, IsTerminal, Terminal
  <2>2. QED
    BY <1>1, <1>2, <1>6, <1>9, <2>1, CompletePromise
<1>10. ASSUME NEW j \in 0..NumSteps, PassFailed(t, j) \/ PassBroken(t, j), ~Discard(t, r)
       PROVE  PromiseStep
  <2>1. FailRun(t, r, registry[r]) \/ FailRun(t, r, Top(t).obj)
    BY <1>2, <1>10 DEF PassFailed, PassBroken
  <2>2. QED
    BY <1>1, <1>3, <1>6, <2>1, FailPromise
<1>11. QED
  BY <1>7, <1>8, <1>9, <1>10 DEF Engine

\* The lock conflict is announced, and then saved.
LEMMA LockedPromise ==
    ASSUME ~AsyncAdapters, Typed, Core, NEW t \in Task, LockedPublished(t)
    PROVE  PromiseStep
<1>1. /\ task[t] # <<>> /\ Top(t).at = "locked"
      /\ Save(Top(t).run, Top(t).obj) /\ UNCHANGED <<receipts, ran>>
  BY DEF LockedPublished, Resumes
<1>2. PICK r \in Run : r = Top(t).run
  BY <1>1, ResumeType
<1>3. Passing(t, r)
  BY <1>1, <1>2 DEF Passing
<1>4. Saved(r) /\ registry[r].status = "running" /\ Top(t).obj.status = "blocked"
  BY <1>1, <1>3 DEF Core, RunOk, PassOk
<1>5. Top(t).obj # None
  BY <1>1, ResumeType, NoneAssumption DEF Record
<1>6. registry'[r] = Top(t).obj /\ \A q \in Run \ {r} : registry'[q] = registry[q]
  BY <1>1, <1>2 DEF Save, Typed
<1>7. SavedStatus[r] \in {"running"}
  BY <1>4 DEF SavedStatus
<1>8. Governed!Moves(r, {"running"}, "blocked")
  BY <1>4, <1>5, <1>6, <1>7, StatusMoves
<1>9. Governed!AskHuman(r)
  BY <1>1, <1>8 DEF Governed!AskHuman, Governed!Executes
<1>10. QED
  BY <1>9 DEF PromiseStep, Governed!Next

\* With the memory adapters the run service implements GovernedRun: every
\* step of every task is, for the statuses, the receipts and the executions,
\* a step of the promise or a stutter.
THEOREM MemoryKeepsThePromise == ASSUME ~AsyncAdapters PROVE Spec => KeepsThePromise
<1>1. Init => Governed!Init
  BY DEF Init, Governed!Init, Saved
<1>2. /\ Typed /\ Typed' /\ Core /\ Core' /\ Ledger
      /\ EffectsNeedApproval' /\ DecisionsAreBacked /\ [Next]_vars
      => [Governed!Next]_(Governed!governedVars)
  <2> SUFFICES ASSUME Typed, Typed', Core, Core', Ledger, EffectsNeedApproval',
                      DecisionsAreBacked, [Next]_vars
               PROVE  PromiseStep
    BY DEF PromiseStep
  <2>1. ASSUME NEW t \in Task, NEW r \in Run, Request(t, r)
        PROVE  PromiseStep
    BY <2>1, RequestPromise DEF Request, RequestCancel, RequestRetry
  <2>2. ASSUME NEW t \in Task, NEW r \in Run, Sweep(t, r)
        PROVE  PromiseStep
    BY <2>2, RequestPromise DEF Sweep, SweepStalled, SweepBlocked
  <2>3. ASSUME NEW t \in Task, Engine(t)
        PROVE  PromiseStep
    BY <2>3, EnginePromise
  <2>4. ASSUME NEW t \in Task, Proceed(t)
        PROVE  PromiseStep
    BY <2>4, ProceedPromise, LockedPromise, ApprovedPromise DEF Proceed
  <2>5. ASSUME NEW t \in Task, PublishRaises(t) \/ QueuedRaises(t)
        PROVE  PromiseStep
    BY <2>5 DEF PublishRaises, QueuedRaises
  <2>6. CASE Restart
    BY <2>6 DEF Restart
  <2>7. ASSUME NEW x \in Target, LockExpires(x)
        PROVE  PromiseStep
    BY <2>7, StutterPromise DEF LockExpires, SavedStatus, Saved
  <2>8. CASE UNCHANGED vars
    BY <2>8, StutterPromise DEF vars, SavedStatus, Saved
  <2>9. QED
    BY <2>1, <2>2, <2>3, <2>4, <2>5, <2>6, <2>7, <2>8 DEF Next
<1>3. QED
  BY <1>1, <1>2, TypedHolds, CoreHolds, LedgerHolds, EffectsAreApproved,
     CopiesAreBacked, PTL DEF Spec, KeepsThePromise, Governed!Spec

----------------------------------------------------------------------------
(* Run locks: whoever holds one has the event loop, and nobody ever waits. *)

\* With the memory adapters no set of tasks waits for run locks that only they
\* could release: a lock is held from its `async with` to the next await that
\* yields, and only the task that has the loop holds one.
THEOREM MemoryNoLockDeadlock == ASSUME ~AsyncAdapters PROVE Spec => []NoLockDeadlock
<1>1. Typed /\ Core => NoLockDeadlock
  <2> SUFFICES ASSUME Typed, Core, NEW S \in (SUBSET Task) \ {{}}
               PROVE  \E t \in S : WaitsFor(t) = None
    BY DEF NoLockDeadlock
  <2>1. PICK t \in S : t \in Task
    OBVIOUS
  <2>2. ASSUME task[t] # <<>>, Top(t).at \in {"created", "promote"},
               runLock[Top(t).run] # None
        PROVE  FALSE
    <3>1. Top(t).run \in Run
      BY <2>1, <2>2, ResumeType
    <3>2. t = loop
      BY <2>1, <2>2 DEF Core, Stacked
    <3>3. QED
      BY <2>2, <3>1, <3>2 DEF Core, Stacked, TopIs, UnderLock
  <2>3. QED
    BY <2>1, <2>2 DEF WaitsFor
<1>2. QED
  BY <1>1, TypedHolds, CoreHolds, PTL

----------------------------------------------------------------------------
(***************************************************************************)
(* Target locks, which a run takes when its pass suspends in front of a    *)
(* shared target.                                                          *)
(*                                                                         *)
(* A target lock outlives handlers and passes. That none is left behind by *)
(* a run that is over rests on the record: _release_resources frees the    *)
(* one target that is on it, if the run is its owner there. LockOk says    *)
(* that this is every target the run has locked. Two things could make it  *)
(* wrong: a record that changes its target or its owner while the lock is  *)
(* held (a second conflict, the banner of a blocked run), and a run whose  *)
(* steps report different targets, which would take a second lock and      *)
(* forget the first. The flows do not do the latter: OneTarget.            *)
(***************************************************************************)

\* The targets that the steps of run q report.
Reports(q) == {x \in Target : \E s \in Step : TargetOf[q, s] = x}

\* A run reports one target, at whatever step it suspends: containmentTarget of
\* its ticket and host, which a run never changes (security/flow.ts).
OneTarget == \A q \in Run : \A x, y \in Reports(q) : x = y

\* The record of q says that q has locked x, and q is not over, or is about to
\* give x back.
OnRecord(q, x) ==
    /\ Saved(q)
    /\ x \in Reports(q)
    /\ registry[q].lockTarget = x
    /\ registry[q].lockOwner = q
    /\ IsTerminal(registry[q]) => TopIs({"terminal", "cancelled"}, q)

\* Every target that q has locked is on its record; a run that is blocked, or
\* is about to be, is in front of a target it reports, and has locked none in
\* the latter case.
LockOk(q) ==
    /\ HasStatus(q, "blocked") => registry[q].lockTarget \in Reports(q)
    /\ TopIs({"locked"}, q) => /\ Top(loop).obj.lockTarget \in Reports(q)
                               /\ \A x \in Target : locks[x] # q
    /\ \A x \in Target : locks[x] = q => OnRecord(q, x)

LocksKept == \A q \in Run : LockOk(q)

----------------------------------------------------------------------------
\* A step of task t that works on run r, and locks targets for no other.
MovesOn(t, r) ==
    /\ loop \in {None, t} /\ loop' \in {None, t}
    /\ \A u \in Task \ {t} : task'[u] = task[u]
    /\ task[t] # <<>> => Top(t).run = r
    /\ task'[t] # <<>> => Head(task'[t]).run = r \/ Head(task'[t]).at = "promote"
    /\ \A q \in Run \ {r} : registry'[q] = registry[q]
    /\ \A x \in Target : \A q \in Run \ {r} : locks'[x] = q => locks[x] = q

\* Such a step leaves the locks of the others on their records.
LEMMA OthersStayLocked ==
    ASSUME Core, Core', NEW t \in Task, NEW r \in Run, MovesOn(t, r),
           NEW q \in Run \ {r}, LockOk(q)
    PROVE  LockOk(q)'
<1>1. \A points : ~TopIs(points, q)
  BY DEF MovesOn, TopIs, Core, Stacked
<1>2. ~TopIs({"locked"}, q)'
  BY DEF MovesOn, TopIs, Core, Stacked, Top
<1>3. registry'[q] = registry[q] /\ (Saved(q)' <=> Saved(q))
  BY DEF MovesOn, Saved
<1>4. HasStatus(q, "blocked")' => registry'[q].lockTarget \in Reports(q)
  BY <1>3 DEF HasStatus, LockOk
<1>5. ASSUME NEW x \in Target, locks'[x] = q
      PROVE  OnRecord(q, x)'
  <2>1. OnRecord(q, x)
    BY <1>5 DEF MovesOn, LockOk
  <2>2. QED
    BY <1>1, <1>3, <2>1 DEF OnRecord, IsTerminal, Reports
<1>6. QED
  BY <1>2, <1>4, <1>5 DEF LockOk, Reports

\* It is enough to look at the run that the task works on. Its record keeps
\* the target and the owner as long as it keeps the lock.
LEMMA LocksStay ==
    ASSUME Core, Core', LocksKept, NEW t \in Task, NEW r \in Run, MovesOn(t, r),
           NEW new, registry'[r] = new, new # None,
           new.status = "blocked" =>
               HasStatus(r, "blocked") /\ new.lockTarget = registry[r].lockTarget,
           \A x \in Target : locks'[x] = r =>
               /\ locks[x] = r
               /\ new.lockTarget = registry[r].lockTarget
               /\ new.lockOwner = registry[r].lockOwner
               /\ IsTerminal(new) => TopIs({"terminal", "cancelled"}, r)',
           ~TopIs({"locked"}, r)'
    PROVE  LocksKept'
<1>1. LockOk(r)
  BY DEF LocksKept
<1>2. HasStatus(r, "blocked")' => registry'[r].lockTarget \in Reports(r)
  BY <1>1 DEF HasStatus, LockOk
<1>3. ASSUME NEW x \in Target, locks'[x] = r
      PROVE  OnRecord(r, x)'
  <2>1. OnRecord(r, x)
    BY <1>1, <1>3 DEF LockOk
  <2>2. QED
    BY <1>3, <2>1 DEF OnRecord, IsTerminal, Reports, Saved
<1>4. LockOk(r)'
  BY <1>2, <1>3 DEF LockOk, Reports
<1>5. QED
  BY <1>4, OthersStayLocked DEF LocksKept

\* Task t goes on with a frame of r on top.
LEMMA PushMoves ==
    ASSUME Typed, Typed', Core', NEW t \in Task, NEW r \in Run,
           loop \in {None, t}, task[t] # <<>> => Top(t).run = r,
           NEW f, f.run = r, NEW stack, stack # <<>>, Head(stack) = f,
           Continue(t, stack),
           \A q \in Run \ {r} : registry'[q] = registry[q],
           \A x \in Target : \A q \in Run \ {r} : locks'[x] = q => locks[x] = q
    PROVE  /\ MovesOn(t, r) /\ task'[t] # <<>> /\ Head(task'[t]) = f
           /\ f.at # "locked" => ~TopIs({"locked"}, r)'
           /\ f.at # "engine" => loop' = t /\ (\A P : f.at \in P => TopIs(P, r)')
<1>1. /\ task'[t] = stack /\ loop' \in {None, t}
      /\ \A u \in Task \ {t} : task'[u] = task[u]
  BY Continues
<1>2. f.at # "engine" => loop' = t
  BY <1>1 DEF Core, Stacked, Top
<1>3. QED
  BY <1>1, <1>2, RunServiceAssumption DEF MovesOn, TopIs, Top

\* Task t is done with r, and goes on with a promotion or not at all.
LEMMA PopMoves ==
    ASSUME Typed, Typed', Core, Core', NEW t \in Task, NEW r \in Run,
           loop \in {None, t}, task[t] # <<>>, Top(t).run = r,
           NEW todo, NEW next \in Promoting(todo, Rest(t)), Continue(t, next),
           \A q \in Run \ {r} : registry'[q] = registry[q],
           \A x \in Target : \A q \in Run \ {r} : locks'[x] = q => locks[x] = q
    PROVE  MovesOn(t, r) /\ ~TopIs({"locked"}, r)'
<1>1. Rest(t) \in Seq(KnownFrame(registry)) /\ AllPromote(Rest(t))
  BY ResumeType DEF Core, Stacked
<1>2. /\ task'[t] = next /\ loop' \in {None, t}
      /\ \A u \in Task \ {t} : task'[u] = task[u]
  BY Continues
<1>3. task'[t] # <<>> => Head(task'[t]).at = "promote"
  BY <1>1, <1>2, PoppedTop
<1>4. MovesOn(t, r)
  BY <1>2, <1>3 DEF MovesOn
<1>5. QED
  BY <1>2, <1>3, <1>4 DEF TopIs, Top, Core, Stacked

----------------------------------------------------------------------------
(***************************************************************************)
(* Steps that leave the target locks alone.                                *)
(***************************************************************************)

\* A live run's record asks for its slots.
LEMMA LaunchLocks ==
    ASSUME Typed, Typed', Core, Core', LocksKept, NEW t \in Task, NEW r \in Run,
           loop \in {None, t}, task[t] # <<>>, Top(t).run = r,
           registry[r] \in Record, NEW run \in Record,
           registry[r].lockTarget = run.lockTarget,
           registry[r].lockOwner = run.lockOwner,
           NEW stack \in Seq(KnownFrame(registry)), TryLaunch(t, r, run, stack),
           UNCHANGED locks
    PROVE  LocksKept'
<1>1. PICK A, d, st :
          /\ st \in {"running", "queued"}
          /\ Save(r, Walked(run, A, d, st))
          /\ Continue(t, <<At(IF st = "running" THEN "engine" ELSE "queued", r,
                              Walked(run, A, d, st))>> \o stack)
  BY DEF TryLaunch, Walked
<1> DEFINE new == Walked(run, A, d, st)
           f == At(IF st = "running" THEN "engine" ELSE "queued", r, new)
<1>2. new.lockTarget = run.lockTarget /\ new.lockOwner = run.lockOwner /\ new.status = st
  BY WalkedSays
<1>3. registry'[r] = new /\ \A q \in Run \ {r} : registry'[q] = registry[q]
  BY <1>1 DEF Save, Typed
<1>4. f.run = r /\ f.obj = new /\ f.at \in {"engine", "queued"}
  BY <1>1 DEF At
<1> HIDE DEF new
<1>5. Continue(t, <<f>> \o stack)
  BY <1>1 DEF new
<1> HIDE DEF f
<1>6. Head(<<f>> \o stack) = f /\ <<f>> \o stack # <<>>
  OBVIOUS
<1> DEFINE next == <<f>> \o stack
<1> HIDE DEF next
<1>7. Continue(t, next) /\ Head(next) = f /\ next # <<>>
  BY <1>5, <1>6 DEF next
<1>8. MovesOn(t, r) /\ task'[t] # <<>> /\ Head(task'[t]) = f /\ ~TopIs({"locked"}, r)'
  BY <1>3, <1>4, <1>7, PushMoves
<1>9. new # None
  <2>1. Head(task'[t]) \in KnownFrame(registry')
    BY <1>8 DEF Typed
  <2>2. registry'[r] \in Record
    BY <1>4, <1>8, <2>1 DEF KnownFrame
  <2>3. QED
    BY <1>3, <2>2, NoneAssumption DEF Record
<1>10. ~IsTerminal(new) /\ new.status # "blocked"
  BY <1>1, <1>2 DEF IsTerminal, Terminal
<1>11. QED
  BY <1>2, <1>3, <1>8, <1>9, <1>10, LocksStay

\* The pass of a new run, or of a decision.
LEMMA DecisionLocks ==
    ASSUME ~AsyncAdapters, Typed, Typed', Core, Core', LocksKept, NEW t \in Task,
           StartLaunch(t) \/ DecisionPublished(t)
    PROVE  LocksKept'
<1>1. /\ task[t] # <<>> /\ loop \in {None, t} /\ Top(t).at \in {"created", "decided"}
      /\ UNCHANGED locks
  BY DEF StartLaunch, DecisionPublished, Resumes
<1>2. loop = t /\ loop # None
  BY <1>1, RunServiceAssumption DEF Core, Stacked
<1>3. PICK r \in Run : r = Top(t).run
  BY <1>1, ResumeType
<1>4. /\ registry[r] = Top(t).obj /\ registry[r] \in Record
      /\ Rest(t) \in Seq(KnownFrame(registry)) /\ Top(t).step \in Step \cup {0}
  BY <1>1, <1>2, <1>3, ResumeType DEF Core, Copies
<1>5. PICK p \in Pass : TryLaunch(t, r, [registry[r] EXCEPT !.pending = p], Rest(t))
  BY <1>3, <1>4, PassTypes DEF StartLaunch, DecisionPublished
<1> DEFINE run == [registry[r] EXCEPT !.pending = p]
<1>6. /\ run \in Record /\ run.lockTarget = registry[r].lockTarget
      /\ run.lockOwner = registry[r].lockOwner
  BY <1>4, UpdateTypes, SameFields
<1> HIDE DEF run
<1>7. TryLaunch(t, r, run, Rest(t))
  BY <1>5 DEF run
<1>8. QED
  BY <1>1, <1>3, <1>4, <1>6, <1>7, LaunchLocks

\* A task leaves the lock of r, or skips its promotion.
LEMMA PopLocks ==
    ASSUME Typed, Typed', Core, Core', LocksKept, NEW t \in Task, NEW r \in Run,
           loop \in {None, t}, task[t] # <<>>, Top(t).run = r,
           Top(t).at \notin {"terminal", "cancelled"},
           NEW todo, NEW next \in Promoting(todo, Rest(t)), Continue(t, next),
           UNCHANGED <<registry, locks>>
    PROVE  LocksKept'
<1>1. MovesOn(t, r) /\ ~TopIs({"locked"}, r)'
  BY PopMoves
<1>2. ~TopIs({"terminal", "cancelled"}, r)
  BY DEF TopIs
<1>3. LockOk(r)
  BY DEF LocksKept
<1>4. LockOk(r)'
  <2>1. HasStatus(r, "blocked")' => registry'[r].lockTarget \in Reports(r)
    BY <1>3 DEF HasStatus, Saved, LockOk
  <2>2. ASSUME NEW x \in Target, locks'[x] = r
        PROVE  OnRecord(r, x)'
    BY <1>2, <1>3, <2>2 DEF LockOk, OnRecord, IsTerminal, Reports, Saved
  <2>3. QED
    BY <1>1, <2>1, <2>2 DEF LockOk, Reports
<1>5. QED
  BY <1>1, <1>4, OthersStayLocked DEF LocksKept

\* A task leaves a run's lock.
LEMMA LeaveLocks ==
    ASSUME Typed, Typed', Core, Core', LocksKept, NEW t \in Task,
           QueuedPublished(t) \/ UnlockedPublished(t) \/ Unwind(t)
    PROVE  LocksKept'
<1>1. /\ loop \in {None, t} /\ task[t] # <<>>
      /\ Top(t).at \in {"queued", "unlocked", "unwinding"}
      /\ Continue(t, Rest(t)) /\ UNCHANGED <<registry, locks>>
  BY DEF QueuedPublished, UnlockedPublished, Unwind, LeavesLock, Resumes
<1>2. PICK r \in Run : r = Top(t).run
  BY <1>1, ResumeType
<1> DEFINE none == {}
<1>3. Rest(t) \in Promoting(none, Rest(t))
  BY DEF Promoting
<1> HIDE DEF none
<1>4. QED
  BY <1>1, <1>2, <1>3, PopLocks

\* A promotion is driven or skipped.
LEMMA PromoteLocks ==
    ASSUME Typed, Typed', Core, Core', LocksKept, NEW t \in Task, Promote(t)
    PROVE  LocksKept'
<1>1. task[t] # <<>> /\ loop \in {None, t} /\ Top(t).at = "promote"
  BY DEF Promote, Resumes
<1>2. PICK r \in Run : r = Top(t).run
  BY <1>1, ResumeType
<1>3. PICK next \in Promoting(Top(t).todo, Rest(t)) :
         \/ UNCHANGED registry /\ Continue(t, next)
         \/ /\ Saved(r) /\ ~IsTerminal(registry[r])
            /\ TryLaunch(t, r, registry[r], next)
  BY <1>2 DEF Promote
<1>4. UNCHANGED locks
  BY DEF Promote
<1>5. CASE UNCHANGED registry /\ Continue(t, next)
  BY <1>1, <1>2, <1>4, <1>5, PopLocks
<1>6. CASE Saved(r) /\ TryLaunch(t, r, registry[r], next)
  <2>1. registry[r] \in Record
    BY <1>6 DEF Typed, Saved
  <2>2. next \in Seq(KnownFrame(registry))
    BY <1>1, ResumeType, PromotingType
  <2>3. QED
    BY <1>1, <1>2, <1>4, <1>6, <2>1, <2>2, LaunchLocks
<1>7. QED
  BY <1>3, <1>5, <1>6

----------------------------------------------------------------------------
(***************************************************************************)
(* Giving slots and targets back.                                          *)
(***************************************************************************)

\* The slots of r go back; a target that r keeps is still on its record.
LEMMA ReleaseLocks ==
    ASSUME Typed, Typed', Core, Core', LocksKept, NEW t \in Task, NEW r \in Run,
           loop \in {None, t}, task[t] # <<>>, Top(t).run = r,
           registry[r] \in Record, NEW run \in Record,
           run.status = registry[r].status, run.lockTarget = registry[r].lockTarget,
           NEW changed, ReleaseAndPromote(t, r, run, changed, Rest(t)),
           \A x \in Target : \A q \in Run \ {r} : locks'[x] = q => locks[x] = q,
           \A x \in Target : locks'[x] = r =>
               /\ locks[x] = r /\ run.lockOwner = registry[r].lockOwner
               /\ ~IsTerminal(registry[r])
    PROVE  LocksKept'
<1> DEFINE new == [run EXCEPT !.pending = NoPass]
           P == PromotedByRelease(r, run)
<1>1. /\ Save(r, new) \/ UNCHANGED registry
      /\ \E next \in Promoting(P, Rest(t)) : Continue(t, next)
  BY DEF ReleaseAndPromote
<1>2. PICK next \in Promoting(P, Rest(t)) : Continue(t, next)
  BY <1>1
<1>3. /\ new.lockTarget = run.lockTarget /\ new.lockOwner = run.lockOwner
      /\ new.status = run.status
  BY SameFields
<1>4. new # None /\ registry[r] # None
  BY UpdateTypes, PassTypes, NoneAssumption DEF Record
<1> HIDE DEF new, P
<1>5. /\ registry'[r] = new \/ registry'[r] = registry[r]
      /\ \A q \in Run \ {r} : registry'[q] = registry[q]
  BY <1>1 DEF Save, Typed
<1>6. MovesOn(t, r) /\ ~TopIs({"locked"}, r)'
  BY <1>2, <1>5, PopMoves
<1> DEFINE now == registry'[r]
<1>7. /\ now # None /\ now.status = registry[r].status
      /\ now.lockTarget = registry[r].lockTarget
      /\ run.lockOwner = registry[r].lockOwner => now.lockOwner = registry[r].lockOwner
  BY <1>3, <1>4, <1>5
<1>8. IsTerminal(now) <=> IsTerminal(registry[r])
  BY <1>7 DEF IsTerminal
<1>9. now.status = "blocked" => HasStatus(r, "blocked")
  BY <1>4, <1>7 DEF HasStatus, Saved
<1>10. PICK saved : saved = now
  OBVIOUS
<1> HIDE DEF now
<1>11. registry'[r] = saved
  BY <1>10 DEF now
<1>12. QED
  BY <1>6, <1>7, <1>8, <1>9, <1>10, <1>11, LocksStay

\* A pass is out, or a cancel: the slots and the target lock go back.
LEMMA PublishedLocks ==
    ASSUME ~AsyncAdapters, Typed, Typed', Core, Core', LocksKept, NEW t \in Task,
           SuspendedPublished(t) \/ TerminalPublished(t) \/ CancelPublished(t)
    PROVE  LocksKept'
<1>1. /\ task[t] # <<>> /\ loop \in {None, t}
      /\ Top(t).at \in {"suspended", "terminal", "cancelled"}
  BY DEF SuspendedPublished, TerminalPublished, CancelPublished, Resumes
<1>2. PICK r \in Run : r = Top(t).run
  BY <1>1, ResumeType
<1>3. PICK run \in Record : run = Top(t).obj
  BY <1>1, ResumeType
<1>4. loop = t /\ loop # None
  BY <1>1, RunServiceAssumption DEF Core, Stacked
<1>5. run = registry[r] /\ registry[r] \in Record
  BY <1>1, <1>2, <1>3, <1>4 DEF Core, Copies
<1>6. \A x \in Target : locks[x] = r =>
          run.lockTarget = x /\ run.lockTarget # None /\ run.lockOwner = r
  BY <1>5, RunServiceAssumption DEF LocksKept, LockOk, OnRecord
<1>7. CASE UNCHANGED locks /\ ReleaseAndPromote(t, r, run, FALSE, Rest(t))
           /\ \/ Top(t).at = "suspended"
              \/ ~(run.lockTarget # None /\ run.lockOwner = r)
  <2>1. Top(t).at = "suspended" => ~IsTerminal(registry[r])
    BY <1>2, <1>4 DEF Core, Copies, IsTerminal, Terminal
  <2>2. \A x \in Target : locks'[x] = r =>
               /\ locks[x] = r /\ run.lockOwner = registry[r].lockOwner
               /\ ~IsTerminal(registry[r])
    BY <1>5, <1>6, <1>7, <2>1
  <2>3. QED
    BY <1>1, <1>2, <1>5, <1>7, <2>2, ReleaseLocks
<1>8. CASE /\ locks' = [locks EXCEPT ![run.lockTarget] = IF @ = r THEN None ELSE @]
           /\ ReleaseAndPromote(t, r, [run EXCEPT !.lockOwner = None], TRUE, Rest(t))
  <2> DEFINE given == [run EXCEPT !.lockOwner = None]
  <2>1. given \in Record /\ given.status = run.status /\ given.lockTarget = run.lockTarget
    BY UpdateTypes DEF Record, WorkflowRun
  <2>2. ReleaseAndPromote(t, r, given, TRUE, Rest(t))
    BY <1>8
  <2> HIDE DEF given
  <2>3. \A x \in Target : locks'[x] # r
    BY <1>6, <1>8, RunServiceAssumption DEF Typed
  <2>4. \A x \in Target : \A q \in Run \ {r} : locks'[x] = q => locks[x] = q
    BY <1>8, RunServiceAssumption DEF Typed
  <2>5. QED
    BY <1>1, <1>2, <1>5, <2>1, <2>2, <2>3, <2>4, ReleaseLocks, ZenonT(60)
<1>9. QED
  BY <1>1, <1>2, <1>3, <1>7, <1>8
     DEF SuspendedPublished, TerminalPublished, CancelPublished, ReleaseResources, Resumes

\* A run that was cancelled while its pass was out has no lock any more.
LEMMA DiscardLocks ==
    ASSUME ~AsyncAdapters, Typed, Typed', Core, Core', LocksKept, NEW t \in Task,
           NEW r \in Run, Resumes(t, "engine"), r = Top(t).run, Discard(t, r)
    PROVE  LocksKept'
<1>1. /\ loop = None /\ task[t] # <<>> /\ registry[r] \in Record
  BY AtEngine
<1>2. /\ IsTerminal(registry[r]) /\ UNCHANGED locks
      /\ ReleaseAndPromote(t, r, registry[r], FALSE, Rest(t))
  BY DEF Discard
<1>3. \A x \in Target : locks[x] # r
  BY <1>1, <1>2 DEF LocksKept, LockOk, OnRecord, TopIs
<1>4. QED
  BY <1>1, <1>2, <1>3, ReleaseLocks

----------------------------------------------------------------------------
(***************************************************************************)
(* Requests, decisions and outcomes.                                       *)
(***************************************************************************)

\* A handler saves the record of r with the target and the owner it had.
LEMMA SavesLocks ==
    ASSUME Typed, Typed', Core, Core', LocksKept, NEW t \in Task, NEW r \in Run,
           loop \in {None, t}, task[t] # <<>> => Top(t).run = r,
           NEW f, f.run = r, f.at \notin {"locked", "engine", "promote"},
           NEW stack, stack # <<>>, Head(stack) = f, Continue(t, stack),
           UNCHANGED locks, NEW new, registry'[r] = new,
           \A q \in Run \ {r} : registry'[q] = registry[q],
           new.status # "blocked",
           \A x \in Target : locks[x] = r =>
               /\ new.lockTarget = registry[r].lockTarget
               /\ new.lockOwner = registry[r].lockOwner
               /\ IsTerminal(new) => f.at \in {"terminal", "cancelled"}
    PROVE  LocksKept'
<1>1. /\ MovesOn(t, r) /\ task'[t] # <<>> /\ Head(task'[t]) = f
      /\ ~TopIs({"locked"}, r)' /\ (\A P : f.at \in P => TopIs(P, r)')
  BY PushMoves
<1>2. new # None
  <2>1. Head(task'[t]) \in KnownFrame(registry')
    BY <1>1 DEF Typed
  <2>2. registry'[r] \in Record
    BY <1>1, <2>1 DEF KnownFrame
  <2>3. QED
    BY <2>2, NoneAssumption DEF Record
<1>3. QED
  BY <1>1, <1>2, LocksStay

\* A frame that is put on a stack is its top.
LEMMA PushedTop ==
    ASSUME NEW F, NEW s \in Seq(F), NEW f
    PROVE  <<f>> \o s # <<>> /\ Head(<<f>> \o s) = f
OBVIOUS

\* A handler locks the target of r, and saves that with its record.
LEMMA TakesLock ==
    ASSUME Typed, Typed', Core, Core', LocksKept, NEW t \in Task, NEW r \in Run,
           loop \in {None, t}, task[t] # <<>> => Top(t).run = r,
           NEW f, f.run = r, f.at \notin {"locked", "engine", "promote"},
           NEW stack, stack # <<>>, Head(stack) = f, Continue(t, stack),
           NEW target \in Reports(r), locks[target] \in {None, r},
           \A x \in Target : locks[x] = r => x = target,
           locks' = [locks EXCEPT ![target] = r], NEW new, registry'[r] = new,
           \A q \in Run \ {r} : registry'[q] = registry[q],
           new.status = "awaiting_human", new.lockTarget = target, new.lockOwner = r
    PROVE  LocksKept'
<1>1. target \in Target
  BY DEF Reports
<1>2. /\ \A x \in Target : \A q \in Run \ {r} : locks'[x] = q => locks[x] = q
      /\ \A x \in Target : locks'[x] = r => x = target
  BY <1>1 DEF Typed
<1>3. /\ MovesOn(t, r) /\ task'[t] # <<>> /\ Head(task'[t]) = f
      /\ ~TopIs({"locked"}, r)'
  BY <1>2, PushMoves
<1>4. new # None
  <2>1. Head(task'[t]) \in KnownFrame(registry')
    BY <1>3 DEF Typed
  <2>2. registry'[r] \in Record
    BY <1>3, <2>1 DEF KnownFrame
  <2>3. QED
    BY <2>2, NoneAssumption DEF Record
<1>5. LockOk(r)'
  BY <1>2, <1>3, <1>4
     DEF LockOk, HasStatus, Saved, OnRecord, IsTerminal, Terminal, Reports
<1>6. QED
  BY <1>3, <1>5, OthersStayLocked DEF LocksKept

\* A new run has locked nothing.
LEMMA StartLocks ==
    ASSUME Typed, Typed', Core, Core', LocksKept, NEW t \in Task, NEW r \in Run,
           StartRun(t, r)
    PROVE  LocksKept'
<1> DEFINE f == At("created", r, NewRun)
           stack == <<f>>
<1>1. /\ loop = None /\ task[t] = <<>> /\ ~Saved(r)
      /\ Save(r, NewRun) /\ Continue(t, stack) /\ UNCHANGED locks
  BY DEF StartRun, Receives, Saved
<1>2. f.run = r /\ f.at = "created" /\ stack # <<>> /\ Head(stack) = f
  BY DEF At
<1>3. registry'[r] = NewRun /\ \A q \in Run \ {r} : registry'[q] = registry[q]
  BY <1>1 DEF Save, Typed
<1>4. NewRun.status = "queued"
  BY DEF NewRun
<1>5. \A x \in Target : locks[x] # r
  BY <1>1 DEF LocksKept, LockOk, OnRecord
<1> DEFINE new == NewRun
<1> HIDE DEF f, stack, new
<1>6. registry'[r] = new /\ new.status # "blocked"
  BY <1>3, <1>4 DEF new
<1>7. QED
  BY <1>1, <1>2, <1>3, <1>5, <1>6, SavesLocks

\* A cancel gives the target back with the slots, once it is announced.
LEMMA CancelLocks ==
    ASSUME Typed, Typed', Core, Core', LocksKept, NEW t \in Task, NEW r \in Run,
           Cancel(t, r)
    PROVE  LocksKept'
<1> DEFINE new == [registry[r] EXCEPT !.status = "cancelled"]
           f == At("cancelled", r, new)
           stack == <<f>>
<1>1. /\ loop = None /\ task[t] = <<>> /\ Saved(r)
      /\ Save(r, new) /\ Continue(t, stack) /\ UNCHANGED locks
  BY DEF Cancel, Receives
<1>2. f.run = r /\ f.at = "cancelled" /\ stack # <<>> /\ Head(stack) = f
  BY DEF At
<1>3. registry[r] \in Record
  BY <1>1 DEF Typed, Saved
<1>4. /\ new.status = "cancelled" /\ new.lockTarget = registry[r].lockTarget
      /\ new.lockOwner = registry[r].lockOwner
  BY <1>3 DEF Record, WorkflowRun
<1>5. registry'[r] = new /\ \A q \in Run \ {r} : registry'[q] = registry[q]
  BY <1>1 DEF Save, Typed
<1> HIDE DEF new, f, stack
<1>6. QED
  BY <1>1, <1>2, <1>4, <1>5, SavesLocks

\* An approval that is being written saves nothing.
LEMMA ApproveLocks ==
    ASSUME Typed, Typed', Core, Core', LocksKept, NEW t \in Task, NEW r \in Run,
           NEW s \in Step, NEW action \in Forward, Approve(t, r, s, action)
    PROVE  LocksKept'
<1> DEFINE f == [At("approving", r, registry[r]) EXCEPT !.step = s, !.action = action]
           stack == <<f>>
<1>1. /\ loop = None /\ task[t] = <<>> /\ HasStatus(r, "awaiting_human")
      /\ Continue(t, stack) /\ UNCHANGED <<registry, locks>>
  BY DEF Approve, Receives, Decidable
<1>2. f.run = r /\ f.at = "approving" /\ stack # <<>> /\ Head(stack) = f
  BY DEF At
<1> DEFINE new == registry[r]
<1>3. /\ registry'[r] = new /\ new.status = "awaiting_human" /\ ~IsTerminal(new)
      /\ new.lockTarget = registry[r].lockTarget /\ new.lockOwner = registry[r].lockOwner
      /\ \A q \in Run \ {r} : registry'[q] = registry[q]
  BY <1>1 DEF HasStatus, IsTerminal, Terminal
<1> HIDE DEF f, stack, new
<1>4. QED
  BY <1>1, <1>2, <1>3, SavesLocks

\* A decision leaves the target with the run.
LEMMA ReviseLocks ==
    ASSUME Typed, Typed', Core, Core', LocksKept, NEW t \in Task, NEW r \in Run,
           NEW s \in Step, Regenerate(t, r, s) \/ Back(t, r, s)
    PROVE  LocksKept'
<1>1. PICK action, new :
          /\ Decided(t, r, s, action, new)
          /\ \/ new = [registry[r] EXCEPT !.regenerations[s] = @ + 1,
                                          !.decision[s] = RegenerateMark]
             \/ new = InvalidateFrom(registry[r], s - 1)
  BY DEF Regenerate, Back
<1> DEFINE f == [At("decided", r, new) EXCEPT !.step = s, !.action = action]
           stack == <<f>>
<1>2. /\ loop = None /\ task[t] = <<>> /\ HasStatus(r, "awaiting_human")
      /\ Save(r, new) /\ Continue(t, stack) /\ UNCHANGED locks
  BY <1>1 DEF Decided, Receives, Decidable
<1>3. f.run = r /\ f.at = "decided" /\ stack # <<>> /\ Head(stack) = f
  BY DEF At
<1>4. registry[r] \in Record /\ registry[r].status = "awaiting_human"
  BY <1>2 DEF HasStatus, Saved, Typed
<1>5. /\ new.status = "awaiting_human" /\ new.lockTarget = registry[r].lockTarget
      /\ new.lockOwner = registry[r].lockOwner
  BY <1>1, <1>4 DEF InvalidateFrom, Record, WorkflowRun
<1>6. ~IsTerminal(new)
  BY <1>5 DEF IsTerminal, Terminal
<1>7. registry'[r] = new /\ \A q \in Run \ {r} : registry'[q] = registry[q]
  BY <1>2 DEF Save, Typed
<1> HIDE DEF f, stack
<1>8. QED
  BY <1>2, <1>3, <1>5, <1>6, <1>7, SavesLocks

\* So does an approval that is saved.
LEMMA ApprovedLocks ==
    ASSUME ~AsyncAdapters, Typed, Typed', Core, Core', LocksKept, NEW t \in Task,
           Approved(t)
    PROVE  LocksKept'
<1> DEFINE approval == Approval(Top(t).obj, Top(t).step, Top(t).action)
           new == [Top(t).obj EXCEPT !.decision[Top(t).step] = approval]
           f == [Top(t) EXCEPT !.at = "decided", !.obj = new]
           stack == <<f>> \o Rest(t)
<1>1. /\ task[t] # <<>> /\ Top(t).at = "approving" /\ loop \in {None, t}
      /\ Save(Top(t).run, new) /\ Continue(t, stack) /\ UNCHANGED locks
  BY DEF Approved, Resumes
<1>2. loop = t /\ loop # None
  BY <1>1, RunServiceAssumption DEF Core, Stacked
<1>3. PICK r \in Run : r = Top(t).run
  BY <1>1, ResumeType
<1>4. /\ Top(t) \in KnownFrame(registry) /\ Top(t).obj \in Record
      /\ Rest(t) \in Seq(KnownFrame(registry))
  BY <1>1, ResumeType
<1>5. registry[r] = Top(t).obj /\ registry[r].status = "awaiting_human"
  BY <1>1, <1>2, <1>3 DEF Core, Copies
<1>6. /\ new.status = "awaiting_human" /\ new.lockTarget = registry[r].lockTarget
      /\ new.lockOwner = registry[r].lockOwner
  BY <1>4, <1>5 DEF Record, WorkflowRun
<1>7. ~IsTerminal(new)
  BY <1>6 DEF IsTerminal, Terminal
<1>8. f.run = r /\ f.at = "decided"
  BY <1>3, <1>4 DEF KnownFrame, Frame
<1>9. registry'[r] = new /\ \A q \in Run \ {r} : registry'[q] = registry[q]
  BY <1>1, <1>3 DEF Save, Typed
<1> HIDE DEF approval, new, f
<1>10. stack # <<>> /\ Head(stack) = f
  BY <1>4
<1> HIDE DEF stack
<1> DEFINE saved == new
<1> HIDE DEF saved
<1>11. QED
  BY <1>1, <1>3, <1>6, <1>7, <1>8, <1>9, <1>10, SavesLocks

\* The banner of a blocked run names the new owner, or the run gets its target.
LEMMA RetryLocks ==
    ASSUME Typed, Typed', Core, Core', Ledger, LocksKept, NEW t \in Task, NEW r \in Run,
           RetryLock(t, r)
    PROVE  LocksKept'
<1> DEFINE target == registry[r].lockTarget
           run == SetCurrent(registry[r], "awaiting_human")
           freed == [run EXCEPT !.lockOwner = r, !.status = "awaiting_human"]
           owned == [registry[r] EXCEPT !.lockOwner = locks[target]]
           f == At("unlocked", r, freed)
           stack == <<f>>
<1>1. /\ loop = None /\ task[t] = <<>> /\ HasStatus(r, "blocked")
      /\ \/ /\ locks[target] \notin {None, r} /\ Save(r, owned)
            /\ UNCHANGED <<locks, task, loop>>
         \/ /\ locks[target] \in {None, r} /\ locks' = [locks EXCEPT ![target] = r]
            /\ Save(r, freed) /\ Continue(t, stack)
  BY DEF RetryLock, Receives
<1>2. registry[r] \in Record /\ OneReviewed(registry[r])
  BY <1>1, WithHuman
<1>3. /\ registry[r].status = "blocked" /\ target \in Target
      /\ target \in Reports(r) /\ LockOk(r) /\ registry[r] # None
  BY <1>1, <1>2, NoneAssumption DEF HasStatus, Record, WorkflowRun, LocksKept, LockOk
<1>4. \A x \in Target : locks[x] = r => x = target
  BY <1>3 DEF LockOk, OnRecord
<1>5. CASE /\ locks[target] \notin {None, r} /\ Save(r, owned)
           /\ UNCHANGED <<locks, task, loop>>
  <2>1. owned.status = "blocked" /\ owned.lockTarget = target
    BY <1>2, <1>3 DEF Record, WorkflowRun
  <2>2. owned # None
    <3>1. locks[target] \in Run \cup {None}
      BY <1>3 DEF Typed
    <3>2. owned \in WorkflowRun
      BY <1>2, <3>1 DEF Record, WorkflowRun
    <3>3. QED
      BY <3>2, NoneAssumption
  <2> HIDE DEF owned, freed, f, stack
  <2>3. registry'[r] = owned /\ \A q \in Run \ {r} : registry'[q] = registry[q]
    BY <1>5 DEF Save, Typed
  <2>4. MovesOn(t, r) /\ ~TopIs({"locked"}, r)'
    BY <1>1, <1>5, <2>3 DEF MovesOn, TopIs
  <2>5. \A x \in Target : locks'[x] # r
    BY <1>4, <1>5
  <2>6. QED
    BY <1>1, <2>1, <2>2, <2>3, <2>4, <2>5, LocksStay
<1>6. CASE /\ locks[target] \in {None, r} /\ locks' = [locks EXCEPT ![target] = r]
           /\ Save(r, freed) /\ Continue(t, stack)
  <2>1. PICK s \in Step : InReview(registry[r]) = {s}
    BY <1>2 DEF OneReviewed
  <2>2. run \in WorkflowRun /\ run.lockTarget = target
    BY <1>2, <2>1, SetCurrentSays, SetCurrentType DEF Record, StepState
  <2> HIDE DEF run
  <2>3. /\ freed.status = "awaiting_human" /\ freed.lockTarget = target
        /\ freed.lockOwner = r
    BY <2>2 DEF WorkflowRun
  <2>4. f.run = r /\ f.at = "unlocked" /\ stack # <<>> /\ Head(stack) = f
    BY DEF At
  <2> HIDE DEF freed, f, stack, owned
  <2>5. registry'[r] = freed /\ \A q \in Run \ {r} : registry'[q] = registry[q]
    BY <1>6 DEF Save, Typed
  <2>6. PICK x \in Reports(r) : x = target
    BY <1>3
  <2>7. /\ locks[x] \in {None, r} /\ locks' = [locks EXCEPT ![x] = r]
        /\ \A y \in Target : locks[y] = r => y = x
        /\ freed.status = "awaiting_human" /\ freed.lockTarget = x
        /\ freed.lockOwner = r
    BY <1>4, <1>6, <2>3, <2>6
  <2>8. loop \in {None, t} /\ (task[t] # <<>> => Top(t).run = r) /\ Continue(t, stack)
    BY <1>1, <1>6
  <2> HIDE DEF target
  <2>9. QED
    BY <2>4, <2>5, <2>7, <2>8, TakesLock, ZenonT(60)
<1>7. QED
  BY <1>1, <1>5, <1>6

----------------------------------------------------------------------------
(***************************************************************************)
(* The end of a pass.                                                      *)
(***************************************************************************)

\* The record of a parked run is saved.
LEMMA LockedLocks ==
    ASSUME ~AsyncAdapters, Typed, Typed', Core, Core', LocksKept, NEW t \in Task,
           LockedPublished(t)
    PROVE  LocksKept'
<1> DEFINE f == [Top(t) EXCEPT !.at = "suspended"]
           new == Top(t).obj
           stack == <<f>> \o Rest(t)
<1>1. /\ task[t] # <<>> /\ Top(t).at = "locked" /\ loop \in {None, t}
      /\ Save(Top(t).run, new) /\ Continue(t, stack) /\ UNCHANGED locks
  BY DEF LockedPublished, Resumes
<1>2. loop = t /\ loop # None
  BY <1>1, RunServiceAssumption DEF Core, Stacked
<1>3. PICK r \in Run : r = Top(t).run
  BY <1>1, ResumeType
<1>4. /\ Top(t) \in KnownFrame(registry) /\ new \in Record
      /\ Rest(t) \in Seq(KnownFrame(registry))
  BY <1>1, ResumeType
<1>5. new # None
  BY <1>4, NoneAssumption DEF Record
<1>6. f.run = r /\ f.at = "suspended"
  BY <1>3, <1>4 DEF KnownFrame, Frame
<1>7. registry'[r] = new /\ \A q \in Run \ {r} : registry'[q] = registry[q]
  BY <1>1, <1>3 DEF Save, Typed
<1>8. new.lockTarget \in Reports(r) /\ \A x \in Target : locks'[x] # r
  BY <1>1, <1>2, <1>3 DEF LocksKept, LockOk, TopIs
<1> HIDE DEF f, new
<1>9. stack # <<>> /\ Head(stack) = f
  BY <1>4
<1> HIDE DEF stack
<1>10. MovesOn(t, r) /\ ~TopIs({"locked"}, r)'
  BY <1>1, <1>3, <1>6, <1>7, <1>9, PushMoves
<1>11. LockOk(r)'
  BY <1>7, <1>8, <1>10 DEF LockOk, HasStatus, Reports
<1>12. QED
  BY <1>10, <1>11, OthersStayLocked DEF LocksKept

\* The target of the step is on record with its lock, or the run is parked with
\* none. A run that has a lock already asks for the one it has.
LEMMA ParkLocks ==
    ASSUME ~AsyncAdapters, OneTarget, Typed, Typed', Core, Core', LocksKept,
           NEW t \in Task, NEW r \in Run, loop = None, task[t] # <<>>, Top(t).run = r,
           registry[r].status = "running", Saved(r),
           NEW run \in Record, run.status = "awaiting_human",
           run.lockTarget = registry[r].lockTarget,
           run.lockOwner = registry[r].lockOwner,
           NEW s \in Step, NEW target \in Target \cup {None}, target = TargetOf[r, s],
           InReview(run) = {s}, Park(t, r, run, target)
    PROVE  LocksKept'
<1> DEFINE held == IF target = None THEN run
                   ELSE [run EXCEPT !.lockTarget = target, !.lockOwner = r]
           marked == [run EXCEPT !.lockTarget = target, !.lockOwner = locks[target],
                                 !.status = "blocked"]
           blocked == SetCurrent(marked, "blocked")
<1>1. \/ /\ target = None \/ locks[target] \in {None, r}
         /\ locks' = IF target = None THEN locks ELSE [locks EXCEPT ![target] = r]
         /\ Save(r, held) /\ Continue(t, <<At("suspended", r, held)>> \o Rest(t))
      \/ /\ target # None /\ locks[target] \notin {None, r}
         /\ UNCHANGED <<locks, registry>>
         /\ Continue(t, <<At("locked", r, blocked)>> \o Rest(t))
  BY DEF Park
<1>2. Rest(t) \in Seq(KnownFrame(registry))
  BY ResumeType
<1>3. target # None => target \in Reports(r)
  BY DEF Reports
<1>4. LockOk(r) /\ \A x \in Target : locks[x] = r => OnRecord(r, x)
  BY DEF LocksKept, LockOk
<1>5. ASSUME target # None, NEW x \in Target, locks[x] = r
      PROVE  x = target
  BY <1>3, <1>4, <1>5 DEF OnRecord, OneTarget
<1>6. CASE /\ target = None \/ locks[target] \in {None, r}
           /\ locks' = IF target = None THEN locks ELSE [locks EXCEPT ![target] = r]
           /\ Save(r, held) /\ Continue(t, <<At("suspended", r, held)>> \o Rest(t))
  <2> DEFINE f == At("suspended", r, held)
             stack == <<f>> \o Rest(t)
  <2>1. /\ held.status = "awaiting_human"
        /\ target = None => held = run
        /\ target # None => held.lockTarget = target /\ held.lockOwner = r
    BY DEF Record, WorkflowRun
  <2>2. f.run = r /\ f.at = "suspended" /\ Continue(t, stack)
    BY <1>6 DEF At
  <2>3. registry'[r] = held /\ \A q \in Run \ {r} : registry'[q] = registry[q]
    BY <1>6 DEF Save, Typed
  <2>4. stack # <<>> /\ Head(stack) = f
    BY <1>2, PushedTop
  <2>5. ~IsTerminal(held)
    BY <2>1 DEF IsTerminal, Terminal
  <2> HIDE DEF held, f, blocked, marked, stack
  <2>6. CASE target = None
    <3>1. UNCHANGED locks
      BY <1>6, <2>6
    <3>2. held.lockTarget = registry[r].lockTarget /\ held.lockOwner = registry[r].lockOwner
      BY <2>1, <2>6
    <3>3. QED
      BY <2>1, <2>2, <2>3, <2>4, <2>5, <3>1, <3>2, SavesLocks, ZenonT(60)
  <2>7. CASE target # None
    <3>1. /\ target \in Reports(r) /\ locks[target] \in {None, r}
          /\ locks' = [locks EXCEPT ![target] = r]
          /\ \A x \in Target : locks[x] = r => x = target
      BY <1>3, <1>5, <1>6, <2>7
    <3>2. QED
      BY <2>1, <2>2, <2>3, <2>4, <2>7, <3>1, TakesLock
  <2>8. QED
    BY <2>6, <2>7
<1>7. CASE /\ target # None /\ locks[target] \notin {None, r}
           /\ UNCHANGED <<locks, registry>>
           /\ Continue(t, <<At("locked", r, blocked)>> \o Rest(t))
  <2> DEFINE f == At("locked", r, blocked)
             stack == <<f>> \o Rest(t)
  <2>1. marked \in WorkflowRun /\ marked.state = run.state /\ marked.lockTarget = target
    <3>1. locks[target] \in Run \cup {None}
      BY <1>7 DEF Typed
    <3>2. QED
      BY <1>7, <3>1 DEF Record, WorkflowRun, Status
  <2>2. InReview(marked) = {s}
    BY <2>1 DEF InReview
  <2> HIDE DEF marked, held
  <2>3. blocked.lockTarget = target
    BY <2>1, <2>2, SetCurrentSays
  <2>4. f.run = r /\ f.at = "locked" /\ f.obj = blocked /\ Continue(t, stack)
    BY <1>7 DEF At
  <2>5. stack # <<>> /\ Head(stack) = f
    BY <1>2, PushedTop
  <2> HIDE DEF f, blocked, stack
  <2>6. MovesOn(t, r) /\ task'[t] # <<>> /\ Head(task'[t]) = f /\ loop' = t
    BY <1>7, <2>4, <2>5, PushMoves
  <2>7. Top(loop)'.obj.lockTarget \in Reports(r)
    BY <1>3, <1>7, <2>3, <2>4, <2>6 DEF Top
  <2>8. \A x \in Target : locks'[x] # r
    BY <1>5, <1>7
  <2>9. HasStatus(r, "blocked")' => FALSE
    BY <1>7 DEF HasStatus
  <2>10. LockOk(r)'
    BY <2>7, <2>8, <2>9 DEF LockOk, Reports
  <2>11. QED
    BY <2>6, <2>10, OthersStayLocked DEF LocksKept
<1>8. QED
  BY <1>1, <1>6, <1>7

\* A pass that suspends takes the target of its step, or is parked.
LEMMA SuspendLocks ==
    ASSUME ~AsyncAdapters, OneTarget, Typed, Typed', Core, Core', Ledger, LocksKept,
           NEW t \in Task, NEW r \in Run, r = Top(t).run, Resumes(t, "engine"),
           NEW a \in Artifact, PassSuspended(t, a), ~Discard(t, r)
    PROVE  LocksKept'
<1> DEFINE run == Top(t).obj
           latest == WithEffects(run, run)
           s == SuspendStep(run)
           parked == Suspended(latest, s, a)
           target == TargetOf[r, s]
<1>1. /\ loop = None /\ task[t] # <<>> /\ Saved(r) /\ run \in Record
      /\ registry[r].status \in {"running", "cancelled"}
      /\ registry[r].status = "running" => run = registry[r]
  BY AtEngine
<1>2. ~IsTerminal(registry[r]) /\ Open(run) # {}
  BY DEF PassSuspended
<1>3. registry[r].status = "running" /\ run = registry[r]
  BY <1>1, <1>2 DEF IsTerminal, Terminal
<1>4. Park(t, r, parked, target)
  BY <1>3 DEF PassSuspended
<1>5. s \in Step /\ s \in Open(run) /\ \A q \in Open(run) : s <= q
  BY <1>2, SuspendStepType
<1>6. target \in Target \cup {None}
  <2>1. <<r, s>> \in Run \X Step
    BY <1>5
  <2>2. QED
    BY <2>1, RunServiceAssumption, Zenon
<1>7. latest \in Record
  BY <1>1, EffectTypes
<1>8. /\ latest.decision = run.decision /\ latest.state = run.state
      /\ latest.lockTarget = run.lockTarget /\ latest.lockOwner = run.lockOwner
  BY <1>1 DEF WithEffects, Record, WorkflowRun
<1>9. PICK x \in Target \cup {None}, q \in Step : x = target /\ q = s
  BY <1>5, <1>6
<1>10. x = TargetOf[r, q]
  BY <1>9
<1> HIDE DEF latest, s, parked, target
<1>11. /\ latest.decision[s].action \notin Forward
       /\ \A p \in Step : p < s => latest.decision[p].action \in Forward
  <2>1. \A p \in Step : p < s => p \notin Open(run)
    BY <1>5, StepsAndKinds
  <2>2. QED
    BY <1>5, <1>8, <2>1 DEF Open
<1>12. Reached(latest)
  <2>1. Reached(run)
    BY <1>1, <1>2, <1>3 DEF Ledger, LedgerOf, RecordOk
  <2>2. QED
    BY <1>8, <2>1 DEF Reached, InReview
<1>13. /\ parked.status = "awaiting_human" /\ InReview(parked) = {s}
       /\ parked.lockTarget = latest.lockTarget /\ parked.lockOwner = latest.lockOwner
  BY <1>5, <1>7, <1>11, <1>12, SuspendedSays DEF parked, Record
<1>14. parked \in Record
  BY <1>5, <1>7, SuspendedType DEF parked
<1>15. /\ parked.lockTarget = registry[r].lockTarget
       /\ parked.lockOwner = registry[r].lockOwner
       /\ InReview(parked) = {q} /\ Park(t, r, parked, x)
  BY <1>3, <1>4, <1>8, <1>9, <1>13
<1>16. QED
  BY <1>1, <1>3, <1>10, <1>13, <1>14, <1>15, ParkLocks

\* A pass that completes its run keeps the target until that is announced.
LEMMA CompleteLocks ==
    ASSUME ~AsyncAdapters, Typed, Typed', Core, Core', LocksKept, NEW t \in Task,
           NEW r \in Run, r = Top(t).run, Resumes(t, "engine"),
           PassCompleted(t), ~Discard(t, r)
    PROVE  LocksKept'
<1> DEFINE run == Top(t).obj
           latest == WithEffects(run, run)
           done == [latest EXCEPT !.state = [s \in Step |-> "done"],
                                  !.status = "completed"]
           f == At("terminal", r, done)
           stack == <<f>> \o Rest(t)
<1>1. /\ loop = None /\ task[t] # <<>> /\ run \in Record
      /\ registry[r].status \in {"running", "cancelled"}
      /\ registry[r].status = "running" => run = registry[r]
  BY AtEngine
<1>2. ~IsTerminal(registry[r])
  BY DEF PassCompleted
<1>3. run = registry[r]
  BY <1>1, <1>2 DEF IsTerminal, Terminal
<1>4. UNCHANGED locks /\ Save(r, done) /\ Continue(t, stack)
  BY <1>3 DEF PassCompleted
<1>5. /\ latest \in Record
      /\ latest.lockTarget = run.lockTarget /\ latest.lockOwner = run.lockOwner
  <2>1. latest \in Record
    BY <1>1, EffectTypes
  <2>2. QED
    BY <1>1, <2>1 DEF WithEffects, Record, WorkflowRun
<1> HIDE DEF latest
<1>6. /\ done.status = "completed" /\ done.lockTarget = registry[r].lockTarget
      /\ done.lockOwner = registry[r].lockOwner
  BY <1>3, <1>5 DEF Record, WorkflowRun
<1>7. f.run = r /\ f.at = "terminal"
  BY DEF At
<1>8. stack # <<>> /\ Head(stack) = f
  BY <1>1, ResumeType, PushedTop
<1> HIDE DEF f, done, stack
<1>9. registry'[r] = done /\ \A q \in Run \ {r} : registry'[q] = registry[q]
  BY <1>4 DEF Save, Typed
<1>10. QED
  BY <1>1, <1>4, <1>6, <1>7, <1>8, <1>9, SavesLocks

\* A pass that fails its run as well; if the run was cancelled meanwhile, the
\* old copy that is saved then names an owner that has lost its lock already.
LEMMA FailLocks ==
    ASSUME ~AsyncAdapters, Typed, Typed', Core, Core', LocksKept, NEW t \in Task,
           NEW r \in Run, r = Top(t).run, Resumes(t, "engine"),
           NEW run, run \in {registry[r], Top(t).obj}, FailRun(t, r, run)
    PROVE  LocksKept'
<1> DEFINE marked == SetCurrent(run, "failed")
           failed == [marked EXCEPT !.status = "failed"]
           f == At("terminal", r, failed)
           stack == <<f>> \o Rest(t)
<1>1. /\ loop = None /\ task[t] # <<>> /\ run \in Record
      /\ registry[r].status \in {"running", "cancelled"}
      /\ registry[r].status = "running" => run = registry[r]
  BY AtEngine
<1>2. ASSUME NEW x \in Target, locks[x] = r
      PROVE  run = registry[r]
  <2>1. ~IsTerminal(registry[r])
    BY <1>1, <1>2 DEF LocksKept, LockOk, OnRecord, TopIs
  <2>2. QED
    BY <1>1, <2>1 DEF IsTerminal, Terminal
<1>3. Save(r, failed) /\ UNCHANGED locks /\ Continue(t, stack)
  BY DEF FailRun
<1>4. /\ marked \in Record
      /\ marked.lockTarget = run.lockTarget /\ marked.lockOwner = run.lockOwner
  <2>1. marked \in Record
    BY <1>1, SetCurrentType DEF StepState
  <2>2. QED
    BY <1>1, <2>1 DEF SetCurrent, Record, WorkflowRun
<1> HIDE DEF marked
<1>5. /\ failed.status = "failed" /\ failed.lockTarget = run.lockTarget
      /\ failed.lockOwner = run.lockOwner
  BY <1>4 DEF Record, WorkflowRun
<1>6. f.run = r /\ f.at = "terminal"
  BY DEF At
<1>7. stack # <<>> /\ Head(stack) = f
  BY <1>1, ResumeType, PushedTop
<1> HIDE DEF f, failed, stack
<1>8. registry'[r] = failed /\ \A q \in Run \ {r} : registry'[q] = registry[q]
  BY <1>3 DEF Save, Typed
<1>9. \A x \in Target : locks[x] = r =>
          failed.lockTarget = registry[r].lockTarget
          /\ failed.lockOwner = registry[r].lockOwner
  BY <1>2, <1>5
<1>10. QED
  BY <1>1, <1>3, <1>5, <1>6, <1>7, <1>8, <1>9, SavesLocks

\* A pass ends.
LEMMA EngineLocks ==
    ASSUME ~AsyncAdapters, OneTarget, Typed, Typed', Core, Core', Ledger, LocksKept,
           NEW t \in Task, Engine(t)
    PROVE  LocksKept'
<1>1. Resumes(t, "engine")
  BY DEF Engine, PassSuspended, PassCompleted, PassFailed, PassBroken
<1>2. PICK r \in Run : r = Top(t).run
  BY <1>1, AtEngine
<1>3. CASE Discard(t, r)
  BY <1>1, <1>2, <1>3, DiscardLocks
<1>4. ASSUME NEW a \in Artifact, PassSuspended(t, a), ~Discard(t, r)
      PROVE  LocksKept'
  BY <1>1, <1>2, <1>4, SuspendLocks
<1>5. ASSUME PassCompleted(t), ~Discard(t, r)
      PROVE  LocksKept'
  BY <1>1, <1>2, <1>5, CompleteLocks
<1>6. ASSUME NEW j \in 0..NumSteps, PassFailed(t, j) \/ PassBroken(t, j), ~Discard(t, r)
      PROVE  LocksKept'
  <2>1. \E run \in {registry[r], Top(t).obj} : FailRun(t, r, run)
    BY <1>2, <1>6 DEF PassFailed, PassBroken
  <2>2. QED
    BY <1>1, <1>2, <2>1, FailLocks
<1>7. QED
  BY <1>3, <1>4, <1>5, <1>6 DEF Engine

----------------------------------------------------------------------------
\* A lock that expires is one less.
LEMMA ExpiryLocks ==
    ASSUME Typed, LocksKept, NEW x \in Target, LockExpires(x)
    PROVE  LocksKept'
<1>1. /\ loop = None /\ locks' = [locks EXCEPT ![x] = None]
      /\ UNCHANGED <<registry, loop>>
  BY DEF LockExpires
<1>2. \A y \in Target : \A q \in Run : locks'[y] = q => locks[y] = q
  BY <1>1, RunServiceAssumption DEF Typed
<1>3. ASSUME NEW q \in Run
      PROVE  LockOk(q)'
  <2>1. LockOk(q) /\ ~TopIs({"locked"}, q)'
    BY <1>1 DEF LocksKept, TopIs
  <2>2. HasStatus(q, "blocked")' => registry'[q].lockTarget \in Reports(q)
    BY <1>1, <2>1 DEF LockOk, HasStatus, Saved
  <2>3. ASSUME NEW y \in Target, locks'[y] = q
        PROVE  OnRecord(q, y)'
    BY <1>1, <1>2, <2>1, <2>3
       DEF LockOk, OnRecord, Saved, IsTerminal, TopIs, Reports
  <2>4. QED
    BY <2>1, <2>2, <2>3 DEF LockOk, Reports
<1>4. QED
  BY <1>3 DEF LocksKept

\* With the memory adapters every target that a run has locked is on its record
\* with the run as its owner, and the run is not over, or gives it back before
\* its task yields.
THEOREM LocksHold == ASSUME ~AsyncAdapters, OneTarget PROVE Spec => []LocksKept
<1>1. Init => LocksKept
  <2> SUFFICES ASSUME Init, NEW q \in Run
               PROVE  LockOk(q)
    BY DEF LocksKept
  <2>1. loop = None /\ ~Saved(q) /\ \A x \in Target : locks[x] # q
    BY RunServiceAssumption DEF Init, Saved
  <2>2. QED
    BY <2>1 DEF LockOk, HasStatus, TopIs
<1>2. Typed /\ Typed' /\ Core /\ Core' /\ Ledger /\ LocksKept /\ [Next]_vars => LocksKept'
  <2> SUFFICES ASSUME Typed, Typed', Core, Core', Ledger, LocksKept, [Next]_vars
               PROVE  LocksKept'
    OBVIOUS
  <2>1. ASSUME NEW t \in Task, NEW r \in Run, Request(t, r)
        PROVE  LocksKept'
    BY <2>1, StartLocks, CancelLocks, ApproveLocks, ReviseLocks, RetryLocks
       DEF Request, RequestCancel, RequestRetry
  <2>2. ASSUME NEW t \in Task, NEW r \in Run, Sweep(t, r)
        PROVE  LocksKept'
    BY <2>2, CancelLocks, RetryLocks DEF Sweep, SweepStalled, SweepBlocked
  <2>3. ASSUME NEW t \in Task, Engine(t)
        PROVE  LocksKept'
    BY <2>3, EngineLocks
  <2>4. ASSUME NEW t \in Task, Proceed(t)
        PROVE  LocksKept'
    BY <2>4, PromoteLocks, LeaveLocks, DecisionLocks, LockedLocks, PublishedLocks,
       ApprovedLocks
       DEF Proceed
  <2>5. ASSUME NEW t \in Task, PublishRaises(t) \/ QueuedRaises(t)
        PROVE  LocksKept'
    BY <2>5 DEF PublishRaises, QueuedRaises
  <2>6. CASE Restart
    BY <2>6 DEF Restart
  <2>7. ASSUME NEW x \in Target, LockExpires(x)
        PROVE  LocksKept'
    BY <2>7, ExpiryLocks
  <2>8. CASE UNCHANGED vars
    BY <2>8 DEF vars, LocksKept, LockOk, HasStatus, Saved, TopIs, Top, OnRecord,
                IsTerminal, Reports
  <2>9. QED
    BY <2>1, <2>2, <2>3, <2>4, <2>5, <2>6, <2>7, <2>8 DEF Next
<1>3. QED
  BY <1>1, <1>2, TypedHolds, CoreHolds, LedgerHolds, PTL DEF Spec

\* With the memory adapters no run that is over, and that nobody works on, has
\* a target locked, however it ended and whichever locks expired before: a run
\* that waits for the target is not blocked forever (_release_resources).
THEOREM MemoryNoOrphanLock ==
    ASSUME ~AsyncAdapters, OneTarget PROVE Spec => []NoOrphanLock
<1>1. Typed /\ Core /\ LocksKept => NoOrphanLock
  <2> SUFFICES ASSUME Typed, Core, LocksKept, NEW x \in Target,
                      locks[x] # None, Unattended(locks[x]),
                      IsTerminal(registry[locks[x]])
               PROVE  FALSE
    BY DEF NoOrphanLock
  <2>1. PICK q \in Run : locks[x] = q
    BY DEF Typed
  <2>2. TopIs({"terminal", "cancelled"}, q)
    BY <2>1 DEF LocksKept, LockOk, OnRecord
  <2>3. Unattended(q)
    BY <2>1
  <2>4. QED
    BY <2>2, <2>3, UnattendedIsIdle
<1>2. QED
  BY <1>1, TypedHolds, CoreHolds, LocksHold, PTL
=============================================================================

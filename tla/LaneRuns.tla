------------------------------- MODULE LaneRuns -------------------------------
(***************************************************************************)
(* Runs of one lane on one ticket: the run service's record of a run, the  *)
(* workflow engine that walks the lane's steps, and the systems outside.   *)
(* A pass is a walk: it starts at the first step or resumes at the         *)
(* suspended one, forwards the steps that are decided, carries out the     *)
(* effect of a decided step call by call, and ends when it suspends,       *)
(* completes or throws.  A pass the service stops waiting for goes on.     *)
(***************************************************************************)
EXTENDS LaneFlows

CONSTANTS
  Lanes,        \* the lanes a behaviour may be about
  NRuns,        \* runs of the ticket, one after the other
  MaxChanges,   \* regenerations, backs and edits beyond the forms in a behaviour
  MaxFaults,    \* passes that throw, die or are given up in a behaviour
  DeskDedupes   \* whether the desk recognises a create it carried out

ASSUME LaneAssumption ==
  /\ Lanes \subseteq AllLanes
  /\ NRuns \in Nat \ {0} /\ MaxChanges \in Nat /\ MaxFaults \in Nat
  /\ DeskDedupes \in BOOLEAN

VARIABLES
  lane,     \* the lane of the behaviour
  facts,    \* what the lane's input and its directories say
  run,      \* the run service's record of each run
  eng,      \* the engine's pass of each run
  made,     \* the calls outside systems carried out
  changes,  \* human changes so far
  faults    \* faults so far

vars == <<lane, facts, run, eng, made, changes, faults>>

Runs == 1..NRuns
Step(i) == StepsOf(lane)[i]
StepSet == {Step(i) : i \in 1..Len(StepsOf(lane))}
Ended == {"completed", "failed"}

NewRun(l) ==
  LET S == {StepsOf(l)[i] : i \in 1..Len(StepsOf(l))} IN
  [status |-> "none", at |-> 1, next |-> 1,
   art |-> [s \in S |-> NoArtifact], dec |-> [s \in S |-> NoDecision],
   eff |-> [s \in S |-> NoEffect]]

Envelope(rec) == [art |-> rec.art, dec |-> rec.dec, eff |-> rec.eff, decision |-> NoDecision]

Idle(l) == [pc |-> "idle", i |-> 1, st |-> Envelope(NewRun(l)), calls |-> <<>>]

Init ==
  /\ lane \in Lanes /\ facts \in FactsOf(lane)
  /\ run = [r \in Runs |-> NewRun(lane)]
  /\ eng = [r \in Runs |-> Idle(lane)]
  /\ made = {}
  /\ changes = 0 /\ faults = 0

-----------------------------------------------------------------------------
(* The run service *)

Walk(r, i, st) == eng' = [eng EXCEPT ![r] = [pc |-> "walking", i |-> i, st |-> st, calls |-> <<>>]]

\* A pass that goes on although the service gave it up.
GivenUp(q) == run[q].status = "failed" /\ eng[q].pc # "idle"

\* A human's change and a given-up pass do not overlap, which bounds the state.
Change == changes < MaxChanges /\ changes' = changes + 1 /\ \A q \in Runs : ~GivenUp(q)

\* The next run of the ticket starts when the ones before it have ended.  A
\* pass the service gave up may still be making its calls then; one that has
\* not come to them, or was changed before, is waited for, which bounds the
\* state.  A run before which nothing was carried out, and nothing is about to
\* be, is like the first one.
StartRun(r) ==
  /\ run[r].status = "none"
  /\ \A q \in Runs : q < r =>
       /\ run[q].status \in Ended /\ eng[q].pc # "walking"
       /\ changes = 0 \/ ~GivenUp(q)
  /\ r = 1 \/ made # {} \/ \E q \in Runs : eng[q].pc = "writing"
  /\ run' = [run EXCEPT ![r].status = "driving"]
  /\ Walk(r, 1, Envelope(run[r]))
  /\ UNCHANGED <<lane, facts, made, changes, faults>>

\* The decision is recorded, then the pass resumes with the envelope.
Resume(r, decision) ==
  LET s == Step(run[r].at)
      rec == [run[r] EXCEPT !.status = "driving", !.dec[s] = decision]
  IN /\ run[r].status = "review"
     /\ run' = [run EXCEPT ![r] = rec]
     /\ Walk(r, run[r].at,
             MergeState(eng[r].st, [Envelope(rec) EXCEPT !.decision = decision],
                        UnionsEffects(lane)))
     /\ UNCHANGED <<lane, facts, made, faults>>

\* What a human hands in with an artifact through the forms of the lane: the
\* artifact as it is, or a draft of its fields.
Drafts(l, s, a) == {NoEdits} \union SurfaceOf(l, s, a).drafts \union ApiDrafts(l, s, a)

\* Proceed submits the artifact shown, or the draft made of it.  The console
\* keeps some drafts back (Blocked); here a client hands them in all the same.
Proceed(r) ==
  LET s == Step(run[r].at) IN
  /\ run[r].status = "review"
  /\ \E draft \in Drafts(lane, s, run[r].art[s]) : Resume(r, BuildProceed(run[r].art[s], draft))
  /\ UNCHANGED changes

\* A client of the API edits what no form opens, which counts as a change.
ProceedByApi(r) ==
  LET s == Step(run[r].at) IN
  /\ run[r].status = "review"
  /\ \E edits \in FreeEdits(lane, s, run[r].art[s]) \ {NoEdits} :
       Resume(r, [action |-> "edit", edits |-> edits])
  /\ Change

Regenerate(r) == Resume(r, [action |-> "regenerate", edits |-> NoEdits]) /\ Change

\* Wrong on purpose: the steps after the reopened one are kept.
InvalidateOnly(rec, i) ==
  [rec EXCEPT !.art[Step(i)] = NoArtifact, !.dec[Step(i)] = NoDecision]

\* What the steps from index i on had decided and computed is dropped.
InvalidateFrom(rec, i) ==
  LET Kept(s) == \E j \in 1..(i - 1) : s = Step(j) IN
  [rec EXCEPT !.art = [s \in StepSet |-> IF Kept(s) THEN rec.art[s] ELSE NoArtifact],
              !.dec = [s \in StepSet |-> IF Kept(s) THEN rec.dec[s] ELSE NoDecision]]

\* Back drops the step before and walks a new attempt from the start.
Back(r) ==
  LET rec == InvalidateFrom(run[r], run[r].at - 1) IN
  /\ run[r].status = "review" /\ run[r].at > 1
  /\ Change
  /\ run' = [run EXCEPT ![r] = [rec EXCEPT !.status = "driving"]]
  /\ Walk(r, 1, Envelope(rec))
  /\ UNCHANGED <<lane, facts, made, faults>>

-----------------------------------------------------------------------------
(* The engine *)

\* What the steps can look up: the facts, and what was already carried out.
Known == WithField(facts, "carried", {c.sys : c \in made})
Here(r) == Step(eng[r].i)
Decided(r) == IsForward(CurrentDecision(eng[r].st, Here(r)))
IsLast(r) == eng[r].i = Len(StepsOf(lane))
\* Nothing reads the artifacts and the decisions of a run that has ended: its
\* record is cut to its status and to which effects it holds, which bounds the state.
Cut(rec) ==
  [NewRun(lane) EXCEPT !.status = rec.status,
     !.eff = [s \in StepSet |-> IF rec.eff[s] = NoEffect THEN NoEffect ELSE <<"recorded">>]]

\* The pass ends; the service applies its outcome if it still waits for it.
EndPass(r, outcome) ==
  LET rec == IF run[r].status = "driving" THEN outcome ELSE run[r]
      over == rec.status \in Ended
  IN /\ run' = [run EXCEPT ![r] = IF over THEN Cut(rec) ELSE rec]
     /\ eng' = [eng EXCEPT ![r] = IF over THEN Idle(lane)
                                  ELSE [@ EXCEPT !.pc = "idle", !.calls = <<>>]]

WithEffects(rec, st) ==
  [rec EXCEPT !.eff = [s \in StepSet |-> IF st.eff[s] # NoEffect THEN st.eff[s] ELSE rec.eff[s]]]

Suspend(r) ==
  LET s == Here(r) IN
  /\ eng[r].pc = "walking" /\ ~Decided(r)
  /\ \E a \in Compute(lane, s, eng[r].st, Known) :
       LET rec == [run[r] EXCEPT !.status = "review", !.at = eng[r].i, !.next = @ + 1,
                                 !.art[s] = WithField(a, "v", run[r].next)]
       IN EndPass(r, IF RepeatsEffects(lane) THEN WithEffects(rec, eng[r].st) ELSE rec)
  /\ UNCHANGED <<lane, facts, made, changes, faults>>

\* The step is decided, and its effect, if it has one, is recorded for
\* another action or not at all.
EffectDue(r) ==
  LET s == Here(r) IN
  /\ HasEffect(lane, s, Writes(lane, s, eng[r].st, Known, DeskDedupes))
  /\ eng[r].st.eff[s] # ActionHash(lane, s, eng[r].st)

Onward(r, st) ==
  IF IsLast(r)
  THEN EndPass(r, [WithEffects(run[r], st) EXCEPT !.status = "completed"])
  ELSE /\ Walk(r, eng[r].i + 1, ForwardState(st))
       /\ UNCHANGED run

Passes(r) ==
  eng[r].pc = "walking" /\ Decided(r) /\ Gate(lane, Here(r), eng[r].st, Known)

Forward(r) ==
  /\ Passes(r) /\ ~EffectDue(r)
  /\ Onward(r, eng[r].st)
  /\ UNCHANGED <<lane, facts, made, changes, faults>>

BeginEffect(r) ==
  /\ Passes(r) /\ EffectDue(r)
  /\ eng' = [eng EXCEPT ![r].pc = "writing",
                        ![r].calls = Writes(lane, Here(r), eng[r].st, Known, DeskDedupes)]
  /\ UNCHANGED <<lane, facts, run, made, changes, faults>>

CarriedOut(c) == \E m \in made : m.sys = c.sys /\ m.key = c.key

MakeCall(r) ==
  LET c == Head(eng[r].calls)
      again == {m \in made : m.sys = c.sys /\ m.key = c.key /\ m.run = r}
  IN /\ eng[r].pc = "writing" /\ eng[r].calls # <<>> /\ FindDurableReplay(c, made)
     /\ made' = IF c.dedupes /\ CarriedOut(c) THEN made
                ELSE made \union {[sys |-> c.sys, key |-> c.key, dedupes |-> c.dedupes,
                                   run |-> r, step |-> Here(r), n |-> Cardinality(again)]}
     /\ eng' = [eng EXCEPT ![r].calls = Tail(@)]
     /\ UNCHANGED <<lane, facts, run, changes, faults>>

EndEffect(r) ==
  LET s == Here(r) IN
  /\ eng[r].pc = "writing" /\ eng[r].calls = <<>>
  /\ Onward(r, [eng[r].st EXCEPT !.eff[s] = ActionHash(lane, s, eng[r].st)])
  /\ UNCHANGED <<lane, facts, made, changes, faults>>

\* A step that throws ends the pass; the service fails the run.
FailPass(r) ==
  /\ EndPass(r, [run[r] EXCEPT !.status = "failed"])
  /\ UNCHANGED <<lane, facts, made, changes>>

Throw(r) ==
  LET s == Here(r) IN
  /\ eng[r].pc = "walking"
  /\ IF Decided(r) THEN ~Gate(lane, s, eng[r].st, Known)
     ELSE Compute(lane, s, eng[r].st, Known) = {}
  /\ FailPass(r)
  /\ UNCHANGED faults

\* The writer throws at a branch that holds another patch.
Refuse(r) ==
  /\ eng[r].pc = "writing" /\ eng[r].calls # <<>> /\ ~FindDurableReplay(Head(eng[r].calls), made)
  /\ FailPass(r)
  /\ UNCHANGED faults

Fault == faults < MaxFaults /\ faults' = faults + 1

\* A model, a reader or an outside call fails, or the engine dies.
Break(r) == eng[r].pc # "idle" /\ Fault /\ FailPass(r)

\* The service's request times out: the run fails, the pass goes on.
GiveUp(r) ==
  /\ run[r].status = "driving" /\ Fault
  /\ run' = [run EXCEPT ![r].status = "failed"]
  /\ UNCHANGED <<lane, facts, eng, made, changes>>

Next ==
  \E r \in Runs :
    \/ StartRun(r) \/ Proceed(r) \/ ProceedByApi(r) \/ Regenerate(r) \/ Back(r)
    \/ Suspend(r) \/ Forward(r) \/ BeginEffect(r) \/ MakeCall(r) \/ EndEffect(r)
    \/ Throw(r) \/ Refuse(r) \/ Break(r) \/ GiveUp(r)

Spec == Init /\ [][Next]_vars

-----------------------------------------------------------------------------
(* Properties *)

Statuses == {"none", "driving", "review"} \union Ended
DecisionOK(d) ==
  /\ d.action \in {"none", "proceed", "edit", "regenerate"}
  /\ (d.action = "edit") = (d.edits # NoEdits)

\* What is decided of step s was handed in through the forms of lane l.
HandedIn(rec, l, s) ==
  IsForward(rec.dec[s]) =>
    \E draft \in Drafts(l, s, rec.art[s]) : rec.dec[s] = BuildProceed(rec.art[s], draft)

\* No field a form keeps closed was edited in what stands decided.
ByForms(rec) == \A s \in StepSet : HandedIn(rec, lane, s)

\* Types: the statuses of a run and of its pass, an artifact behind every
\* review, the stored artifacts of a run edited by the forms within the
\* contracts of their steps, and decisions that are edits exactly when they
\* carry edits.
TypeOK ==
  /\ lane \in Lanes /\ facts \in FactsOf(lane)
  /\ changes \in 0..MaxChanges /\ faults \in 0..MaxFaults
  /\ \A r \in Runs :
       /\ run[r].status \in Statuses /\ run[r].at \in 1..Len(StepsOf(lane)) /\ run[r].next \in Nat
       /\ \A s \in StepSet : DecisionOK(run[r].dec[s]) /\ run[r].art[s].v < run[r].next
       /\ run[r].status = "review" => run[r].art[Step(run[r].at)].v # 0
       /\ ByForms(run[r]) => \A s \in StepSet : run[r].art[s].v # 0 => Contract(lane, s, run[r].art[s])
       /\ eng[r].pc \in {"idle", "walking", "writing"} /\ eng[r].i \in 1..Len(StepsOf(lane))
       /\ eng[r].calls # <<>> => eng[r].pc = "writing"
  /\ \A c \in made : c.run \in Runs /\ c.step \in StepSet /\ c.dedupes \in BOOLEAN

\* The pass of run r hands its next call to the outside in this step.
Calling(r) ==
  /\ eng[r].pc = "writing" /\ eng[r].calls # <<>>
  /\ eng'[r].pc = "writing" /\ eng'[r].calls = Tail(eng[r].calls)

\* Every call is made by a step that a human let forward, after every step
\* before it was let forward, in the record of the run service: a resumed
\* decision never carries over to a step nobody decided (forwardState).
WritesAreDecided ==
  [][\A r \in Runs : Calling(r) =>
        \A j \in 1..eng[r].i : IsForward(run[r].dec[Step(j)])]_vars

\* Every call is one the record of the run service asks for: what a pass
\* carries out, given up or not, is computed from the artifacts and the edits
\* that were approved, not from what the workflow's snapshot still held.
WritesMatchApproval ==
  [][\A r \in Runs : Calling(r) =>
        LET asked == Writes(lane, Here(r), Envelope(run[r]), Known, DeskDedupes) IN
        \E i \in 1..Len(asked) : asked[i] = Head(eng[r].calls)]_vars

\* A run never repeats a call the outside would carry out twice, over every
\* back, regeneration and resume: the effect map is what prevents it.
StepWritesOnce == \A c \in made : c.n = 0

\* Whatever a human reviews was computed from the artifacts and edits that
\* stand now: back drops everything that was computed from what it reopens.
DerivedFromCurrent ==
  \A r \in Runs : run[r].status = "review" =>
    \A s \in StepSet : run[r].art[s].v # 0 =>
      \A u \in DOMAIN run[r].art[s].from :
        run[r].art[s].from[u] = <<run[r].art[u].v, run[r].dec[u].edits>>

\* When a run waits for a human or is completed, the run service holds the
\* effect of every call of the run that the outside would carry out twice;
\* otherwise the next attempt would make the call again.
EffectsAreKnown ==
  \A r \in Runs : run[r].status \in {"review", "completed"} /\ eng[r].pc = "idle" =>
    \A c \in made : c.run = r /\ ~c.dedupes => run[r].eff[c.step] # NoEffect

\* Each lane's own promise about the calls it makes: refused containments are
\* never contained, waived criticals, signed tiers, reasoned exclusions, notes
\* on failed checks, acknowledged failures, escalations seen by the approver.
\* It is a promise about what the forms can ask for: a client of the API that
\* edits a field no form opens, the target's action or the signers of a tier,
\* is held to the contracts of the steps and to nothing else.
LanePolicy ==
  [][\A r \in Runs : Calling(r) /\ ByForms(run[r]) =>
        PolicyHolds(lane, Here(r), Envelope(run[r]), Head(eng[r].calls), Known)]_vars

\* Cases that end whatever a human does: an alert already closed, a leave
\* without a working day, a question without a fresh passage, nothing outdated.
CaseEndsHere(s, a) ==
  \/ lane = "security" /\ s = "ingest" /\ SeenBefore(Known)
  \/ lane = "leave" /\ s = "intake" /\ (RangeThrows(facts.range) \/ WorkingDaysBetween(facts.range) < 1)
  \/ lane = "hr-help" /\ s = "intake" /\ ~ \E found \in HttpRetrieve(facts.service, facts.terms) : Answerable(found)
  \/ lane = "dependencies" /\ s = "scan" /\ a.packages = {}

\* The dead ends the console does let a human walk into: no fix chosen, two
\* fixes of one file, every bump excluded or skipped, files that fail
\* validation or that the writer refuses, an analysis that cites nothing or lines
\* that cross, a review without a summary, declared fields that the strict
\* contract of their step does not know.
DeadPatch(files) == EditViolations(files) \/ ~Preflights(files)
KnownDeadEnd(s, a) ==
  \/ lane = "accessibility" /\ s = "fix" /\ (AppliedIn(a.fixes) = <<>> \/ ~Preflights(PatchOfFixes(a.fixes)))
  \/ lane = "accessibility" /\ s = "violations" /\ a.violations # {}
       /\ \A v \in a.violations : ~AllowsPath(ComponentOf(RouteOf(v)))
  \/ lane = "dependencies" /\ s = "group" /\ (~a.pinned \/ KeptIn(a) = {})
  \/ lane = "dependencies" /\ s = "apply" /\ ~a.pinned
  \/ lane = "dependencies" /\ s = "validate" /\ a.skipped = DOMAIN a.status
  \/ lane = "features" /\ s = "implementation" /\ DeadPatch(FeaturePatch(a))
  \/ lane = "issues" /\ s = "implementation" /\ (PatchFilesInPlan(a.files) = <<>> \/ DeadPatch(FixPatch(a)))
  \/ lane = "issues" /\ s = "analysis" /\ ~IssueAnalysisValid(a)
  \/ lane \in {"vendors", "onboarding"} /\ "customFields" \in DOMAIN a
  \/ lane = "review" /\ s \in {"ai-review", "complete"} /\ a.summary = "empty"

LetThrough(s, a) == ~Blocked(lane, s, a) /\ ~CaseEndsHere(s, a) /\ ~KnownDeadEnd(s, a)

\* The console shows what is stored of every artifact in review, and what it
\* lets through, after steps it let through, makes neither the step throw nor
\* the computation of the next one, but for two lists: the cases that end there
\* whatever a human does, and the dead ends, where the console lets through
\* what the flow refuses.  The lanes whose drafts only the API takes are left
\* out, and so are records edited beyond the forms.
ConsoleMirrorsFlow ==
  \A r \in Runs : run[r].status = "review" /\ lane \notin {"msp", "bills"} /\ ByForms(run[r]) =>
    LET s == Step(run[r].at)
        shown == run[r].art[s]
        surface == SurfaceOf(lane, s, shown)
        After(draft) == [Envelope(run[r]) EXCEPT !.dec[s] = BuildProceed(shown, draft)]
    IN /\ surface.view # NoView /\ \A f \in DOMAIN surface.view : surface.view[f] = shown[f]
       /\ (\A j \in 1..(run[r].at - 1) :
             LetThrough(Step(j), EffectiveArtifact(Envelope(run[r]), Step(j)))) =>
            \A draft \in {NoEdits} \union surface.drafts : LetThrough(s, Merged(draft, shown)) =>
              /\ Gate(lane, s, After(draft), Known)
              /\ run[r].at < Len(StepsOf(lane)) =>
                   Compute(lane, Step(run[r].at + 1), After(draft), Known) # {}

\* The fields a definition declares on a step are for display and input only:
\* they ride the edit the human hands in (models.py), so a step that throws on
\* an edit with them would have thrown on the same edit without them.
DeclaredFieldsRide ==
  [][\A r \in Runs : Throw(r) =>
        LET s == Here(r)
            edits == eng[r].st.dec[s].edits
            plain == [f \in DOMAIN edits \ {"customFields"} |-> edits[f]]
            without == [eng[r].st EXCEPT !.dec[s].edits = plain]
        IN Decided(r) /\ "customFields" \in DOMAIN edits => ~Gate(lane, s, without, Known)]_vars
==============================================================================

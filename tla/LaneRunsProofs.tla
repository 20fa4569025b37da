---------------------------- MODULE LaneRunsProofs ----------------------------
(***************************************************************************)
(* What holds of every lane, any number of runs, changes and faults, and   *)
(* whatever the steps compute and the outside answers, in five inductive   *)
(* invariants, each resting on the ones before:                            *)
(*                                                                         *)
(*   Inv       a live pass holds the decisions of its run's record, and    *)
(*             walked through steps that were let forward there: every     *)
(*             call is made by a step a human let forward;                 *)
(*   Once      every call the outside would carry out twice is known to    *)
(*             whoever makes the next ones: it is made once;               *)
(*   AskedFor  a live pass holds the artifacts of its run's record: every  *)
(*             call is one the record asks for;                            *)
(*   Current   what the record holds was computed from what stands before  *)
(*             it, and nothing stands behind an undecided step: a review   *)
(*             is never of something computed from what was replaced.      *)
(*   Lawful    how what the record holds came about: what was computed     *)
(*             and what was let through, which is what each lane's own     *)
(*             promise rests on (LanePolicyProofs).                        *)
(***************************************************************************)
EXTENDS LaneRuns, FiniteSetTheorems, TLAPS

-----------------------------------------------------------------------------
(* Every call is decided: of every pass that is not idle, the envelope holds *)
(* the decisions of the run's record, the steps it has walked through were   *)
(* let forward there, and the decision it was resumed with is the one        *)
(* recorded for the step it is at.                                           *)

StepsIn(l) == {StepsOf(l)[i] : i \in 1..Len(StepsOf(l))}
LetForward(dec, l, n) == \A j \in 1..n : IsForward(dec[StepsOf(l)[j]])

\* A run's record, as far as this argument reads it.
Recorded(rec, l) ==
  /\ DOMAIN rec = {"status", "at", "next", "art", "dec", "eff"}
  /\ DOMAIN rec.dec = StepsIn(l)
  /\ rec.at \in 1..Len(StepsOf(l))
  /\ rec.status = "review" => LetForward(rec.dec, l, rec.at - 1)

\* A pass, as far as this argument reads it, next to the record of its run.
Walked(e, dec, l) ==
  /\ DOMAIN e = {"pc", "i", "st", "calls"}
  /\ e.i \in 1..Len(StepsOf(l))
  /\ e.pc # "idle" =>
       /\ DOMAIN e.st = {"art", "dec", "eff", "decision"}
       /\ e.st.dec = dec
       /\ e.st.decision \in {NoDecision, dec[StepsOf(l)[e.i]]}
       /\ LetForward(dec, l, e.i - 1)
  /\ e.pc = "writing" => IsForward(dec[StepsOf(l)[e.i]])

Inv ==
  /\ lane \in AllLanes
  /\ DOMAIN run = Runs /\ DOMAIN eng = Runs
  /\ \A r \in Runs : Recorded(run[r], lane) /\ Walked(eng[r], run[r].dec, lane)

-----------------------------------------------------------------------------
\* A lane has at least a step, and none of its steps comes twice.
Differ(steps) ==
  /\ Len(steps) \in Nat \ {0}
  /\ \A i, j \in 1..Len(steps) : steps[i] = steps[j] => i = j

LEMMA ListsDiffer ==
  /\ Differ(SecuritySteps)
  /\ Differ(MspSteps)
  /\ Differ(FeaturesSteps)
  /\ Differ(IssuesSteps)
  /\ Differ(DependenciesSteps)
  /\ Differ(AccessibilitySteps)
  /\ Differ(VendorsSteps)
  /\ Differ(OnboardingSteps)
  /\ Differ(OffboardingSteps)
  /\ Differ(ScreeningSteps)
  /\ Differ(LeaveSteps)
  /\ Differ(HrHelpSteps)
  /\ Differ(BillsSteps)
  /\ Differ(ReviewSteps)
<1>1. Differ(SecuritySteps)
  BY DEF Differ, SecuritySteps
<1>2. Differ(MspSteps)
  BY DEF Differ, MspSteps
<1>3. Differ(FeaturesSteps)
  BY DEF Differ, FeaturesSteps
<1>4. Differ(IssuesSteps)
  BY DEF Differ, IssuesSteps
<1>5. Differ(DependenciesSteps)
  BY DEF Differ, DependenciesSteps
<1>6. Differ(AccessibilitySteps)
  BY DEF Differ, AccessibilitySteps
<1>7. Differ(VendorsSteps)
  BY DEF Differ, VendorsSteps
<1>8. Differ(OnboardingSteps)
  BY DEF Differ, OnboardingSteps
<1>9. Differ(OffboardingSteps)
  BY DEF Differ, OffboardingSteps
<1>10. Differ(ScreeningSteps)
  BY DEF Differ, ScreeningSteps
<1>11. Differ(LeaveSteps)
  BY DEF Differ, LeaveSteps
<1>12. Differ(HrHelpSteps)
  BY DEF Differ, HrHelpSteps
<1>13. Differ(BillsSteps)
  BY DEF Differ, BillsSteps
<1>14. Differ(ReviewSteps)
  BY DEF Differ, ReviewSteps
<1> QED
  BY <1>1, <1>2, <1>3, <1>4, <1>5, <1>6, <1>7, <1>8, <1>9, <1>10, <1>11, <1>12, <1>13, <1>14

LEMMA StepsDiffer ==
  ASSUME NEW l \in AllLanes
  PROVE  Differ(StepsOf(l))
BY ListsDiffer DEF AllLanes, StepsOf

LEMMA HasSteps ==
  ASSUME NEW l \in AllLanes
  PROVE  /\ Len(StepsOf(l)) \in Nat /\ Len(StepsOf(l)) >= 1
         /\ 1 \in 1..Len(StepsOf(l))
BY StepsDiffer DEF Differ

-----------------------------------------------------------------------------
\* A step of the specification changes the record and the pass of one run.
OnlyRun(r) ==
  /\ lane' = lane
  /\ DOMAIN run' = Runs /\ DOMAIN eng' = Runs
  /\ \A q \in Runs \ {r} : run'[q] = run[q] /\ eng'[q] = eng[q]

LEMMA OneRunChanges ==
  ASSUME Inv, NEW r \in Runs, OnlyRun(r),
         Recorded(run'[r], lane), Walked(eng'[r], run'[r].dec, lane)
  PROVE  Inv'
<1>1. ASSUME NEW q \in Runs
      PROVE  Recorded(run'[q], lane') /\ Walked(eng'[q], run'[q].dec, lane')
  <2>1. CASE q = r
    BY <2>1 DEF OnlyRun
  <2>2. CASE q # r
    BY <2>2 DEF OnlyRun, Inv
  <2> QED BY <2>1, <2>2
<1>2. Inv' <=> /\ lane' \in AllLanes
               /\ DOMAIN run' = Runs /\ DOMAIN eng' = Runs
               /\ \A q \in Runs : Recorded(run'[q], lane') /\ Walked(eng'[q], run'[q].dec, lane')
  BY DEF Inv, Runs
<1> QED
  BY <1>1, <1>2 DEF OnlyRun, Inv

\* The record of a run that has not started, and the record of one that ended.
LEMMA NewRunRecorded ==
  ASSUME NEW l \in AllLanes
  PROVE  Recorded(NewRun(l), l) /\ NewRun(l).status = "none"
BY HasSteps DEF Recorded, NewRun, StepsIn

LEMMA CutRecorded ==
  ASSUME Inv, NEW rec, rec.status \in Ended
  PROVE  Recorded(Cut(rec), lane)
<1>1. lane \in AllLanes BY DEF Inv
<1>2. DOMAIN Cut(rec) = DOMAIN NewRun(lane) BY DEF Cut, NewRun
<1>3. /\ Cut(rec).dec = NewRun(lane).dec /\ Cut(rec).at = NewRun(lane).at
      /\ Cut(rec).status = rec.status
  BY DEF Cut, NewRun
<1> QED
  BY <1>1, <1>2, <1>3, NewRunRecorded DEF Recorded, Ended

LEMMA IdleWalked ==
  ASSUME NEW l \in AllLanes, NEW dec
  PROVE  Walked(Idle(l), dec, l)
BY HasSteps DEF Walked, Idle

\* A pass ends with a sound record: the service stores it, or keeps its own.
LEMMA EndPassKeeps ==
  ASSUME Inv, NEW r \in Runs, NEW outcome, Recorded(outcome, lane),
         EndPass(r, outcome), lane' = lane
  PROVE  Inv'
<1> DEFINE rec == IF run[r].status = "driving" THEN outcome ELSE run[r]
           over == rec.status \in Ended
<1>1. /\ run' = [run EXCEPT ![r] = IF over THEN Cut(rec) ELSE rec]
      /\ eng' = [eng EXCEPT ![r] = IF over THEN Idle(lane)
                                   ELSE [@ EXCEPT !.pc = "idle", !.calls = <<>>]]
  BY DEF EndPass
<1>2. Recorded(rec, lane) BY DEF Inv
<1> HIDE DEF rec
<1>3. OnlyRun(r) BY <1>1 DEF OnlyRun, Inv
<1>4. r \in DOMAIN run /\ r \in DOMAIN eng BY DEF Inv
<1>5. CASE over
  <2>1. run'[r] = Cut(rec) /\ eng'[r] = Idle(lane) BY <1>1, <1>4, <1>5
  <2>2. Recorded(Cut(rec), lane) BY <1>5, CutRecorded
  <2>3. Walked(Idle(lane), Cut(rec).dec, lane) BY IdleWalked DEF Inv
  <2> QED BY <1>3, <2>1, <2>2, <2>3, OneRunChanges
<1>6. CASE ~over
  <2>1. run'[r] = rec /\ eng'[r] = [eng[r] EXCEPT !.pc = "idle", !.calls = <<>>]
    BY <1>1, <1>4, <1>6
  <2>2. Walked(eng[r], run[r].dec, lane) BY DEF Inv
  <2>3. Walked(eng'[r], rec.dec, lane) BY <2>1, <2>2 DEF Walked
  <2> QED BY <1>2, <1>3, <2>1, <2>3, OneRunChanges
<1> QED BY <1>5, <1>6

-----------------------------------------------------------------------------
\* What a pass that is not idle may be, spelled out.
Passing(r, i, st) ==
  /\ i \in 1..Len(StepsOf(lane))
  /\ DOMAIN st = {"art", "dec", "eff", "decision"}
  /\ st.decision \in {NoDecision, st.dec[StepsOf(lane)[i]]}
  /\ LetForward(st.dec, lane, i - 1)

\* The step stores rec as the record of run r.
Stores(r, rec) ==
  /\ DOMAIN run' = Runs /\ run'[r] = rec
  /\ \A q \in Runs \ {r} : run'[q] = run[q]

\* A pass that walks from a sound place, with the decisions of a sound record,
\* is sound.
LEMMA WalkKeeps ==
  ASSUME Inv, NEW r \in Runs, NEW rec, NEW i, NEW st, Recorded(rec, lane),
         Passing(r, i, st), st.dec = rec.dec, Walk(r, i, st),
         Stores(r, rec), lane' = lane
  PROVE  Inv'
<1>1. r \in DOMAIN eng BY DEF Inv
<1>2. run'[r] = rec BY DEF Stores
<1>3. eng'[r] = [pc |-> "walking", i |-> i, st |-> st, calls |-> <<>>] BY <1>1 DEF Walk
<1>4. OnlyRun(r) BY DEF OnlyRun, Inv, Walk, Stores
<1>5. Walked(eng'[r], rec.dec, lane) BY <1>3 DEF Walked, Passing
<1> QED BY <1>2, <1>4, <1>5, OneRunChanges

\* A step that was let forward ends the pass, or goes on to the next step.
LEMMA OnwardKeeps ==
  ASSUME Inv, NEW r \in Runs, NEW st, eng[r].pc # "idle",
         IsForward(run[r].dec[Here(r)]), st.dec = run[r].dec,
         DOMAIN st = {"art", "dec", "eff", "decision"},
         Onward(r, st), lane' = lane
  PROVE  Inv'
<1>1. Recorded(run[r], lane) /\ Walked(eng[r], run[r].dec, lane) BY DEF Inv
<1>2. CASE IsLast(r)
  <2> DEFINE outcome == [WithEffects(run[r], st) EXCEPT !.status = "completed"]
  <2>1. EndPass(r, outcome) BY <1>2 DEF Onward
  <2>2. Recorded(outcome, lane) BY <1>1 DEF Recorded, WithEffects
  <2> HIDE DEF outcome
  <2> QED BY <2>1, <2>2, EndPassKeeps
<1>3. CASE ~IsLast(r)
  <2> DEFINE n == eng[r].i + 1
             next == ForwardState(st)
  <2>1. Walk(r, n, next) /\ run' = run BY <1>3 DEF Onward
  <2>2. Stores(r, run[r]) BY <2>1 DEF Stores, Inv
  <2>3. next.dec = run[r].dec /\ next.decision = NoDecision
        /\ DOMAIN next = {"art", "dec", "eff", "decision"}
    BY DEF ForwardState
  <2>4. n \in 1..Len(StepsOf(lane))
    BY <1>1, <1>3, HasSteps DEF Walked, IsLast, Inv
  <2>5. LetForward(run[r].dec, lane, n - 1)
    <3> SUFFICES ASSUME NEW j \in 1..eng[r].i PROVE IsForward(run[r].dec[StepsOf(lane)[j]])
      BY <1>1 DEF LetForward, Walked
    <3>1. j \in 1..(eng[r].i - 1) \/ j = eng[r].i BY <1>1 DEF Walked
    <3> QED BY <1>1, <3>1 DEF Walked, LetForward, Here, Step
  <2>6. Passing(r, n, next) BY <2>3, <2>4, <2>5 DEF Passing
  <2> QED BY <1>1, <2>1, <2>2, <2>3, <2>6, WalkKeeps
<1> QED BY <1>2, <1>3

\* The decision a pass acts on is the one the record holds.
LEMMA DecidedInRecord ==
  ASSUME Inv, NEW r \in Runs, eng[r].pc # "idle", Decided(r)
  PROVE  IsForward(run[r].dec[Here(r)])
<1>1. Walked(eng[r], run[r].dec, lane) BY DEF Inv
<1> QED BY <1>1 DEF Walked, Decided, CurrentDecision, Here, Step, NoDecision

-----------------------------------------------------------------------------
(* The run service's steps *)

LEMMA StartRunKeeps ==
  ASSUME Inv, NEW r \in Runs, StartRun(r)
  PROVE  Inv'
<1> DEFINE rec == [run[r] EXCEPT !.status = "driving"]
           st == Envelope(run[r])
<1>1. Recorded(run[r], lane) BY DEF Inv
<1>2. /\ run' = [run EXCEPT ![r].status = "driving"]
      /\ Walk(r, 1, st) /\ lane' = lane
  BY DEF StartRun
<1>3. Stores(r, rec) BY <1>2 DEF Stores, Inv
<1>4. Recorded(rec, lane) BY <1>1 DEF Recorded
<1>5. st.dec = rec.dec BY <1>1 DEF Envelope, Recorded
<1>6. Passing(r, 1, st)
  BY HasSteps DEF Passing, Envelope, LetForward, Inv
<1> QED BY <1>2, <1>3, <1>4, <1>5, <1>6, WalkKeeps

LEMMA ResumeKeeps ==
  ASSUME Inv, NEW r \in Runs, NEW decision, Resume(r, decision)
  PROVE  Inv'
<1> DEFINE i == run[r].at
           rec == [run[r] EXCEPT !.status = "driving", !.dec[Step(i)] = decision]
           st == MergeState(eng[r].st, [Envelope(rec) EXCEPT !.decision = decision],
                            UnionsEffects(lane))
<1>1. Recorded(run[r], lane) BY DEF Inv
<1>2. /\ run[r].status = "review" /\ run' = [run EXCEPT ![r] = rec]
      /\ Walk(r, i, st) /\ lane' = lane
  BY DEF Resume
<1>3. Stores(r, rec) BY <1>2 DEF Stores, Inv
<1>4. i \in 1..Len(StepsOf(lane)) /\ Step(i) \in DOMAIN run[r].dec
  BY <1>1 DEF Recorded, StepsIn, Step
<1>5. /\ DOMAIN rec = DOMAIN run[r] /\ DOMAIN rec.dec = DOMAIN run[r].dec
      /\ rec.status = "driving" /\ rec.at = i
      /\ rec.dec = [run[r].dec EXCEPT ![Step(i)] = decision]
  BY <1>1 DEF Recorded
<1>6. Recorded(rec, lane) BY <1>1, <1>5 DEF Recorded
<1>7. /\ DOMAIN st = {"art", "dec", "eff", "decision"}
      /\ st.dec = rec.dec /\ st.decision = decision
  BY DEF MergeState, Envelope
<1>8. LetForward(rec.dec, lane, i - 1)
  <2> SUFFICES ASSUME NEW j \in 1..(i - 1) PROVE IsForward(rec.dec[Step(j)])
    BY DEF LetForward, Step
  <2>1. j \in 1..Len(StepsOf(lane)) /\ j # i
    BY <1>4, HasSteps DEF Inv
  <2>2. Step(j) # Step(i)
    BY <1>4, <2>1, StepsDiffer DEF Differ, Step, Inv
  <2>3. Step(j) \in DOMAIN run[r].dec BY <1>1, <2>1 DEF Recorded, StepsIn, Step
  <2>4. IsForward(run[r].dec[Step(j)]) BY <1>1, <1>2 DEF Recorded, LetForward, Step
  <2> QED BY <1>5, <2>2, <2>3, <2>4
<1>9. Passing(r, i, st)
  <2>1. st.dec[StepsOf(lane)[i]] = decision BY <1>4, <1>5, <1>7 DEF Step
  <2> QED BY <1>4, <1>7, <1>8, <2>1 DEF Passing
<1> HIDE DEF rec, st
<1> QED BY <1>2, <1>3, <1>6, <1>7, <1>9, WalkKeeps

LEMMA BackKeeps ==
  ASSUME Inv, NEW r \in Runs, Back(r)
  PROVE  Inv'
<1> DEFINE cut == InvalidateFrom(run[r], run[r].at - 1)
           rec == [cut EXCEPT !.status = "driving"]
           st == Envelope(cut)
<1>1. Recorded(run[r], lane) BY DEF Inv
<1>2. run' = [run EXCEPT ![r] = rec] /\ Walk(r, 1, st) /\ lane' = lane
  BY DEF Back
<1>3. Stores(r, rec) BY <1>2 DEF Stores, Inv
<1>4. /\ DOMAIN cut = DOMAIN run[r] /\ DOMAIN cut.dec = StepsIn(lane)
      /\ cut.at = run[r].at
  BY <1>1 DEF Recorded, InvalidateFrom, StepSet, StepsIn, Step
<1>5. Recorded(rec, lane) BY <1>1, <1>4 DEF Recorded
<1>6. st.dec = rec.dec BY <1>1, <1>4 DEF Envelope, Recorded
<1>7. Passing(r, 1, st)
  BY HasSteps DEF Passing, Envelope, LetForward, Inv
<1> HIDE DEF cut
<1> QED BY <1>2, <1>3, <1>5, <1>6, <1>7, WalkKeeps

LEMMA GiveUpKeeps ==
  ASSUME Inv, NEW r \in Runs, GiveUp(r)
  PROVE  Inv'
<1>1. Recorded(run[r], lane) /\ Walked(eng[r], run[r].dec, lane) BY DEF Inv
<1>2. run' = [run EXCEPT ![r].status = "failed"] /\ eng' = eng /\ lane' = lane
  BY DEF GiveUp
<1>3. OnlyRun(r) BY <1>2 DEF OnlyRun, Inv
<1>4. Recorded(run'[r], lane) BY <1>1, <1>2 DEF Recorded, Inv
<1>5. eng'[r] = eng[r] /\ run'[r].dec = run[r].dec BY <1>1, <1>2 DEF Recorded, Inv
<1> QED BY <1>1, <1>3, <1>4, <1>5, OneRunChanges

-----------------------------------------------------------------------------
(* The engine's steps *)

\* Storing an artifact and its effects leaves the decisions alone.
LEMMA SuspendKeeps ==
  ASSUME Inv, NEW r \in Runs, Suspend(r)
  PROVE  Inv'
<1>1. PICK a \in Compute(lane, Here(r), eng[r].st, Known) :
        LET rec == [run[r] EXCEPT !.status = "review", !.at = eng[r].i, !.next = @ + 1,
                                  !.art[Here(r)] = WithField(a, "v", run[r].next)]
        IN EndPass(r, IF RepeatsEffects(lane) THEN WithEffects(rec, eng[r].st) ELSE rec)
  BY DEF Suspend
<1> DEFINE rec == [run[r] EXCEPT !.status = "review", !.at = eng[r].i, !.next = @ + 1,
                                 !.art[Here(r)] = WithField(a, "v", run[r].next)]
           outcome == IF RepeatsEffects(lane) THEN WithEffects(rec, eng[r].st) ELSE rec
<1>2. Recorded(run[r], lane) /\ Walked(eng[r], run[r].dec, lane) /\ eng[r].pc = "walking"
  BY DEF Inv, Suspend
<1>3. /\ DOMAIN rec = DOMAIN run[r] /\ rec.dec = run[r].dec
      /\ rec.at = eng[r].i
  BY <1>2 DEF Recorded
<1>4. Recorded(rec, lane) BY <1>2, <1>3 DEF Recorded, Walked
<1> HIDE DEF rec
<1>5. Recorded(outcome, lane) BY <1>4 DEF Recorded, WithEffects
<1>6. EndPass(r, outcome) BY <1>1 DEF rec
<1>7. lane' = lane BY DEF Suspend
<1> HIDE DEF outcome
<1> QED BY <1>5, <1>6, <1>7, EndPassKeeps

LEMMA ForwardKeeps ==
  ASSUME Inv, NEW r \in Runs, Forward(r)
  PROVE  Inv'
<1>1. eng[r].pc = "walking" /\ Decided(r) /\ Onward(r, eng[r].st) /\ lane' = lane
  BY DEF Forward, Passes
<1>2. Walked(eng[r], run[r].dec, lane) BY DEF Inv
<1>3. DOMAIN eng[r].st = {"art", "dec", "eff", "decision"} /\ eng[r].st.dec = run[r].dec
  BY <1>1, <1>2 DEF Walked
<1>4. IsForward(run[r].dec[Here(r)]) BY <1>1, DecidedInRecord
<1> QED BY <1>1, <1>3, <1>4, OnwardKeeps

LEMMA BeginEffectKeeps ==
  ASSUME Inv, NEW r \in Runs, BeginEffect(r)
  PROVE  Inv'
<1> DEFINE calls == Writes(lane, Here(r), eng[r].st, Known, DeskDedupes)
<1>1. /\ eng[r].pc = "walking" /\ Decided(r) /\ lane' = lane /\ run' = run
      /\ eng' = [eng EXCEPT ![r].pc = "writing", ![r].calls = calls]
  BY DEF BeginEffect, Passes
<1> HIDE DEF calls
<1>2. Recorded(run[r], lane) /\ Walked(eng[r], run[r].dec, lane) /\ r \in DOMAIN eng
  BY DEF Inv
<1>3. IsForward(run[r].dec[Here(r)]) BY <1>1, DecidedInRecord
<1>4. eng'[r] = [eng[r] EXCEPT !.pc = "writing", !.calls = calls] BY <1>1, <1>2
<1>5. Walked(eng'[r], run[r].dec, lane) BY <1>1, <1>2, <1>3, <1>4 DEF Walked, Here, Step
<1>6. OnlyRun(r) BY <1>1 DEF OnlyRun, Inv
<1> QED BY <1>1, <1>2, <1>5, <1>6, OneRunChanges

LEMMA MakeCallKeeps ==
  ASSUME Inv, NEW r \in Runs, MakeCall(r)
  PROVE  Inv'
<1>1. /\ lane' = lane /\ run' = run
      /\ eng' = [eng EXCEPT ![r].calls = Tail(@)]
  BY DEF MakeCall
<1>2. Recorded(run[r], lane) /\ Walked(eng[r], run[r].dec, lane) /\ r \in DOMAIN eng
  BY DEF Inv
<1>3. eng'[r] = [eng[r] EXCEPT !.calls = Tail(@)] BY <1>1, <1>2
<1>4. Walked(eng'[r], run[r].dec, lane) BY <1>2, <1>3 DEF Walked
<1>5. OnlyRun(r) BY <1>1 DEF OnlyRun, Inv
<1> QED BY <1>1, <1>2, <1>4, <1>5, OneRunChanges

LEMMA EndEffectKeeps ==
  ASSUME Inv, NEW r \in Runs, EndEffect(r)
  PROVE  Inv'
<1> DEFINE st == [eng[r].st EXCEPT !.eff[Here(r)] = ActionHash(lane, Here(r), eng[r].st)]
<1>1. eng[r].pc = "writing" /\ Onward(r, st) /\ lane' = lane
  BY DEF EndEffect
<1>2. Walked(eng[r], run[r].dec, lane) BY DEF Inv
<1>3. DOMAIN st = {"art", "dec", "eff", "decision"} /\ st.dec = run[r].dec
  BY <1>1, <1>2 DEF Walked
<1>4. IsForward(run[r].dec[Here(r)]) BY <1>1, <1>2 DEF Walked, Here, Step
<1> HIDE DEF st
<1> QED BY <1>1, <1>3, <1>4, OnwardKeeps

LEMMA FailPassKeeps ==
  ASSUME Inv, NEW r \in Runs, FailPass(r)
  PROVE  Inv'
<1> DEFINE outcome == [run[r] EXCEPT !.status = "failed"]
<1>1. EndPass(r, outcome) /\ lane' = lane BY DEF FailPass
<1>2. Recorded(outcome, lane) BY DEF Inv, Recorded
<1> QED BY <1>1, <1>2, EndPassKeeps

-----------------------------------------------------------------------------
LEMMA InvInit == Init => Inv
<1> SUFFICES ASSUME Init PROVE Inv
  OBVIOUS
<1>1. lane \in AllLanes BY LaneAssumption DEF Init
<1>2. ASSUME NEW r \in Runs PROVE Recorded(run[r], lane) /\ Walked(eng[r], run[r].dec, lane)
  <2>1. run[r] = NewRun(lane) /\ eng[r] = Idle(lane) BY DEF Init
  <2> QED BY <1>1, <2>1, NewRunRecorded, IdleWalked
<1> QED BY <1>1, <1>2 DEF Init, Inv

LEMMA InvNext == Inv /\ [Next]_vars => Inv'
<1> SUFFICES ASSUME Inv, [Next]_vars PROVE Inv'
  OBVIOUS
<1>1. CASE UNCHANGED vars
  BY <1>1 DEF vars, Inv, Runs
<1>2. ASSUME NEW r \in Runs,
             \/ StartRun(r) \/ Proceed(r) \/ ProceedByApi(r) \/ Regenerate(r) \/ Back(r)
             \/ Suspend(r) \/ Forward(r) \/ BeginEffect(r) \/ MakeCall(r) \/ EndEffect(r)
             \/ Throw(r) \/ Refuse(r) \/ Break(r) \/ GiveUp(r)
      PROVE  Inv'
  <2>1. CASE StartRun(r) BY <2>1, StartRunKeeps
  <2>2. CASE Proceed(r) \/ ProceedByApi(r)
    <3>1. PICK d : Resume(r, d) BY <2>2 DEF Proceed, ProceedByApi
    <3> QED BY <3>1, ResumeKeeps
  <2>3. CASE Regenerate(r)
    <3>1. Resume(r, [action |-> "regenerate", edits |-> NoEdits]) BY <2>3 DEF Regenerate
    <3> QED BY <3>1, ResumeKeeps
  <2>4. CASE Back(r) BY <2>4, BackKeeps
  <2>5. CASE Suspend(r) BY <2>5, SuspendKeeps
  <2>6. CASE Forward(r) BY <2>6, ForwardKeeps
  <2>7. CASE BeginEffect(r) BY <2>7, BeginEffectKeeps
  <2>8. CASE MakeCall(r) BY <2>8, MakeCallKeeps
  <2>9. CASE EndEffect(r) BY <2>9, EndEffectKeeps
  <2>10. CASE Throw(r) \/ Refuse(r) \/ Break(r)
    <3>1. FailPass(r) BY <2>10 DEF Throw, Refuse, Break
    <3> QED BY <3>1, FailPassKeeps
  <2>11. CASE GiveUp(r) BY <2>11, GiveUpKeeps
  <2> QED
    BY <1>2, <2>1, <2>2, <2>3, <2>4, <2>5, <2>6, <2>7, <2>8, <2>9, <2>10, <2>11
<1> QED BY <1>1, <1>2 DEF Next

\* Whatever the lane, the runs, the changes and the faults: the decisions a
\* pass walks by are those of the run's record.
THEOREM PassesFollowTheRecord == Spec => []Inv
<1> QED BY InvInit, InvNext, PTL DEF Spec

\* Every call is made by a step that a human let forward, after every step
\* before it was: a resumed decision never carries over to a step nobody
\* decided, given up passes included.
THEOREM EveryWriteIsDecided == Spec => WritesAreDecided
<1>1. Inv => \A r \in Runs : Calling(r) => \A j \in 1..eng[r].i : IsForward(run[r].dec[Step(j)])
  <2> SUFFICES ASSUME Inv, NEW r \in Runs, Calling(r), NEW j \in 1..eng[r].i
               PROVE  IsForward(run[r].dec[Step(j)])
    OBVIOUS
  <2>1. Walked(eng[r], run[r].dec, lane) /\ eng[r].pc = "writing" BY DEF Inv, Calling
  <2>2. j \in 1..(eng[r].i - 1) \/ j = eng[r].i BY <2>1 DEF Walked
  <2> QED BY <2>1, <2>2 DEF Walked, LetForward, Step
<1>2. Inv => [\A r \in Runs : Calling(r) => \A j \in 1..eng[r].i : IsForward(run[r].dec[Step(j)])]_vars
  BY <1>1
<1> QED
  BY <1>2, PassesFollowTheRecord, PTL DEF WritesAreDecided

-----------------------------------------------------------------------------
(***************************************************************************)
(* Calls are made once, and the service knows of them.                     *)
(*                                                                         *)
(* Only the desk and the writer of a review carry a repeated call out      *)
(* again.  A review is written behind the last step of its lane, after     *)
(* which a run is over; the desk is called twice by a run of the msp lane, *)
(* and its first call, which opens the ticket, is followed by reviews,     *)
(* backs and resumes.  So the argument is about the effect that is         *)
(* recorded for that call, in the snapshot, the envelope and the record.   *)
(***************************************************************************)

\* The systems that may carry a call out twice.
Bare == {"desk", "pending-review", "review-comment", "review"}
Plain(c) == c.dedupes = TRUE /\ c.sys \notin Bare
Same(c, d) == c.sys = d.sys /\ c.key = d.key

\* The call that opens the desk ticket, and the hash its effect is recorded for.
Opens(l, c) == l = "msp" /\ c.sys = "desk" /\ c.key = "ticket"
TicketHash == <<"ticket", "case">>

LastStep(l) == StepsOf(l)[Len(StepsOf(l))]

\* Where a lane makes a call that may be carried out twice: the ticket is opened
\* by its own step, everything else happens behind the last one.
Placed(l, s, c) ==
  /\ c.dedupes \in BOOLEAN
  /\ c.dedupes \/ c.sys \in Bare
  /\ c.sys \in Bare => s = IF Opens(l, c) THEN "ticket" ELSE LastStep(l)

\* What is left of the calls of an effect of step s.
Listed(l, s, calls) ==
  /\ \E S : calls \in Seq(S) /\ \A c \in S : Placed(l, s, c)
  /\ \A i, j \in 1..Len(calls) : calls[i].sys \in Bare /\ Same(calls[i], calls[j]) => i = j

\* What is recorded for the ticket is that it is opened, whatever its plan says.
Holds(l, eff) == l = "msp" => eff["ticket"] \in {NoEffect, TicketHash}

\* Who drives whom: a run that is driven has a pass, and a pass has a run that
\* is driven or was given up.
Phased(rec, e) ==
  /\ rec.status \in Statuses /\ e.pc \in {"idle", "walking", "writing"}
  /\ rec.status = "driving" => e.pc # "idle"
  /\ e.pc # "idle" => rec.status \in {"driving", "failed"}

Mapped(rec, e, l) ==
  /\ DOMAIN rec.eff = StepsIn(l) /\ DOMAIN e.st.eff = StepsIn(l)
  /\ rec.status \notin Ended => Holds(l, rec.eff)
  /\ Holds(l, e.st.eff)

\* A call c that may be carried out twice was made by the effect under way, or
\* its effect is known: to the pass, or to the record while there is none.
Remembered(rec, e, l, c) ==
  IF Opens(l, c)
  THEN IF e.pc = "idle" THEN rec.status = "review" => rec.eff["ticket"] = TicketHash
       ELSE \/ e.pc = "writing" /\ StepsOf(l)[e.i] = "ticket"
            \/ e.st.eff["ticket"] = TicketHash
  ELSE IF e.pc = "idle" THEN rec.status \in Ended
       ELSE e.pc = "writing" /\ e.i = Len(StepsOf(l))

\* M are the calls that were carried out for the run.
Accounted(rec, e, M, l) ==
  /\ rec.status = "none" => M = {}
  /\ \A c \in M : c.sys \in Bare =>
       /\ Remembered(rec, e, l, c)
       /\ rec.status = "completed" => rec.eff[c.step] # NoEffect

\* No call that is left repeats one that was carried out.
Unrepeated(e, M, l) ==
  e.pc = "writing" =>
    /\ Listed(l, StepsOf(l)[e.i], e.calls)
    /\ \A c \in M : c.sys \in Bare => \A i \in 1..Len(e.calls) : ~Same(c, e.calls[i])

Attempt(rec, e, M, l) ==
  Phased(rec, e) /\ Mapped(rec, e, l) /\ Accounted(rec, e, M, l) /\ Unrepeated(e, M, l)

MadeFor(r) == {c \in made : c.run = r}

Once ==
  /\ \A r \in Runs : Attempt(run[r], eng[r], MadeFor(r), lane)
  /\ \A c \in made : c.run \in Runs /\ Placed(lane, c.step, c) /\ c.n = 0

-----------------------------------------------------------------------------
(* The calls of the lanes *)

\* A list of calls that every system recognises.
PlainCalls(q) == \E S : q \in Seq(S) /\ \A c \in S : Plain(c)

LEMMA PlainBy ==
  ASSUME NEW S, NEW q, q \in Seq(S), \A c \in S : Plain(c)
  PROVE  PlainCalls(q)
BY DEF PlainCalls

LEMMA PlainNone == PlainCalls(<<>>)
<1> DEFINE S == {}
           q == <<>>
<1>1. q \in Seq(S) /\ \A c \in S : Plain(c) OBVIOUS
<1> HIDE DEF S, q
<1>2. PlainCalls(q) BY <1>1, PlainBy
<1> QED BY <1>2 DEF q

LEMMA PlainOne ==
  ASSUME NEW c, Plain(c)
  PROVE  PlainCalls(<<c>>)
<1> DEFINE S == {c}
           q == <<c>>
<1>1. q \in Seq(S) /\ \A x \in S : Plain(x) OBVIOUS
<1> HIDE DEF S, q
<1>2. PlainCalls(q) BY <1>1, PlainBy
<1> QED BY <1>2 DEF q

LEMMA PlainTwo ==
  ASSUME NEW c, NEW d, Plain(c), Plain(d)
  PROVE  PlainCalls(<<c, d>>)
<1> DEFINE S == {c, d}
           q == <<c, d>>
<1>1. q \in Seq(S) /\ \A x \in S : Plain(x) OBVIOUS
<1> HIDE DEF S, q
<1>2. PlainCalls(q) BY <1>1, PlainBy
<1> QED BY <1>2 DEF q

LEMMA PlainConcat ==
  ASSUME NEW p, NEW q, PlainCalls(p), PlainCalls(q)
  PROVE  PlainCalls(p \o q)
<1>1. PICK S : p \in Seq(S) /\ \A c \in S : Plain(c) BY DEF PlainCalls
<1>2. PICK T : q \in Seq(T) /\ \A c \in T : Plain(c) BY DEF PlainCalls
<1>3. p \in Seq(S \cup T) /\ q \in Seq(S \cup T) BY <1>1, <1>2
<1>4. p \o q \in Seq(S \cup T) BY <1>3
<1>5. \A c \in S \cup T : Plain(c) BY <1>1, <1>2
<1> QED BY <1>4, <1>5 DEF PlainCalls

LEMMA PlainIsListed ==
  ASSUME NEW l, NEW s, NEW q, PlainCalls(q)
  PROVE  Listed(l, s, q)
<1>1. PICK S : q \in Seq(S) /\ \A c \in S : Plain(c) BY DEF PlainCalls
<1>2. \A c \in S : Placed(l, s, c) BY <1>1 DEF Placed, Plain
<1>3. \A i \in 1..Len(q) : q[i].sys \notin Bare BY <1>1 DEF Plain
<1> QED BY <1>1, <1>2, <1>3 DEF Listed

LEMMA PatchIsPlain ==
  ASSUME NEW branch, NEW files, NEW what
  PROVE  PlainCalls(ApplyPatch(branch, files, what))
<1> DEFINE key == <<branch, ComputePatchHash(files)>>
           c == Call("branch", key, TRUE, what)
           d == Call("pull-request", key, TRUE, what)
<1>1. ApplyPatch(branch, files, what) = <<c, d>> BY DEF ApplyPatch
<1>2. Plain(c) /\ Plain(d) BY DEF Plain, Call, Bare
<1> HIDE DEF c, d
<1> QED BY <1>1, <1>2, PlainTwo

LEMMA SecurityIsPlain == ASSUME NEW s, NEW st PROVE PlainCalls(SecurityWrites(s, st))
<1> DEFINE preview == Fields(CHOOSE p \in StoredOr(st, "contain", ComputeContainPreview(st)) : TRUE)
           c == Contain(preview)
           d == RememberCase(preview)
<1>1. SecurityWrites(s, st) = IF s = "contain" THEN <<c, d>> ELSE <<>>
  BY DEF SecurityWrites, ContainEffect
<1>2. Plain(c) /\ Plain(d) BY DEF Plain, Contain, RememberCase, Call, Bare
<1> HIDE DEF c, d
<1> QED BY <1>1, <1>2, PlainTwo, PlainNone

LEMMA PatchLanesArePlain ==
  ASSUME NEW s, NEW st
  PROVE  /\ PlainCalls(FeaturesWrites(s, st)) /\ PlainCalls(IssuesWrites(s, st))
         /\ PlainCalls(AccessibilityWrites(s, st))
<1>1. PlainCalls(FeaturesWrites(s, st))
  BY PlainNone, PatchIsPlain DEF FeaturesWrites, DraftPullRequest
<1>2. PlainCalls(IssuesWrites(s, st))
  BY PlainNone, PatchIsPlain DEF IssuesWrites, FixPullRequest
<1>3. PlainCalls(AccessibilityWrites(s, st))
  BY PlainNone, PatchIsPlain DEF AccessibilityWrites, FixesPullRequest
<1> QED BY <1>1, <1>2, <1>3

LEMMA DependenciesIsPlain == ASSUME NEW s, NEW st PROVE PlainCalls(DependenciesWrites(s, st))
<1> DEFINE previews == EffectiveArtifact(st, "merge").previews
           Chosen(g) == IncludedIn(EffectiveArtifact(st, "apply"), g)
           Bump(g) ==
             IF g \notin DOMAIN previews THEN <<>>
             ELSE ApplyPatch(DependencyBranch(g), BuildGroupFileChanges(Chosen(g)),
                    [group |-> g, packages |-> Chosen(g), cveFixes |-> previews[g].cveFixes])
           first == DependencyGroups[1]
           second == DependencyGroups[2]
<1>1. DependenciesWrites(s, st) = IF s = "merge" THEN Bump(first) \o Bump(second) ELSE <<>>
  BY DEF DependenciesWrites, BumpPullRequests
<1>2. PlainCalls(Bump(first)) /\ PlainCalls(Bump(second)) BY PatchIsPlain, PlainNone
<1> HIDE DEF Bump, first, second
<1> QED BY <1>1, <1>2, PlainConcat, PlainNone

LEMMA RegistryLanesArePlain ==
  ASSUME NEW s, NEW st
  PROVE  /\ PlainCalls(VendorsWrites(s, st)) /\ PlainCalls(OnboardingWrites(s, st))
         /\ PlainCalls(LeaveWrites(s, st)) /\ PlainCalls(HrHelpWrites(s, st))
         /\ PlainCalls(BillsWrites(s, st))
<1>0. ASSUME NEW sys \in {"vendor-registry", "employee-registry", "leave-registry",
                          "hr-answers", "ledger"}, NEW key, NEW what
      PROVE  PlainCalls(<<Call(sys, key, TRUE, what)>>)
  <2> DEFINE c == Call(sys, key, TRUE, what)
  <2>1. Plain(c) BY DEF Plain, Call, Bare
  <2> HIDE DEF c
  <2> QED BY <2>1, PlainOne DEF c
<1>1. PlainCalls(VendorsWrites(s, st))
  BY <1>0, PlainNone DEF VendorsWrites, CreateRecord
<1>2. PlainCalls(OnboardingWrites(s, st))
  BY <1>0, PlainNone DEF OnboardingWrites, ProvisionEmployee
<1>3. PlainCalls(LeaveWrites(s, st))
  BY <1>0, PlainNone DEF LeaveWrites, BookLeave
<1>4. PlainCalls(HrHelpWrites(s, st))
  BY <1>0, PlainNone DEF HrHelpWrites, RecordAnswer
<1>5. PlainCalls(BillsWrites(s, st))
  BY <1>0, PlainNone DEF BillsWrites, ExecutePost, LedgerPost
<1> QED BY <1>1, <1>2, <1>3, <1>4, <1>5

LEMMA OffboardingIsPlain ==
  ASSUME NEW s, NEW st, NEW known PROVE PlainCalls(OffboardingWrites(s, st, known))
<1>1. ASSUME NEW plan PROVE PlainCalls(ExecuteRevocations(plan, known))
  <2> DEFINE Revoke(i) == IF LeaverSystems[i] \in DOMAIN plan.actions \ known.failing
                          THEN <<Call(LeaverSystems[i], "employee", TRUE, "revoked")>> ELSE <<>>
  <2>1. ASSUME NEW i \in 1..5 PROVE PlainCalls(Revoke(i))
    <3> DEFINE c == Call(LeaverSystems[i], "employee", TRUE, "revoked")
    <3>1. LeaverSystems[i] \notin Bare BY DEF LeaverSystems, Bare
    <3>2. Plain(c) BY <3>1 DEF Plain, Call
    <3> HIDE DEF c
    <3>3. PlainCalls(<<c>>) BY <3>2, PlainOne
    <3> QED BY <3>3, PlainNone DEF c
  <2>2. ExecuteRevocations(plan, known) =
          Revoke(1) \o Revoke(2) \o Revoke(3) \o Revoke(4) \o Revoke(5)
    BY DEF ExecuteRevocations
  <2> HIDE DEF Revoke
  <2>3. /\ PlainCalls(Revoke(1)) /\ PlainCalls(Revoke(2)) /\ PlainCalls(Revoke(3))
        /\ PlainCalls(Revoke(4)) /\ PlainCalls(Revoke(5))
    BY <2>1
  <2>4. PlainCalls(Revoke(1) \o Revoke(2)) BY <2>3, PlainConcat
  <2>5. PlainCalls(Revoke(1) \o Revoke(2) \o Revoke(3)) BY <2>3, <2>4, PlainConcat
  <2>6. PlainCalls(Revoke(1) \o Revoke(2) \o Revoke(3) \o Revoke(4))
    BY <2>3, <2>5, PlainConcat
  <2> QED BY <2>2, <2>3, <2>6, PlainConcat
<1>2. ASSUME NEW attest PROVE PlainCalls(CloseCase(attest))
  <2>1. PICK what : CloseCase(attest) = <<Call("offboarding-case", "employee", TRUE, what)>>
    BY DEF CloseCase
  <2> DEFINE c == Call("offboarding-case", "employee", TRUE, what)
  <2>2. Plain(c) BY DEF Plain, Call, Bare
  <2> HIDE DEF c
  <2> QED BY <2>1, <2>2, PlainOne DEF c
<1> QED BY <1>1, <1>2, PlainNone DEF OffboardingWrites

LEMMA ScreeningIsPlain ==
  ASSUME NEW s, NEW st, NEW known PROVE PlainCalls(ScreeningWrites(s, st, known))
<1>1. ASSUME NEW plan PROVE PlainCalls(ExecuteSchedule(plan, known))
  <2> DEFINE Invite(c) == IF c \in DOMAIN plan.invites \ known.failing
                          THEN <<Call("ats", c, TRUE, plan.invites[c])>> ELSE <<>>
  <2>1. ASSUME NEW c PROVE PlainCalls(Invite(c))
    <3> DEFINE d == Call("ats", c, TRUE, plan.invites[c])
    <3>1. Plain(d) BY DEF Plain, Call, Bare
    <3> HIDE DEF d
    <3>2. PlainCalls(<<d>>) BY <3>1, PlainOne
    <3> QED BY <3>2, PlainNone DEF d
  <2>2. ExecuteSchedule(plan, known) = Invite(Candidates[1]) \o Invite(Candidates[2])
    BY DEF ExecuteSchedule
  <2> HIDE DEF Invite
  <2> QED BY <2>1, <2>2, PlainConcat
<1> QED BY <1>1, PlainNone DEF ScreeningWrites

LEMMA ListedBy ==
  ASSUME NEW l, NEW s, NEW S, NEW q, q \in Seq(S), \A c \in S : Placed(l, s, c),
         \A i, j \in 1..Len(q) : q[i].sys \in Bare /\ Same(q[i], q[j]) => i = j
  PROVE  Listed(l, s, q)
BY DEF Listed

\* The ticket step calls the desk once, and so does the send, with another key.
LEMMA MspIsListed ==
  ASSUME NEW s, NEW st, NEW known, NEW dedupes \in BOOLEAN
  PROVE  Listed("msp", s, MspWrites(s, st, known, dedupes))
<1>0. LastStep("msp") = "send"
  BY DEF LastStep, StepsOf, MspSteps
<1>1. CASE s = "ticket"
  <2>1. PICK what : MspWrites(s, st, known, dedupes) = <<Call("desk", "ticket", dedupes, what)>>
    BY <1>1 DEF MspWrites, TicketEffect
  <2> DEFINE c == Call("desk", "ticket", dedupes, what)
  <2>2. Placed("msp", s, c) BY <1>1 DEF Placed, Call, Bare, Opens
  <2> HIDE DEF c
  <2>3. Listed("msp", s, <<c>>)
    <3> DEFINE S == {c}
               q == <<c>>
    <3>1. /\ q \in Seq(S) /\ \A x \in S : Placed("msp", s, x)
          /\ \A i, j \in 1..Len(q) : i = j
      BY <2>2
    <3> HIDE DEF S, q
    <3>2. Listed("msp", s, q) BY <3>1, ListedBy
    <3> QED BY <3>2 DEF q
  <2> QED BY <2>1, <2>3 DEF c
<1>2. CASE s = "send"
  <2>1. PICK what : MailSend(st) = Call("mail", "case", TRUE, what) BY DEF MailSend
  <2> DEFINE m == Call("mail", "case", TRUE, what)
             d == Call("desk", "comment", dedupes, "sent")
  <2>2. /\ Placed("msp", s, m) /\ m.sys \notin Bare
        /\ Placed("msp", s, d) /\ ~Same(m, d)
    BY <1>0, <1>2 DEF Placed, Call, Bare, Opens, Same
  <2>3. \/ MspWrites(s, st, known, dedupes) = <<m>> \o <<d>>
        \/ MspWrites(s, st, known, dedupes) = <<m>> \o <<>>
    BY <1>2, <2>1 DEF MspWrites, ExecuteSend, SendComment
  <2> HIDE DEF m, d
  <2>4. Listed("msp", s, <<m>> \o <<d>>)
    <3> DEFINE S == {m, d}
               p == <<m>>
               q == p \o <<d>>
    <3>1. p \in Seq(S) /\ <<d>> \in Seq(S) /\ \A x \in S : Placed("msp", s, x) BY <2>2
    <3>2. q \in Seq(S) /\ Len(q) = 2 /\ q[1] = m /\ q[2] = d BY <3>1
    <3> HIDE DEF S, q
    <3>3. \A i, j \in 1..Len(q) : q[i].sys \in Bare /\ Same(q[i], q[j]) => i = j
      <4>1. \A i \in 1..Len(q) : i = 1 \/ i = 2 BY <3>2
      <4> QED BY <2>2, <3>2, <4>1 DEF Same
    <3>4. Listed("msp", s, q) BY <3>1, <3>2, <3>3, ListedBy
    <3> QED BY <3>4 DEF q
  <2>5. Listed("msp", s, <<m>> \o <<>>)
    <3> DEFINE S == {m}
               p == <<m>>
               q == p \o <<>>
    <3>1. p \in Seq(S) /\ <<>> \in Seq(S) /\ \A x \in S : Placed("msp", s, x) BY <2>2
    <3>2. q \in Seq(S) /\ Len(q) = 1 BY <3>1
    <3> HIDE DEF S, q
    <3>3. \A i, j \in 1..Len(q) : i = j BY <3>2
    <3>4. Listed("msp", s, q) BY <3>1, <3>2, <3>3, ListedBy
    <3> QED BY <3>4 DEF q
  <2> QED BY <2>3, <2>4, <2>5
<1>3. CASE s \notin {"ticket", "send"}
  <2>1. MspWrites(s, st, known, dedupes) = <<>> BY <1>3 DEF MspWrites
  <2> QED BY <2>1, PlainNone, PlainIsListed
<1> QED BY <1>1, <1>2, <1>3

\* A review is opened, gets its comments one by one, and is submitted.
LEMMA SubmitIsListed ==
  ASSUME NEW pr, NEW event, NEW comments, comments \in Seq(CommentPath)
  PROVE  Listed("review", "complete", SubmitReview(pr, event, comments))
<1> DEFINE what == [pullRequest |-> pr, event |-> event, comments |-> comments]
           n == Len(comments)
           a == Call("pending-review", pr, FALSE, what)
           B(i) == Call("review-comment", <<pr, i>>, FALSE, what)
           b == [i \in 1..n |-> B(i)]
           z == Call("review", pr, FALSE, what)
           S == {a, z} \cup {B(i) : i \in 1..n}
           q == <<a>> \o b \o <<z>>
<1>1. SubmitReview(pr, event, comments) = q BY DEF SubmitReview
<1>2. LastStep("review") = "complete" BY DEF LastStep, StepsOf, ReviewSteps
<1>3. ASSUME NEW c, c.dedupes \in BOOLEAN, c.sys \in Bare, c.sys # "desk"
      PROVE  Placed("review", "complete", c)
  BY <1>2, <1>3 DEF Placed, Opens
<1>4. /\ a.sys = "pending-review" /\ z.sys = "review" /\ a.dedupes = FALSE /\ z.dedupes = FALSE
      /\ \A i \in 1..n :
           B(i).sys = "review-comment" /\ B(i).key = <<pr, i>> /\ B(i).dedupes = FALSE
  BY DEF Call
<1>5. n \in Nat OBVIOUS
<1> HIDE DEF what, n, a, B, z
<1>6. \A c \in S : Placed("review", "complete", c)
  <2>1. ASSUME NEW c, c.dedupes = FALSE,
               c.sys \in {"pending-review", "review-comment", "review"}
        PROVE  Placed("review", "complete", c)
    <3>1. c.sys \in Bare /\ c.sys # "desk" BY <2>1 DEF Bare
    <3>2. c.dedupes \in BOOLEAN BY <2>1
    <3> QED BY <1>3, <3>1, <3>2
  <2>2. ASSUME NEW c \in S
        PROVE  c.dedupes = FALSE /\ c.sys \in {"pending-review", "review-comment", "review"}
    <3>1. c = a \/ c = z \/ \E i \in 1..n : c = B(i) OBVIOUS
    <3> QED BY <1>4, <3>1
  <2> QED BY <2>1, <2>2
<1>7. b \in Seq(S) /\ Len(b) = n /\ \A i \in 1..n : b[i] = B(i) BY <1>5
<1>8. <<a>> \in Seq(S) /\ <<z>> \in Seq(S) OBVIOUS
<1> HIDE DEF b, S
<1>9. <<a>> \o b \in Seq(S) /\ q \in Seq(S) BY <1>7, <1>8
<1>10. /\ Len(q) = n + 2 /\ q[1] = a /\ q[n + 2] = z
       /\ \A i \in 2..(n + 1) : q[i] = B(i - 1)
  BY <1>5, <1>7, <1>8, <1>9
<1> HIDE DEF q
<1>11. ASSUME NEW i \in 1..Len(q), NEW j \in 1..Len(q), Same(q[i], q[j]) PROVE i = j
  <2>1. \/ i = 1 /\ q[i].sys = "pending-review"
        \/ i = n + 2 /\ q[i].sys = "review"
        \/ i \in 2..(n + 1) /\ q[i].sys = "review-comment" /\ q[i].key = <<pr, i - 1>>
    BY <1>4, <1>5, <1>10
  <2>2. \/ j = 1 /\ q[j].sys = "pending-review"
        \/ j = n + 2 /\ q[j].sys = "review"
        \/ j \in 2..(n + 1) /\ q[j].sys = "review-comment" /\ q[j].key = <<pr, j - 1>>
    BY <1>4, <1>5, <1>10
  <2> QED BY <1>5, <1>11, <2>1, <2>2 DEF Same
<1>12. Listed("review", "complete", q) BY <1>6, <1>9, <1>11, ListedBy
<1> QED BY <1>1, <1>12

\* A step that passes its gate has one artifact to go on with.
LEMMA FilledIsOne ==
  ASSUME NEW l, NEW s, NEW st, NEW known, Gate(l, s, st, known)
  PROVE  LET filled == CHOOSE x \in Filled(l, s, st, known) : TRUE IN
         Contract(l, s, EffectiveArtifact(filled, s))
<1>1. PICK x \in Filled(l, s, st, known) : Contract(l, s, EffectiveArtifact(x, s)) BY DEF Gate
<1>2. ASSUME NEW y \in Filled(l, s, st, known) PROVE y = x
  <2>1. CASE HasArtifact(st, s) BY <1>1, <2>1 DEF Filled
  <2>2. CASE ~HasArtifact(st, s)
    <3> DEFINE one == OneOf(Compute(l, s, st, known))
    <3>1. \A a, b \in one : a = b BY DEF OneOf
    <3>2. Filled(l, s, st, known) = {[st EXCEPT !.art[s] = Merged(NoArtifact, a)] : a \in one}
      BY <2>2 DEF Filled
    <3> HIDE DEF one
    <3> QED BY <1>1, <3>1, <3>2
  <2> QED BY <2>1, <2>2
<1> DEFINE F == Filled(l, s, st, known)
<1> HIDE DEF F
<1>3. (CHOOSE y \in F : TRUE) \in F BY <1>1 DEF F
<1>4. (CHOOSE y \in F : TRUE) = x BY <1>2, <1>3 DEF F
<1> QED BY <1>1, <1>4 DEF F

LEMMA ReviewIsListed ==
  ASSUME NEW s, NEW st, NEW known,
         s = "complete" => ReviewTextValid(EffectiveArtifact(st, s))
  PROVE  Listed("review", s, ReviewWrites(s, st, known))
<1>1. CASE s = "complete"
  <2> DEFINE complete == EffectiveArtifact(st, "complete")
  <2>1. ReviewWrites(s, st, known) =
          SubmitReview(complete.pullRequest, ReviewEvent(complete, known.login), complete.comments)
    BY <1>1 DEF ReviewWrites, PostReview
  <2>2. complete.comments \in Seq(CommentPath) BY <1>1 DEF ReviewTextValid
  <2> HIDE DEF complete
  <2> QED BY <1>1, <2>1, <2>2, SubmitIsListed
<1>2. CASE s # "complete"
  <2>1. ReviewWrites(s, st, known) = <<>> BY <1>2 DEF ReviewWrites
  <2> QED BY <2>1, PlainNone, PlainIsListed
<1> QED BY <1>1, <1>2

\* What a lane calls when a step of it passes: no call twice that may be carried
\* out twice, and none out of its place.
LEMMA WritesAreListed ==
  ASSUME NEW l \in AllLanes, NEW s, NEW st, NEW known, NEW dedupes \in BOOLEAN,
         Gate(l, s, st, known)
  PROVE  Listed(l, s, Writes(l, s, st, known, dedupes))
<1> DEFINE filled == CHOOSE x \in Filled(l, s, st, known) : TRUE
<1>1. Writes(l, s, st, known, dedupes) = LaneWrites(l, s, filled, known, dedupes) BY DEF Writes
<1>2. Contract(l, s, EffectiveArtifact(filled, s)) BY FilledIsOne
<1> HIDE DEF filled
<1>3. CASE l = "msp"
  <2>1. LaneWrites(l, s, filled, known, dedupes) = MspWrites(s, filled, known, dedupes)
    BY <1>3 DEF LaneWrites
  <2> QED BY <1>1, <1>3, <2>1, MspIsListed
<1>4. CASE l = "review"
  <2>1. LaneWrites(l, s, filled, known, dedupes) = ReviewWrites(s, filled, known)
    BY <1>4 DEF LaneWrites
  <2>2. s = "complete" => ReviewTextValid(EffectiveArtifact(filled, s))
    BY <1>2, <1>4 DEF Contract, ReviewContract
  <2> QED BY <1>1, <1>4, <2>1, <2>2, ReviewIsListed
<1>5. CASE l \notin {"msp", "review"}
  <2>1. \/ LaneWrites(l, s, filled, known, dedupes) = SecurityWrites(s, filled)
        \/ LaneWrites(l, s, filled, known, dedupes) = FeaturesWrites(s, filled)
        \/ LaneWrites(l, s, filled, known, dedupes) = IssuesWrites(s, filled)
        \/ LaneWrites(l, s, filled, known, dedupes) = DependenciesWrites(s, filled)
        \/ LaneWrites(l, s, filled, known, dedupes) = AccessibilityWrites(s, filled)
        \/ LaneWrites(l, s, filled, known, dedupes) = VendorsWrites(s, filled)
        \/ LaneWrites(l, s, filled, known, dedupes) = OnboardingWrites(s, filled)
        \/ LaneWrites(l, s, filled, known, dedupes) = OffboardingWrites(s, filled, known)
        \/ LaneWrites(l, s, filled, known, dedupes) = ScreeningWrites(s, filled, known)
        \/ LaneWrites(l, s, filled, known, dedupes) = LeaveWrites(s, filled)
        \/ LaneWrites(l, s, filled, known, dedupes) = HrHelpWrites(s, filled)
        \/ LaneWrites(l, s, filled, known, dedupes) = BillsWrites(s, filled)
    BY <1>5 DEF LaneWrites, AllLanes
  <2>2. PlainCalls(LaneWrites(l, s, filled, known, dedupes))
    BY <2>1, SecurityIsPlain, PatchLanesArePlain, DependenciesIsPlain, RegistryLanesArePlain,
       OffboardingIsPlain, ScreeningIsPlain
  <2> QED BY <1>1, <2>2, PlainIsListed
<1> QED BY <1>3, <1>4, <1>5

-----------------------------------------------------------------------------
(* What a step of a run does to the calls made for it *)

LEMMA MspHasTicket ==
  /\ "ticket" \in StepsIn("msp") /\ "send" \in StepsIn("msp")
  /\ LastStep("msp") = "send"
  /\ \A i \in 1..Len(StepsOf("msp")) : StepsOf("msp")[i] = "ticket" => i # Len(StepsOf("msp"))
<1>1. StepsOf("msp") = MspSteps BY DEF StepsOf
<1>2. /\ Len(MspSteps) = 5 /\ MspSteps[2] = "ticket" /\ MspSteps[5] = "send"
      /\ \A i \in 1..5 : MspSteps[i] = "ticket" => i # 5
  BY DEF MspSteps
<1>3. 2 \in 1..5 /\ 5 \in 1..5 OBVIOUS
<1> HIDE DEF MspSteps
<1>4. StepsIn("msp") = {MspSteps[i] : i \in 1..5} BY <1>1, <1>2 DEF StepsIn
<1>5. "ticket" \in StepsIn("msp") /\ "send" \in StepsIn("msp") BY <1>2, <1>3, <1>4
<1>6. LastStep("msp") = "send" BY <1>1, <1>2 DEF LastStep
<1> QED BY <1>1, <1>2, <1>5, <1>6

\* A call is of a step of its lane, if it may be carried out twice.
LEMMA PlacedIsAStep ==
  ASSUME NEW l \in AllLanes, NEW s, NEW c, Placed(l, s, c), c.sys \in Bare
  PROVE  s \in StepsIn(l) /\ (Opens(l, c) => s = "ticket") /\ (~Opens(l, c) => s = LastStep(l))
<1>1. s = IF Opens(l, c) THEN "ticket" ELSE LastStep(l) BY DEF Placed
<1>2. LastStep(l) \in StepsIn(l)
  <2>1. Len(StepsOf(l)) \in 1..Len(StepsOf(l)) BY HasSteps
  <2> QED BY <2>1 DEF LastStep, StepsIn
<1> QED BY <1>1, <1>2, MspHasTicket DEF Opens

LEMMA IdleIsMapped ==
  ASSUME NEW l \in AllLanes
  PROVE  /\ DOMAIN Idle(l).st.eff = StepsIn(l) /\ Holds(l, Idle(l).st.eff)
         /\ Idle(l).pc = "idle"
<1>1. Idle(l).st.eff = [s \in StepsIn(l) |-> NoEffect] /\ Idle(l).pc = "idle"
  BY DEF Idle, Envelope, NewRun, StepsIn
<1> QED BY <1>1, MspHasTicket DEF Holds

\* The other runs keep their calls, and their attempts.
LEMMA OneAttempt ==
  ASSUME Inv, Once, NEW r \in Runs, OnlyRun(r), made \subseteq made',
         \A c \in made' \ made : c.run = r /\ Placed(lane, c.step, c) /\ c.n = 0,
         NEW M, M = {c \in made' : c.run = r},
         Attempt(run'[r], eng'[r], M, lane)
  PROVE  Once'
<1>1. ASSUME NEW q \in Runs
      PROVE  Attempt(run'[q], eng'[q], {c \in made' : c.run = q}, lane')
  <2>1. CASE q = r BY <2>1 DEF OnlyRun
  <2>2. CASE q # r
    <3>1. {c \in made' : c.run = q} = MadeFor(q) BY <2>2 DEF MadeFor
    <3> QED BY <2>2, <3>1 DEF OnlyRun, Once
  <2> QED BY <2>1, <2>2
<1>2. ASSUME NEW c \in made'
      PROVE  c.run \in Runs /\ Placed(lane', c.step, c) /\ c.n = 0
  BY DEF OnlyRun, Once
<1>3. Once' <=>
        /\ \A q \in Runs : Attempt(run'[q], eng'[q], {c \in made' : c.run = q}, lane')
        /\ \A c \in made' : c.run \in Runs /\ Placed(lane', c.step, c) /\ c.n = 0
  BY DEF Once, MadeFor, Runs
<1> QED BY <1>1, <1>2, <1>3

\* The same, for a step that makes no call.
LEMMA QuietAttempt ==
  ASSUME Inv, Once, NEW r \in Runs, OnlyRun(r), made' = made,
         Attempt(run'[r], eng'[r], MadeFor(r), lane)
  PROVE  Once'
<1> DEFINE M == MadeFor(r)
<1>1. M = {c \in made' : c.run = r} BY DEF MadeFor
<1> HIDE DEF M
<1>2. Attempt(run'[r], eng'[r], M, lane) BY DEF M
<1>3. made \subseteq made' /\ made' \ made = {} OBVIOUS
<1> QED BY <1>1, <1>2, <1>3, OneAttempt

\* The tickets opened for a run are known to eff, and nothing else was called
\* that may be carried out twice.
OnlyTickets(M, l, eff) ==
  \A c \in M : c.sys \in Bare => Opens(l, c) /\ eff["ticket"] = TicketHash

LEMMA CutIsMapped ==
  ASSUME Inv, NEW rec, rec.status \in Ended
  PROVE  /\ Cut(rec).status = rec.status /\ DOMAIN Cut(rec).eff = StepsIn(lane)
         /\ \A s \in StepsIn(lane) : rec.eff[s] # NoEffect => Cut(rec).eff[s] # NoEffect
<1>1. /\ Cut(rec).status = rec.status
      /\ Cut(rec).eff = [s \in StepSet |-> IF rec.eff[s] = NoEffect THEN NoEffect ELSE <<"recorded">>]
  BY DEF Cut, NewRun
<1>2. StepSet = StepsIn(lane) BY DEF StepSet, StepsIn, Step
<1>3. <<"recorded">> # NoEffect BY DEF NoEffect
<1> QED BY <1>1, <1>2, <1>3

\* A pass ends: what a review or a completed run has to know is in its outcome.
LEMMA EndPassOnce ==
  ASSUME Inv, Once, NEW r \in Runs, NEW outcome, EndPass(r, outcome),
         lane' = lane, made' = made, eng[r].pc # "idle",
         outcome.status \in {"review", "completed", "failed"},
         DOMAIN outcome.eff = StepsIn(lane),
         outcome.status = "review" =>
           Holds(lane, outcome.eff) /\ OnlyTickets(MadeFor(r), lane, outcome.eff),
         outcome.status = "completed" =>
           \A c \in MadeFor(r) : c.sys \in Bare => outcome.eff[c.step] # NoEffect
  PROVE  Once'
<1> DEFINE rec == IF run[r].status = "driving" THEN outcome ELSE run[r]
           over == rec.status \in Ended
           M == MadeFor(r)
<1>1. /\ run' = [run EXCEPT ![r] = IF over THEN Cut(rec) ELSE rec]
      /\ eng' = [eng EXCEPT ![r] = IF over THEN Idle(lane)
                                   ELSE [@ EXCEPT !.pc = "idle", !.calls = <<>>]]
  BY DEF EndPass
<1>2. Attempt(run[r], eng[r], M, lane) BY DEF Once
<1>3. run[r].status \in {"driving", "failed"} BY <1>2 DEF Attempt, Phased
<1>4. \/ rec = outcome \/ rec.status = "failed" BY <1>3
<1>5. rec.status \in {"review", "completed", "failed"} BY <1>4
<1> HIDE DEF rec
<1>6. OnlyRun(r) BY <1>1 DEF OnlyRun, Inv
<1>7. r \in DOMAIN run /\ r \in DOMAIN eng /\ lane \in AllLanes BY DEF Inv
<1>8. \A c \in M : c \in made /\ Placed(lane, c.step, c) BY DEF Once, MadeFor
<1>9. CASE over
  <2> DEFINE cut == Cut(rec)
             e == Idle(lane)
  <2>1. run'[r] = cut /\ eng'[r] = e BY <1>1, <1>7, <1>9
  <2>2. /\ cut.status = rec.status /\ DOMAIN cut.eff = StepsIn(lane)
        /\ \A s \in StepsIn(lane) : rec.eff[s] # NoEffect => cut.eff[s] # NoEffect
    BY <1>9, CutIsMapped
  <2>3. /\ DOMAIN e.st.eff = StepsIn(lane) /\ Holds(lane, e.st.eff) /\ e.pc = "idle"
    BY <1>7, IdleIsMapped
  <2> HIDE DEF cut, e
  <2>4. cut.status \in Ended BY <1>9, <2>2
  <2>5. Phased(cut, e) BY <2>3, <2>4 DEF Phased, Statuses, Ended
  <2>6. Mapped(cut, e, lane) BY <2>2, <2>3, <2>4 DEF Mapped
  <2>7. ASSUME NEW c \in M, c.sys \in Bare, cut.status = "completed"
        PROVE  cut.eff[c.step] # NoEffect
    <3>1. rec = outcome /\ outcome.status = "completed" BY <1>4, <2>2, <2>7
    <3>2. rec.eff[c.step] # NoEffect BY <2>7, <3>1 DEF M
    <3>3. c.step \in StepsIn(lane) BY <1>7, <1>8, <2>7, PlacedIsAStep
    <3> QED BY <2>2, <3>2, <3>3
  <2>8. Accounted(cut, e, M, lane)
    BY <2>3, <2>4, <2>7 DEF Accounted, Remembered, Ended
  <2>9. Unrepeated(e, M, lane) BY <2>3 DEF Unrepeated
  <2>10. Attempt(cut, e, M, lane) BY <2>5, <2>6, <2>8, <2>9 DEF Attempt
  <2> QED BY <1>6, <2>1, <2>10, QuietAttempt DEF M
<1>10. CASE ~over
  <2> DEFINE e == [eng[r] EXCEPT !.pc = "idle", !.calls = <<>>]
  <2>1. run'[r] = rec /\ eng'[r] = e BY <1>1, <1>7, <1>10
  <2>2. rec = outcome /\ rec.status = "review" BY <1>4, <1>5, <1>10 DEF Ended
  <2>3. e.pc = "idle" /\ e.st = eng[r].st
    <3>1. DOMAIN eng[r] = {"pc", "i", "st", "calls"} BY DEF Inv, Walked
    <3> QED BY <3>1
  <2> HIDE DEF e, M
  <2>4. Phased(rec, e) BY <2>2, <2>3 DEF Phased, Statuses
  <2>5. Mapped(rec, e, lane) BY <1>2, <2>2, <2>3 DEF Mapped, Attempt
  <2>6. OnlyTickets(M, lane, rec.eff) BY <2>2 DEF M
  <2>7. Accounted(rec, e, M, lane)
    BY <2>2, <2>3, <2>6 DEF Accounted, Remembered, OnlyTickets
  <2>8. Unrepeated(e, M, lane) BY <2>3 DEF Unrepeated
  <2>9. Attempt(rec, e, M, lane) BY <2>4, <2>5, <2>7, <2>8 DEF Attempt
  <2> QED BY <1>6, <2>1, <2>9, QuietAttempt DEF M
<1> QED BY <1>9, <1>10

\* A pass that walks knows of the tickets opened for its run.
LEMMA WalkOnce ==
  ASSUME Inv, Once, NEW r \in Runs, NEW rec, NEW i, NEW st, Walk(r, i, st), Stores(r, rec),
         lane' = lane, made' = made,
         rec.status \in {"driving", "failed"}, DOMAIN rec.eff = StepsIn(lane),
         rec.status = "driving" => Holds(lane, rec.eff),
         DOMAIN st.eff = StepsIn(lane), Holds(lane, st.eff),
         OnlyTickets(MadeFor(r), lane, st.eff)
  PROVE  Once'
<1> DEFINE e == [pc |-> "walking", i |-> i, st |-> st, calls |-> <<>>]
           M == MadeFor(r)
<1>1. run'[r] = rec /\ eng'[r] = e BY DEF Walk, Stores, Inv
<1>2. OnlyRun(r) BY DEF OnlyRun, Inv, Walk, Stores
<1>3. e.pc = "walking" /\ e.st = st OBVIOUS
<1>4. OnlyTickets(M, lane, st.eff) OBVIOUS
<1> HIDE DEF e, M
<1>5. Phased(rec, e) BY <1>3 DEF Phased, Statuses, Ended
<1>6. Mapped(rec, e, lane) BY <1>3 DEF Mapped, Ended
<1>7. Accounted(rec, e, M, lane) BY <1>3, <1>4 DEF Accounted, Remembered, OnlyTickets
<1>8. Unrepeated(e, M, lane) BY <1>3 DEF Unrepeated
<1>9. Attempt(rec, e, M, lane) BY <1>5, <1>6, <1>7, <1>8 DEF Attempt
<1> QED BY <1>1, <1>2, <1>9, QuietAttempt DEF M

LEMMA OnwardOnce ==
  ASSUME Inv, Once, NEW r \in Runs, NEW st, eng[r].pc # "idle", Onward(r, st),
         lane' = lane, made' = made, DOMAIN st = {"art", "dec", "eff", "decision"},
         DOMAIN st.eff = StepsIn(lane), Holds(lane, st.eff),
         IsLast(r) => \A c \in MadeFor(r) : c.sys \in Bare => st.eff[c.step] # NoEffect,
         ~IsLast(r) => OnlyTickets(MadeFor(r), lane, st.eff)
  PROVE  Once'
<1>1. Attempt(run[r], eng[r], MadeFor(r), lane) /\ Recorded(run[r], lane) /\ lane \in AllLanes
  BY DEF Once, Inv
<1>2. CASE IsLast(r)
  <2> DEFINE outcome == [WithEffects(run[r], st) EXCEPT !.status = "completed"]
  <2>1. EndPass(r, outcome) BY <1>2 DEF Onward
  <2>2. StepSet = StepsIn(lane) BY DEF StepSet, StepsIn, Step
  <2>3. /\ outcome.status = "completed"
        /\ outcome.eff = [s \in StepSet |-> IF st.eff[s] # NoEffect THEN st.eff[s] ELSE run[r].eff[s]]
    BY <1>1 DEF WithEffects, Recorded
  <2> HIDE DEF outcome
  <2>4. ASSUME NEW c \in MadeFor(r), c.sys \in Bare PROVE outcome.eff[c.step] # NoEffect
    <3>1. Placed(lane, c.step, c) BY DEF Once, MadeFor
    <3>2. c.step \in StepsIn(lane) BY <1>1, <2>4, <3>1, PlacedIsAStep
    <3>3. st.eff[c.step] # NoEffect BY <1>2, <2>4
    <3> QED BY <2>2, <2>3, <3>2, <3>3
  <2> QED BY <2>1, <2>2, <2>3, <2>4, EndPassOnce
<1>3. CASE ~IsLast(r)
  <2> DEFINE n == eng[r].i + 1
             next == ForwardState(st)
             rec == run[r]
  <2>1. Walk(r, n, next) /\ run' = run BY <1>3 DEF Onward
  <2>2. Stores(r, rec) BY <2>1 DEF Stores, Inv
  <2>3. next.eff = st.eff BY DEF ForwardState
  <2>4. /\ rec.status \in {"driving", "failed"} /\ DOMAIN rec.eff = StepsIn(lane)
        /\ rec.status = "driving" => Holds(lane, rec.eff)
    BY <1>1 DEF Attempt, Phased, Mapped, Ended
  <2>5. OnlyTickets(MadeFor(r), lane, next.eff) BY <1>3, <2>3
  <2> HIDE DEF n, next, rec
  <2> QED BY <2>1, <2>2, <2>3, <2>4, <2>5, WalkOnce
<1> QED BY <1>2, <1>3

-----------------------------------------------------------------------------
(* The run service's steps *)

LEMMA StartRunOnce ==
  ASSUME Inv, Once, NEW r \in Runs, StartRun(r)
  PROVE  Once'
<1> DEFINE rec == [run[r] EXCEPT !.status = "driving"]
           st == Envelope(run[r])
<1>1. Recorded(run[r], lane) /\ Attempt(run[r], eng[r], MadeFor(r), lane) BY DEF Inv, Once
<1>2. /\ run[r].status = "none" /\ run' = [run EXCEPT ![r].status = "driving"]
      /\ Walk(r, 1, st) /\ lane' = lane /\ made' = made
  BY DEF StartRun
<1>3. Stores(r, rec) BY <1>2 DEF Stores, Inv
<1>4. rec.status = "driving" /\ rec.eff = run[r].eff BY <1>1 DEF Recorded
<1>5. st.eff = run[r].eff BY DEF Envelope
<1>6. DOMAIN run[r].eff = StepsIn(lane) /\ Holds(lane, run[r].eff)
  BY <1>1, <1>2 DEF Attempt, Mapped, Ended
<1>7. OnlyTickets(MadeFor(r), lane, st.eff)
  BY <1>1, <1>2 DEF Attempt, Accounted, OnlyTickets
<1> HIDE DEF rec, st
<1> QED BY <1>2, <1>3, <1>4, <1>5, <1>6, <1>7, WalkOnce

\* A run in review has only tickets, which its record knows of.
LEMMA ReviewKnows ==
  ASSUME Inv, Once, NEW r \in Runs, run[r].status = "review"
  PROVE  /\ DOMAIN run[r].eff = StepsIn(lane) /\ Holds(lane, run[r].eff)
         /\ Holds(lane, eng[r].st.eff)
         /\ OnlyTickets(MadeFor(r), lane, run[r].eff)
<1>1. Attempt(run[r], eng[r], MadeFor(r), lane) BY DEF Once
<1>2. eng[r].pc = "idle" BY <1>1 DEF Attempt, Phased
<1>3. OnlyTickets(MadeFor(r), lane, run[r].eff)
  BY <1>1, <1>2 DEF Attempt, Accounted, Remembered, OnlyTickets, Ended
<1> QED BY <1>1, <1>3 DEF Attempt, Mapped, Ended

\* The envelope wins over the snapshot where it knows of an effect, so that a
\* resume never forgets one.
LEMMA ResumeOnce ==
  ASSUME Inv, Once, NEW r \in Runs, NEW decision, Resume(r, decision)
  PROVE  Once'
<1> DEFINE i == run[r].at
           rec == [run[r] EXCEPT !.status = "driving", !.dec[Step(i)] = decision]
           st == MergeState(eng[r].st, [Envelope(rec) EXCEPT !.decision = decision],
                            UnionsEffects(lane))
           eff == run[r].eff
<1>1. Recorded(run[r], lane) /\ lane \in AllLanes BY DEF Inv
<1>2. /\ run[r].status = "review" /\ run' = [run EXCEPT ![r] = rec]
      /\ Walk(r, i, st) /\ lane' = lane /\ made' = made
  BY DEF Resume
<1>3. Stores(r, rec) BY <1>2 DEF Stores, Inv
<1>4. rec.status = "driving" /\ rec.eff = eff BY <1>1 DEF Recorded
<1>5. /\ DOMAIN eff = StepsIn(lane) /\ Holds(lane, eff) /\ Holds(lane, eng[r].st.eff)
      /\ OnlyTickets(MadeFor(r), lane, eff)
  BY <1>2, ReviewKnows
<1>6. st.eff = [s \in DOMAIN eff |->
                  IF UnionsEffects(lane) /\ eff[s] = NoEffect THEN eng[r].st.eff[s] ELSE eff[s]]
  BY <1>4 DEF MergeState, Envelope
<1> HIDE DEF rec, st, eff
<1>7. DOMAIN st.eff = StepsIn(lane) BY <1>5, <1>6
<1>8. Holds(lane, st.eff)
  BY <1>5, <1>6, MspHasTicket DEF Holds
<1>9. OnlyTickets(MadeFor(r), lane, st.eff)
  <2> SUFFICES ASSUME NEW c \in MadeFor(r), c.sys \in Bare
               PROVE  Opens(lane, c) /\ st.eff["ticket"] = TicketHash
    BY DEF OnlyTickets
  <2>1. Opens(lane, c) /\ eff["ticket"] = TicketHash BY <1>5 DEF OnlyTickets
  <2>2. "ticket" \in DOMAIN eff BY <1>5, <2>1, MspHasTicket DEF Opens
  <2>3. TicketHash # NoEffect BY DEF TicketHash, NoEffect
  <2> QED BY <1>6, <2>1, <2>2, <2>3
<1> QED BY <1>2, <1>3, <1>4, <1>5, <1>7, <1>8, <1>9, WalkOnce

\* Going back keeps the effects.
LEMMA BackOnce ==
  ASSUME Inv, Once, NEW r \in Runs, Back(r)
  PROVE  Once'
<1> DEFINE cut == InvalidateFrom(run[r], run[r].at - 1)
           rec == [cut EXCEPT !.status = "driving"]
           st == Envelope(cut)
           eff == run[r].eff
<1>1. Recorded(run[r], lane) BY DEF Inv
<1>2. /\ run[r].status = "review" /\ run' = [run EXCEPT ![r] = rec]
      /\ Walk(r, 1, st) /\ lane' = lane /\ made' = made
  BY DEF Back
<1>3. Stores(r, rec) BY <1>2 DEF Stores, Inv
<1>4. DOMAIN cut = DOMAIN run[r] /\ cut.eff = eff BY <1>1 DEF Recorded, InvalidateFrom
<1> HIDE DEF cut
<1>5. rec.status = "driving" /\ rec.eff = eff BY <1>1, <1>4 DEF Recorded
<1>6. st.eff = eff BY <1>4 DEF Envelope
<1>7. /\ DOMAIN eff = StepsIn(lane) /\ Holds(lane, eff)
      /\ OnlyTickets(MadeFor(r), lane, eff)
  BY <1>2, ReviewKnows
<1> HIDE DEF rec, st, eff
<1>8. OnlyTickets(MadeFor(r), lane, st.eff) BY <1>6, <1>7
<1> QED BY <1>2, <1>3, <1>5, <1>6, <1>7, <1>8, WalkOnce

LEMMA GiveUpOnce ==
  ASSUME Inv, Once, NEW r \in Runs, GiveUp(r)
  PROVE  Once'
<1> DEFINE rec == [run[r] EXCEPT !.status = "failed"]
           e == eng[r]
           M == MadeFor(r)
<1>1. Recorded(run[r], lane) /\ Attempt(run[r], e, M, lane) BY DEF Inv, Once
<1>2. /\ run[r].status = "driving" /\ run' = [run EXCEPT ![r].status = "failed"]
      /\ eng' = eng /\ lane' = lane /\ made' = made
  BY DEF GiveUp
<1>3. OnlyRun(r) BY <1>2 DEF OnlyRun, Inv
<1>4. run'[r] = rec /\ eng'[r] = e BY <1>2 DEF Inv
<1>5. rec.status = "failed" /\ rec.eff = run[r].eff BY <1>1 DEF Recorded
<1> HIDE DEF rec, e, M
<1>6. Phased(rec, e) BY <1>1, <1>5 DEF Attempt, Phased, Statuses, Ended
<1>7. Mapped(rec, e, lane) BY <1>1, <1>5 DEF Attempt, Mapped, Ended
<1>8. e.pc # "idle" BY <1>1, <1>2 DEF Attempt, Phased
<1>9. Accounted(rec, e, M, lane)
  BY <1>1, <1>5, <1>8 DEF Attempt, Accounted, Remembered
<1>10. Attempt(rec, e, M, lane) BY <1>1, <1>6, <1>7, <1>9 DEF Attempt
<1> QED BY <1>2, <1>3, <1>4, <1>10, QuietAttempt DEF M

-----------------------------------------------------------------------------
(* The engine's steps *)

\* A pass that walks has only tickets behind it.
LEMMA WalkingKnows ==
  ASSUME Inv, Once, NEW r \in Runs, eng[r].pc = "walking"
  PROVE  /\ DOMAIN eng[r].st = {"art", "dec", "eff", "decision"}
         /\ DOMAIN eng[r].st.eff = StepsIn(lane) /\ Holds(lane, eng[r].st.eff)
         /\ OnlyTickets(MadeFor(r), lane, eng[r].st.eff)
<1>1. Attempt(run[r], eng[r], MadeFor(r), lane) /\ Walked(eng[r], run[r].dec, lane)
  BY DEF Once, Inv
<1>2. OnlyTickets(MadeFor(r), lane, eng[r].st.eff)
  BY <1>1 DEF Attempt, Accounted, Remembered, OnlyTickets
<1> QED BY <1>1, <1>2 DEF Attempt, Mapped, Walked

\* The lane with a ticket repeats its effects in every suspend payload.
LEMMA SuspendOnce ==
  ASSUME Inv, Once, NEW r \in Runs, Suspend(r)
  PROVE  Once'
<1>1. PICK a \in Compute(lane, Here(r), eng[r].st, Known) :
        LET rec == [run[r] EXCEPT !.status = "review", !.at = eng[r].i, !.next = @ + 1,
                                  !.art[Here(r)] = WithField(a, "v", run[r].next)]
        IN EndPass(r, IF RepeatsEffects(lane) THEN WithEffects(rec, eng[r].st) ELSE rec)
  BY DEF Suspend
<1> DEFINE rec == [run[r] EXCEPT !.status = "review", !.at = eng[r].i, !.next = @ + 1,
                                 !.art[Here(r)] = WithField(a, "v", run[r].next)]
           outcome == IF RepeatsEffects(lane) THEN WithEffects(rec, eng[r].st) ELSE rec
           st == eng[r].st
<1>2. /\ Recorded(run[r], lane) /\ eng[r].pc = "walking" /\ lane' = lane /\ made' = made
      /\ Attempt(run[r], eng[r], MadeFor(r), lane)
  BY DEF Inv, Once, Suspend
<1>3. DOMAIN rec = DOMAIN run[r] /\ rec.status = "review" /\ rec.eff = run[r].eff
  BY <1>2 DEF Recorded
<1> HIDE DEF rec
<1>4. EndPass(r, outcome) BY <1>1 DEF rec
<1>5. outcome.status = "review" BY <1>2, <1>3 DEF WithEffects, Recorded
<1>6. outcome.eff = IF RepeatsEffects(lane)
                    THEN [s \in StepsIn(lane) |-> IF st.eff[s] # NoEffect THEN st.eff[s] ELSE run[r].eff[s]]
                    ELSE run[r].eff
  <2>1. StepSet = StepsIn(lane) BY DEF StepSet, StepsIn, Step
  <2> QED BY <1>2, <1>3, <2>1 DEF WithEffects, Recorded
<1>7. /\ Holds(lane, st.eff) /\ OnlyTickets(MadeFor(r), lane, st.eff)
  BY <1>2, WalkingKnows
<1> HIDE DEF outcome, st
<1>8. DOMAIN run[r].eff = StepsIn(lane) BY <1>2 DEF Attempt, Mapped
<1>9. DOMAIN outcome.eff = StepsIn(lane) BY <1>6, <1>8
<1>10. CASE run[r].status = "driving"
  <2>1. Holds(lane, run[r].eff) BY <1>2, <1>10 DEF Attempt, Mapped, Ended
  <2>2. Holds(lane, outcome.eff)
    BY <1>6, <1>7, <2>1, MspHasTicket DEF Holds
  <2>3. OnlyTickets(MadeFor(r), lane, outcome.eff)
    <3> SUFFICES ASSUME NEW c \in MadeFor(r), c.sys \in Bare
                 PROVE  Opens(lane, c) /\ outcome.eff["ticket"] = TicketHash
      BY DEF OnlyTickets
    <3>1. Opens(lane, c) /\ st.eff["ticket"] = TicketHash BY <1>7 DEF OnlyTickets
    <3>2. lane = "msp" /\ RepeatsEffects(lane) BY <3>1 DEF Opens, RepeatsEffects
    <3>3. "ticket" \in StepsIn(lane) BY <3>2, MspHasTicket
    <3>4. TicketHash # NoEffect BY DEF TicketHash, NoEffect
    <3> QED BY <1>6, <3>1, <3>2, <3>3, <3>4
  <2> QED BY <1>2, <1>4, <1>5, <1>9, <2>2, <2>3, EndPassOnce
<1>11. CASE run[r].status # "driving"
  \* The service gave the pass up: it keeps its own record.
  <2>1. EndPass(r, run[r]) BY <1>4, <1>11 DEF EndPass
  <2>2. run[r].status = "failed" BY <1>2, <1>11 DEF Attempt, Phased
  <2> QED BY <1>2, <1>8, <2>1, <2>2, EndPassOnce
<1> QED BY <1>10, <1>11

\* What was opened for the run counts as an effect of its step.
LEMMA TicketsHaveEffects ==
  ASSUME Inv, Once, NEW r \in Runs, NEW eff, OnlyTickets(MadeFor(r), lane, eff)
  PROVE  \A c \in MadeFor(r) : c.sys \in Bare => eff[c.step] # NoEffect
<1> SUFFICES ASSUME NEW c \in MadeFor(r), c.sys \in Bare PROVE eff[c.step] # NoEffect
  OBVIOUS
<1>1. Placed(lane, c.step, c) /\ lane \in AllLanes BY DEF Once, MadeFor, Inv
<1>2. Opens(lane, c) /\ eff["ticket"] = TicketHash BY DEF OnlyTickets
<1>3. c.step = "ticket" BY <1>1, <1>2, PlacedIsAStep
<1> QED BY <1>2, <1>3 DEF TicketHash, NoEffect

LEMMA ForwardOnce ==
  ASSUME Inv, Once, NEW r \in Runs, Forward(r)
  PROVE  Once'
<1> DEFINE st == eng[r].st
<1>1. eng[r].pc = "walking" /\ Onward(r, st) /\ lane' = lane /\ made' = made
  BY DEF Forward, Passes
<1>2. /\ DOMAIN st = {"art", "dec", "eff", "decision"} /\ DOMAIN st.eff = StepsIn(lane)
      /\ Holds(lane, st.eff) /\ OnlyTickets(MadeFor(r), lane, st.eff)
  BY <1>1, WalkingKnows
<1> HIDE DEF st
<1>3. \A c \in MadeFor(r) : c.sys \in Bare => st.eff[c.step] # NoEffect
  BY <1>2, TicketsHaveEffects
<1> QED BY <1>1, <1>2, <1>3, OnwardOnce

\* An effect that is due does not open a ticket that is opened.
LEMMA BeginEffectOnce ==
  ASSUME Inv, Once, NEW r \in Runs, BeginEffect(r)
  PROVE  Once'
<1> DEFINE s == Here(r)
           calls == Writes(lane, s, eng[r].st, Known, DeskDedupes)
           e == [eng[r] EXCEPT !.pc = "writing", !.calls = calls]
           rec == run[r]
           M == MadeFor(r)
<1>1. /\ eng[r].pc = "walking" /\ Gate(lane, s, eng[r].st, Known)
      /\ eng[r].st.eff[s] # ActionHash(lane, s, eng[r].st)
      /\ eng' = [eng EXCEPT ![r].pc = "writing", ![r].calls = calls]
      /\ lane' = lane /\ run' = run /\ made' = made
  BY DEF BeginEffect, Passes, EffectDue
<1>2. lane \in AllLanes /\ r \in DOMAIN eng /\ r \in DOMAIN run /\ Walked(eng[r], rec.dec, lane)
  BY DEF Inv
<1>3. Listed(lane, s, calls) BY <1>1, <1>2, LaneAssumption, WritesAreListed
<1>4. /\ DOMAIN eng[r].st.eff = StepsIn(lane) /\ Holds(lane, eng[r].st.eff)
      /\ OnlyTickets(M, lane, eng[r].st.eff)
  BY <1>1, WalkingKnows
<1>5. Attempt(rec, eng[r], M, lane) BY DEF Once
<1> HIDE DEF calls
<1>6. run'[r] = rec /\ eng'[r] = e BY <1>1, <1>2
<1>7. OnlyRun(r) BY <1>1 DEF OnlyRun, Inv
<1>8. /\ e.pc = "writing" /\ e.calls = calls /\ e.i = eng[r].i /\ e.st = eng[r].st
      /\ s = StepsOf(lane)[e.i]
  BY <1>2 DEF Walked, Here, Step
<1>9. lane = "msp" /\ s = "ticket" => eng[r].st.eff["ticket"] # TicketHash
  BY <1>1 DEF ActionHash, MspHash, TicketHash
<1> HIDE DEF e, M, rec, s
<1>10. Phased(rec, e) BY <1>1, <1>5, <1>8 DEF Attempt, Phased
<1>11. Mapped(rec, e, lane) BY <1>5, <1>8 DEF Attempt, Mapped
<1>12. Accounted(rec, e, M, lane)
  <2>1. rec.status \in {"driving", "failed"} BY <1>1, <1>5 DEF Attempt, Phased
  <2> QED BY <1>4, <1>8, <2>1 DEF Accounted, Remembered, OnlyTickets
<1>13. ASSUME NEW c \in M, c.sys \in Bare, NEW j \in 1..Len(calls)
       PROVE  ~Same(c, calls[j])
  <2>1. PICK S : calls \in Seq(S) /\ \A d \in S : Placed(lane, s, d) BY <1>3 DEF Listed
  <2>2. Placed(lane, s, calls[j]) BY <1>13, <2>1
  <2>3. Opens(lane, c) /\ eng[r].st.eff["ticket"] = TicketHash BY <1>4, <1>13 DEF OnlyTickets
  <2>4. Same(c, calls[j]) => Opens(lane, calls[j]) /\ calls[j].sys \in Bare
    BY <1>13, <2>3 DEF Same, Opens
  <2>5. Same(c, calls[j]) => s = "ticket" BY <1>2, <2>2, <2>4, PlacedIsAStep
  <2> QED BY <1>9, <2>3, <2>5 DEF Opens
<1>14. Unrepeated(e, M, lane) BY <1>3, <1>8, <1>13 DEF Unrepeated
<1>15. Attempt(rec, e, M, lane) BY <1>10, <1>11, <1>12, <1>14 DEF Attempt
<1> QED BY <1>1, <1>6, <1>7, <1>15, QuietAttempt DEF M

LEMMA ListedTail ==
  ASSUME NEW l, NEW s, NEW q, Listed(l, s, q), q # <<>>
  PROVE  /\ Placed(l, s, Head(q)) /\ Listed(l, s, Tail(q))
         /\ 1 \in 1..Len(q) /\ q[1] = Head(q)
         /\ \A i \in 1..Len(Tail(q)) :
              /\ i + 1 \in 1..Len(q) /\ Tail(q)[i] = q[i + 1]
              /\ Head(q).sys \in Bare => ~Same(Head(q), Tail(q)[i])
<1>1. PICK S : q \in Seq(S) /\ \A c \in S : Placed(l, s, c) BY DEF Listed
<1>2. \A i, j \in 1..Len(q) : q[i].sys \in Bare /\ Same(q[i], q[j]) => i = j BY DEF Listed
<1> DEFINE h == Head(q)
           t == Tail(q)
<1>3. /\ h = q[1] /\ h \in S /\ t \in Seq(S) /\ 1 \in 1..Len(q)
      /\ \A i \in 1..Len(t) : i + 1 \in 1..Len(q) /\ t[i] = q[i + 1]
  BY <1>1
<1> HIDE DEF h, t
<1>4. ASSUME NEW i \in 1..Len(t), NEW j \in 1..Len(t), t[i].sys \in Bare, Same(t[i], t[j])
      PROVE  i = j
  <2>1. i + 1 \in 1..Len(q) /\ j + 1 \in 1..Len(q) /\ t[i] = q[i + 1] /\ t[j] = q[j + 1]
    BY <1>3
  <2>2. i + 1 = j + 1 BY <1>2, <1>4, <2>1
  <2> QED BY <2>2
<1>5. Listed(l, s, t) BY <1>1, <1>3, <1>4, ListedBy
<1>6. ASSUME NEW i \in 1..Len(t), h.sys \in Bare PROVE ~Same(h, t[i])
  <2>1. i + 1 \in 1..Len(q) /\ t[i] = q[i + 1] /\ 1 # i + 1 BY <1>3
  <2> QED BY <1>2, <1>3, <1>6, <2>1
<1>7. Placed(l, s, h) BY <1>1, <1>3
<1> QED BY <1>3, <1>5, <1>6, <1>7 DEF h, t

\* A call is made for the first time by its run, or recognised.
LEMMA MakeCallOnce ==
  ASSUME Inv, Once, NEW r \in Runs, MakeCall(r)
  PROVE  Once'
<1> DEFINE s == Here(r)
           calls == eng[r].calls
           c == Head(calls)
           again == {m \in made : m.sys = c.sys /\ m.key = c.key /\ m.run = r}
           new == [sys |-> c.sys, key |-> c.key, dedupes |-> c.dedupes,
                   run |-> r, step |-> s, n |-> Cardinality(again)]
           e == [eng[r] EXCEPT !.calls = Tail(calls)]
           rec == run[r]
           M == MadeFor(r)
           N == {m \in made' : m.run = r}
<1>1. /\ eng[r].pc = "writing" /\ calls # <<>> /\ lane' = lane /\ run' = run
      /\ eng' = [eng EXCEPT ![r].calls = Tail(@)]
      /\ made' = IF c.dedupes /\ CarriedOut(c) THEN made ELSE made \cup {new}
  BY DEF MakeCall
<1>2. lane \in AllLanes /\ r \in DOMAIN eng /\ Walked(eng[r], rec.dec, lane)
  BY DEF Inv
<1>3. Attempt(rec, eng[r], M, lane) BY DEF Once
<1>4. run'[r] = rec /\ eng'[r] = e BY <1>1, <1>2
<1>5. OnlyRun(r) BY <1>1 DEF OnlyRun, Inv
<1>6. /\ e.pc = "writing" /\ e.calls = Tail(calls) /\ e.i = eng[r].i /\ e.st = eng[r].st
      /\ s = StepsOf(lane)[e.i] /\ e.i \in 1..Len(StepsOf(lane))
  BY <1>1, <1>2 DEF Walked, Here, Step
<1>7. /\ Listed(lane, s, calls)
      /\ \A d \in M : d.sys \in Bare => \A i \in 1..Len(calls) : ~Same(d, calls[i])
  BY <1>1, <1>3, <1>6 DEF Attempt, Unrepeated
<1>8. /\ Placed(lane, s, c) /\ Listed(lane, s, Tail(calls)) /\ 1 \in 1..Len(calls) /\ calls[1] = c
      /\ \A i \in 1..Len(Tail(calls)) :
           /\ i + 1 \in 1..Len(calls) /\ Tail(calls)[i] = calls[i + 1]
           /\ c.sys \in Bare => ~Same(c, Tail(calls)[i])
  BY <1>1, <1>7, ListedTail
<1>9. ~(c.dedupes /\ CarriedOut(c)) => again = {}
  <2>1. ASSUME NEW m \in again PROVE c.dedupes /\ CarriedOut(c)
    <3>1. m \in made /\ m.sys = c.sys /\ m.key = c.key /\ m.run = r OBVIOUS
    <3>2. m \in M BY <3>1 DEF MadeFor
    <3>3. Same(m, calls[1]) BY <1>8, <3>1 DEF Same
    <3>4. c.sys \notin Bare BY <1>7, <1>8, <3>1, <3>2, <3>3
    <3> QED BY <1>8, <3>1, <3>4 DEF Placed, CarriedOut
  <2> QED BY <2>1
<1>10. ~(c.dedupes /\ CarriedOut(c)) => new.n = 0
  BY <1>9, FS_EmptySet
<1>11. /\ new.sys = c.sys /\ new.key = c.key /\ new.dedupes = c.dedupes
       /\ new.run = r /\ new.step = s
  OBVIOUS
<1> HIDE DEF again, new, c, calls
<1>12. Placed(lane, s, new) BY <1>8, <1>11 DEF Placed, Opens
<1>13. made \subseteq made' /\ \A d \in made' \ made : d.run = r /\ Placed(lane, d.step, d) /\ d.n = 0
  BY <1>1, <1>10, <1>11, <1>12
<1>14. \A d \in N : d \in M \/ d = new BY <1>1 DEF MadeFor
<1> HIDE DEF e, rec, M, N
<1>15. Phased(rec, e) BY <1>1, <1>3, <1>6 DEF Attempt, Phased
<1>16. Mapped(rec, e, lane) BY <1>3, <1>6 DEF Attempt, Mapped
<1>17. rec.status \in {"driving", "failed"} BY <1>1, <1>3 DEF Attempt, Phased
<1>18. ASSUME NEW d \in N, d.sys \in Bare PROVE Remembered(rec, e, lane, d)
  <2>1. CASE d \in M
    <3>1. Remembered(rec, eng[r], lane, d) BY <1>3, <1>18, <2>1 DEF Attempt, Accounted
    <3> QED BY <1>1, <1>6, <3>1 DEF Remembered
  <2>2. CASE d = new
    <3>1. /\ Opens(lane, new) => s = "ticket"
          /\ ~Opens(lane, new) => s = LastStep(lane)
      BY <1>2, <1>12, <1>18, <2>2, PlacedIsAStep
    <3>2. s = LastStep(lane) => e.i = Len(StepsOf(lane))
      <4>1. Len(StepsOf(lane)) \in 1..Len(StepsOf(lane)) BY <1>2, HasSteps
      <4> QED BY <1>2, <1>6, <4>1, StepsDiffer DEF Differ, LastStep
    <3> QED BY <1>6, <2>2, <3>1, <3>2 DEF Remembered
  <2> QED BY <1>14, <2>1, <2>2
<1>19. Accounted(rec, e, N, lane) BY <1>17, <1>18 DEF Accounted
<1>20. ASSUME NEW d \in N, d.sys \in Bare, NEW i \in 1..Len(Tail(calls))
       PROVE  ~Same(d, Tail(calls)[i])
  <2>1. CASE d \in M BY <1>7, <1>8, <1>20, <2>1
  <2>2. CASE d = new BY <1>8, <1>11, <1>20, <2>2 DEF Same
  <2> QED BY <1>14, <2>1, <2>2
<1>21. Unrepeated(e, N, lane) BY <1>6, <1>8, <1>20 DEF Unrepeated
<1>22. Attempt(rec, e, N, lane) BY <1>15, <1>16, <1>19, <1>21 DEF Attempt
<1>23. N = {m \in made' : m.run = r} BY DEF N
<1> QED BY <1>4, <1>5, <1>13, <1>22, <1>23, OneAttempt

\* The effect of a finished step is recorded: for the ticket always under the
\* same hash, and behind the last step the run is over.
LEMMA EndEffectOnce ==
  ASSUME Inv, Once, NEW r \in Runs, EndEffect(r)
  PROVE  Once'
<1> DEFINE s == Here(r)
           hash == ActionHash(lane, s, eng[r].st)
           st == [eng[r].st EXCEPT !.eff[s] = hash]
           M == MadeFor(r)
<1>1. eng[r].pc = "writing" /\ Onward(r, st) /\ lane' = lane /\ made' = made
  BY DEF EndEffect
<1>2. lane \in AllLanes /\ Walked(eng[r], run[r].dec, lane) BY DEF Inv
<1>3. Attempt(run[r], eng[r], M, lane) BY DEF Once
<1>4. /\ DOMAIN eng[r].st = {"art", "dec", "eff", "decision"}
      /\ DOMAIN eng[r].st.eff = StepsIn(lane) /\ Holds(lane, eng[r].st.eff)
  BY <1>1, <1>2, <1>3 DEF Walked, Attempt, Mapped
<1>5. s = StepsOf(lane)[eng[r].i] /\ s \in StepsIn(lane) BY <1>2 DEF Walked, StepsIn, Here, Step
<1>6. /\ hash # NoEffect
      /\ lane = "msp" /\ s = "ticket" => hash = TicketHash
  BY DEF ActionHash, MspHash, NoEffect, TicketHash
<1>7. /\ DOMAIN st = {"art", "dec", "eff", "decision"}
      /\ st.eff = [eng[r].st.eff EXCEPT ![s] = hash]
  BY <1>4
<1> HIDE DEF st, hash, s, M
<1>8. DOMAIN st.eff = StepsIn(lane) BY <1>4, <1>7
<1>9. /\ st.eff[s] = hash
      /\ \A u \in StepsIn(lane) : u # s => st.eff[u] = eng[r].st.eff[u]
  BY <1>4, <1>5, <1>7
<1>10. Holds(lane, st.eff)
  BY <1>4, <1>6, <1>9, MspHasTicket DEF Holds
<1>11. \A c \in M : c.sys \in Bare /\ Opens(lane, c) => st.eff["ticket"] = TicketHash
  <2> SUFFICES ASSUME NEW c \in M, c.sys \in Bare, Opens(lane, c)
               PROVE  st.eff["ticket"] = TicketHash
    OBVIOUS
  <2>1. s = "ticket" \/ eng[r].st.eff["ticket"] = TicketHash
    BY <1>1, <1>3, <1>5 DEF Attempt, Accounted, Remembered
  <2>2. lane = "msp" /\ "ticket" \in StepsIn(lane) BY MspHasTicket DEF Opens
  <2> QED BY <1>6, <1>9, <2>1, <2>2
<1>12. \A c \in M : c.sys \in Bare /\ ~Opens(lane, c) => IsLast(r)
  BY <1>1, <1>3 DEF Attempt, Accounted, Remembered, IsLast
<1>13. ASSUME IsLast(r), NEW c \in M, c.sys \in Bare PROVE st.eff[c.step] # NoEffect
  <2>1. Placed(lane, c.step, c) BY DEF Once, MadeFor, M
  <2>2. CASE Opens(lane, c)
    <3>1. c.step = "ticket" BY <1>2, <1>13, <2>1, <2>2, PlacedIsAStep
    <3> QED BY <1>11, <1>13, <2>2, <3>1 DEF TicketHash, NoEffect
  <2>3. CASE ~Opens(lane, c)
    <3>1. c.step = LastStep(lane) BY <1>2, <1>13, <2>1, <2>3, PlacedIsAStep
    <3>2. s = LastStep(lane) BY <1>5, <1>13 DEF IsLast, LastStep
    <3> QED BY <1>6, <1>9, <3>1, <3>2
  <2> QED BY <2>2, <2>3
<1>14. ~IsLast(r) => OnlyTickets(M, lane, st.eff) BY <1>11, <1>12 DEF OnlyTickets
<1> QED BY <1>1, <1>7, <1>8, <1>10, <1>13, <1>14, OnwardOnce DEF M

LEMMA FailPassOnce ==
  ASSUME Inv, Once, NEW r \in Runs, FailPass(r), eng[r].pc # "idle"
  PROVE  Once'
<1> DEFINE outcome == [run[r] EXCEPT !.status = "failed"]
<1>1. EndPass(r, outcome) /\ lane' = lane /\ made' = made BY DEF FailPass
<1>2. Recorded(run[r], lane) /\ Attempt(run[r], eng[r], MadeFor(r), lane) BY DEF Inv, Once
<1>3. outcome.status = "failed" /\ outcome.eff = run[r].eff BY <1>2 DEF Recorded
<1>4. DOMAIN outcome.eff = StepsIn(lane) BY <1>2, <1>3 DEF Attempt, Mapped
<1> HIDE DEF outcome
<1> QED BY <1>1, <1>3, <1>4, EndPassOnce

-----------------------------------------------------------------------------
LEMMA OnceInit == Init => Once
<1> SUFFICES ASSUME Init PROVE Once
  OBVIOUS
<1>1. lane \in AllLanes /\ made = {} BY LaneAssumption DEF Init
<1>2. ASSUME NEW r \in Runs PROVE Attempt(run[r], eng[r], MadeFor(r), lane)
  <2> DEFINE rec == NewRun(lane)
             e == Idle(lane)
             M == MadeFor(r)
  <2>1. run[r] = rec /\ eng[r] = e BY DEF Init
  <2>2. M = {} BY <1>1 DEF MadeFor
  <2>3. rec.status = "none" /\ rec.eff = [s \in StepsIn(lane) |-> NoEffect]
    BY DEF NewRun, StepsIn
  <2>4. DOMAIN e.st.eff = StepsIn(lane) /\ Holds(lane, e.st.eff) /\ e.pc = "idle"
    BY <1>1, IdleIsMapped
  <2> HIDE DEF rec, e, M
  <2>5. Phased(rec, e) BY <2>3, <2>4 DEF Phased, Statuses
  <2>6. Mapped(rec, e, lane) BY <2>3, <2>4, MspHasTicket DEF Mapped, Holds
  <2>7. Accounted(rec, e, M, lane) BY <2>2 DEF Accounted
  <2>8. Unrepeated(e, M, lane) BY <2>4 DEF Unrepeated
  <2>9. Attempt(rec, e, M, lane) BY <2>5, <2>6, <2>7, <2>8 DEF Attempt
  <2> QED BY <2>1, <2>9 DEF M
<1> QED BY <1>1, <1>2 DEF Once

LEMMA OnceNext == Inv /\ Once /\ [Next]_vars => Once'
<1> SUFFICES ASSUME Inv, Once, [Next]_vars PROVE Once'
  OBVIOUS
<1>1. CASE UNCHANGED vars
  BY <1>1 DEF vars, Once, MadeFor, Runs
<1>2. ASSUME NEW r \in Runs,
             \/ StartRun(r) \/ Proceed(r) \/ ProceedByApi(r) \/ Regenerate(r) \/ Back(r)
             \/ Suspend(r) \/ Forward(r) \/ BeginEffect(r) \/ MakeCall(r) \/ EndEffect(r)
             \/ Throw(r) \/ Refuse(r) \/ Break(r) \/ GiveUp(r)
      PROVE  Once'
  <2>1. CASE StartRun(r) BY <2>1, StartRunOnce
  <2>2. CASE Proceed(r) \/ ProceedByApi(r)
    <3>1. PICK d : Resume(r, d) BY <2>2 DEF Proceed, ProceedByApi
    <3> QED BY <3>1, ResumeOnce
  <2>3. CASE Regenerate(r)
    <3>1. Resume(r, [action |-> "regenerate", edits |-> NoEdits]) BY <2>3 DEF Regenerate
    <3> QED BY <3>1, ResumeOnce
  <2>4. CASE Back(r) BY <2>4, BackOnce
  <2>5. CASE Suspend(r) BY <2>5, SuspendOnce
  <2>6. CASE Forward(r) BY <2>6, ForwardOnce
  <2>7. CASE BeginEffect(r) BY <2>7, BeginEffectOnce
  <2>8. CASE MakeCall(r) BY <2>8, MakeCallOnce
  <2>9. CASE EndEffect(r) BY <2>9, EndEffectOnce
  <2>10. CASE Throw(r) \/ Refuse(r) \/ Break(r)
    <3>1. FailPass(r) /\ eng[r].pc # "idle" BY <2>10 DEF Throw, Refuse, Break
    <3> QED BY <3>1, FailPassOnce
  <2>11. CASE GiveUp(r) BY <2>11, GiveUpOnce
  <2> QED
    BY <1>2, <2>1, <2>2, <2>3, <2>4, <2>5, <2>6, <2>7, <2>8, <2>9, <2>10, <2>11
<1> QED BY <1>1, <1>2 DEF Next

\* Whatever the lane computes, and however often a human goes back or changes
\* an artifact: what a system would carry out twice is called once, and known
\* wherever the next attempt looks.
THEOREM CallsAreKnown == Spec => []Once
<1> QED BY OnceInit, OnceNext, PassesFollowTheRecord, PTL DEF Spec

\* The effect map prevents every repetition, given-up passes included: a run
\* never has a call carried out twice (the effect guard of each lane's step).
THEOREM NoCallTwice == Spec => []StepWritesOnce
<1>1. Once => StepWritesOnce BY DEF Once, StepWritesOnce
<1> QED BY <1>1, CallsAreKnown, PTL

\* When a run waits for its human, or is completed, its record has the effect of
\* every call of the run that would be carried out twice: the suspend payload
\* of the msp lane repeats it, and a review is written behind the last step.
THEOREM EffectsAreOnRecord == Spec => []EffectsAreKnown
<1>1. Inv /\ Once => EffectsAreKnown
  <2> SUFFICES ASSUME Inv, Once, NEW r \in Runs, run[r].status \in {"review", "completed"},
                      eng[r].pc = "idle", NEW c \in made, c.run = r, ~c.dedupes
               PROVE  run[r].eff[c.step] # NoEffect
    BY DEF EffectsAreKnown
  <2>1. Placed(lane, c.step, c) /\ lane \in AllLanes BY DEF Once, Inv
  <2>2. c.sys \in Bare /\ c \in MadeFor(r) BY <2>1 DEF Placed, MadeFor
  <2>3. Attempt(run[r], eng[r], MadeFor(r), lane) BY DEF Once
  <2>4. CASE run[r].status = "completed"
    BY <2>2, <2>3, <2>4 DEF Attempt, Accounted
  <2>5. CASE run[r].status = "review"
    <3>1. OnlyTickets(MadeFor(r), lane, run[r].eff) BY <2>5, ReviewKnows
    <3> QED BY <2>2, <3>1, TicketsHaveEffects
  <2> QED BY <2>4, <2>5
<1> QED BY <1>1, CallsAreKnown, PassesFollowTheRecord, PTL

-----------------------------------------------------------------------------
(***************************************************************************)
(* The record asks for every call.                                         *)
(*                                                                         *)
(* The calls of an effect are computed once, from the envelope the pass    *)
(* carries, and made one after the other, while other runs' passes make    *)
(* calls of their own. That the record of the run asks for each of them    *)
(* rests on three facts: the pass carries the artifacts of the record; a   *)
(* step that was let forward has one; and the effect of the last step is   *)
(* recorded nowhere while there is a pass.                                 *)
(***************************************************************************)

\* What a lane's calls depend on: artifacts and decisions, and of what can be
\* looked up only what does not change.
SameAsked(l, st, tt, known, again) ==
  /\ st.art = tt.art /\ st.dec = tt.dec
  /\ l = "msp" => st.eff["send"] = NoEffect /\ tt.eff["send"] = NoEffect
  /\ l \in {"offboarding", "screening"} => known.failing = again.failing
  /\ l = "review" => known.login = again.login

\* The facts of a case, with nothing carried out.
Facts(f) == WithField(f, "carried", {})

\* What the record asks for behind step s.
Asked(rec, l, s, f) == Writes(l, s, Envelope(rec), Facts(f), DeskDedupes)

Among(calls, asked) ==
  \A i \in 1..Len(calls) : \E k \in 1..Len(asked) : asked[k] = calls[i]

\* A step that was let forward has its artifact.
Stored(rec, l) == \A s \in StepsIn(l) : IsForward(rec.dec[s]) => rec.art[s].v # 0

SendUnrecorded(l, eff) == l = "msp" => eff["send"] = NoEffect

Sent(rec, e, l, f) ==
  /\ DOMAIN rec.art = StepsIn(l) /\ rec.next \in Nat \ {0}
  /\ rec.status = "review" => rec.art[StepsOf(l)[rec.at]].v # 0
  /\ e.pc # "idle" => e.st.art = rec.art
  /\ e.pc # "idle" \/ rec.status \notin Ended => Stored(rec, l) /\ SendUnrecorded(l, rec.eff)
  /\ SendUnrecorded(l, e.st.eff)
  /\ e.pc = "writing" => Among(e.calls, Asked(rec, l, StepsOf(l)[e.i], f))

AskedFor ==
  /\ facts \in FactsOf(lane)
  /\ \A r \in Runs : Sent(run[r], eng[r], lane, facts)

-----------------------------------------------------------------------------
LEMMA EffectiveSame ==
  ASSUME NEW st, NEW tt, st.art = tt.art, st.dec = tt.dec
  PROVE  \A u : /\ EffectiveArtifact(st, u) = EffectiveArtifact(tt, u)
                /\ HasArtifact(st, u) = HasArtifact(tt, u)
BY DEF EffectiveArtifact, HasArtifact

LEMMA LaneWritesSame ==
  ASSUME NEW l \in AllLanes, NEW s, NEW st, NEW tt, NEW known, NEW again, NEW dedupes,
         SameAsked(l, st, tt, known, again), HasArtifact(st, s)
  PROVE  LaneWrites(l, s, st, known, dedupes) = LaneWrites(l, s, tt, again, dedupes)
<1>1. \A u : EffectiveArtifact(st, u) = EffectiveArtifact(tt, u) BY EffectiveSame DEF SameAsked
<1>2. st.art = tt.art /\ HasArtifact(tt, s) BY EffectiveSame DEF SameAsked
<1>3. CASE l = "security"
  <2>1. ContainEffect(st) = ContainEffect(tt)
    <3> DEFINE S == StoredOr(st, "contain", ComputeContainPreview(st))
               T == StoredOr(tt, "contain", ComputeContainPreview(tt))
    <3>1. ComputeContainPreview(st) = ComputeContainPreview(tt)
      BY <1>1, EffectiveSame DEF ComputeContainPreview, DerivedFrom, SameAsked
    <3>2. S = T BY <1>1, <3>1, EffectiveSame DEF StoredOr, SameAsked
    <3> HIDE DEF S, T
    <3> QED BY <3>2 DEF ContainEffect, S, T
  <2>2. SecurityWrites(s, st) = SecurityWrites(s, tt) BY <2>1 DEF SecurityWrites
  <2> QED BY <1>3, <2>2 DEF LaneWrites
<1>4. CASE l = "msp"
  <2>1. SendComment(st, known, dedupes) = SendComment(tt, again, dedupes)
    BY <1>1, <1>4 DEF SendComment, SameAsked
  <2>2. MailSend(st) = MailSend(tt) BY <1>1 DEF MailSend
  <2>3. TicketEffect(st, dedupes) = TicketEffect(tt, dedupes) BY <1>1 DEF TicketEffect
  <2>4. MspWrites(s, st, known, dedupes) = MspWrites(s, tt, again, dedupes)
    BY <2>1, <2>2, <2>3 DEF MspWrites, ExecuteSend
  <2> QED BY <1>4, <2>4 DEF LaneWrites
<1>5. CASE l = "features"
  <2>1. FeaturesWrites(s, st) = FeaturesWrites(s, tt) BY <1>1 DEF FeaturesWrites, DraftPullRequest
  <2> QED BY <1>5, <2>1 DEF LaneWrites
<1>6. CASE l = "issues"
  <2>1. IssuesWrites(s, st) = IssuesWrites(s, tt) BY <1>1 DEF IssuesWrites, FixPullRequest
  <2> QED BY <1>6, <2>1 DEF LaneWrites
<1>7. CASE l = "dependencies"
  <2>1. BumpPullRequests(st) = BumpPullRequests(tt)
    <3> DEFINE merge == EffectiveArtifact(st, "merge")
               apply == EffectiveArtifact(st, "apply")
    <3>1. EffectiveArtifact(tt, "merge") = merge /\ EffectiveArtifact(tt, "apply") = apply BY <1>1
    <3> HIDE DEF merge, apply
    <3> QED BY <3>1 DEF BumpPullRequests, merge, apply
  <2>2. DependenciesWrites(s, st) = DependenciesWrites(s, tt) BY <2>1 DEF DependenciesWrites
  <2> QED BY <1>7, <2>2 DEF LaneWrites
<1>8. CASE l = "accessibility"
  <2>1. AccessibilityWrites(s, st) = AccessibilityWrites(s, tt)
    BY <1>1, <1>2 DEF AccessibilityWrites, FixesPullRequest
  <2> QED BY <1>8, <2>1 DEF LaneWrites
<1>9. CASE l \in {"vendors", "onboarding", "leave", "hr-help", "bills"}
  <2>1. /\ VendorsWrites(s, st) = VendorsWrites(s, tt)
        /\ OnboardingWrites(s, st) = OnboardingWrites(s, tt)
        /\ LeaveWrites(s, st) = LeaveWrites(s, tt)
        /\ BillsWrites(s, st) = BillsWrites(s, tt)
    BY <1>1 DEF VendorsWrites, OnboardingWrites, LeaveWrites, BillsWrites
  <2>2. HrHelpWrites(s, st) = HrHelpWrites(s, tt) BY <1>1 DEF HrHelpWrites, RecordAnswer
  <2> QED BY <1>9, <2>1, <2>2 DEF LaneWrites
<1>10. CASE l = "offboarding"
  <2>1. \A plan : ExecuteRevocations(plan, known) = ExecuteRevocations(plan, again)
    BY <1>10 DEF ExecuteRevocations, SameAsked
  <2>2. OffboardingWrites(s, st, known) = OffboardingWrites(s, tt, again)
    BY <1>1, <2>1 DEF OffboardingWrites
  <2> QED BY <1>10, <2>2 DEF LaneWrites
<1>11. CASE l = "screening"
  <2>1. \A plan : ExecuteSchedule(plan, known) = ExecuteSchedule(plan, again)
    BY <1>11 DEF ExecuteSchedule, SameAsked
  <2>2. ScreeningWrites(s, st, known) = ScreeningWrites(s, tt, again)
    BY <1>1, <2>1 DEF ScreeningWrites
  <2> QED BY <1>11, <2>2 DEF LaneWrites
<1>12. CASE l = "review"
  <2>1. PostReview(st, known) = PostReview(tt, again)
    BY <1>1, <1>12 DEF PostReview, SameAsked
  <2>2. ReviewWrites(s, st, known) = ReviewWrites(s, tt, again) BY <2>1 DEF ReviewWrites
  <2> QED BY <1>12, <2>2 DEF LaneWrites
<1> QED BY <1>3, <1>4, <1>5, <1>6, <1>7, <1>8, <1>9, <1>10, <1>11, <1>12 DEF AllLanes

LEMMA WritesSame ==
  ASSUME NEW l \in AllLanes, NEW s, NEW st, NEW tt, NEW known, NEW again, NEW dedupes,
         SameAsked(l, st, tt, known, again), HasArtifact(st, s)
  PROVE  Writes(l, s, st, known, dedupes) = Writes(l, s, tt, again, dedupes)
<1>1. HasArtifact(tt, s) BY EffectiveSame DEF SameAsked
<1>2. Filled(l, s, st, known) = {st} /\ Filled(l, s, tt, again) = {tt} BY <1>1 DEF Filled
<1>3. (CHOOSE x \in {st} : TRUE) = st /\ (CHOOSE x \in {tt} : TRUE) = tt OBVIOUS
<1>4. /\ Writes(l, s, st, known, dedupes) = LaneWrites(l, s, st, known, dedupes)
      /\ Writes(l, s, tt, again, dedupes) = LaneWrites(l, s, tt, again, dedupes)
  BY <1>2, <1>3 DEF Writes
<1> QED BY <1>4, LaneWritesSame

\* What the calls of a lane look up are facts.
LEMMA KnownSame ==
  ASSUME NEW l \in AllLanes, NEW f \in FactsOf(l), NEW C, NEW D
  PROVE  LET known == WithField(f, "carried", C)
             again == WithField(f, "carried", D)
         IN /\ l \in {"offboarding", "screening"} => known.failing = again.failing
            /\ l = "review" => known.login = again.login
<1>1. l = "offboarding" => "failing" \in DOMAIN f BY DEF FactsOf, OffboardingFacts
<1>2. l = "screening" => "failing" \in DOMAIN f BY DEF FactsOf, ScreeningFacts
<1>3. l = "review" => "login" \in DOMAIN f BY DEF FactsOf, ReviewFacts
<1>4. \A x \in DOMAIN f \ {"carried"} :
        WithField(f, "carried", C)[x] = f[x] /\ WithField(f, "carried", D)[x] = f[x]
  BY DEF WithField
<1> QED BY <1>1, <1>2, <1>3, <1>4

-----------------------------------------------------------------------------
(* What a step of a run does to what its record asks for *)

LEMMA OneSent ==
  ASSUME Inv, AskedFor, NEW r \in Runs, OnlyRun(r), facts' = facts,
         Sent(run'[r], eng'[r], lane, facts)
  PROVE  AskedFor'
<1>1. ASSUME NEW q \in Runs PROVE Sent(run'[q], eng'[q], lane', facts')
  <2>1. CASE q = r BY <2>1 DEF OnlyRun
  <2>2. CASE q # r BY <2>2 DEF OnlyRun, AskedFor
  <2> QED BY <2>1, <2>2
<1>2. AskedFor' <=> /\ facts' \in FactsOf(lane')
                    /\ \A q \in Runs : Sent(run'[q], eng'[q], lane', facts')
  BY DEF AskedFor, Runs
<1> QED BY <1>1, <1>2 DEF OnlyRun, AskedFor

\* A run that has ended, or not started, asks for nothing.
LEMMA IdleSent ==
  ASSUME NEW l \in AllLanes, NEW f, NEW rec, rec.art = NewRun(l).art, rec.next \in Nat \ {0},
         rec.dec = NewRun(l).dec, rec.status # "review",
         rec.status \in Ended \/ rec.eff = NewRun(l).eff
  PROVE  Sent(rec, Idle(l), l, f)
<1> DEFINE e == Idle(l)
<1>1. /\ rec.art = [s \in StepsIn(l) |-> NoArtifact] /\ rec.dec = [s \in StepsIn(l) |-> NoDecision]
      /\ NewRun(l).eff = [s \in StepsIn(l) |-> NoEffect]
  BY DEF NewRun, StepsIn
<1>2. e.pc = "idle" /\ e.st.eff = NewRun(l).eff BY DEF Idle, Envelope
<1>3. Stored(rec, l) BY <1>1 DEF Stored, IsForward, NoDecision
<1>4. SendUnrecorded(l, NewRun(l).eff) BY <1>1, MspHasTicket DEF SendUnrecorded
<1> HIDE DEF e
<1>5. rec.status \notin Ended => SendUnrecorded(l, rec.eff) BY <1>4
<1>6. Sent(rec, e, l, f)
  <2>1. e.pc = "idle" /\ SendUnrecorded(l, e.st.eff) BY <1>2, <1>4
  <2>2. DOMAIN rec.art = StepsIn(l) BY <1>1
  <2> QED BY <1>3, <1>5, <2>1, <2>2 DEF Sent
<1> QED BY <1>6 DEF e

LEMMA EndPassSent ==
  ASSUME Inv, AskedFor, NEW r \in Runs, NEW outcome, EndPass(r, outcome),
         lane' = lane, facts' = facts,
         DOMAIN outcome.art = StepsIn(lane), outcome.next \in Nat \ {0},
         outcome.status = "review" => outcome.art[StepsOf(lane)[outcome.at]].v # 0,
         outcome.status \notin Ended =>
           Stored(outcome, lane) /\ SendUnrecorded(lane, outcome.eff)
  PROVE  AskedFor'
<1> DEFINE rec == IF run[r].status = "driving" THEN outcome ELSE run[r]
           over == rec.status \in Ended
<1>1. /\ run' = [run EXCEPT ![r] = IF over THEN Cut(rec) ELSE rec]
      /\ eng' = [eng EXCEPT ![r] = IF over THEN Idle(lane)
                                   ELSE [@ EXCEPT !.pc = "idle", !.calls = <<>>]]
  BY DEF EndPass
<1>2. Sent(run[r], eng[r], lane, facts) BY DEF AskedFor
<1>3. /\ DOMAIN rec.art = StepsIn(lane) /\ rec.next \in Nat \ {0}
      /\ rec.status = "review" => rec.art[StepsOf(lane)[rec.at]].v # 0
      /\ rec.status \notin Ended => Stored(rec, lane) /\ SendUnrecorded(lane, rec.eff)
  BY <1>2 DEF Sent
<1> HIDE DEF rec
<1>4. OnlyRun(r) BY <1>1 DEF OnlyRun, Inv
<1>5. r \in DOMAIN run /\ r \in DOMAIN eng /\ lane \in AllLanes BY DEF Inv
<1>6. CASE over
  <2> DEFINE cut == Cut(rec)
  <2>1. run'[r] = cut /\ eng'[r] = Idle(lane) BY <1>1, <1>5, <1>6
  <2>2. /\ cut.art = NewRun(lane).art /\ cut.dec = NewRun(lane).dec /\ cut.next = 1
        /\ cut.status = rec.status
    BY DEF Cut, NewRun
  <2> HIDE DEF cut
  <2>3. Sent(cut, Idle(lane), lane, facts) BY <1>5, <1>6, <2>2, IdleSent DEF Ended
  <2> QED BY <1>4, <2>1, <2>3, OneSent
<1>7. CASE ~over
  <2> DEFINE e == [eng[r] EXCEPT !.pc = "idle", !.calls = <<>>]
  <2>1. run'[r] = rec /\ eng'[r] = e BY <1>1, <1>5, <1>7
  <2>2. e.pc = "idle" /\ e.st = eng[r].st
    <3>1. DOMAIN eng[r] = {"pc", "i", "st", "calls"} BY DEF Inv, Walked
    <3> QED BY <3>1
  <2> HIDE DEF e
  <2>3. Sent(rec, e, lane, facts) BY <1>2, <1>3, <1>7, <2>2 DEF Sent
  <2> QED BY <1>4, <2>1, <2>3, OneSent
<1> QED BY <1>6, <1>7

LEMMA WalkSent ==
  ASSUME Inv, AskedFor, NEW r \in Runs, NEW rec, NEW i, NEW st, Walk(r, i, st), Stores(r, rec),
         lane' = lane, facts' = facts,
         DOMAIN rec.art = StepsIn(lane), rec.next \in Nat \ {0}, rec.status # "review",
         st.art = rec.art, Stored(rec, lane),
         SendUnrecorded(lane, rec.eff), SendUnrecorded(lane, st.eff)
  PROVE  AskedFor'
<1> DEFINE e == [pc |-> "walking", i |-> i, st |-> st, calls |-> <<>>]
<1>1. run'[r] = rec /\ eng'[r] = e BY DEF Walk, Stores, Inv
<1>2. OnlyRun(r) BY DEF OnlyRun, Inv, Walk, Stores
<1>3. e.pc = "walking" /\ e.st = st OBVIOUS
<1> HIDE DEF e
<1>4. Sent(rec, e, lane, facts) BY <1>3 DEF Sent
<1> QED BY <1>1, <1>2, <1>4, OneSent

LEMMA OnwardSent ==
  ASSUME Inv, Once, AskedFor, NEW r \in Runs, NEW st, eng[r].pc # "idle", Onward(r, st),
         lane' = lane, facts' = facts, DOMAIN st = {"art", "dec", "eff", "decision"},
         st.art = eng[r].st.art, ~IsLast(r) => SendUnrecorded(lane, st.eff)
  PROVE  AskedFor'
<1>1. Recorded(run[r], lane) /\ Sent(run[r], eng[r], lane, facts) BY DEF Inv, AskedFor
<1>2. run[r].status # "review"
  <2>1. Attempt(run[r], eng[r], MadeFor(r), lane) BY DEF Once
  <2> QED BY <2>1 DEF Attempt, Phased
<1>3. /\ DOMAIN run[r].art = StepsIn(lane) /\ run[r].next \in Nat \ {0}
      /\ Stored(run[r], lane) /\ SendUnrecorded(lane, run[r].eff) /\ st.art = run[r].art
  BY <1>1 DEF Sent
<1>4. CASE IsLast(r)
  <2> DEFINE outcome == [WithEffects(run[r], st) EXCEPT !.status = "completed"]
  <2>1. EndPass(r, outcome) BY <1>4 DEF Onward
  <2>2. /\ outcome.status = "completed" /\ outcome.art = run[r].art /\ outcome.next = run[r].next
    BY <1>1 DEF WithEffects, Recorded
  <2> HIDE DEF outcome
  <2> QED BY <1>3, <2>1, <2>2, EndPassSent DEF Ended
<1>5. CASE ~IsLast(r)
  <2> DEFINE n == eng[r].i + 1
             next == ForwardState(st)
             rec == run[r]
  <2>1. Walk(r, n, next) /\ run' = run BY <1>5 DEF Onward
  <2>2. Stores(r, rec) BY <2>1 DEF Stores, Inv
  <2>3. next.eff = st.eff /\ next.art = st.art BY DEF ForwardState
  <2> HIDE DEF n, next
  <2> QED BY <1>2, <1>3, <1>5, <2>1, <2>2, <2>3, WalkSent
<1> QED BY <1>4, <1>5

-----------------------------------------------------------------------------
(* The run service's steps *)

LEMMA StartRunSent ==
  ASSUME Inv, AskedFor, NEW r \in Runs, StartRun(r)
  PROVE  AskedFor'
<1> DEFINE rec == [run[r] EXCEPT !.status = "driving"]
           st == Envelope(run[r])
<1>1. Recorded(run[r], lane) /\ Sent(run[r], eng[r], lane, facts) BY DEF Inv, AskedFor
<1>2. /\ run[r].status = "none" /\ run' = [run EXCEPT ![r].status = "driving"]
      /\ Walk(r, 1, st) /\ lane' = lane /\ facts' = facts
  BY DEF StartRun
<1>3. Stores(r, rec) BY <1>2 DEF Stores, Inv
<1>4. /\ rec.status = "driving" /\ rec.eff = run[r].eff /\ rec.art = run[r].art
      /\ rec.dec = run[r].dec /\ rec.next = run[r].next
  BY <1>1 DEF Recorded
<1>5. st.eff = run[r].eff /\ st.art = run[r].art BY DEF Envelope
<1> HIDE DEF rec, st
<1>6. /\ DOMAIN run[r].art = StepsIn(lane) /\ run[r].next \in Nat \ {0}
      /\ Stored(run[r], lane) /\ SendUnrecorded(lane, run[r].eff)
  BY <1>1, <1>2 DEF Sent, Ended
<1>7. Stored(rec, lane) BY <1>4, <1>6 DEF Stored
<1> QED BY <1>2, <1>3, <1>4, <1>5, <1>6, <1>7, WalkSent

\* The step a human decides has an artifact, and the envelope brings it along.
LEMMA ResumeSent ==
  ASSUME Inv, Once, AskedFor, NEW r \in Runs, NEW decision, Resume(r, decision)
  PROVE  AskedFor'
<1> DEFINE i == run[r].at
           rec == [run[r] EXCEPT !.status = "driving", !.dec[Step(i)] = decision]
           st == MergeState(eng[r].st, [Envelope(rec) EXCEPT !.decision = decision],
                            UnionsEffects(lane))
           eff == run[r].eff
<1>1. Recorded(run[r], lane) /\ Sent(run[r], eng[r], lane, facts) BY DEF Inv, AskedFor
<1>2. /\ run[r].status = "review" /\ run' = [run EXCEPT ![r] = rec]
      /\ Walk(r, i, st) /\ lane' = lane /\ facts' = facts
  BY DEF Resume
<1>3. Stores(r, rec) BY <1>2 DEF Stores, Inv
<1>4. /\ rec.status = "driving" /\ rec.eff = eff /\ rec.art = run[r].art /\ rec.next = run[r].next
      /\ rec.dec = [run[r].dec EXCEPT ![Step(i)] = decision]
  BY <1>1 DEF Recorded
<1>5. /\ st.art = rec.art
      /\ st.eff = [s \in DOMAIN eff |->
                     IF UnionsEffects(lane) /\ eff[s] = NoEffect THEN eng[r].st.eff[s] ELSE eff[s]]
  BY <1>4 DEF MergeState, Envelope
<1> HIDE DEF rec, st, eff
<1>6. /\ DOMAIN run[r].art = StepsIn(lane) /\ run[r].next \in Nat \ {0}
      /\ Stored(run[r], lane) /\ SendUnrecorded(lane, eff) /\ SendUnrecorded(lane, eng[r].st.eff)
      /\ run[r].art[Step(i)].v # 0
  BY <1>1, <1>2 DEF Sent, Ended, Step, eff
<1>7. Stored(rec, lane)
  <2> SUFFICES ASSUME NEW s \in StepsIn(lane), IsForward(rec.dec[s]) PROVE rec.art[s].v # 0
    BY DEF Stored
  <2>1. CASE s = Step(i) BY <1>4, <1>6, <2>1
  <2>2. CASE s # Step(i)
    <3>1. rec.dec[s] = run[r].dec[s] BY <1>1, <1>4, <2>2 DEF Recorded
    <3> QED BY <1>4, <1>6, <3>1 DEF Stored
  <2> QED BY <2>1, <2>2
<1>8. SendUnrecorded(lane, st.eff)
  <2>1. DOMAIN eff = StepsIn(lane) BY <1>2, ReviewKnows DEF eff
  <2> QED BY <1>5, <1>6, <2>1, MspHasTicket DEF SendUnrecorded
<1> QED BY <1>2, <1>3, <1>4, <1>5, <1>6, <1>7, <1>8, WalkSent

\* Going back drops the decisions with the artifacts they were made of.
LEMMA BackSent ==
  ASSUME Inv, AskedFor, NEW r \in Runs, Back(r)
  PROVE  AskedFor'
<1> DEFINE cut == InvalidateFrom(run[r], run[r].at - 1)
           rec == [cut EXCEPT !.status = "driving"]
           st == Envelope(cut)
           Kept(s) == \E j \in 1..(run[r].at - 1 - 1) : s = Step(j)
<1>1. Recorded(run[r], lane) /\ Sent(run[r], eng[r], lane, facts) BY DEF Inv, AskedFor
<1>2. /\ run[r].status = "review" /\ run' = [run EXCEPT ![r] = rec]
      /\ Walk(r, 1, st) /\ lane' = lane /\ facts' = facts
  BY DEF Back
<1>3. Stores(r, rec) BY <1>2 DEF Stores, Inv
<1>4. /\ DOMAIN cut = DOMAIN run[r] /\ cut.eff = run[r].eff /\ cut.next = run[r].next
      /\ cut.art = [s \in StepSet |-> IF Kept(s) THEN run[r].art[s] ELSE NoArtifact]
      /\ cut.dec = [s \in StepSet |-> IF Kept(s) THEN run[r].dec[s] ELSE NoDecision]
  BY <1>1 DEF Recorded, InvalidateFrom
<1>5. StepSet = StepsIn(lane) BY DEF StepSet, StepsIn, Step
<1> HIDE DEF cut, Kept
<1>6. /\ rec.status = "driving" /\ rec.eff = run[r].eff /\ rec.next = run[r].next
      /\ rec.art = cut.art /\ rec.dec = cut.dec
  BY <1>1, <1>4 DEF Recorded
<1>7. st.eff = run[r].eff /\ st.art = cut.art BY <1>4 DEF Envelope
<1> HIDE DEF rec, st
<1>8. /\ run[r].next \in Nat \ {0} /\ Stored(run[r], lane) /\ SendUnrecorded(lane, run[r].eff)
  BY <1>1, <1>2 DEF Sent, Ended
<1>9. DOMAIN rec.art = StepsIn(lane) BY <1>4, <1>5, <1>6
<1>10. Stored(rec, lane)
  <2> SUFFICES ASSUME NEW s \in StepsIn(lane), IsForward(rec.dec[s]) PROVE rec.art[s].v # 0
    BY DEF Stored
  <2>1. Kept(s) BY <1>4, <1>5, <1>6 DEF IsForward, NoDecision
  <2>2. rec.dec[s] = run[r].dec[s] /\ rec.art[s] = run[r].art[s] BY <1>4, <1>5, <1>6, <2>1
  <2> QED BY <1>8, <2>2 DEF Stored
<1> QED BY <1>2, <1>3, <1>6, <1>7, <1>8, <1>9, <1>10, WalkSent

\* A pass that was given up goes on with what its record still asks for.
LEMMA GiveUpSent ==
  ASSUME Inv, Once, AskedFor, NEW r \in Runs, GiveUp(r)
  PROVE  AskedFor'
<1> DEFINE rec == [run[r] EXCEPT !.status = "failed"]
           e == eng[r]
<1>1. Recorded(run[r], lane) /\ Sent(run[r], e, lane, facts) BY DEF Inv, AskedFor
<1>2. /\ run[r].status = "driving" /\ run' = [run EXCEPT ![r].status = "failed"]
      /\ eng' = eng /\ lane' = lane /\ facts' = facts
  BY DEF GiveUp
<1>3. OnlyRun(r) BY <1>2 DEF OnlyRun, Inv
<1>4. run'[r] = rec /\ eng'[r] = e BY <1>2 DEF Inv
<1>5. /\ rec.status = "failed" /\ rec.art = run[r].art /\ rec.dec = run[r].dec
      /\ rec.eff = run[r].eff /\ rec.next = run[r].next
  BY <1>1 DEF Recorded
<1> HIDE DEF rec, e
<1>6. Stored(run[r], lane) /\ SendUnrecorded(lane, run[r].eff)
  BY <1>1, <1>2 DEF Sent, Ended
<1>7. Stored(rec, lane) BY <1>5, <1>6 DEF Stored
<1>8. Envelope(rec) = Envelope(run[r]) BY <1>5 DEF Envelope
<1>9. \A s : Asked(rec, lane, s, facts) = Asked(run[r], lane, s, facts) BY <1>8 DEF Asked
<1>10. Sent(rec, e, lane, facts) BY <1>1, <1>5, <1>6, <1>7, <1>9 DEF Sent
<1> QED BY <1>2, <1>3, <1>4, <1>10, OneSent

-----------------------------------------------------------------------------
(* The engine's steps *)

LEMMA SuspendSent ==
  ASSUME Inv, AskedFor, NEW r \in Runs, Suspend(r)
  PROVE  AskedFor'
<1>1. PICK a \in Compute(lane, Here(r), eng[r].st, Known) :
        LET rec == [run[r] EXCEPT !.status = "review", !.at = eng[r].i, !.next = @ + 1,
                                  !.art[Here(r)] = WithField(a, "v", run[r].next)]
        IN EndPass(r, IF RepeatsEffects(lane) THEN WithEffects(rec, eng[r].st) ELSE rec)
  BY DEF Suspend
<1> DEFINE s == Here(r)
           new == WithField(a, "v", run[r].next)
           rec == [run[r] EXCEPT !.status = "review", !.at = eng[r].i, !.next = @ + 1,
                                 !.art[s] = new]
           outcome == IF RepeatsEffects(lane) THEN WithEffects(rec, eng[r].st) ELSE rec
           st == eng[r].st
<1>2. /\ Recorded(run[r], lane) /\ Walked(eng[r], run[r].dec, lane)
      /\ Sent(run[r], eng[r], lane, facts)
      /\ eng[r].pc = "walking" /\ lane' = lane /\ facts' = facts
  BY DEF Inv, AskedFor, Suspend
<1>3. new.v = run[r].next BY DEF WithField
<1> HIDE DEF new
<1>4. s \in StepsIn(lane) /\ s = StepsOf(lane)[eng[r].i]
  BY <1>2 DEF Walked, StepsIn, Here, Step
<1> HIDE DEF s
<1>5. /\ DOMAIN rec = DOMAIN run[r] /\ rec.at = eng[r].i /\ rec.eff = run[r].eff
      /\ rec.dec = run[r].dec /\ rec.next = run[r].next + 1
      /\ rec.art = [run[r].art EXCEPT ![s] = new]
  BY <1>2 DEF Recorded
<1> HIDE DEF rec
<1>6. EndPass(r, outcome) BY <1>1 DEF rec, new, s
<1>7. /\ outcome.at = rec.at /\ outcome.next = rec.next /\ outcome.art = rec.art
      /\ outcome.dec = rec.dec
      /\ outcome.eff = IF RepeatsEffects(lane)
                       THEN [u \in StepsIn(lane) |-> IF st.eff[u] # NoEffect THEN st.eff[u] ELSE run[r].eff[u]]
                       ELSE run[r].eff
  <2>1. StepSet = StepsIn(lane) BY DEF StepSet, StepsIn, Step
  <2> QED BY <1>2, <1>5, <2>1 DEF WithEffects, Recorded
<1> HIDE DEF outcome
<1>8. /\ DOMAIN run[r].art = StepsIn(lane) /\ run[r].next \in Nat \ {0}
      /\ Stored(run[r], lane) /\ SendUnrecorded(lane, run[r].eff) /\ SendUnrecorded(lane, st.eff)
  BY <1>2 DEF Sent
<1> HIDE DEF st
<1>9. DOMAIN outcome.art = StepsIn(lane) /\ outcome.next \in Nat \ {0} BY <1>5, <1>7, <1>8
<1>10. outcome.art[s].v # 0 BY <1>3, <1>4, <1>5, <1>7, <1>8
<1>11. outcome.art[StepsOf(lane)[outcome.at]].v # 0 BY <1>4, <1>5, <1>7, <1>10
<1>12. Stored(outcome, lane)
  <2> SUFFICES ASSUME NEW u \in StepsIn(lane), IsForward(outcome.dec[u]) PROVE outcome.art[u].v # 0
    BY DEF Stored
  <2>1. CASE u = s BY <1>10, <2>1
  <2>2. CASE u # s
    <3>1. outcome.art[u] = run[r].art[u] BY <1>5, <1>7, <1>8, <2>2
    <3> QED BY <1>5, <1>7, <1>8, <3>1 DEF Stored
  <2> QED BY <2>1, <2>2
<1>13. SendUnrecorded(lane, outcome.eff) BY <1>7, <1>8, MspHasTicket DEF SendUnrecorded
<1> QED BY <1>2, <1>6, <1>9, <1>11, <1>12, <1>13, EndPassSent

LEMMA ForwardSent ==
  ASSUME Inv, Once, AskedFor, NEW r \in Runs, Forward(r)
  PROVE  AskedFor'
<1> DEFINE st == eng[r].st
<1>1. /\ eng[r].pc = "walking" /\ Onward(r, st) /\ lane' = lane /\ facts' = facts
      /\ Sent(run[r], eng[r], lane, facts)
  BY DEF Forward, Passes, AskedFor
<1>2. DOMAIN st = {"art", "dec", "eff", "decision"} BY <1>1, WalkingKnows
<1>3. st.art = eng[r].st.art /\ SendUnrecorded(lane, st.eff) BY <1>1 DEF Sent
<1> HIDE DEF st
<1> QED BY <1>1, <1>2, <1>3, OnwardSent

\* What a pass computes from its envelope, its record asks for.
LEMMA ComputedIsAsked ==
  ASSUME Inv, AskedFor, NEW r \in Runs, eng[r].pc # "idle", NEW s \in StepsIn(lane),
         IsForward(run[r].dec[s])
  PROVE  /\ Writes(lane, s, eng[r].st, Known, DeskDedupes) = Asked(run[r], lane, s, facts)
         /\ Writes(lane, s, Envelope(run[r]), Known, DeskDedupes) = Asked(run[r], lane, s, facts)
<1> DEFINE st == eng[r].st
           tt == Envelope(run[r])
           known == Known
           again == Facts(facts)
<1>1. /\ lane \in AllLanes /\ facts \in FactsOf(lane) /\ Walked(eng[r], run[r].dec, lane)
      /\ Sent(run[r], eng[r], lane, facts)
  BY DEF Inv, AskedFor
<1>2. /\ lane \in {"offboarding", "screening"} => known.failing = again.failing
      /\ lane = "review" => known.login = again.login
  BY <1>1, KnownSame DEF Known, Facts
<1>3. tt.art = run[r].art /\ tt.dec = run[r].dec /\ tt.eff = run[r].eff BY DEF Envelope
<1>4. /\ st.art = tt.art /\ st.dec = tt.dec
      /\ SendUnrecorded(lane, st.eff) /\ SendUnrecorded(lane, tt.eff)
      /\ HasArtifact(st, s) /\ HasArtifact(tt, s)
  BY <1>1, <1>3 DEF Sent, Walked, HasArtifact, Stored
<1> HIDE DEF st, tt, known, again
<1>5. SameAsked(lane, st, tt, known, again) /\ SameAsked(lane, tt, tt, known, again)
  BY <1>2, <1>4 DEF SameAsked, SendUnrecorded
<1>6. /\ Writes(lane, s, st, known, DeskDedupes) = Writes(lane, s, tt, again, DeskDedupes)
      /\ Writes(lane, s, tt, known, DeskDedupes) = Writes(lane, s, tt, again, DeskDedupes)
  BY <1>1, <1>4, <1>5, WritesSame
<1> QED BY <1>6 DEF st, tt, known, again, Asked

LEMMA BeginEffectSent ==
  ASSUME Inv, AskedFor, NEW r \in Runs, BeginEffect(r)
  PROVE  AskedFor'
<1> DEFINE s == Here(r)
           calls == Writes(lane, s, eng[r].st, Known, DeskDedupes)
           e == [eng[r] EXCEPT !.pc = "writing", !.calls = calls]
           rec == run[r]
<1>1. /\ eng[r].pc = "walking" /\ Decided(r)
      /\ eng' = [eng EXCEPT ![r].pc = "writing", ![r].calls = calls]
      /\ lane' = lane /\ run' = run /\ facts' = facts
  BY DEF BeginEffect, Passes
<1>2. r \in DOMAIN eng /\ Walked(eng[r], rec.dec, lane) /\ Sent(rec, eng[r], lane, facts)
  BY DEF Inv, AskedFor
<1>3. s \in StepsIn(lane) /\ IsForward(rec.dec[s])
  <2>1. s \in StepsIn(lane) BY <1>2 DEF Walked, StepsIn, Here, Step
  <2> QED BY <1>1, <2>1, DecidedInRecord
<1>4. calls = Asked(rec, lane, s, facts) BY <1>1, <1>3, ComputedIsAsked
<1> HIDE DEF calls
<1>5. run'[r] = rec /\ eng'[r] = e BY <1>1, <1>2
<1>6. OnlyRun(r) BY <1>1 DEF OnlyRun, Inv
<1>7. /\ e.pc = "writing" /\ e.calls = calls /\ e.st = eng[r].st
      /\ s = StepsOf(lane)[e.i]
  BY <1>2 DEF Walked, Here, Step
<1> HIDE DEF e, rec, s
<1>8. Among(e.calls, Asked(rec, lane, s, facts)) BY <1>4, <1>7 DEF Among
<1>9. Sent(rec, e, lane, facts) BY <1>1, <1>2, <1>7, <1>8 DEF Sent
<1> QED BY <1>1, <1>5, <1>6, <1>9, OneSent

\* The calls a pass has left, first and others.
LEMMA CallsLeft ==
  ASSUME Inv, Once, NEW r \in Runs, eng[r].pc = "writing", eng[r].calls # <<>>
  PROVE  /\ 1 \in 1..Len(eng[r].calls) /\ eng[r].calls[1] = Head(eng[r].calls)
         /\ \A i \in 1..Len(Tail(eng[r].calls)) :
              /\ i + 1 \in 1..Len(eng[r].calls)
              /\ Tail(eng[r].calls)[i] = eng[r].calls[i + 1]
<1>1. Attempt(run[r], eng[r], MadeFor(r), lane) BY DEF Once
<1>2. Listed(lane, StepsOf(lane)[eng[r].i], eng[r].calls) BY <1>1 DEF Attempt, Unrepeated
<1> QED BY <1>2, ListedTail

LEMMA MakeCallSent ==
  ASSUME Inv, Once, AskedFor, NEW r \in Runs, MakeCall(r)
  PROVE  AskedFor'
<1> DEFINE calls == eng[r].calls
           e == [eng[r] EXCEPT !.calls = Tail(calls)]
           rec == run[r]
<1>1. /\ eng[r].pc = "writing" /\ calls # <<>> /\ lane' = lane /\ run' = run /\ facts' = facts
      /\ eng' = [eng EXCEPT ![r].calls = Tail(@)]
  BY DEF MakeCall
<1>2. r \in DOMAIN eng /\ Walked(eng[r], rec.dec, lane) /\ Sent(rec, eng[r], lane, facts)
  BY DEF Inv, AskedFor
<1>3. run'[r] = rec /\ eng'[r] = e BY <1>1, <1>2
<1>4. OnlyRun(r) BY <1>1 DEF OnlyRun, Inv
<1>5. e.pc = "writing" /\ e.calls = Tail(calls) /\ e.i = eng[r].i /\ e.st = eng[r].st
  BY <1>1, <1>2 DEF Walked
<1>6. \A i \in 1..Len(Tail(calls)) : i + 1 \in 1..Len(calls) /\ Tail(calls)[i] = calls[i + 1]
  BY <1>1, CallsLeft
<1>7. Among(calls, Asked(rec, lane, StepsOf(lane)[eng[r].i], facts)) BY <1>1, <1>2 DEF Sent
<1> HIDE DEF e, rec, calls
<1>8. Among(e.calls, Asked(rec, lane, StepsOf(lane)[e.i], facts))
  BY <1>5, <1>6, <1>7 DEF Among
<1>9. Sent(rec, e, lane, facts) BY <1>1, <1>2, <1>5, <1>8 DEF Sent
<1> QED BY <1>1, <1>3, <1>4, <1>9, OneSent

\* The effect of the last step is recorded when the run is over.
LEMMA EndEffectSent ==
  ASSUME Inv, Once, AskedFor, NEW r \in Runs, EndEffect(r)
  PROVE  AskedFor'
<1> DEFINE s == Here(r)
           hash == ActionHash(lane, s, eng[r].st)
           st == [eng[r].st EXCEPT !.eff[s] = hash]
<1>1. /\ eng[r].pc = "writing" /\ Onward(r, st) /\ lane' = lane /\ facts' = facts
  BY DEF EndEffect
<1>2. /\ lane \in AllLanes /\ Walked(eng[r], run[r].dec, lane) /\ Sent(run[r], eng[r], lane, facts)
  BY DEF Inv, AskedFor
<1>3. DOMAIN eng[r].st = {"art", "dec", "eff", "decision"} BY <1>1, <1>2 DEF Walked
<1>4. /\ DOMAIN st = {"art", "dec", "eff", "decision"} /\ st.art = eng[r].st.art
      /\ st.eff = [eng[r].st.eff EXCEPT ![s] = hash]
  BY <1>3
<1> HIDE DEF st, hash
<1>5. lane = "msp" /\ s = "send" => IsLast(r)
  <2> SUFFICES ASSUME lane = "msp", s = "send" PROVE IsLast(r)
    OBVIOUS
  <2>1. StepsOf(lane)[eng[r].i] = StepsOf(lane)[Len(StepsOf(lane))]
    BY MspHasTicket DEF LastStep, Here, Step
  <2>2. Len(StepsOf(lane)) \in 1..Len(StepsOf(lane)) BY <1>2, HasSteps
  <2> QED BY <1>2, <2>1, <2>2, StepsDiffer DEF Differ, IsLast, Walked
<1> HIDE DEF s
<1>6. ~IsLast(r) => SendUnrecorded(lane, st.eff)
  BY <1>2, <1>4, <1>5 DEF Sent, SendUnrecorded
<1> QED BY <1>1, <1>4, <1>6, OnwardSent

LEMMA FailPassSent ==
  ASSUME Inv, AskedFor, NEW r \in Runs, FailPass(r), facts' = facts
  PROVE  AskedFor'
<1> DEFINE outcome == [run[r] EXCEPT !.status = "failed"]
<1>1. EndPass(r, outcome) /\ lane' = lane BY DEF FailPass
<1>2. Recorded(run[r], lane) /\ Sent(run[r], eng[r], lane, facts) BY DEF Inv, AskedFor
<1>3. outcome.status = "failed" /\ outcome.art = run[r].art /\ outcome.next = run[r].next
  BY <1>2 DEF Recorded
<1>4. DOMAIN outcome.art = StepsIn(lane) /\ outcome.next \in Nat \ {0} BY <1>2, <1>3 DEF Sent
<1> HIDE DEF outcome
<1> QED BY <1>1, <1>3, <1>4, EndPassSent DEF Ended

-----------------------------------------------------------------------------
LEMMA AskedForInit == Init => AskedFor
<1> SUFFICES ASSUME Init PROVE AskedFor
  OBVIOUS
<1>1. lane \in AllLanes /\ facts \in FactsOf(lane) BY LaneAssumption DEF Init
<1>2. ASSUME NEW r \in Runs PROVE Sent(run[r], eng[r], lane, facts)
  <2> DEFINE rec == NewRun(lane)
  <2>1. run[r] = rec /\ eng[r] = Idle(lane) BY DEF Init
  <2>2. rec.status = "none" /\ rec.next = 1 BY DEF NewRun
  <2>3. rec.art = NewRun(lane).art /\ rec.dec = NewRun(lane).dec /\ rec.eff = NewRun(lane).eff
    OBVIOUS
  <2> HIDE DEF rec
  <2>4. Sent(rec, Idle(lane), lane, facts) BY <1>1, <2>2, <2>3, IdleSent
  <2> QED BY <2>1, <2>4
<1> QED BY <1>1, <1>2 DEF AskedFor

LEMMA AskedForNext == Inv /\ Once /\ AskedFor /\ [Next]_vars => AskedFor'
<1> SUFFICES ASSUME Inv, Once, AskedFor, [Next]_vars PROVE AskedFor'
  OBVIOUS
<1>1. CASE UNCHANGED vars
  BY <1>1 DEF vars, AskedFor, Runs
<1>2. ASSUME NEW r \in Runs,
             \/ StartRun(r) \/ Proceed(r) \/ ProceedByApi(r) \/ Regenerate(r) \/ Back(r)
             \/ Suspend(r) \/ Forward(r) \/ BeginEffect(r) \/ MakeCall(r) \/ EndEffect(r)
             \/ Throw(r) \/ Refuse(r) \/ Break(r) \/ GiveUp(r)
      PROVE  AskedFor'
  <2>1. CASE StartRun(r) BY <2>1, StartRunSent
  <2>2. CASE Proceed(r) \/ ProceedByApi(r)
    <3>1. PICK d : Resume(r, d) BY <2>2 DEF Proceed, ProceedByApi
    <3> QED BY <3>1, ResumeSent
  <2>3. CASE Regenerate(r)
    <3>1. Resume(r, [action |-> "regenerate", edits |-> NoEdits]) BY <2>3 DEF Regenerate
    <3> QED BY <3>1, ResumeSent
  <2>4. CASE Back(r) BY <2>4, BackSent
  <2>5. CASE Suspend(r) BY <2>5, SuspendSent
  <2>6. CASE Forward(r) BY <2>6, ForwardSent
  <2>7. CASE BeginEffect(r) BY <2>7, BeginEffectSent
  <2>8. CASE MakeCall(r) BY <2>8, MakeCallSent
  <2>9. CASE EndEffect(r) BY <2>9, EndEffectSent
  <2>10. CASE Throw(r) \/ Refuse(r) \/ Break(r)
    <3>1. FailPass(r) /\ facts' = facts BY <2>10 DEF Throw, Refuse, Break, FailPass
    <3> QED BY <3>1, FailPassSent
  <2>11. CASE GiveUp(r) BY <2>11, GiveUpSent
  <2> QED
    BY <1>2, <2>1, <2>2, <2>3, <2>4, <2>5, <2>6, <2>7, <2>8, <2>9, <2>10, <2>11
<1> QED BY <1>1, <1>2 DEF Next

\* Whatever a lane computes: the calls a pass still has to make, given up or
\* not, are among those the record of its run asks for.
THEOREM PassesAskForNothingElse == Spec => []AskedFor
<1> QED BY AskedForInit, AskedForNext, PassesFollowTheRecord, CallsAreKnown, PTL DEF Spec

\* Every call handed to the outside is one that the artifacts and the edits a
\* human approved ask for, in the record of the run service: the envelope wins
\* over what the workflow's snapshot still held (mergeState).
THEOREM EveryWriteIsAskedFor == Spec => WritesMatchApproval
<1>1. ASSUME Inv, Once, AskedFor, NEW r \in Runs, Calling(r)
      PROVE  LET asked == Writes(lane, Here(r), Envelope(run[r]), Known, DeskDedupes) IN
             \E i \in 1..Len(asked) : asked[i] = Head(eng[r].calls)
  <2> DEFINE s == Here(r)
             wanted == Asked(run[r], lane, s, facts)
  <2>1. /\ eng[r].pc = "writing" /\ eng[r].calls # <<>>
        /\ Walked(eng[r], run[r].dec, lane) /\ Sent(run[r], eng[r], lane, facts)
    BY <1>1 DEF Calling, Inv, AskedFor
  <2>2. s \in StepsIn(lane) /\ IsForward(run[r].dec[s]) /\ s = StepsOf(lane)[eng[r].i]
    BY <2>1 DEF Walked, StepsIn, Here, Step
  <2>3. Writes(lane, s, Envelope(run[r]), Known, DeskDedupes) = wanted
    BY <1>1, <2>1, <2>2, ComputedIsAsked
  <2>4. Among(eng[r].calls, wanted) BY <2>1, <2>2 DEF Sent
  <2>5. 1 \in 1..Len(eng[r].calls) /\ eng[r].calls[1] = Head(eng[r].calls)
    BY <1>1, <2>1, CallsLeft
  <2>6. \E i \in 1..Len(wanted) : wanted[i] = Head(eng[r].calls) BY <2>4, <2>5 DEF Among
  <2> HIDE DEF wanted
  <2> QED BY <2>3, <2>6
<1>2. Inv /\ Once /\ AskedFor =>
        [\A r \in Runs : Calling(r) =>
           LET asked == Writes(lane, Here(r), Envelope(run[r]), Known, DeskDedupes) IN
           \E i \in 1..Len(asked) : asked[i] = Head(eng[r].calls)]_vars
  BY <1>1
<1> QED
  BY <1>2, PassesFollowTheRecord, CallsAreKnown, PassesAskForNothingElse, PTL
     DEF WritesMatchApproval

-----------------------------------------------------------------------------
(***************************************************************************)
(* What is reviewed was computed from what stands.                         *)
(*                                                                         *)
(* A computed artifact carries the marks of the artifacts it was made of,  *)
(* all of them of earlier steps. A step is only computed when every step   *)
(* before it is decided, so that an undecided step, which is where a       *)
(* decision changes and where back cuts, has nothing stored behind it.     *)
(***************************************************************************)

\* The steps before the i-th.
Prior(l, i) == {StepsOf(l)[j] : j \in 1..(i - 1)}

\* An artifact carries the marks of the artifacts of S.
Has(a, S, st) == "from" \in DOMAIN a /\ a.from = DerivedFrom(st, S)

\* The marks of an artifact of the i-th step are those of earlier steps.
Shown(a, l, i, st) == \E S \in SUBSET Prior(l, i) : Has(a, S, st)

\* What a step shows: something computed now, or its stored copy.
Marked(a, l, i, st) ==
  \/ Shown(a, l, i, st)
  \/ HasArtifact(st, StepsOf(l)[i]) /\ a = EffectiveArtifact(st, StepsOf(l)[i])

Derived(rec, l) ==
  /\ \A j \in 1..Len(StepsOf(l)) : rec.art[StepsOf(l)[j]].v # 0 =>
       /\ Shown(rec.art[StepsOf(l)[j]], l, j, rec)
       /\ \A k \in 1..(j - 1) : IsForward(rec.dec[StepsOf(l)[k]])
  /\ rec.status = "review" => ~IsForward(rec.dec[StepsOf(l)[rec.at]])

Current == \A r \in Runs : Derived(run[r], lane)

-----------------------------------------------------------------------------
(* What the lanes compute *)

LEMMA HasIsMarked ==
  ASSUME NEW a, NEW l, NEW i, NEW st, NEW S, S \subseteq Prior(l, i), Has(a, S, st)
  PROVE  Marked(a, l, i, st)
BY DEF Marked, Shown

LEMMA SecurityMarks ==
  ASSUME NEW i \in 1..Len(StepsOf("security")), NEW st, NEW known,
         NEW a \in SecurityCompute(SecuritySteps[i], st, known)
  PROVE  Marked(a, "security", i, st)
<1>1. /\ StepsOf("security") = SecuritySteps /\ Len(SecuritySteps) = 6
      /\ SecuritySteps[1] = "ingest" /\ SecuritySteps[2] = "triage"
      /\ SecuritySteps[3] = "investigate" /\ SecuritySteps[4] = "decide"
      /\ SecuritySteps[5] = "approve" /\ SecuritySteps[6] = "contain"
  BY DEF StepsOf, SecuritySteps
<1> HIDE DEF SecuritySteps
<1>2. \A x \in ComputeIngest(st, known) : Has(x, {}, st)
  BY DEF Has, ComputeIngest
<1>3. \A x \in ComputeTriage(st, known) : Has(x, {"ingest"}, st)
  BY DEF Has, ComputeTriage
<1>4. ASSUME NEW x \in ComputeInvestigate(st, known) PROVE Has(x, {"ingest", "triage"}, st)
  <2>1. PICK v1, v2 :
          x = [claims |-> v1, missing |-> v2,
               from |-> DerivedFrom(st, {"ingest", "triage"})]
    BY <1>4 DEF ComputeInvestigate, Unless
  <2> QED BY <2>1 DEF Has
<1>5. \A x \in ComputeDecide(st, known) : Has(x, {"triage", "investigate"}, st)
  BY DEF Has, ComputeDecide, Unless
<1>6. \A x \in ComputeApprove(st) : Has(x, {"decide"}, st)
  BY DEF Has, ComputeApprove, Unless
<1>7. \A x \in ComputeContainPreview(st) : Has(x, {"decide"}, st)
  BY DEF Has, ComputeContainPreview, Unless
<1>8. CASE i = 1
  <2> QED BY <1>1, <1>2, <1>8, HasIsMarked DEF SecurityCompute
<1>9. CASE i = 2
  <2>1. 1 \in 1..(i - 1) BY <1>9
  <2>2. {"ingest"} \subseteq Prior("security", i) BY <1>1, <2>1 DEF Prior
  <2> QED BY <1>1, <1>3, <1>9, <2>2, HasIsMarked DEF SecurityCompute
<1>10. CASE i = 3
  <2>1. 1 \in 1..(i - 1) /\ 2 \in 1..(i - 1) BY <1>10
  <2>2. {"ingest", "triage"} \subseteq Prior("security", i) BY <1>1, <2>1 DEF Prior
  <2> QED BY <1>1, <1>4, <1>10, <2>2, HasIsMarked DEF SecurityCompute
<1>11. CASE i = 4
  <2>1. 2 \in 1..(i - 1) /\ 3 \in 1..(i - 1) BY <1>11
  <2>2. {"triage", "investigate"} \subseteq Prior("security", i) BY <1>1, <2>1 DEF Prior
  <2> QED BY <1>1, <1>5, <1>11, <2>2, HasIsMarked DEF SecurityCompute
<1>12. CASE i = 5
  <2>1. 4 \in 1..(i - 1) BY <1>12
  <2>2. {"decide"} \subseteq Prior("security", i) BY <1>1, <2>1 DEF Prior
  <2> QED BY <1>1, <1>6, <1>12, <2>2, HasIsMarked DEF SecurityCompute, StoredOr, Marked
<1>13. CASE i = 6
  <2>1. 4 \in 1..(i - 1) BY <1>13
  <2>2. {"decide"} \subseteq Prior("security", i) BY <1>1, <2>1 DEF Prior
  <2> QED BY <1>1, <1>7, <1>13, <2>2, HasIsMarked DEF SecurityCompute, StoredOr, Marked
<1> QED
  <2>1. i \in 1..6 BY <1>1
  <2> QED BY <2>1, <1>8, <1>9, <1>10, <1>11, <1>12, <1>13

LEMMA MspMarks ==
  ASSUME NEW i \in 1..Len(StepsOf("msp")), NEW st, NEW known,
         NEW a \in MspCompute(MspSteps[i], st, known)
  PROVE  Marked(a, "msp", i, st)
<1>1. /\ StepsOf("msp") = MspSteps /\ Len(MspSteps) = 5
      /\ MspSteps[1] = "intake" /\ MspSteps[2] = "ticket" /\ MspSteps[3] = "draft"
      /\ MspSteps[4] = "approve" /\ MspSteps[5] = "send"
  BY DEF StepsOf, MspSteps
<1> HIDE DEF MspSteps
<1>2. \A x \in ComputeMspIntake(st, known) : Has(x, {}, st)
  BY DEF Has, ComputeMspIntake
<1>3. \A x \in ComputeTicket(st) : Has(x, {"intake"}, st)
  BY DEF Has, ComputeTicket
<1>4. ASSUME NEW x \in ComputeDraft(st, known) PROVE Has(x, {"intake"}, st)
  <2>1. PICK v1, v2, v3, v4, v5, v6 :
          x = [body |-> v1, citations |-> v2, escalations |-> v3, escalated |-> v4, passageCount |-> v5, staleCount |-> v6,
               from |-> DerivedFrom(st, {"intake"})]
    BY <1>4 DEF ComputeDraft
  <2> QED BY <2>1 DEF Has
<1>5. \A x \in ComputeMspApprove(st) : Has(x, {"draft"}, st)
  BY DEF Has, ComputeMspApprove, Unless
<1>6. \A x \in ComputeSendPlan(st) : Has(x, {"intake", "draft"}, st)
  BY DEF Has, ComputeSendPlan, Unless
<1>7. CASE i = 1
  <2> QED BY <1>1, <1>2, <1>7, HasIsMarked DEF MspCompute
<1>8. CASE i = 2
  <2>1. 1 \in 1..(i - 1) BY <1>8
  <2>2. {"intake"} \subseteq Prior("msp", i) BY <1>1, <2>1 DEF Prior
  <2> QED BY <1>1, <1>3, <1>8, <2>2, HasIsMarked DEF MspCompute, StoredOr, Marked
<1>9. CASE i = 3
  <2>1. 1 \in 1..(i - 1) BY <1>9
  <2>2. {"intake"} \subseteq Prior("msp", i) BY <1>1, <2>1 DEF Prior
  <2> QED BY <1>1, <1>4, <1>9, <2>2, HasIsMarked DEF MspCompute
<1>10. CASE i = 4
  <2>1. 3 \in 1..(i - 1) BY <1>10
  <2>2. {"draft"} \subseteq Prior("msp", i) BY <1>1, <2>1 DEF Prior
  <2> QED BY <1>1, <1>5, <1>10, <2>2, HasIsMarked DEF MspCompute, StoredOr, Marked
<1>11. CASE i = 5
  <2>1. 1 \in 1..(i - 1) /\ 3 \in 1..(i - 1) BY <1>11
  <2>2. {"intake", "draft"} \subseteq Prior("msp", i) BY <1>1, <2>1 DEF Prior
  <2> QED BY <1>1, <1>6, <1>11, <2>2, HasIsMarked DEF MspCompute, StoredOr, Marked
<1> QED
  <2>1. i \in 1..5 BY <1>1
  <2> QED BY <2>1, <1>7, <1>8, <1>9, <1>10, <1>11

LEMMA FeaturesMarks ==
  ASSUME NEW i \in 1..Len(StepsOf("features")), NEW st, NEW known,
         NEW a \in FeaturesCompute(FeaturesSteps[i], st, known)
  PROVE  Marked(a, "features", i, st)
<1>1. /\ StepsOf("features") = FeaturesSteps /\ Len(FeaturesSteps) = 4
      /\ FeaturesSteps[1] = "feature-selection" /\ FeaturesSteps[2] = "scope-design"
      /\ FeaturesSteps[3] = "implementation" /\ FeaturesSteps[4] = "complete"
  BY DEF StepsOf, FeaturesSteps
<1> HIDE DEF FeaturesSteps
<1>2. \A x \in ComputeFeatureSelection(st, known) : Has(x, {}, st)
  BY DEF Has, ComputeFeatureSelection, Unless
<1>3. \A x \in ComputeScopeDesign(st) : Has(x, {"feature-selection"}, st)
  BY DEF Has, ComputeScopeDesign, Unless
<1>4. ASSUME NEW x \in ComputeImplementation(st) PROVE Has(x, {"feature-selection", "scope-design"}, st)
  <2>1. PICK v1, v2, v3, v4, v5, v6 :
          x = [ticket |-> v1, areas |-> v2, verdict |-> v3, files |-> v4, coverage |-> v5, passed |-> v6,
               from |-> DerivedFrom(st, {"feature-selection", "scope-design"})]
    BY <1>4 DEF ComputeImplementation, Unless
  <2> QED BY <2>1 DEF Has
<1>5. \A x \in ComputeCompletion(st) : Has(x, {"feature-selection", "implementation"}, st)
  BY DEF Has, ComputeCompletion
<1>6. CASE i = 1
  <2> QED BY <1>1, <1>2, <1>6, HasIsMarked DEF FeaturesCompute
<1>7. CASE i = 2
  <2>1. 1 \in 1..(i - 1) BY <1>7
  <2>2. {"feature-selection"} \subseteq Prior("features", i) BY <1>1, <2>1 DEF Prior
  <2> QED BY <1>1, <1>3, <1>7, <2>2, HasIsMarked DEF FeaturesCompute
<1>8. CASE i = 3
  <2>1. 1 \in 1..(i - 1) /\ 2 \in 1..(i - 1) BY <1>8
  <2>2. {"feature-selection", "scope-design"} \subseteq Prior("features", i) BY <1>1, <2>1 DEF Prior
  <2> QED BY <1>1, <1>4, <1>8, <2>2, HasIsMarked DEF FeaturesCompute
<1>9. CASE i = 4
  <2>1. 1 \in 1..(i - 1) /\ 3 \in 1..(i - 1) BY <1>9
  <2>2. {"feature-selection", "implementation"} \subseteq Prior("features", i) BY <1>1, <2>1 DEF Prior
  <2> QED BY <1>1, <1>5, <1>9, <2>2, HasIsMarked DEF FeaturesCompute
<1> QED
  <2>1. i \in 1..4 BY <1>1
  <2> QED BY <2>1, <1>6, <1>7, <1>8, <1>9

LEMMA IssuesMarks ==
  ASSUME NEW i \in 1..Len(StepsOf("issues")), NEW st, NEW known,
         NEW a \in IssuesCompute(IssuesSteps[i], st, known)
  PROVE  Marked(a, "issues", i, st)
<1>1. /\ StepsOf("issues") = IssuesSteps /\ Len(IssuesSteps) = 4
      /\ IssuesSteps[1] = "issue-selection" /\ IssuesSteps[2] = "analysis"
      /\ IssuesSteps[3] = "implementation" /\ IssuesSteps[4] = "complete"
  BY DEF StepsOf, IssuesSteps
<1> HIDE DEF IssuesSteps
<1>2. \A x \in ComputeIssueSelection(st, known) : Has(x, {}, st)
  BY DEF Has, ComputeIssueSelection, Unless
<1>3. ASSUME NEW x \in ComputeAnalysis(st) PROVE Has(x, {"issue-selection"}, st)
  <2>1. PICK v1, v2 :
          x = [ticket |-> v1, affected |-> v2,
               from |-> DerivedFrom(st, {"issue-selection"})]
    BY <1>3 DEF ComputeAnalysis, Unless
  <2> QED BY <2>1 DEF Has
<1>4. \A x \in ComputeFix(st) : Has(x, {"issue-selection", "analysis"}, st)
  BY DEF Has, ComputeFix
<1>5. \A x \in ComputeFixCompletion(st) : Has(x, {"issue-selection", "implementation"}, st)
  BY DEF Has, ComputeFixCompletion
<1>6. CASE i = 1
  <2> QED BY <1>1, <1>2, <1>6, HasIsMarked DEF IssuesCompute
<1>7. CASE i = 2
  <2>1. 1 \in 1..(i - 1) BY <1>7
  <2>2. {"issue-selection"} \subseteq Prior("issues", i) BY <1>1, <2>1 DEF Prior
  <2> QED BY <1>1, <1>3, <1>7, <2>2, HasIsMarked DEF IssuesCompute
<1>8. CASE i = 3
  <2>1. 1 \in 1..(i - 1) /\ 2 \in 1..(i - 1) BY <1>8
  <2>2. {"issue-selection", "analysis"} \subseteq Prior("issues", i) BY <1>1, <2>1 DEF Prior
  <2> QED BY <1>1, <1>4, <1>8, <2>2, HasIsMarked DEF IssuesCompute
<1>9. CASE i = 4
  <2>1. 1 \in 1..(i - 1) /\ 3 \in 1..(i - 1) BY <1>9
  <2>2. {"issue-selection", "implementation"} \subseteq Prior("issues", i) BY <1>1, <2>1 DEF Prior
  <2> QED BY <1>1, <1>5, <1>9, <2>2, HasIsMarked DEF IssuesCompute
<1> QED
  <2>1. i \in 1..4 BY <1>1
  <2> QED BY <2>1, <1>6, <1>7, <1>8, <1>9

LEMMA DependenciesMarks ==
  ASSUME NEW i \in 1..Len(StepsOf("dependencies")), NEW st, NEW known,
         NEW a \in DependenciesCompute(DependenciesSteps[i], st, known)
  PROVE  Marked(a, "dependencies", i, st)
<1>1. /\ StepsOf("dependencies") = DependenciesSteps /\ Len(DependenciesSteps) = 5
      /\ DependenciesSteps[1] = "scan" /\ DependenciesSteps[2] = "group"
      /\ DependenciesSteps[3] = "apply" /\ DependenciesSteps[4] = "validate"
      /\ DependenciesSteps[5] = "merge"
  BY DEF StepsOf, DependenciesSteps
<1> HIDE DEF DependenciesSteps
<1>2. \A x \in ComputeScan(st, known) : Has(x, {}, st)
  BY DEF Has, ComputeScan, Unless
<1>3. \A x \in ComputeGroup(st) : Has(x, {"scan"}, st)
  BY DEF Has, ComputeGroup, Unless
<1>4. \A x \in ComputeApply(st) : Has(x, {"group"}, st)
  BY DEF Has, ComputeApply, Unless
<1>5. \A x \in ComputeValidate(st) : Has(x, {"apply"}, st)
  BY DEF Has, ComputeValidate
<1>6. \A x \in ComputeMerge(st) : Has(x, {"apply", "validate"}, st)
  BY DEF Has, ComputeMerge, Unless
<1>7. CASE i = 1
  <2> QED BY <1>1, <1>2, <1>7, HasIsMarked DEF DependenciesCompute
<1>8. CASE i = 2
  <2>1. 1 \in 1..(i - 1) BY <1>8
  <2>2. {"scan"} \subseteq Prior("dependencies", i) BY <1>1, <2>1 DEF Prior
  <2> QED BY <1>1, <1>3, <1>8, <2>2, HasIsMarked DEF DependenciesCompute
<1>9. CASE i = 3
  <2>1. 2 \in 1..(i - 1) BY <1>9
  <2>2. {"group"} \subseteq Prior("dependencies", i) BY <1>1, <2>1 DEF Prior
  <2> QED BY <1>1, <1>4, <1>9, <2>2, HasIsMarked DEF DependenciesCompute
<1>10. CASE i = 4
  <2>1. 3 \in 1..(i - 1) BY <1>10
  <2>2. {"apply"} \subseteq Prior("dependencies", i) BY <1>1, <2>1 DEF Prior
  <2> QED BY <1>1, <1>5, <1>10, <2>2, HasIsMarked DEF DependenciesCompute
<1>11. CASE i = 5
  <2>1. 3 \in 1..(i - 1) /\ 4 \in 1..(i - 1) BY <1>11
  <2>2. {"apply", "validate"} \subseteq Prior("dependencies", i) BY <1>1, <2>1 DEF Prior
  <2> QED BY <1>1, <1>6, <1>11, <2>2, HasIsMarked DEF DependenciesCompute
<1> QED
  <2>1. i \in 1..5 BY <1>1
  <2> QED BY <2>1, <1>7, <1>8, <1>9, <1>10, <1>11

LEMMA AccessibilityMarks ==
  ASSUME NEW i \in 1..Len(StepsOf("accessibility")), NEW st, NEW known,
         NEW a \in AccessibilityCompute(AccessibilitySteps[i], st, known)
  PROVE  Marked(a, "accessibility", i, st)
<1>1. /\ StepsOf("accessibility") = AccessibilitySteps /\ Len(AccessibilitySteps) = 4
      /\ AccessibilitySteps[1] = "crawl" /\ AccessibilitySteps[2] = "violations"
      /\ AccessibilitySteps[3] = "fix" /\ AccessibilitySteps[4] = "re-scan"
  BY DEF StepsOf, AccessibilitySteps
<1> HIDE DEF AccessibilitySteps
<1>2. \A x \in ComputeCrawl(st, known) : Has(x, {}, st)
  BY DEF Has, ComputeCrawl, Unless
<1>3. \A x \in ComputeViolations(st, known) : Has(x, {"crawl"}, st)
  BY DEF Has, ComputeViolations, Unless
<1>4. ASSUME NEW x \in ComputeFixes(st) PROVE Has(x, {"crawl", "violations"}, st)
  <2>1. PICK v1 : x = [fixes |-> v1, from |-> DerivedFrom(st, {"crawl", "violations"})]
    BY <1>4 DEF ComputeFixes, Unless
  <2> QED BY <2>1 DEF Has
<1>5. \A x \in ComputeRescan(st, known) : Has(x, {"crawl", "violations", "fix"}, st)
  BY DEF Has, ComputeRescan, Unless
<1>6. CASE i = 1
  <2> QED BY <1>1, <1>2, <1>6, HasIsMarked DEF AccessibilityCompute
<1>7. CASE i = 2
  <2>1. 1 \in 1..(i - 1) BY <1>7
  <2>2. {"crawl"} \subseteq Prior("accessibility", i) BY <1>1, <2>1 DEF Prior
  <2> QED BY <1>1, <1>3, <1>7, <2>2, HasIsMarked DEF AccessibilityCompute
<1>8. CASE i = 3
  <2>1. 1 \in 1..(i - 1) /\ 2 \in 1..(i - 1) BY <1>8
  <2>2. {"crawl", "violations"} \subseteq Prior("accessibility", i) BY <1>1, <2>1 DEF Prior
  <2> QED BY <1>1, <1>4, <1>8, <2>2, HasIsMarked DEF AccessibilityCompute
<1>9. CASE i = 4
  <2>1. 1 \in 1..(i - 1) /\ 2 \in 1..(i - 1) /\ 3 \in 1..(i - 1) BY <1>9
  <2>2. {"crawl", "violations", "fix"} \subseteq Prior("accessibility", i) BY <1>1, <2>1 DEF Prior
  <2> QED BY <1>1, <1>5, <1>9, <2>2, HasIsMarked DEF AccessibilityCompute
<1> QED
  <2>1. i \in 1..4 BY <1>1
  <2> QED BY <2>1, <1>6, <1>7, <1>8, <1>9

LEMMA VendorsMarks ==
  ASSUME NEW i \in 1..Len(StepsOf("vendors")), NEW st, NEW known,
         NEW a \in VendorsCompute(VendorsSteps[i], st, known)
  PROVE  Marked(a, "vendors", i, st)
<1>1. /\ StepsOf("vendors") = VendorsSteps /\ Len(VendorsSteps) = 5
      /\ VendorsSteps[1] = "collect" /\ VendorsSteps[2] = "verify"
      /\ VendorsSteps[3] = "risk-score" /\ VendorsSteps[4] = "approve"
      /\ VendorsSteps[5] = "create"
  BY DEF StepsOf, VendorsSteps
<1> HIDE DEF VendorsSteps
<1>2. \A x \in ComputeCollect(st) : Has(x, {}, st)
  BY DEF Has, ComputeCollect
<1>3. \A x \in ComputeVerify(st, known) : Has(x, {"collect"}, st)
  BY DEF Has, ComputeVerify, Unless
<1>4. \A x \in ComputeRisk(st) : Has(x, {"collect", "verify"}, st)
  BY DEF Has, ComputeRisk, Unless
<1>5. \A x \in ComputeChain(st) : Has(x, {"risk-score"}, st)
  BY DEF Has, ComputeChain, Unless
<1>6. \A x \in ComputeRecord(st, known) : Has(x, {"collect", "approve"}, st)
  BY DEF Has, ComputeRecord, Unless
<1>7. CASE i = 1
  <2> QED BY <1>1, <1>2, <1>7, HasIsMarked DEF VendorsCompute
<1>8. CASE i = 2
  <2>1. 1 \in 1..(i - 1) BY <1>8
  <2>2. {"collect"} \subseteq Prior("vendors", i) BY <1>1, <2>1 DEF Prior
  <2> QED BY <1>1, <1>3, <1>8, <2>2, HasIsMarked DEF VendorsCompute
<1>9. CASE i = 3
  <2>1. 1 \in 1..(i - 1) /\ 2 \in 1..(i - 1) BY <1>9
  <2>2. {"collect", "verify"} \subseteq Prior("vendors", i) BY <1>1, <2>1 DEF Prior
  <2> QED BY <1>1, <1>4, <1>9, <2>2, HasIsMarked DEF VendorsCompute
<1>10. CASE i = 4
  <2>1. 3 \in 1..(i - 1) BY <1>10
  <2>2. {"risk-score"} \subseteq Prior("vendors", i) BY <1>1, <2>1 DEF Prior
  <2> QED BY <1>1, <1>5, <1>10, <2>2, HasIsMarked DEF VendorsCompute, StoredOr, Marked
<1>11. CASE i = 5
  <2>1. 1 \in 1..(i - 1) /\ 4 \in 1..(i - 1) BY <1>11
  <2>2. {"collect", "approve"} \subseteq Prior("vendors", i) BY <1>1, <2>1 DEF Prior
  <2> QED BY <1>1, <1>6, <1>11, <2>2, HasIsMarked DEF VendorsCompute, StoredOr, Marked
<1> QED
  <2>1. i \in 1..5 BY <1>1
  <2> QED BY <2>1, <1>7, <1>8, <1>9, <1>10, <1>11

LEMMA OnboardingMarks ==
  ASSUME NEW i \in 1..Len(StepsOf("onboarding")), NEW st, NEW known,
         NEW a \in OnboardingCompute(OnboardingSteps[i], st, known)
  PROVE  Marked(a, "onboarding", i, st)
<1>1. /\ StepsOf("onboarding") = OnboardingSteps /\ Len(OnboardingSteps) = 5
      /\ OnboardingSteps[1] = "collect" /\ OnboardingSteps[2] = "verify"
      /\ OnboardingSteps[3] = "risk-score" /\ OnboardingSteps[4] = "approve"
      /\ OnboardingSteps[5] = "provision"
  BY DEF StepsOf, OnboardingSteps
<1> HIDE DEF OnboardingSteps
<1>2. \A x \in ComputeHireCollect(st, known) : Has(x, {}, st)
  BY DEF Has, ComputeHireCollect
<1>3. \A x \in ComputeHireVerify(st, known) : Has(x, {"collect"}, st)
  BY DEF Has, ComputeHireVerify, Unless
<1>4. \A x \in ComputeHireRisk(st) : Has(x, {"collect", "verify"}, st)
  BY DEF Has, ComputeHireRisk, Unless
<1>5. \A x \in ComputeHireChain(st) : Has(x, {"risk-score"}, st)
  BY DEF Has, ComputeHireChain, Unless
<1>6. \A x \in ComputeProvision(st, known) : Has(x, {"collect", "approve"}, st)
  BY DEF Has, ComputeProvision, Unless
<1>7. CASE i = 1
  <2> QED BY <1>1, <1>2, <1>7, HasIsMarked DEF OnboardingCompute
<1>8. CASE i = 2
  <2>1. 1 \in 1..(i - 1) BY <1>8
  <2>2. {"collect"} \subseteq Prior("onboarding", i) BY <1>1, <2>1 DEF Prior
  <2> QED BY <1>1, <1>3, <1>8, <2>2, HasIsMarked DEF OnboardingCompute
<1>9. CASE i = 3
  <2>1. 1 \in 1..(i - 1) /\ 2 \in 1..(i - 1) BY <1>9
  <2>2. {"collect", "verify"} \subseteq Prior("onboarding", i) BY <1>1, <2>1 DEF Prior
  <2> QED BY <1>1, <1>4, <1>9, <2>2, HasIsMarked DEF OnboardingCompute
<1>10. CASE i = 4
  <2>1. 3 \in 1..(i - 1) BY <1>10
  <2>2. {"risk-score"} \subseteq Prior("onboarding", i) BY <1>1, <2>1 DEF Prior
  <2> QED BY <1>1, <1>5, <1>10, <2>2, HasIsMarked DEF OnboardingCompute, StoredOr, Marked
<1>11. CASE i = 5
  <2>1. 1 \in 1..(i - 1) /\ 4 \in 1..(i - 1) BY <1>11
  <2>2. {"collect", "approve"} \subseteq Prior("onboarding", i) BY <1>1, <2>1 DEF Prior
  <2> QED BY <1>1, <1>6, <1>11, <2>2, HasIsMarked DEF OnboardingCompute, StoredOr, Marked
<1> QED
  <2>1. i \in 1..5 BY <1>1
  <2> QED BY <2>1, <1>7, <1>8, <1>9, <1>10, <1>11

LEMMA OffboardingMarks ==
  ASSUME NEW i \in 1..Len(StepsOf("offboarding")), NEW st, NEW known,
         NEW a \in OffboardingCompute(OffboardingSteps[i], st, known)
  PROVE  Marked(a, "offboarding", i, st)
<1>1. /\ StepsOf("offboarding") = OffboardingSteps /\ Len(OffboardingSteps) = 5
      /\ OffboardingSteps[1] = "intake" /\ OffboardingSteps[2] = "access-audit"
      /\ OffboardingSteps[3] = "approve" /\ OffboardingSteps[4] = "revoke"
      /\ OffboardingSteps[5] = "attest"
  BY DEF StepsOf, OffboardingSteps
<1> HIDE DEF OffboardingSteps
<1>2. \A x \in ComputeLeaver(st, known) : Has(x, {}, st)
  BY DEF Has, ComputeLeaver, Unless
<1>3. \A x \in ComputeAudit(st) : Has(x, {"intake"}, st)
  BY DEF Has, ComputeAudit, Unless
<1>4. \A x \in ComputeRevocationItems(st) : Has(x, {"access-audit"}, st)
  BY DEF Has, ComputeRevocationItems, Unless
<1>5. \A x \in ComputeRevokePlan(st) : Has(x, {"access-audit"}, st)
  BY DEF Has, ComputeRevokePlan, Unless
<1>6. \A x \in ComputeAttest(st, known) : Has(x, {"intake", "revoke"}, st)
  BY DEF Has, ComputeAttest, Unless
<1>7. CASE i = 1
  <2> QED BY <1>1, <1>2, <1>7, HasIsMarked DEF OffboardingCompute
<1>8. CASE i = 2
  <2>1. 1 \in 1..(i - 1) BY <1>8
  <2>2. {"intake"} \subseteq Prior("offboarding", i) BY <1>1, <2>1 DEF Prior
  <2> QED BY <1>1, <1>3, <1>8, <2>2, HasIsMarked DEF OffboardingCompute
<1>9. CASE i = 3
  <2>1. 2 \in 1..(i - 1) BY <1>9
  <2>2. {"access-audit"} \subseteq Prior("offboarding", i) BY <1>1, <2>1 DEF Prior
  <2> QED BY <1>1, <1>4, <1>9, <2>2, HasIsMarked DEF OffboardingCompute, StoredOr, Marked
<1>10. CASE i = 4
  <2>1. 2 \in 1..(i - 1) BY <1>10
  <2>2. {"access-audit"} \subseteq Prior("offboarding", i) BY <1>1, <2>1 DEF Prior
  <2> QED BY <1>1, <1>5, <1>10, <2>2, HasIsMarked DEF OffboardingCompute, StoredOr, Marked
<1>11. CASE i = 5
  <2>1. 1 \in 1..(i - 1) /\ 4 \in 1..(i - 1) BY <1>11
  <2>2. {"intake", "revoke"} \subseteq Prior("offboarding", i) BY <1>1, <2>1 DEF Prior
  <2> QED BY <1>1, <1>6, <1>11, <2>2, HasIsMarked DEF OffboardingCompute, StoredOr, Marked
<1> QED
  <2>1. i \in 1..5 BY <1>1
  <2> QED BY <2>1, <1>7, <1>8, <1>9, <1>10, <1>11

LEMMA ScreeningMarks ==
  ASSUME NEW i \in 1..Len(StepsOf("screening")), NEW st, NEW known,
         NEW a \in ScreeningCompute(ScreeningSteps[i], st, known)
  PROVE  Marked(a, "screening", i, st)
<1>1. /\ StepsOf("screening") = ScreeningSteps /\ Len(ScreeningSteps) = 4
      /\ ScreeningSteps[1] = "requisition" /\ ScreeningSteps[2] = "screen"
      /\ ScreeningSteps[3] = "shortlist" /\ ScreeningSteps[4] = "schedule"
  BY DEF StepsOf, ScreeningSteps
<1> HIDE DEF ScreeningSteps
<1>2. \A x \in ComputeRequisition(st, known) : Has(x, {}, st)
  BY DEF Has, ComputeRequisition, Unless
<1>3. ASSUME NEW x \in ComputeScreen(st, known) PROVE Has(x, {"requisition"}, st)
  <2>1. PICK v1, v2 :
          x = [candidates |-> v1, totalFlags |-> v2,
               from |-> DerivedFrom(st, {"requisition"})]
    BY <1>3 DEF ComputeScreen, Unless
  <2> QED BY <2>1 DEF Has
<1>4. \A x \in ComputeShortlist(st) : Has(x, {"screen"}, st)
  BY DEF Has, ComputeShortlist, Unless, WithField
<1>5. ASSUME NEW x \in ComputeSchedulePlan(st) PROVE Has(x, {"requisition", "shortlist"}, st)
  <2>1. PICK v1 : x = [invites |-> v1, from |-> DerivedFrom(st, {"requisition", "shortlist"})]
    BY <1>5 DEF ComputeSchedulePlan, Unless
  <2> QED BY <2>1 DEF Has
<1>6. CASE i = 1
  <2> QED BY <1>1, <1>2, <1>6, HasIsMarked DEF ScreeningCompute
<1>7. CASE i = 2
  <2>1. 1 \in 1..(i - 1) BY <1>7
  <2>2. {"requisition"} \subseteq Prior("screening", i) BY <1>1, <2>1 DEF Prior
  <2> QED BY <1>1, <1>3, <1>7, <2>2, HasIsMarked DEF ScreeningCompute
<1>8. CASE i = 3
  <2>1. 2 \in 1..(i - 1) BY <1>8
  <2>2. {"screen"} \subseteq Prior("screening", i) BY <1>1, <2>1 DEF Prior
  <2> QED BY <1>1, <1>4, <1>8, <2>2, HasIsMarked DEF ScreeningCompute, StoredOr, Marked
<1>9. CASE i = 4
  <2>1. 1 \in 1..(i - 1) /\ 3 \in 1..(i - 1) BY <1>9
  <2>2. {"requisition", "shortlist"} \subseteq Prior("screening", i) BY <1>1, <2>1 DEF Prior
  <2> QED BY <1>1, <1>5, <1>9, <2>2, HasIsMarked DEF ScreeningCompute, StoredOr, Marked
<1> QED
  <2>1. i \in 1..4 BY <1>1
  <2> QED BY <2>1, <1>6, <1>7, <1>8, <1>9

LEMMA LeaveMarks ==
  ASSUME NEW i \in 1..Len(StepsOf("leave")), NEW st, NEW known,
         NEW a \in LeaveCompute(LeaveSteps[i], st, known)
  PROVE  Marked(a, "leave", i, st)
<1>1. /\ StepsOf("leave") = LeaveSteps /\ Len(LeaveSteps) = 4
      /\ LeaveSteps[1] = "intake" /\ LeaveSteps[2] = "policy-check" /\ LeaveSteps[3] = "approve"
      /\ LeaveSteps[4] = "apply"
  BY DEF StepsOf, LeaveSteps
<1> HIDE DEF LeaveSteps
<1>2. \A x \in ComputeLeaveIntake(st, known) : Has(x, {}, st)
  BY DEF Has, ComputeLeaveIntake, Unless
<1>3. \A x \in ComputePolicy(st, known) : Has(x, {"intake"}, st)
  BY DEF Has, ComputePolicy, Unless
<1>4. \A x \in ComputeLeaveApprove(st, known) : Has(x, {"policy-check"}, st)
  BY DEF Has, ComputeLeaveApprove, Unless
<1>5. \A x \in ComputeLeaveApply(st, known) : Has(x, {"policy-check"}, st)
  BY DEF Has, ComputeLeaveApply, Unless
<1>6. CASE i = 1
  <2> QED BY <1>1, <1>2, <1>6, HasIsMarked DEF LeaveCompute
<1>7. CASE i = 2
  <2>1. 1 \in 1..(i - 1) BY <1>7
  <2>2. {"intake"} \subseteq Prior("leave", i) BY <1>1, <2>1 DEF Prior
  <2> QED BY <1>1, <1>3, <1>7, <2>2, HasIsMarked DEF LeaveCompute
<1>8. CASE i = 3
  <2>1. 2 \in 1..(i - 1) BY <1>8
  <2>2. {"policy-check"} \subseteq Prior("leave", i) BY <1>1, <2>1 DEF Prior
  <2> QED BY <1>1, <1>4, <1>8, <2>2, HasIsMarked DEF LeaveCompute, StoredOr, Marked
<1>9. CASE i = 4
  <2>1. 2 \in 1..(i - 1) BY <1>9
  <2>2. {"policy-check"} \subseteq Prior("leave", i) BY <1>1, <2>1 DEF Prior
  <2> QED BY <1>1, <1>5, <1>9, <2>2, HasIsMarked DEF LeaveCompute, StoredOr, Marked
<1> QED
  <2>1. i \in 1..4 BY <1>1
  <2> QED BY <2>1, <1>6, <1>7, <1>8, <1>9

LEMMA HrHelpMarks ==
  ASSUME NEW i \in 1..Len(StepsOf("hr-help")), NEW st, NEW known,
         NEW a \in HrHelpCompute(HrHelpSteps[i], st, known)
  PROVE  Marked(a, "hr-help", i, st)
<1>1. /\ StepsOf("hr-help") = HrHelpSteps /\ Len(HrHelpSteps) = 5
      /\ HrHelpSteps[1] = "intake" /\ HrHelpSteps[2] = "retrieve" /\ HrHelpSteps[3] = "draft"
      /\ HrHelpSteps[4] = "approve" /\ HrHelpSteps[5] = "send"
  BY DEF StepsOf, HrHelpSteps
<1> HIDE DEF HrHelpSteps
<1>2. \A x \in ComputeHrIntake(st, known) : Has(x, {}, st)
  BY DEF Has, ComputeHrIntake
<1>3. ASSUME NEW x \in ComputeRetrieve(st, known) PROVE Has(x, {"intake"}, st)
  <2>1. PICK v1, v2, v3 :
          x = [terms |-> v1, passages |-> v2, staleCount |-> v3,
               from |-> DerivedFrom(st, {"intake"})]
    BY <1>3 DEF ComputeRetrieve, Unless
  <2> QED BY <2>1 DEF Has
<1>4. \A x \in ComputeHrDraft(st) : Has(x, {"retrieve"}, st)
  BY DEF Has, ComputeHrDraft, Unless
<1>5. \A x \in ComputeHrApprove(st) : Has(x, {"draft"}, st)
  BY DEF Has, ComputeHrApprove, Unless
<1>6. \A x \in ComputeHrSendPlan(st, known) : Has(x, {"draft"}, st)
  BY DEF Has, ComputeHrSendPlan, Unless
<1>7. CASE i = 1
  <2> QED BY <1>1, <1>2, <1>7, HasIsMarked DEF HrHelpCompute
<1>8. CASE i = 2
  <2>1. 1 \in 1..(i - 1) BY <1>8
  <2>2. {"intake"} \subseteq Prior("hr-help", i) BY <1>1, <2>1 DEF Prior
  <2> QED BY <1>1, <1>3, <1>8, <2>2, HasIsMarked DEF HrHelpCompute
<1>9. CASE i = 3
  <2>1. 2 \in 1..(i - 1) BY <1>9
  <2>2. {"retrieve"} \subseteq Prior("hr-help", i) BY <1>1, <2>1 DEF Prior
  <2> QED BY <1>1, <1>4, <1>9, <2>2, HasIsMarked DEF HrHelpCompute
<1>10. CASE i = 4
  <2>1. 3 \in 1..(i - 1) BY <1>10
  <2>2. {"draft"} \subseteq Prior("hr-help", i) BY <1>1, <2>1 DEF Prior
  <2> QED BY <1>1, <1>5, <1>10, <2>2, HasIsMarked DEF HrHelpCompute, StoredOr, Marked
<1>11. CASE i = 5
  <2>1. 3 \in 1..(i - 1) BY <1>11
  <2>2. {"draft"} \subseteq Prior("hr-help", i) BY <1>1, <2>1 DEF Prior
  <2> QED BY <1>1, <1>6, <1>11, <2>2, HasIsMarked DEF HrHelpCompute, StoredOr, Marked
<1> QED
  <2>1. i \in 1..5 BY <1>1
  <2> QED BY <2>1, <1>7, <1>8, <1>9, <1>10, <1>11

LEMMA BillsMarks ==
  ASSUME NEW i \in 1..Len(StepsOf("bills")), NEW st, NEW known,
         NEW a \in BillsCompute(BillsSteps[i], st, known)
  PROVE  Marked(a, "bills", i, st)
<1>1. /\ StepsOf("bills") = BillsSteps /\ Len(BillsSteps) = 4
      /\ BillsSteps[1] = "intake" /\ BillsSteps[2] = "extract" /\ BillsSteps[3] = "approve"
      /\ BillsSteps[4] = "post"
  BY DEF StepsOf, BillsSteps
<1> HIDE DEF BillsSteps
<1>2. \A x \in ComputeBillsIntake(st) : Has(x, {}, st)
  BY DEF Has, ComputeBillsIntake
<1>3. \A x \in ComputeExtract(st, known) : Has(x, {"intake"}, st)
  BY DEF Has, ComputeExtract
<1>4. \A x \in ComputeBillsApprove(st) : Has(x, {"extract"}, st)
  BY DEF Has, ComputeBillsApprove, Unless
<1>5. \A x \in ComputePostPlan(st) : Has(x, {"extract"}, st)
  BY DEF Has, ComputePostPlan, Unless
<1>6. CASE i = 1
  <2> QED BY <1>1, <1>2, <1>6, HasIsMarked DEF BillsCompute
<1>7. CASE i = 2
  <2>1. 1 \in 1..(i - 1) BY <1>7
  <2>2. {"intake"} \subseteq Prior("bills", i) BY <1>1, <2>1 DEF Prior
  <2> QED BY <1>1, <1>3, <1>7, <2>2, HasIsMarked DEF BillsCompute
<1>8. CASE i = 3
  <2>1. 2 \in 1..(i - 1) BY <1>8
  <2>2. {"extract"} \subseteq Prior("bills", i) BY <1>1, <2>1 DEF Prior
  <2> QED BY <1>1, <1>4, <1>8, <2>2, HasIsMarked DEF BillsCompute, StoredOr, Marked
<1>9. CASE i = 4
  <2>1. 2 \in 1..(i - 1) BY <1>9
  <2>2. {"extract"} \subseteq Prior("bills", i) BY <1>1, <2>1 DEF Prior
  <2> QED BY <1>1, <1>5, <1>9, <2>2, HasIsMarked DEF BillsCompute, StoredOr, Marked
<1> QED
  <2>1. i \in 1..4 BY <1>1
  <2> QED BY <2>1, <1>6, <1>7, <1>8, <1>9

LEMMA ReviewMarks ==
  ASSUME NEW i \in 1..Len(StepsOf("review")), NEW st, NEW known,
         NEW a \in ReviewCompute(ReviewSteps[i], st, known)
  PROVE  Marked(a, "review", i, st)
<1>1. /\ StepsOf("review") = ReviewSteps /\ Len(ReviewSteps) = 4
      /\ ReviewSteps[1] = "select-pr" /\ ReviewSteps[2] = "review-options"
      /\ ReviewSteps[3] = "ai-review" /\ ReviewSteps[4] = "complete"
  BY DEF StepsOf, ReviewSteps
<1> HIDE DEF ReviewSteps
<1>2. \A x \in ComputeSelectPr(st, known) : Has(x, {}, st)
  BY DEF Has, ComputeSelectPr, Unless
<1>3. \A x \in ComputeReviewOptions(st) : Has(x, {"select-pr"}, st)
  BY DEF Has, ComputeReviewOptions, Unless
<1>4. \A x \in ComputeAiReview(st, known) : Has(x, {"review-options"}, st)
  BY DEF Has, ComputeAiReview
<1>5. \A x \in ComputeReviewComplete(st) : Has(x, {"ai-review"}, st)
  BY DEF Has, ComputeReviewComplete, Unless, WithField
<1>6. CASE i = 1
  <2> QED BY <1>1, <1>2, <1>6, HasIsMarked DEF ReviewCompute
<1>7. CASE i = 2
  <2>1. 1 \in 1..(i - 1) BY <1>7
  <2>2. {"select-pr"} \subseteq Prior("review", i) BY <1>1, <2>1 DEF Prior
  <2> QED BY <1>1, <1>3, <1>7, <2>2, HasIsMarked DEF ReviewCompute
<1>8. CASE i = 3
  <2>1. 2 \in 1..(i - 1) BY <1>8
  <2>2. {"review-options"} \subseteq Prior("review", i) BY <1>1, <2>1 DEF Prior
  <2> QED BY <1>1, <1>4, <1>8, <2>2, HasIsMarked DEF ReviewCompute
<1>9. CASE i = 4
  <2>1. 3 \in 1..(i - 1) BY <1>9
  <2>2. {"ai-review"} \subseteq Prior("review", i) BY <1>1, <2>1 DEF Prior
  <2> QED BY <1>1, <1>5, <1>9, <2>2, HasIsMarked DEF ReviewCompute
<1> QED
  <2>1. i \in 1..4 BY <1>1
  <2> QED BY <2>1, <1>6, <1>7, <1>8, <1>9

LEMMA ComputesMarked ==
  ASSUME NEW l \in AllLanes, NEW i \in 1..Len(StepsOf(l)), NEW st, NEW known,
         NEW a \in Compute(l, StepsOf(l)[i], st, known)
  PROVE  Marked(a, l, i, st)
<1>1. CASE l = "security" BY <1>1, SecurityMarks DEF Compute, StepsOf
<1>2. CASE l = "msp" BY <1>2, MspMarks DEF Compute, StepsOf
<1>3. CASE l = "features" BY <1>3, FeaturesMarks DEF Compute, StepsOf
<1>4. CASE l = "issues" BY <1>4, IssuesMarks DEF Compute, StepsOf
<1>5. CASE l = "dependencies" BY <1>5, DependenciesMarks DEF Compute, StepsOf
<1>6. CASE l = "accessibility" BY <1>6, AccessibilityMarks DEF Compute, StepsOf
<1>7. CASE l = "vendors" BY <1>7, VendorsMarks DEF Compute, StepsOf
<1>8. CASE l = "onboarding" BY <1>8, OnboardingMarks DEF Compute, StepsOf
<1>9. CASE l = "offboarding" BY <1>9, OffboardingMarks DEF Compute, StepsOf
<1>10. CASE l = "screening" BY <1>10, ScreeningMarks DEF Compute, StepsOf
<1>11. CASE l = "leave" BY <1>11, LeaveMarks DEF Compute, StepsOf
<1>12. CASE l = "hr-help" BY <1>12, HrHelpMarks DEF Compute, StepsOf
<1>13. CASE l = "bills" BY <1>13, BillsMarks DEF Compute, StepsOf
<1>14. CASE l = "review" BY <1>14, ReviewMarks DEF Compute, StepsOf
<1> QED
  BY <1>1, <1>2, <1>3, <1>4, <1>5, <1>6, <1>7, <1>8, <1>9, <1>10, <1>11, <1>12, <1>13, <1>14
     DEF AllLanes

-----------------------------------------------------------------------------
(* What a step of a run does to what it has computed *)

LEMMA OneDerived ==
  ASSUME Inv, Current, NEW r \in Runs, NEW rec, Stores(r, rec), lane' = lane,
         Derived(rec, lane)
  PROVE  Current'
<1>1. ASSUME NEW q \in Runs PROVE Derived(run'[q], lane')
  <2>1. CASE q = r BY <2>1 DEF Stores
  <2>2. CASE q # r BY <2>2 DEF Stores, Current
  <2> QED BY <2>1, <2>2
<1>2. Current' <=> \A q \in Runs : Derived(run'[q], lane') BY DEF Current, Runs
<1> QED BY <1>1, <1>2

\* Nothing is stored for a run that has ended, or not started.
LEMMA NothingDerived ==
  ASSUME NEW l, NEW rec, rec.art = NewRun(l).art, rec.status # "review"
  PROVE  Derived(rec, l)
<1>1. rec.art = [s \in StepsIn(l) |-> NoArtifact] BY DEF NewRun, StepsIn
<1>2. ASSUME NEW j \in 1..Len(StepsOf(l)) PROVE rec.art[StepsOf(l)[j]].v = 0
  BY <1>1 DEF StepsIn, NoArtifact
<1> QED BY <1>2 DEF Derived

\* The record of another status with the same artifacts and decisions.
LEMMA SameDerived ==
  ASSUME NEW l, NEW rec, NEW tt, Derived(tt, l), rec.art = tt.art, rec.dec = tt.dec,
         rec.status # "review"
  PROVE  Derived(rec, l)
<1>1. \A S : DerivedFrom(rec, S) = DerivedFrom(tt, S) BY DEF DerivedFrom
<1>2. \A a, i : Shown(a, l, i, tt) => Shown(a, l, i, rec) BY <1>1 DEF Shown, Has
<1> QED BY <1>2 DEF Derived

LEMMA EndPassDerived ==
  ASSUME Inv, Current, NEW r \in Runs, NEW outcome, EndPass(r, outcome), lane' = lane,
         outcome.status \in Ended \/ Derived(outcome, lane)
  PROVE  Current'
<1> DEFINE rec == IF run[r].status = "driving" THEN outcome ELSE run[r]
           over == rec.status \in Ended
           new == IF over THEN Cut(rec) ELSE rec
<1>1. run' = [run EXCEPT ![r] = new] BY DEF EndPass
<1>2. over \/ Derived(rec, lane) BY DEF Current
<1> HIDE DEF rec
<1>3. over => new.art = NewRun(lane).art /\ new.status # "review"
  BY DEF Cut, NewRun, Ended
<1>4. Derived(new, lane)
  <2>1. CASE over
    <3> HIDE DEF new
    <3> QED BY <1>3, <2>1, NothingDerived
  <2>2. CASE ~over BY <1>2, <2>2
  <2> QED BY <2>1, <2>2
<1> HIDE DEF new
<1>5. Stores(r, new) BY <1>1 DEF Stores, Inv
<1> QED BY <1>4, <1>5, OneDerived

\* A step computes what it shows from what is stored: in front of the first
\* undecided step, where nothing behind it is stored.
LEMMA SuspendDerived ==
  ASSUME Inv, AskedFor, Current, NEW r \in Runs, Suspend(r)
  PROVE  Current'
<1>1. PICK a \in Compute(lane, Here(r), eng[r].st, Known) :
        LET rec == [run[r] EXCEPT !.status = "review", !.at = eng[r].i, !.next = @ + 1,
                                  !.art[Here(r)] = WithField(a, "v", run[r].next)]
        IN EndPass(r, IF RepeatsEffects(lane) THEN WithEffects(rec, eng[r].st) ELSE rec)
  BY DEF Suspend
<1> DEFINE q == StepsOf(lane)
           i == eng[r].i
           s == Here(r)
           st == eng[r].st
           new == WithField(a, "v", run[r].next)
           old == run[r]
           rec == [run[r] EXCEPT !.status = "review", !.at = i, !.next = @ + 1, !.art[s] = new]
           outcome == IF RepeatsEffects(lane) THEN WithEffects(rec, st) ELSE rec
<1>2. /\ Recorded(old, lane) /\ Walked(eng[r], old.dec, lane) /\ Derived(old, lane)
      /\ Sent(old, eng[r], lane, facts) /\ lane \in AllLanes
      /\ eng[r].pc = "walking" /\ ~Decided(r) /\ lane' = lane
  BY DEF Inv, AskedFor, Current, Suspend
<1>3. i \in 1..Len(q) /\ s = q[i] BY <1>2 DEF Walked, Here, Step
<1>4. st.art = old.art /\ st.dec = old.dec /\ DOMAIN old.art = StepsIn(lane)
  BY <1>2 DEF Sent, Walked
<1>5. ~IsForward(old.dec[s])
  BY <1>2, <1>3 DEF Walked, Decided, CurrentDecision, NoDecision
<1>6. /\ new.v = old.next
      /\ "from" \in DOMAIN a => ("from" \in DOMAIN new /\ new.from = a.from)
  BY DEF WithField
<1>7. /\ DOMAIN rec = DOMAIN old /\ rec.at = i /\ rec.dec = old.dec
      /\ rec.art = [old.art EXCEPT ![s] = new]
  BY <1>2 DEF Recorded
<1>8. EndPass(r, outcome) BY <1>1
<1>9. outcome.at = rec.at /\ outcome.art = rec.art /\ outcome.dec = rec.dec
  BY <1>2, <1>7 DEF WithEffects, Recorded
<1>10. Marked(a, lane, i, st) BY <1>1, <1>2, <1>3, ComputesMarked
<1> HIDE DEF q, i, s, st, new, old, rec, outcome
<1>11. Shown(a, lane, i, old)
  <2>1. \A S : DerivedFrom(st, S) = DerivedFrom(old, S) BY <1>4 DEF DerivedFrom
  <2>2. CASE Shown(a, lane, i, st) BY <2>1, <2>2 DEF Shown, Has
  <2>3. CASE HasArtifact(st, s) /\ a = EffectiveArtifact(st, s)
    <3>1. st.dec[s].action # "edit" BY <1>4, <1>5 DEF IsForward
    <3>2. a = old.art[q[i]] /\ old.art[q[i]].v # 0
      BY <1>3, <1>4, <2>3, <3>1 DEF EffectiveArtifact, HasArtifact
    <3> QED BY <1>2, <1>3, <3>2 DEF Derived, q
  <2> QED BY <1>3, <1>10, <2>2, <2>3 DEF Marked, q
<1>12. \A j, k \in 1..Len(q) : q[j] = q[k] => j = k BY <1>2, StepsDiffer DEF Differ, q
<1>13. \A j \in 1..Len(q) : q[j] \in StepsIn(lane) BY DEF StepsIn, q
<1>14. ASSUME NEW j \in 1..Len(q), NEW b, j <= i, Shown(b, lane, j, old)
       PROVE  Shown(b, lane, j, outcome)
  <2>1. PICK S \in SUBSET Prior(lane, j) : Has(b, S, old) BY <1>14 DEF Shown
  <2>2. \A u \in S : u # s
    <3> SUFFICES ASSUME NEW k \in 1..(j - 1) PROVE q[k] # s
      BY <2>1 DEF Prior, q
    <3>1. k \in 1..Len(q) /\ k # i BY <1>3, <1>14 DEF q
    <3> QED BY <1>3, <1>12, <3>1
  <2>3. \A u \in S : outcome.art[u] = old.art[u] BY <1>7, <1>9, <2>2
  <2>4. DerivedFrom(outcome, S) = DerivedFrom(old, S) BY <1>7, <1>9, <2>3 DEF DerivedFrom
  <2> QED BY <2>1, <2>4 DEF Shown, Has
<1>15. ASSUME NEW j \in 1..Len(q), outcome.art[q[j]].v # 0
       PROVE  /\ Shown(outcome.art[q[j]], lane, j, outcome)
              /\ \A k \in 1..(j - 1) : IsForward(outcome.dec[q[k]])
  <2>1. CASE j = i
    <3>1. outcome.art[q[j]] = new BY <1>3, <1>4, <1>7, <1>9, <1>13, <2>1
    <3>2. Shown(new, lane, i, old)
      <4>1. PICK S \in SUBSET Prior(lane, i) : Has(a, S, old) BY <1>11 DEF Shown
      <4> QED BY <1>6, <4>1 DEF Shown, Has
    <3>3. \A k \in 1..(i - 1) : IsForward(old.dec[q[k]])
      BY <1>2 DEF Walked, LetForward, q, i
    <3> QED BY <1>3, <1>7, <1>9, <1>14, <2>1, <3>1, <3>2, <3>3
  <2>2. CASE j # i
    <3>1. outcome.art[q[j]] = old.art[q[j]] BY <1>3, <1>7, <1>9, <1>12, <2>2
    <3>2. /\ Shown(old.art[q[j]], lane, j, old)
          /\ \A k \in 1..(j - 1) : IsForward(old.dec[q[k]])
      BY <1>2, <1>15, <3>1 DEF Derived, q
    <3>3. j <= i
      <4>1. ASSUME j > i PROVE FALSE
        <5>1. i \in 1..(j - 1) BY <1>3, <4>1
        <5> QED BY <1>3, <1>5, <3>2, <5>1
      <4> QED BY <1>3, <4>1
    <3> QED BY <1>7, <1>9, <1>14, <3>1, <3>2, <3>3
  <2> QED BY <2>1, <2>2
<1>16. ~IsForward(outcome.dec[q[outcome.at]]) BY <1>3, <1>5, <1>7, <1>9
<1>17. Derived(outcome, lane) BY <1>15, <1>16 DEF Derived, q
<1> QED BY <1>2, <1>8, <1>17, EndPassDerived

LEMMA OnwardDerived ==
  ASSUME Inv, Current, NEW r \in Runs, NEW st, Onward(r, st), lane' = lane
  PROVE  Current'
<1>1. CASE IsLast(r)
  <2> DEFINE outcome == [WithEffects(run[r], st) EXCEPT !.status = "completed"]
  <2>1. EndPass(r, outcome) BY <1>1 DEF Onward
  <2>2. outcome.status = "completed" BY DEF Inv, Recorded, WithEffects
  <2> HIDE DEF outcome
  <2> QED BY <2>1, <2>2, EndPassDerived DEF Ended
<1>2. CASE ~IsLast(r)
  <2>1. run' = run BY <1>2 DEF Onward
  <2> QED BY <2>1 DEF Current, Runs
<1> QED BY <1>1, <1>2

\* A decision is made of the step in review, and nothing behind it is stored.
LEMMA ResumeDerived ==
  ASSUME Inv, Current, NEW r \in Runs, NEW decision, Resume(r, decision)
  PROVE  Current'
<1> DEFINE q == StepsOf(lane)
           i == run[r].at
           old == run[r]
           rec == [run[r] EXCEPT !.status = "driving", !.dec[Step(i)] = decision]
<1>1. /\ Recorded(old, lane) /\ Derived(old, lane) /\ lane \in AllLanes
      /\ old.status = "review" /\ run' = [run EXCEPT ![r] = rec] /\ lane' = lane
  BY DEF Inv, Current, Resume
<1>2. Stores(r, rec) BY <1>1 DEF Stores, Inv
<1>3. /\ rec.status = "driving" /\ rec.art = old.art
      /\ rec.dec = [old.dec EXCEPT ![q[i]] = decision]
  BY <1>1 DEF Recorded, Step
<1>4. i \in 1..Len(q) /\ ~IsForward(old.dec[q[i]]) BY <1>1 DEF Recorded, Derived
<1>5. \A j, k \in 1..Len(q) : q[j] = q[k] => j = k BY <1>1, StepsDiffer DEF Differ
<1> HIDE DEF q, i, old, rec
<1>6. ASSUME NEW j \in 1..Len(q), rec.art[q[j]].v # 0
      PROVE  /\ Shown(rec.art[q[j]], lane, j, rec)
             /\ \A k \in 1..(j - 1) : IsForward(rec.dec[q[k]])
  <2>1. /\ Shown(old.art[q[j]], lane, j, old)
        /\ \A k \in 1..(j - 1) : IsForward(old.dec[q[k]])
    BY <1>1, <1>3, <1>6 DEF Derived, q
  <2>2. j <= i
    <3>1. ASSUME j > i PROVE FALSE
      <4>1. i \in 1..(j - 1) BY <1>4, <3>1
      <4> QED BY <1>4, <2>1, <4>1
    <3> QED BY <1>4, <3>1
  <2>3. ASSUME NEW k \in 1..(j - 1) PROVE rec.dec[q[k]] = old.dec[q[k]]
    <3>1. k \in 1..Len(q) /\ k # i BY <1>4, <2>2 DEF q
    <3>2. q[k] # q[i] BY <1>4, <1>5, <3>1
    <3> QED BY <1>3, <3>2
  <2>4. PICK S \in SUBSET Prior(lane, j) : Has(old.art[q[j]], S, old) BY <2>1 DEF Shown
  <2>5. \A u \in S : rec.dec[u] = old.dec[u] BY <2>3 DEF Prior, q
  <2>6. DerivedFrom(rec, S) = DerivedFrom(old, S) BY <1>3, <2>5 DEF DerivedFrom
  <2>7. Has(rec.art[q[j]], S, rec) BY <1>3, <2>4, <2>6 DEF Has
  <2> QED BY <2>1, <2>3, <2>7 DEF Shown
<1>7. Derived(rec, lane) BY <1>3, <1>6 DEF Derived, q
<1> QED BY <1>1, <1>2, <1>7, OneDerived

\* Going back drops everything from the reopened step on.
LEMMA BackDerived ==
  ASSUME Inv, Current, NEW r \in Runs, Back(r)
  PROVE  Current'
<1> DEFINE q == StepsOf(lane)
           n == run[r].at - 1
           old == run[r]
           cut == InvalidateFrom(run[r], n)
           rec == [cut EXCEPT !.status = "driving"]
           Kept(s) == \E j \in 1..(n - 1) : s = Step(j)
<1>1. /\ Recorded(old, lane) /\ Derived(old, lane) /\ lane \in AllLanes
      /\ run' = [run EXCEPT ![r] = rec] /\ lane' = lane
  BY DEF Inv, Current, Back
<1>2. Stores(r, rec) BY <1>1 DEF Stores, Inv
<1>3. /\ DOMAIN cut = DOMAIN old
      /\ cut.art = [s \in StepSet |-> IF Kept(s) THEN old.art[s] ELSE NoArtifact]
      /\ cut.dec = [s \in StepSet |-> IF Kept(s) THEN old.dec[s] ELSE NoDecision]
  BY <1>1 DEF Recorded, InvalidateFrom
<1>4. StepSet = StepsIn(lane) BY DEF StepSet, StepsIn, Step
<1> HIDE DEF cut
<1>5. rec.status = "driving" /\ rec.art = cut.art /\ rec.dec = cut.dec BY <1>1, <1>3 DEF Recorded
<1>6. n \in Int /\ n < Len(q) /\ Len(q) \in Nat BY <1>1, HasSteps DEF Recorded
<1>7. \A j, k \in 1..Len(q) : q[j] = q[k] => j = k BY <1>1, StepsDiffer DEF Differ
<1>8. \A j \in 1..Len(q) : q[j] \in StepsIn(lane) /\ q[j] = Step(j) BY DEF StepsIn, Step
<1> HIDE DEF q, n, old, rec
<1>9. ASSUME NEW j \in 1..Len(q), Kept(q[j]) PROVE j <= n - 1
  <2>1. PICK k \in 1..(n - 1) : q[j] = Step(k) BY <1>9
  <2>2. k \in 1..Len(q) BY <1>6
  <2> QED BY <1>7, <1>8, <2>1, <2>2
<1>10. ASSUME NEW j \in 1..Len(q), rec.art[q[j]].v # 0
       PROVE  /\ Shown(rec.art[q[j]], lane, j, rec)
              /\ \A k \in 1..(j - 1) : IsForward(rec.dec[q[k]])
  <2>1. Kept(q[j]) /\ rec.art[q[j]] = old.art[q[j]]
    BY <1>3, <1>4, <1>5, <1>8, <1>10 DEF NoArtifact
  <2>2. /\ Shown(old.art[q[j]], lane, j, old)
        /\ \A k \in 1..(j - 1) : IsForward(old.dec[q[k]])
    BY <1>1, <1>10, <2>1 DEF Derived, q
  <2>3. ASSUME NEW k \in 1..(j - 1)
        PROVE  rec.dec[q[k]] = old.dec[q[k]] /\ rec.art[q[k]] = old.art[q[k]]
    <3>1. k \in 1..Len(q) /\ k \in 1..(n - 1) BY <1>6, <1>9, <2>1
    <3>2. Kept(q[k]) BY <1>8, <3>1
    <3> HIDE DEF Kept
    <3> QED BY <1>3, <1>4, <1>5, <1>8, <3>1, <3>2
  <2>4. PICK S \in SUBSET Prior(lane, j) : Has(old.art[q[j]], S, old) BY <2>2 DEF Shown
  <2>5. \A u \in S : rec.dec[u] = old.dec[u] /\ rec.art[u] = old.art[u] BY <2>3 DEF Prior, q
  <2>6. DerivedFrom(rec, S) = DerivedFrom(old, S) BY <2>5 DEF DerivedFrom
  <2>7. Has(rec.art[q[j]], S, rec) BY <2>1, <2>4, <2>6 DEF Has
  <2> QED BY <2>2, <2>3, <2>7 DEF Shown
<1>11. Derived(rec, lane) BY <1>5, <1>10 DEF Derived, q
<1> QED BY <1>1, <1>2, <1>11, OneDerived

\* A run that starts, or is given up, keeps its artifacts and its decisions.
LEMMA StatusDerived ==
  ASSUME Inv, Current, NEW r \in Runs, NEW status, status # "review",
         run' = [run EXCEPT ![r].status = status], lane' = lane
  PROVE  Current'
<1> DEFINE rec == [run[r] EXCEPT !.status = status]
<1>1. Recorded(run[r], lane) /\ Derived(run[r], lane) BY DEF Inv, Current
<1>2. Stores(r, rec) BY DEF Stores, Inv
<1>3. rec.status = status /\ rec.art = run[r].art /\ rec.dec = run[r].dec BY <1>1 DEF Recorded
<1> HIDE DEF rec
<1> QED BY <1>1, <1>2, <1>3, SameDerived, OneDerived

-----------------------------------------------------------------------------
LEMMA CurrentInit == Init => Current
<1> SUFFICES ASSUME Init, NEW r \in Runs PROVE Derived(run[r], lane)
  BY DEF Current
<1>1. run[r] = NewRun(lane) /\ NewRun(lane).status = "none" BY DEF Init, NewRun
<1> QED BY <1>1, NothingDerived

LEMMA CurrentNext == Inv /\ AskedFor /\ Current /\ [Next]_vars => Current'
<1> SUFFICES ASSUME Inv, AskedFor, Current, [Next]_vars PROVE Current'
  OBVIOUS
<1>1. CASE UNCHANGED vars
  BY <1>1 DEF vars, Current, Runs
<1>2. ASSUME NEW r \in Runs,
             \/ StartRun(r) \/ Proceed(r) \/ ProceedByApi(r) \/ Regenerate(r) \/ Back(r)
             \/ Suspend(r) \/ Forward(r) \/ BeginEffect(r) \/ MakeCall(r) \/ EndEffect(r)
             \/ Throw(r) \/ Refuse(r) \/ Break(r) \/ GiveUp(r)
      PROVE  Current'
  <2>1. CASE StartRun(r) BY <2>1, StatusDerived DEF StartRun
  <2>2. CASE Proceed(r) \/ ProceedByApi(r)
    <3>1. PICK d : Resume(r, d) BY <2>2 DEF Proceed, ProceedByApi
    <3> QED BY <3>1, ResumeDerived
  <2>3. CASE Regenerate(r)
    <3>1. Resume(r, [action |-> "regenerate", edits |-> NoEdits]) BY <2>3 DEF Regenerate
    <3> QED BY <3>1, ResumeDerived
  <2>4. CASE Back(r) BY <2>4, BackDerived
  <2>5. CASE Suspend(r) BY <2>5, SuspendDerived
  <2>6. CASE Forward(r) BY <2>6, OnwardDerived DEF Forward
  <2>7. CASE BeginEffect(r) \/ MakeCall(r)
    <3>1. run' = run /\ lane' = lane BY <2>7 DEF BeginEffect, MakeCall
    <3> QED BY <3>1 DEF Current, Runs
  <2>8. CASE EndEffect(r)
    <3>1. PICK st : Onward(r, st) /\ lane' = lane BY <2>8 DEF EndEffect
    <3> QED BY <3>1, OnwardDerived
  <2>9. CASE Throw(r) \/ Refuse(r) \/ Break(r)
    <3> DEFINE outcome == [run[r] EXCEPT !.status = "failed"]
    <3>1. EndPass(r, outcome) /\ lane' = lane BY <2>9 DEF Throw, Refuse, Break, FailPass
    <3>2. outcome.status \in Ended BY DEF Inv, Recorded, Ended
    <3> HIDE DEF outcome
    <3> QED BY <3>1, <3>2, EndPassDerived
  <2>10. CASE GiveUp(r) BY <2>10, StatusDerived DEF GiveUp
  <2> QED BY <1>2, <2>1, <2>2, <2>3, <2>4, <2>5, <2>6, <2>7, <2>8, <2>9, <2>10
<1> QED BY <1>1, <1>2 DEF Next

\* Every stored artifact was computed from the artifacts and the edits that
\* stand, all of earlier steps, and every step before it is decided.
THEOREM StoredIsDerived == Spec => []Current
<1> QED BY CurrentInit, CurrentNext, PassesFollowTheRecord, PassesAskForNothingElse, PTL DEF Spec

\* Whatever a human reviews was computed from the artifacts and edits that
\* stand now: back drops everything that was computed from what it reopens
\* (invalidate_from), in every lane.
THEOREM ReviewedIsCurrent == Spec => []DerivedFromCurrent
<1>1. Current => DerivedFromCurrent
  <2> SUFFICES ASSUME Current, NEW r \in Runs, NEW j \in 1..Len(StepsOf(lane)),
                      run[r].art[Step(j)].v # 0, NEW u \in DOMAIN run[r].art[Step(j)].from
               PROVE  run[r].art[Step(j)].from[u] = <<run[r].art[u].v, run[r].dec[u].edits>>
    BY DEF DerivedFromCurrent, StepSet
  <2>1. Shown(run[r].art[Step(j)], lane, j, run[r]) BY DEF Current, Derived, Step
  <2>2. PICK S : run[r].art[Step(j)].from = DerivedFrom(run[r], S) BY <2>1 DEF Shown, Has
  <2> QED BY <2>2 DEF DerivedFrom
<1> QED BY <1>1, StoredIsDerived, PTL

-----------------------------------------------------------------------------
(***************************************************************************)
(* What is stored, handed in and let through.                              *)
(*                                                                         *)
(* A lane's promise about a call follows from how the artifacts behind it  *)
(* came about: each was computed from the ones before it, as the edits     *)
(* left them; an edit is one of the drafts made of the artifact it is      *)
(* about; and the contract and the gate of every step behind held.         *)
(***************************************************************************)

\* The record rec stands in st, for the steps before the i-th.
Agree(st, rec, l, i) ==
  \A u \in Prior(l, i) : st.art[u] = rec.art[u] /\ st.dec[u] = rec.dec[u]

\* The steps that show a stored copy again instead of computing it anew.
ShownAgain ==
  [security |-> {"approve", "contain"}, msp |-> {"ticket", "approve", "send"},
   features |-> {}, issues |-> {}, dependencies |-> {}, accessibility |-> {},
   vendors |-> {"approve", "create"}, onboarding |-> {"approve", "provision"},
   offboarding |-> {"approve", "revoke", "attest"}, screening |-> {"shortlist", "schedule"},
   leave |-> {"approve", "apply"}, bills |-> {"approve", "post"}, review |-> {}]
KeptBy(l) == IF l = "hr-help" THEN {"approve", "send"} ELSE ShownAgain[l]

Anew(l, s, st) == HasArtifact(st, s) => s \notin KeptBy(l)

\* A case closes over the receipt of its revocation.
Receipted(l, s, eff) == l = "offboarding" /\ s = "attest" => eff["revoke"] # NoEffect

Looked(f, C) == WithField(f, "carried", C)

\* The artifact of the j-th step was computed from what stands before it.
Computed(rec, l, j, f) ==
  \E st, C, a, v :
    /\ Agree(st, rec, l, j) /\ Anew(l, StepsOf(l)[j], st) /\ Receipted(l, StepsOf(l)[j], st.eff)
    /\ a \in Compute(l, StepsOf(l)[j], st, Looked(f, C))
    /\ rec.art[StepsOf(l)[j]] = WithField(a, "v", v)

\* The k-th step was let through by its contract and its gate.
PassedOn(rec, l, k, f) ==
  /\ rec.art[StepsOf(l)[k]].v # 0
  /\ Contract(l, StepsOf(l)[k], EffectiveArtifact(rec, StepsOf(l)[k]))
  /\ \E st, C : Agree(st, rec, l, k + 1) /\ LaneGate(l, StepsOf(l)[k], st, Looked(f, C))

Made(rec, l, f) ==
  \A j \in 1..Len(StepsOf(l)) : rec.art[StepsOf(l)[j]].v # 0 => Computed(rec, l, j, f)

PassedTo(rec, l, n, f) == \A k \in 1..n : PassedOn(rec, l, k, f)

\* The last step of an offboarding is walked with the receipt of the revocation.
Closes(l, i, e) == Receipted(l, StepsOf(l)[i], e.st.eff)

OneLawful(rec, e, l, f) ==
  /\ Made(rec, l, f)
  /\ rec.status = "review" => PassedTo(rec, l, rec.at - 1, f) /\ Closes(l, rec.at, e)
  /\ e.pc # "idle" => PassedTo(rec, l, e.i - 1, f) /\ Closes(l, e.i, e)
  /\ e.pc = "writing" => PassedOn(rec, l, e.i, f)

Lawful == \A r \in Runs : OneLawful(run[r], eng[r], lane, facts)

-----------------------------------------------------------------------------
LEMMA PriorGrows ==
  ASSUME NEW l, NEW i \in Int, NEW j \in Int, j <= i
  PROVE  Prior(l, j) \subseteq Prior(l, i)
BY DEF Prior

LEMMA AgreeBelow ==
  ASSUME NEW st, NEW rec, NEW l, NEW i \in Int, NEW j \in Int, j <= i, Agree(st, rec, l, i)
  PROVE  Agree(st, rec, l, j)
BY PriorGrows DEF Agree

LEMMA ComputedSame ==
  ASSUME NEW rec, NEW old, NEW l, NEW j, NEW f, Agree(rec, old, l, j), Computed(old, l, j, f),
         rec.art[StepsOf(l)[j]] = old.art[StepsOf(l)[j]]
  PROVE  Computed(rec, l, j, f)
<1>1. \A st : Agree(st, old, l, j) => Agree(st, rec, l, j) BY DEF Agree
<1> QED BY <1>1 DEF Computed

LEMMA PassedSame ==
  ASSUME NEW rec, NEW old, NEW l, NEW n \in Int, NEW f, Agree(rec, old, l, n + 1),
         PassedTo(old, l, n, f)
  PROVE  PassedTo(rec, l, n, f)
<1> SUFFICES ASSUME NEW k \in 1..n PROVE PassedOn(rec, l, k, f)
  BY DEF PassedTo
<1>1. PassedOn(old, l, k, f) BY DEF PassedTo
<1>2. Agree(rec, old, l, k + 1) BY AgreeBelow
<1>3. StepsOf(l)[k] \in Prior(l, k + 1) BY DEF Prior
<1>4. \A st : Agree(st, old, l, k + 1) => Agree(st, rec, l, k + 1) BY <1>2 DEF Agree
<1>5. /\ rec.art[StepsOf(l)[k]] = old.art[StepsOf(l)[k]]
      /\ rec.dec[StepsOf(l)[k]] = old.dec[StepsOf(l)[k]]
  BY <1>2, <1>3 DEF Agree
<1>6. EffectiveArtifact(rec, StepsOf(l)[k]) = EffectiveArtifact(old, StepsOf(l)[k])
  BY <1>5 DEF EffectiveArtifact
<1> QED BY <1>1, <1>4, <1>5, <1>6 DEF PassedOn

\* A record with the same artifacts and decisions, whatever else it says.
LEMMA SameMade ==
  ASSUME NEW rec, NEW old, NEW l, NEW f, rec.art = old.art, rec.dec = old.dec
  PROVE  /\ Made(old, l, f) => Made(rec, l, f)
         /\ \A n \in Int : PassedTo(old, l, n, f) => PassedTo(rec, l, n, f)
         /\ \A k : PassedOn(old, l, k, f) => PassedOn(rec, l, k, f)
<1>1. \A i : Agree(rec, old, l, i) BY DEF Agree
<1>2. \A j : Computed(old, l, j, f) => Computed(rec, l, j, f) BY <1>1, ComputedSame
<1>4. \A st, i : Agree(st, old, l, i) => Agree(st, rec, l, i) BY DEF Agree
<1>5. \A s : EffectiveArtifact(rec, s) = EffectiveArtifact(old, s) BY DEF EffectiveArtifact
<1>6. \A k : PassedOn(old, l, k, f) => PassedOn(rec, l, k, f) BY <1>4, <1>5 DEF PassedOn
<1>7. Made(old, l, f) => Made(rec, l, f) BY <1>2 DEF Made
<1> QED BY <1>6, <1>7 DEF PassedTo

\* Nothing is stored or decided for a run that has ended, or not started.
LEMMA NothingMade ==
  ASSUME NEW l, NEW rec, NEW f, rec.art = NewRun(l).art, rec.dec = NewRun(l).dec
  PROVE  Made(rec, l, f)
<1>1. rec.art = [s \in StepsIn(l) |-> NoArtifact] /\ rec.dec = [s \in StepsIn(l) |-> NoDecision]
  BY DEF NewRun, StepsIn
<1>2. ASSUME NEW j \in 1..Len(StepsOf(l))
      PROVE  rec.art[StepsOf(l)[j]].v = 0
  BY <1>1 DEF StepsIn, NoArtifact
<1> QED BY <1>2 DEF Made

LEMMA KeptIsStored ==
  ASSUME NEW l \in AllLanes, NEW s \in KeptBy(l), NEW st, NEW known, HasArtifact(st, s),
         NEW a \in Compute(l, s, st, known)
  PROVE  a = EffectiveArtifact(st, s)
<1>0. \A S : StoredOr(st, s, S) = {EffectiveArtifact(st, s)} BY DEF StoredOr
<1>1. CASE l = "security"
  BY <1>0, <1>1 DEF KeptBy, ShownAgain, Compute, SecurityCompute
<1>2. CASE l = "msp"
  BY <1>0, <1>2 DEF KeptBy, ShownAgain, Compute, MspCompute
<1>3. CASE l \in {"features", "issues", "dependencies", "accessibility", "review"}
  BY <1>3 DEF KeptBy, ShownAgain
<1>4. CASE l = "vendors"
  BY <1>0, <1>4 DEF KeptBy, ShownAgain, Compute, VendorsCompute
<1>5. CASE l = "onboarding"
  BY <1>0, <1>5 DEF KeptBy, ShownAgain, Compute, OnboardingCompute
<1>6. CASE l = "offboarding"
  BY <1>0, <1>6 DEF KeptBy, ShownAgain, Compute, OffboardingCompute
<1>7. CASE l = "screening"
  BY <1>0, <1>7 DEF KeptBy, ShownAgain, Compute, ScreeningCompute
<1>8. CASE l = "leave"
  BY <1>0, <1>8 DEF KeptBy, ShownAgain, Compute, LeaveCompute
<1>9. CASE l = "hr-help"
  BY <1>0, <1>9 DEF KeptBy, ShownAgain, Compute, HrHelpCompute
<1>10. CASE l = "bills"
  BY <1>0, <1>10 DEF KeptBy, ShownAgain, Compute, BillsCompute
<1> QED BY <1>1, <1>2, <1>3, <1>4, <1>5, <1>6, <1>7, <1>8, <1>9, <1>10 DEF AllLanes

-----------------------------------------------------------------------------
(* What a step of a run does to what it has made and passed *)

LEMMA OneIsLawful ==
  ASSUME Inv, Lawful, NEW r \in Runs, OnlyRun(r), facts' = facts,
         OneLawful(run'[r], eng'[r], lane, facts)
  PROVE  Lawful'
<1>1. ASSUME NEW q \in Runs PROVE OneLawful(run'[q], eng'[q], lane', facts')
  <2>1. CASE q = r BY <2>1 DEF OnlyRun
  <2>2. CASE q # r BY <2>2 DEF OnlyRun, Lawful
  <2> QED BY <2>1, <2>2
<1>2. Lawful' <=> \A q \in Runs : OneLawful(run'[q], eng'[q], lane', facts') BY DEF Lawful, Runs
<1> QED BY <1>1, <1>2

LEMMA EndPassLawful ==
  ASSUME Inv, Once, Lawful, NEW r \in Runs, NEW outcome, EndPass(r, outcome),
         eng[r].pc # "idle", lane' = lane, facts' = facts,
         \/ outcome.status \in Ended
         \/ /\ outcome.status = "review" /\ Made(outcome, lane, facts)
            /\ PassedTo(outcome, lane, outcome.at - 1, facts) /\ Closes(lane, outcome.at, eng[r])
  PROVE  Lawful'
<1> DEFINE rec == IF run[r].status = "driving" THEN outcome ELSE run[r]
           over == rec.status \in Ended
<1>1. /\ run' = [run EXCEPT ![r] = IF over THEN Cut(rec) ELSE rec]
      /\ eng' = [eng EXCEPT ![r] = IF over THEN Idle(lane)
                                   ELSE [@ EXCEPT !.pc = "idle", !.calls = <<>>]]
  BY DEF EndPass
<1>2. over \/ rec = outcome
  <2>1. Phased(run[r], eng[r]) BY DEF Once, Attempt
  <2> QED BY <2>1 DEF Phased, Ended
<1> HIDE DEF rec
<1>3. OnlyRun(r) BY <1>1 DEF OnlyRun, Inv
<1>4. r \in DOMAIN run /\ r \in DOMAIN eng /\ lane \in AllLanes BY DEF Inv
<1>5. CASE over
  <2> DEFINE cut == Cut(rec)
  <2>1. run'[r] = cut /\ eng'[r] = Idle(lane) BY <1>1, <1>4, <1>5
  <2>2. /\ cut.art = NewRun(lane).art /\ cut.dec = NewRun(lane).dec /\ cut.status = rec.status
    BY DEF Cut, NewRun
  <2>3. Idle(lane).pc = "idle" BY DEF Idle
  <2> HIDE DEF cut
  <2>4. Made(cut, lane, facts) BY <2>2, NothingMade
  <2>5. OneLawful(cut, Idle(lane), lane, facts) BY <1>5, <2>2, <2>3, <2>4 DEF OneLawful, Ended
  <2> QED BY <1>3, <2>1, <2>5, OneIsLawful
<1>6. CASE ~over
  <2> DEFINE e == [eng[r] EXCEPT !.pc = "idle", !.calls = <<>>]
  <2>1. run'[r] = outcome /\ eng'[r] = e BY <1>1, <1>2, <1>4, <1>6
  <2>2. e.pc = "idle" /\ e.st = eng[r].st
    <3>1. DOMAIN eng[r] = {"pc", "i", "st", "calls"} BY DEF Inv, Walked
    <3> QED BY <3>1
  <2> HIDE DEF e
  <2>3. OneLawful(outcome, e, lane, facts) BY <1>2, <1>6, <2>2 DEF OneLawful, Closes
  <2> QED BY <1>3, <2>1, <2>3, OneIsLawful
<1> QED BY <1>5, <1>6

LEMMA WalkLawful ==
  ASSUME Inv, Lawful, NEW r \in Runs, NEW rec, NEW i, NEW st, Walk(r, i, st), Stores(r, rec),
         lane' = lane, facts' = facts, rec.status # "review", Made(rec, lane, facts),
         PassedTo(rec, lane, i - 1, facts), Receipted(lane, StepsOf(lane)[i], st.eff)
  PROVE  Lawful'
<1> DEFINE e == [pc |-> "walking", i |-> i, st |-> st, calls |-> <<>>]
<1>1. run'[r] = rec /\ eng'[r] = e BY DEF Walk, Stores, Inv
<1>2. OnlyRun(r) BY DEF OnlyRun, Inv, Walk, Stores
<1>3. e.pc = "walking" /\ e.i = i /\ e.st = st OBVIOUS
<1> HIDE DEF e
<1>4. OneLawful(rec, e, lane, facts) BY <1>3 DEF OneLawful, Closes
<1> QED BY <1>1, <1>2, <1>4, OneIsLawful

LEMMA OnwardLawful ==
  ASSUME Inv, Once, Lawful, NEW r \in Runs, NEW st, eng[r].pc # "idle", Onward(r, st),
         lane' = lane, facts' = facts, PassedOn(run[r], lane, eng[r].i, facts),
         ~IsLast(r) => Receipted(lane, StepsOf(lane)[eng[r].i + 1], st.eff)
  PROVE  Lawful'
<1>1. CASE IsLast(r)
  <2> DEFINE outcome == [WithEffects(run[r], st) EXCEPT !.status = "completed"]
  <2>1. EndPass(r, outcome) BY <1>1 DEF Onward
  <2>2. outcome.status = "completed" BY DEF Inv, Recorded, WithEffects
  <2> HIDE DEF outcome
  <2> QED BY <2>1, <2>2, EndPassLawful DEF Ended
<1>2. CASE ~IsLast(r)
  <2> DEFINE n == eng[r].i + 1
             next == ForwardState(st)
             rec == run[r]
  <2>1. Walk(r, n, next) /\ run' = run BY <1>2 DEF Onward
  <2>2. Stores(r, rec) BY <2>1 DEF Stores, Inv
  <2>3. /\ OneLawful(rec, eng[r], lane, facts) /\ Walked(eng[r], rec.dec, lane)
        /\ Phased(rec, eng[r])
    BY DEF Lawful, Inv, Once, Attempt
  <2>4. PassedTo(rec, lane, n - 1, facts)
    <3> SUFFICES ASSUME NEW k \in 1..eng[r].i PROVE PassedOn(rec, lane, k, facts)
      BY <2>3 DEF PassedTo, Walked
    <3>1. k \in 1..(eng[r].i - 1) \/ k = eng[r].i BY <2>3 DEF Walked
    <3> QED BY <2>3, <3>1 DEF OneLawful, PassedTo
  <2>5. rec.status # "review" BY <2>3 DEF Phased
  <2>6. Receipted(lane, StepsOf(lane)[n], next.eff)
    BY <1>2 DEF ForwardState, Receipted
  <2> HIDE DEF n, next, rec
  <2>7. Made(rec, lane, facts) BY <2>3 DEF OneLawful
  <2> QED BY <2>1, <2>2, <2>4, <2>5, <2>6, <2>7, WalkLawful
<1> QED BY <1>1, <1>2

\* A pass that starts over has nothing to pass through yet.
LEMMA FirstStep ==
  ASSUME NEW l \in AllLanes, NEW rec, NEW eff, NEW f
  PROVE  PassedTo(rec, l, 0, f) /\ Receipted(l, StepsOf(l)[1], eff)
<1>1. l = "offboarding" => StepsOf(l)[1] = "intake" BY DEF StepsOf, OffboardingSteps
<1> QED BY <1>1 DEF PassedTo, Receipted

LEMMA StartRunLawful ==
  ASSUME Inv, Lawful, NEW r \in Runs, StartRun(r)
  PROVE  Lawful'
<1> DEFINE rec == [run[r] EXCEPT !.status = "driving"]
           st == Envelope(run[r])
<1>1. /\ Recorded(run[r], lane) /\ lane \in AllLanes /\ OneLawful(run[r], eng[r], lane, facts)
  BY DEF Inv, Lawful
<1>2. /\ run' = [run EXCEPT ![r].status = "driving"]
      /\ Walk(r, 1, st) /\ lane' = lane /\ facts' = facts
  BY DEF StartRun
<1>3. Stores(r, rec) BY <1>2 DEF Stores, Inv
<1>4. rec.status = "driving" /\ rec.art = run[r].art /\ rec.dec = run[r].dec
  BY <1>1 DEF Recorded
<1> HIDE DEF rec, st
<1>5. Made(rec, lane, facts) BY <1>1, <1>4, SameMade DEF OneLawful
<1>6. PassedTo(rec, lane, 1 - 1, facts) /\ Receipted(lane, StepsOf(lane)[1], st.eff)
  BY <1>1, FirstStep
<1> QED BY <1>2, <1>3, <1>4, <1>5, <1>6, WalkLawful

\* Of the artifacts that are stored none is behind an undecided step.
LEMMA StoredBefore ==
  ASSUME NEW l \in AllLanes, NEW rec, Derived(rec, l), NEW i \in 1..Len(StepsOf(l)),
         ~IsForward(rec.dec[StepsOf(l)[i]]),
         NEW j \in 1..Len(StepsOf(l)), rec.art[StepsOf(l)[j]].v # 0
  PROVE  j <= i
<1>1. \A k \in 1..(j - 1) : IsForward(rec.dec[StepsOf(l)[k]]) BY DEF Derived
<1>2. ASSUME j > i PROVE FALSE
  <2>1. i \in 1..(j - 1) BY <1>2, HasSteps
  <2> QED BY <1>1, <2>1
<1> QED BY <1>2, HasSteps

\* Two records that differ at one step agree before it.
LEMMA AgreeBefore ==
  ASSUME NEW l \in AllLanes, NEW rec, NEW old, NEW i \in 1..Len(StepsOf(l)),
         \A u \in StepsIn(l) \ {StepsOf(l)[i]} : rec.art[u] = old.art[u] /\ rec.dec[u] = old.dec[u]
  PROVE  Agree(rec, old, l, i)
<1> SUFFICES ASSUME NEW j \in 1..(i - 1)
             PROVE  StepsOf(l)[j] \in StepsIn(l) \ {StepsOf(l)[i]}
  BY DEF Agree, Prior
<1>1. j \in 1..Len(StepsOf(l)) /\ j # i BY HasSteps
<1> QED BY <1>1, StepsDiffer DEF Differ, StepsIn

LEMMA ResumeLawful ==
  ASSUME Inv, Once, Current, Lawful, NEW r \in Runs, NEW decision, Resume(r, decision)
  PROVE  Lawful'
<1> DEFINE q == StepsOf(lane)
           i == run[r].at
           s == q[i]
           old == run[r]
           rec == [run[r] EXCEPT !.status = "driving", !.dec[Step(i)] = decision]
           st == MergeState(eng[r].st, [Envelope(rec) EXCEPT !.decision = decision],
                            UnionsEffects(lane))
<1>1. /\ Recorded(old, lane) /\ Derived(old, lane) /\ lane \in AllLanes
      /\ OneLawful(old, eng[r], lane, facts) /\ Attempt(old, eng[r], MadeFor(r), lane)
      /\ old.status = "review" /\ run' = [run EXCEPT ![r] = rec]
      /\ lane' = lane /\ facts' = facts /\ Walk(r, i, st)
  BY DEF Inv, Current, Lawful, Once, Resume
<1>2. Stores(r, rec) BY <1>1 DEF Stores, Inv
<1>3. /\ rec.status = "driving" /\ rec.art = old.art /\ rec.eff = old.eff
      /\ rec.dec = [old.dec EXCEPT ![s] = decision]
  BY <1>1 DEF Recorded, Step
<1>4. i \in 1..Len(q) /\ ~IsForward(old.dec[s]) /\ DOMAIN old.dec = StepsIn(lane)
  BY <1>1 DEF Recorded, Derived
<1>5. /\ PassedTo(old, lane, i - 1, facts) /\ Closes(lane, i, eng[r]) /\ Made(old, lane, facts)
  BY <1>1 DEF OneLawful
<1>6. Receipted(lane, s, st.eff)
  <2> SUFFICES ASSUME lane = "offboarding", s = "attest" PROVE st.eff["revoke"] # NoEffect
    BY DEF Receipted
  <2>1. UnionsEffects(lane) BY DEF UnionsEffects
  <2>2. st.eff = [u \in DOMAIN old.eff |->
                   IF old.eff[u] = NoEffect THEN eng[r].st.eff[u] ELSE old.eff[u]]
    BY <1>3, <2>1 DEF MergeState, Envelope
  <2>3. eng[r].st.eff["revoke"] # NoEffect BY <1>5 DEF Closes, Receipted
  <2>4. "revoke" \in DOMAIN old.eff
    <3>1. "revoke" = OffboardingSteps[4] /\ Len(OffboardingSteps) = 5 BY DEF OffboardingSteps
    <3>2. StepsOf(lane) = OffboardingSteps BY DEF StepsOf
    <3>3. "revoke" \in StepsIn(lane) BY <3>1, <3>2 DEF StepsIn
    <3> QED BY <1>1, <3>3 DEF Attempt, Mapped
  <2> QED BY <2>2, <2>3, <2>4
<1> HIDE DEF q, i, s, old, rec, st
<1>9. \A u \in StepsIn(lane) \ {s} : rec.art[u] = old.art[u] /\ rec.dec[u] = old.dec[u]
  BY <1>3, <1>4
<1>10. i \in Int BY <1>4
<1>11. Agree(rec, old, lane, i) BY <1>1, <1>4, <1>9, AgreeBefore DEF q, s
<1>12. PassedTo(rec, lane, i - 1, facts)
  <2>1. (i - 1) + 1 = i /\ i - 1 \in Int BY <1>10
  <2> QED BY <1>5, <1>11, <2>1, PassedSame
<1>13. ASSUME NEW j \in 1..Len(q), rec.art[q[j]].v # 0
       PROVE  Computed(rec, lane, j, facts)
  <2>1. j <= i BY <1>1, <1>3, <1>4, <1>13, StoredBefore DEF q, s
  <2>2. Agree(rec, old, lane, j) BY <1>10, <1>11, <2>1, AgreeBelow
  <2>3. Computed(old, lane, j, facts) BY <1>3, <1>5, <1>13 DEF Made, q
  <2> QED BY <1>3, <2>2, <2>3, ComputedSame DEF q
<1>14. Made(rec, lane, facts) BY <1>13 DEF Made, q
<1> QED BY <1>1, <1>2, <1>3, <1>6, <1>12, <1>14, WalkLawful DEF q, s

LEMMA BackLawful ==
  ASSUME Inv, Lawful, NEW r \in Runs, Back(r)
  PROVE  Lawful'
<1> DEFINE q == StepsOf(lane)
           n == run[r].at - 1
           old == run[r]
           cut == InvalidateFrom(run[r], n)
           rec == [cut EXCEPT !.status = "driving"]
           st == Envelope(cut)
           Kept(s) == \E j \in 1..(n - 1) : s = Step(j)
<1>1. /\ Recorded(old, lane) /\ OneLawful(old, eng[r], lane, facts) /\ lane \in AllLanes
      /\ run' = [run EXCEPT ![r] = rec] /\ Walk(r, 1, st) /\ lane' = lane /\ facts' = facts
  BY DEF Inv, Lawful, Back
<1>2. Stores(r, rec) BY <1>1 DEF Stores, Inv
<1>3. /\ DOMAIN cut = DOMAIN old
      /\ cut.art = [s \in StepSet |-> IF Kept(s) THEN old.art[s] ELSE NoArtifact]
      /\ cut.dec = [s \in StepSet |-> IF Kept(s) THEN old.dec[s] ELSE NoDecision]
  BY <1>1 DEF Recorded, InvalidateFrom
<1>4. StepSet = StepsIn(lane) BY DEF StepSet, StepsIn, Step
<1> HIDE DEF cut
<1>5. rec.status = "driving" /\ rec.art = cut.art /\ rec.dec = cut.dec BY <1>1, <1>3 DEF Recorded
<1>6. n \in Int /\ n < Len(q) /\ Len(q) \in Nat BY <1>1, HasSteps DEF Recorded
<1>7. \A j, k \in 1..Len(q) : q[j] = q[k] => j = k BY <1>1, StepsDiffer DEF Differ
<1>8. \A j \in 1..Len(q) : q[j] \in StepsIn(lane) /\ q[j] = Step(j) BY DEF StepsIn, Step
<1>9. PassedTo(rec, lane, 1 - 1, facts) /\ Receipted(lane, StepsOf(lane)[1], st.eff)
  BY <1>1, FirstStep
<1> HIDE DEF q, n, old, rec, st
<1>10. ASSUME NEW j \in 1..Len(q), Kept(q[j]) PROVE j <= n - 1
  <2>1. PICK k \in 1..(n - 1) : q[j] = Step(k) BY <1>10
  <2>2. k \in 1..Len(q) BY <1>6
  <2> QED BY <1>7, <1>8, <2>1, <2>2
<1>11. Agree(rec, old, lane, n)
  <2> SUFFICES ASSUME NEW k \in 1..(n - 1)
               PROVE  rec.dec[q[k]] = old.dec[q[k]] /\ rec.art[q[k]] = old.art[q[k]]
    BY DEF Agree, Prior, q
  <2>1. k \in 1..Len(q) BY <1>6
  <2>2. Kept(q[k]) BY <1>8, <2>1
  <2> HIDE DEF Kept
  <2> QED BY <1>3, <1>4, <1>5, <1>8, <2>1, <2>2
<1>12. Made(old, lane, facts) BY <1>1 DEF OneLawful
<1>13. ASSUME NEW j \in 1..Len(q), rec.art[q[j]].v # 0
       PROVE  Computed(rec, lane, j, facts)
  <2>1. CASE Kept(q[j])
    <3>1. j <= n - 1 BY <1>10, <2>1
    <3> HIDE DEF Kept
    <3>2. rec.art[q[j]] = old.art[q[j]] BY <1>3, <1>4, <1>5, <1>8, <2>1
    <3>3. Agree(rec, old, lane, j) BY <1>6, <1>11, <3>1, AgreeBelow
    <3>4. Computed(old, lane, j, facts) BY <1>12, <1>13, <3>2 DEF Made, q
    <3> QED BY <3>2, <3>3, <3>4, ComputedSame DEF q
  <2>2. CASE ~Kept(q[j])
    <3> HIDE DEF Kept
    <3>1. rec.art[q[j]] = NoArtifact BY <1>3, <1>4, <1>5, <1>8, <2>2
    <3> QED BY <1>13, <3>1 DEF NoArtifact
  <2> QED BY <2>1, <2>2
<1>14. Made(rec, lane, facts) BY <1>13 DEF Made, q
<1> QED BY <1>1, <1>2, <1>5, <1>9, <1>14, WalkLawful

LEMMA SuspendLawful ==
  ASSUME Inv, Once, AskedFor, Current, Lawful, NEW r \in Runs, Suspend(r)
  PROVE  Lawful'
<1>1. PICK a \in Compute(lane, Here(r), eng[r].st, Known) :
        LET rec == [run[r] EXCEPT !.status = "review", !.at = eng[r].i, !.next = @ + 1,
                                  !.art[Here(r)] = WithField(a, "v", run[r].next)]
        IN EndPass(r, IF RepeatsEffects(lane) THEN WithEffects(rec, eng[r].st) ELSE rec)
  BY DEF Suspend
<1> DEFINE q == StepsOf(lane)
           i == eng[r].i
           s == Here(r)
           st == eng[r].st
           v == run[r].next
           new == WithField(a, "v", v)
           old == run[r]
           rec == [run[r] EXCEPT !.status = "review", !.at = i, !.next = @ + 1, !.art[s] = new]
           outcome == IF RepeatsEffects(lane) THEN WithEffects(rec, st) ELSE rec
<1>2. /\ Recorded(old, lane) /\ Walked(eng[r], old.dec, lane) /\ Derived(old, lane)
      /\ Sent(old, eng[r], lane, facts) /\ lane \in AllLanes
      /\ OneLawful(old, eng[r], lane, facts)
      /\ eng[r].pc = "walking" /\ ~Decided(r) /\ lane' = lane /\ facts' = facts
  BY DEF Inv, AskedFor, Current, Lawful, Suspend
<1>3. i \in 1..Len(q) /\ s = q[i] BY <1>2 DEF Walked, Here, Step
<1>4. st.art = old.art /\ st.dec = old.dec /\ DOMAIN old.art = StepsIn(lane)
  BY <1>2 DEF Sent, Walked
<1>5. ~IsForward(old.dec[s])
  BY <1>2, <1>3 DEF Walked, Decided, CurrentDecision, NoDecision
<1>6. /\ DOMAIN rec = DOMAIN old /\ rec.at = i /\ rec.dec = old.dec /\ rec.status = "review"
      /\ rec.art = [old.art EXCEPT ![s] = new]
  BY <1>2 DEF Recorded
<1>7. EndPass(r, outcome) BY <1>1
<1>8. /\ outcome.at = rec.at /\ outcome.art = rec.art /\ outcome.dec = rec.dec
      /\ outcome.status = "review"
  BY <1>2, <1>6 DEF WithEffects, Recorded
<1>9. \E C : Known = Looked(facts, C) BY DEF Known, Looked
<1>10. /\ PassedTo(old, lane, i - 1, facts) /\ Closes(lane, i, eng[r]) /\ Made(old, lane, facts)
  BY <1>2 DEF OneLawful
<1>11. Receipted(lane, s, st.eff) BY <1>3, <1>10 DEF Closes
<1>12. a \in Compute(lane, s, st, Known) BY <1>1
<1>13. s \in StepsIn(lane) /\ \A j \in 1..Len(q) : q[j] \in StepsIn(lane) BY <1>3 DEF StepsIn
<1> HIDE DEF q, i, s, st, new, old, rec, outcome, v
<1>14. \A u \in StepsIn(lane) \ {s} : outcome.art[u] = old.art[u] /\ outcome.dec[u] = old.dec[u]
  BY <1>4, <1>6, <1>8
<1>15. Agree(outcome, old, lane, i) BY <1>2, <1>3, <1>14, AgreeBefore DEF q
<1>16. i \in Int BY <1>3
<1>17. PassedTo(outcome, lane, i - 1, facts)
  <2>1. (i - 1) + 1 = i /\ i - 1 \in Int BY <1>16
  <2> QED BY <1>10, <1>15, <2>1, PassedSame
<1>18. outcome.art[s] = new BY <1>4, <1>6, <1>8, <1>13
<1>19. Computed(outcome, lane, i, facts)
  <2>1. CASE Anew(lane, s, st)
    <3>1. Agree(st, outcome, lane, i) BY <1>4, <1>15 DEF Agree
    <3>2. PICK C : Known = Looked(facts, C) BY <1>9
    <3>3. a \in Compute(lane, s, st, Looked(facts, C)) BY <1>12, <3>2
    <3> QED BY <1>3, <1>11, <1>18, <2>1, <3>1, <3>3 DEF Computed, new, q
  <2>2. CASE ~Anew(lane, s, st)
    <3>1. a = EffectiveArtifact(st, s)
      BY <1>2, <1>12, <2>2, KeptIsStored DEF Anew
    <3>2. st.dec[s].action # "edit" BY <1>4, <1>5 DEF IsForward
    <3>3. a = old.art[s] /\ old.art[s].v # 0
      BY <1>4, <2>2, <3>1, <3>2 DEF EffectiveArtifact, HasArtifact, Anew
    <3>4. Computed(old, lane, i, facts) BY <1>3, <1>10, <3>3 DEF Made, q
    <3>5. PICK tt, C, b, w :
            /\ Agree(tt, old, lane, i) /\ Anew(lane, s, tt) /\ Receipted(lane, s, tt.eff)
            /\ b \in Compute(lane, s, tt, Looked(facts, C)) /\ old.art[s] = WithField(b, "v", w)
      BY <1>3, <3>4 DEF Computed, q
    <3>6. new = WithField(b, "v", v) BY <3>3, <3>5 DEF new, WithField
    <3>7. Agree(tt, outcome, lane, i) BY <1>15, <3>5 DEF Agree
    <3> QED BY <1>3, <1>18, <3>5, <3>6, <3>7 DEF Computed, q
  <2> QED BY <2>1, <2>2
<1>20. ASSUME NEW j \in 1..Len(q), outcome.art[q[j]].v # 0
       PROVE  Computed(outcome, lane, j, facts)
  <2>1. CASE j = i BY <1>19, <2>1
  <2>2. CASE j # i
    <3>1. q[j] # s BY <1>2, <1>3, <2>2, StepsDiffer DEF Differ, q
    <3>2. outcome.art[q[j]] = old.art[q[j]] BY <1>13, <1>14, <3>1
    <3>3. Computed(old, lane, j, facts) BY <1>10, <1>20, <3>2 DEF Made, q
    <3>4. j <= i BY <1>2, <1>3, <1>5, <1>20, <3>2, StoredBefore DEF q
    <3>5. Agree(outcome, old, lane, j) BY <1>15, <1>16, <3>4, AgreeBelow
    <3> QED BY <3>2, <3>3, <3>5, ComputedSame DEF q
  <2> QED BY <2>1, <2>2
<1>21. Made(outcome, lane, facts) BY <1>20 DEF Made, q
<1>22. PassedTo(outcome, lane, outcome.at - 1, facts) /\ Closes(lane, outcome.at, eng[r])
  BY <1>6, <1>8, <1>10, <1>17
<1>23. eng[r].pc # "idle" BY <1>2
<1> QED BY <1>2, <1>7, <1>8, <1>21, <1>22, <1>23, EndPassLawful

\* A step that passes was let through: its artifact is stored, as the contract
\* wants it, and the gate held on what the pass carries.
LEMMA PassingLawful ==
  ASSUME Inv, AskedFor, NEW r \in Runs, Passes(r)
  PROVE  PassedOn(run[r], lane, eng[r].i, facts)
<1> DEFINE s == Here(r)
           st == eng[r].st
           rec == run[r]
           i == eng[r].i
<1>1. /\ eng[r].pc = "walking" /\ Decided(r) /\ Gate(lane, s, st, Known)
      /\ Walked(eng[r], rec.dec, lane) /\ Sent(rec, eng[r], lane, facts)
  BY DEF Passes, Inv, AskedFor
<1>2. i \in 1..Len(StepsOf(lane)) /\ s = StepsOf(lane)[i] BY <1>1 DEF Walked, Here, Step
<1>3. IsForward(rec.dec[s]) BY <1>1, DecidedInRecord
<1>4. st.art = rec.art /\ st.dec = rec.dec BY <1>1 DEF Walked, Sent
<1>5. rec.art[s].v # 0 BY <1>1, <1>2, <1>3 DEF Sent, Stored, StepsIn
<1>6. \E C : Known = Looked(facts, C) BY DEF Known, Looked
<1> HIDE DEF s, st, rec, i
<1>7. Filled(lane, s, st, Known) = {st} BY <1>4, <1>5 DEF Filled, HasArtifact
<1>8. Contract(lane, s, EffectiveArtifact(st, s)) /\ LaneGate(lane, s, st, Known)
  BY <1>1, <1>7 DEF Gate
<1>9. EffectiveArtifact(st, s) = EffectiveArtifact(rec, s) BY <1>4 DEF EffectiveArtifact
<1>10. Agree(st, rec, lane, i + 1) BY <1>4 DEF Agree
<1>11. PassedOn(rec, lane, i, facts) BY <1>2, <1>5, <1>6, <1>8, <1>9, <1>10 DEF PassedOn
<1> QED BY <1>11 DEF rec, i

\* Behind the revocation there is its receipt.
LEMMA RevokedLawful ==
  ASSUME Inv, NEW r \in Runs, NEW st, ~IsLast(r),
         lane = "offboarding" /\ Here(r) = "revoke" => st.eff["revoke"] # NoEffect
  PROVE  Receipted(lane, StepsOf(lane)[eng[r].i + 1], st.eff)
<1> SUFFICES ASSUME lane = "offboarding", StepsOf(lane)[eng[r].i + 1] = "attest"
             PROVE  st.eff["revoke"] # NoEffect
  BY DEF Receipted
<1>1. eng[r].i \in 1..Len(StepsOf(lane)) /\ eng[r].i # Len(StepsOf(lane)) BY DEF Inv, Walked, IsLast
<1>2. /\ StepsOf(lane) = OffboardingSteps /\ Len(OffboardingSteps) = 5
      /\ OffboardingSteps[1] = "intake" /\ OffboardingSteps[2] = "access-audit"
      /\ OffboardingSteps[3] = "approve" /\ OffboardingSteps[4] = "revoke"
      /\ OffboardingSteps[5] = "attest"
  BY DEF StepsOf, OffboardingSteps
<1> HIDE DEF OffboardingSteps
<1>3. eng[r].i \in 1..4
  <2>1. Len(StepsOf(lane)) = 5 BY <1>2
  <2>2. eng[r].i \in 1..5 /\ eng[r].i # 5 BY <1>1, <2>1
  <2> QED BY <2>2
<1>4. eng[r].i # 1 /\ eng[r].i # 2 /\ eng[r].i # 3 BY <1>2
<1>5. eng[r].i = 4 BY <1>3, <1>4
<1> QED BY <1>2, <1>5 DEF Here, Step

\* An effect that is recorded is never taken for none.
LEMMA HashIsAnEffect ==
  ASSUME NEW s, NEW st
  PROVE  ActionHash("offboarding", s, st) # NoEffect
<1> DEFINE mark == Mark(st, s)
<1>1. ActionHash("offboarding", s, st) = <<s, mark>> BY DEF ActionHash
<1> HIDE DEF mark
<1>2. Len(<<s, mark>>) = 2 /\ Len(NoEffect) = 1 BY DEF NoEffect
<1> QED BY <1>1, <1>2

LEMMA ForwardLawful ==
  ASSUME Inv, Once, AskedFor, Lawful, NEW r \in Runs, Forward(r)
  PROVE  Lawful'
<1>1. /\ Passes(r) /\ ~EffectDue(r) /\ Onward(r, eng[r].st) /\ lane' = lane /\ facts' = facts
  BY DEF Forward
<1>2. eng[r].pc # "idle" BY <1>1 DEF Passes
<1>3. lane = "offboarding" /\ Here(r) = "revoke" => eng[r].st.eff["revoke"] # NoEffect
  <2> SUFFICES ASSUME lane = "offboarding", Here(r) = "revoke"
               PROVE  eng[r].st.eff["revoke"] # NoEffect
    OBVIOUS
  <2>1. eng[r].st.eff["revoke"] = ActionHash("offboarding", "revoke", eng[r].st)
    BY <1>1 DEF EffectDue, HasEffect
  <2> QED BY <2>1, HashIsAnEffect
<1>4. ~IsLast(r) => Receipted(lane, StepsOf(lane)[eng[r].i + 1], eng[r].st.eff)
  BY <1>3, RevokedLawful
<1>5. PassedOn(run[r], lane, eng[r].i, facts) BY <1>1, PassingLawful
<1> QED BY <1>1, <1>2, <1>4, <1>5, OnwardLawful

LEMMA BeginEffectLawful ==
  ASSUME Inv, AskedFor, Lawful, NEW r \in Runs, BeginEffect(r)
  PROVE  Lawful'
<1> DEFINE calls == Writes(lane, Here(r), eng[r].st, Known, DeskDedupes)
           e == [eng[r] EXCEPT !.pc = "writing", !.calls = calls]
           rec == run[r]
<1>1. /\ Passes(r) /\ lane' = lane /\ run' = run /\ facts' = facts
      /\ eng' = [eng EXCEPT ![r].pc = "writing", ![r].calls = calls]
  BY DEF BeginEffect
<1>2. r \in DOMAIN eng /\ Walked(eng[r], rec.dec, lane) /\ OneLawful(rec, eng[r], lane, facts)
  BY DEF Inv, Lawful
<1> HIDE DEF calls
<1>3. run'[r] = rec /\ eng'[r] = e BY <1>1, <1>2
<1>4. OnlyRun(r) BY <1>1 DEF OnlyRun, Inv
<1>5. e.pc = "writing" /\ e.st = eng[r].st /\ e.i = eng[r].i BY <1>2 DEF Walked
<1>6. PassedOn(rec, lane, e.i, facts) BY <1>1, <1>5, PassingLawful
<1>7. eng[r].pc = "walking" BY <1>1 DEF Passes
<1> HIDE DEF e, rec
<1>8. OneLawful(rec, e, lane, facts) BY <1>2, <1>5, <1>6, <1>7 DEF OneLawful, Closes
<1> QED BY <1>1, <1>3, <1>4, <1>8, OneIsLawful

LEMMA MakeCallLawful ==
  ASSUME Inv, Lawful, NEW r \in Runs, MakeCall(r)
  PROVE  Lawful'
<1> DEFINE e == [eng[r] EXCEPT !.calls = Tail(@)]
           rec == run[r]
<1>1. /\ lane' = lane /\ run' = run /\ facts' = facts
      /\ eng' = [eng EXCEPT ![r].calls = Tail(@)]
  BY DEF MakeCall
<1>2. r \in DOMAIN eng /\ Walked(eng[r], rec.dec, lane) /\ OneLawful(rec, eng[r], lane, facts)
  BY DEF Inv, Lawful
<1>3. run'[r] = rec /\ eng'[r] = e BY <1>1, <1>2
<1>4. OnlyRun(r) BY <1>1 DEF OnlyRun, Inv
<1>5. e.pc = eng[r].pc /\ e.st = eng[r].st /\ e.i = eng[r].i BY <1>2 DEF Walked
<1> HIDE DEF e, rec
<1>6. OneLawful(rec, e, lane, facts) BY <1>2, <1>5 DEF OneLawful, Closes
<1> QED BY <1>1, <1>3, <1>4, <1>6, OneIsLawful

LEMMA EndEffectLawful ==
  ASSUME Inv, Once, Lawful, NEW r \in Runs, EndEffect(r)
  PROVE  Lawful'
<1> DEFINE s == Here(r)
           hash == ActionHash(lane, s, eng[r].st)
           st == [eng[r].st EXCEPT !.eff[s] = hash]
<1>1. eng[r].pc = "writing" /\ Onward(r, st) /\ lane' = lane /\ facts' = facts
  BY DEF EndEffect
<1>2. /\ Walked(eng[r], run[r].dec, lane) /\ OneLawful(run[r], eng[r], lane, facts)
      /\ Attempt(run[r], eng[r], MadeFor(r), lane)
  BY DEF Inv, Lawful, Once
<1>3. /\ DOMAIN eng[r].st = {"art", "dec", "eff", "decision"}
      /\ DOMAIN eng[r].st.eff = StepsIn(lane) /\ s \in StepsIn(lane)
  BY <1>1, <1>2 DEF Walked, Attempt, Mapped, Here, Step, StepsIn
<1>4. st.eff[s] = hash BY <1>3
<1>5. lane = "offboarding" => hash # NoEffect BY HashIsAnEffect
<1> HIDE DEF st, hash
<1>6. lane = "offboarding" /\ Here(r) = "revoke" => st.eff["revoke"] # NoEffect BY <1>4, <1>5
<1>7. ~IsLast(r) => Receipted(lane, StepsOf(lane)[eng[r].i + 1], st.eff)
  BY <1>6, RevokedLawful
<1>8. PassedOn(run[r], lane, eng[r].i, facts) BY <1>1, <1>2 DEF OneLawful
<1>9. eng[r].pc # "idle" BY <1>1
<1> QED BY <1>1, <1>7, <1>8, <1>9, OnwardLawful

LEMMA FailPassLawful ==
  ASSUME Inv, Once, Lawful, NEW r \in Runs, FailPass(r), eng[r].pc # "idle", facts' = facts
  PROVE  Lawful'
<1> DEFINE outcome == [run[r] EXCEPT !.status = "failed"]
<1>1. EndPass(r, outcome) /\ lane' = lane BY DEF FailPass
<1>2. outcome.status \in Ended BY DEF Inv, Recorded, Ended
<1> HIDE DEF outcome
<1> QED BY <1>1, <1>2, EndPassLawful

LEMMA GiveUpLawful ==
  ASSUME Inv, Lawful, NEW r \in Runs, GiveUp(r)
  PROVE  Lawful'
<1> DEFINE rec == [run[r] EXCEPT !.status = "failed"]
           e == eng[r]
<1>1. Recorded(run[r], lane) /\ OneLawful(run[r], e, lane, facts) BY DEF Inv, Lawful
<1>2. /\ run' = [run EXCEPT ![r].status = "failed"]
      /\ eng' = eng /\ lane' = lane /\ facts' = facts
  BY DEF GiveUp
<1>3. OnlyRun(r) BY <1>2 DEF OnlyRun, Inv
<1>4. run'[r] = rec /\ eng'[r] = e BY <1>2 DEF Inv
<1>5. rec.status = "failed" /\ rec.art = run[r].art /\ rec.dec = run[r].dec BY <1>1 DEF Recorded
<1>6. e.pc # "idle" => e.i - 1 \in Int BY DEF Inv, Walked
<1> HIDE DEF rec, e
<1>7. OneLawful(rec, e, lane, facts) BY <1>1, <1>5, <1>6, SameMade DEF OneLawful
<1> QED BY <1>2, <1>3, <1>4, <1>7, OneIsLawful

-----------------------------------------------------------------------------
LEMMA LawfulInit == Init => Lawful
<1> SUFFICES ASSUME Init, NEW r \in Runs PROVE OneLawful(run[r], eng[r], lane, facts)
  BY DEF Lawful
<1>1. run[r] = NewRun(lane) /\ eng[r] = Idle(lane) BY DEF Init
<1>2. NewRun(lane).status = "none" /\ Idle(lane).pc = "idle" BY DEF NewRun, Idle
<1>3. Made(run[r], lane, facts) BY <1>1, NothingMade
<1> QED BY <1>1, <1>2, <1>3 DEF OneLawful

LEMMA LawfulNext == Inv /\ Once /\ AskedFor /\ Current /\ Lawful /\ [Next]_vars => Lawful'
<1> SUFFICES ASSUME Inv, Once, AskedFor, Current, Lawful, [Next]_vars PROVE Lawful'
  OBVIOUS
<1>1. CASE UNCHANGED vars
  BY <1>1 DEF vars, Lawful, Runs
<1>2. ASSUME NEW r \in Runs,
             \/ StartRun(r) \/ Proceed(r) \/ ProceedByApi(r) \/ Regenerate(r) \/ Back(r)
             \/ Suspend(r) \/ Forward(r) \/ BeginEffect(r) \/ MakeCall(r) \/ EndEffect(r)
             \/ Throw(r) \/ Refuse(r) \/ Break(r) \/ GiveUp(r)
      PROVE  Lawful'
  <2>1. CASE StartRun(r) BY <2>1, StartRunLawful
  <2>2. CASE Proceed(r) \/ ProceedByApi(r)
    <3>1. PICK d : Resume(r, d) BY <2>2 DEF Proceed, ProceedByApi
    <3> QED BY <3>1, ResumeLawful
  <2>3. CASE Regenerate(r)
    <3>1. Resume(r, [action |-> "regenerate", edits |-> NoEdits]) BY <2>3 DEF Regenerate
    <3> QED BY <3>1, ResumeLawful
  <2>4. CASE Back(r) BY <2>4, BackLawful
  <2>5. CASE Suspend(r) BY <2>5, SuspendLawful
  <2>6. CASE Forward(r) BY <2>6, ForwardLawful
  <2>7. CASE BeginEffect(r) BY <2>7, BeginEffectLawful
  <2>8. CASE MakeCall(r) BY <2>8, MakeCallLawful
  <2>9. CASE EndEffect(r) BY <2>9, EndEffectLawful
  <2>10. CASE Throw(r) \/ Refuse(r) \/ Break(r)
    <3>1. FailPass(r) /\ facts' = facts /\ eng[r].pc # "idle"
      BY <2>10 DEF Throw, Refuse, Break, FailPass
    <3> QED BY <3>1, FailPassLawful
  <2>11. CASE GiveUp(r) BY <2>11, GiveUpLawful
  <2> QED
    BY <1>2, <2>1, <2>2, <2>3, <2>4, <2>5, <2>6, <2>7, <2>8, <2>9, <2>10, <2>11
<1> QED BY <1>1, <1>2 DEF Next

\* Whatever stands in a record was computed from what stands before it, however
\* that was edited, and a pass has only walked on from steps whose contract and
\* gate held.
THEOREM EverythingIsLawful == Spec => []Lawful
<1> QED
  BY LawfulInit, LawfulNext, PassesFollowTheRecord, CallsAreKnown, PassesAskForNothingElse,
     StoredIsDerived, PTL DEF Spec

-----------------------------------------------------------------------------
(***************************************************************************)
(* What is reached.                                                        *)
(*                                                                         *)
(* Lawful says what a pass was let through; this says it of the record, so *)
(* that it is there for whatever is stored when no pass walks: in front of *)
(* every stored artifact, each step's contract and gate held. A decision   *)
(* of the record is an edit exactly when it carries edits.                 *)
(***************************************************************************)

\* Decisions are edits exactly when they carry edits, and a stored artifact is
\* numbered with a computation of this record.
Numbered(rec, l) ==
  \A s \in StepsIn(l) :
    DecisionOK(rec.dec[s]) /\ rec.art[s].v \in Nat /\ rec.art[s].v < rec.next

\* In front of every stored artifact the steps were let through.
Reached(rec, l, f) ==
  \A j \in 1..Len(StepsOf(l)) : rec.art[StepsOf(l)[j]].v # 0 => PassedTo(rec, l, j - 1, f)

Standing(rec, l, f) == Numbered(rec, l) /\ Reached(rec, l, f)

Stands == \A r \in Runs : Standing(run[r], lane, facts)

-----------------------------------------------------------------------------
LEMMA OneStands ==
  ASSUME Stands, NEW r \in Runs, NEW rec, Stores(r, rec), lane' = lane, facts' = facts,
         Standing(rec, lane, facts)
  PROVE  Stands'
<1>1. ASSUME NEW q \in Runs PROVE Standing(run'[q], lane', facts')
  <2>1. CASE q = r BY <2>1 DEF Stores
  <2>2. CASE q # r BY <2>2 DEF Stores, Stands
  <2> QED BY <2>1, <2>2
<1>2. Stands' <=> \A q \in Runs : Standing(run'[q], lane', facts') BY DEF Stands, Runs
<1> QED BY <1>1, <1>2

\* No decision, a regeneration and what Proceed builds are decisions.
LEMMA NoDecisionOK == DecisionOK(NoDecision)
BY DEF DecisionOK, NoDecision

LEMMA RegenerateOK == DecisionOK([action |-> "regenerate", edits |-> NoEdits])
BY DEF DecisionOK

LEMMA BuildOK ==
  ASSUME NEW a, NEW v, NEW draft
  PROVE  DecisionOK(BuildProceed(WithField(a, "v", v), draft))
<1> DEFINE w == WithField(a, "v", v)
<1>1. Merged(NoEdits, w) = w
  <2>1. w = [x \in DOMAIN a \union {"v"} |-> IF x = "v" THEN v ELSE a[x]] BY DEF WithField
  <2>2. w = [x \in DOMAIN w |-> w[x]] BY <2>1
  <2> HIDE DEF w
  <2>3. DOMAIN NoEdits = {} BY DEF NoEdits
  <2>4. Merged(NoEdits, w) = [x \in DOMAIN w |-> w[x]] BY <2>3 DEF Merged
  <2> QED BY <2>2, <2>4
<1> HIDE DEF w
<1>2. CASE Merged(draft, w) = w
  <2>1. BuildProceed(w, draft) = [action |-> "proceed", edits |-> NoEdits]
    BY <1>2 DEF BuildProceed
  <2> QED BY <2>1 DEF DecisionOK, w
<1>3. CASE Merged(draft, w) # w
  <2>1. BuildProceed(w, draft) = [action |-> "edit", edits |-> draft] BY <1>3 DEF BuildProceed
  <2>2. draft # NoEdits BY <1>1, <1>3
  <2> QED BY <2>1, <2>2 DEF DecisionOK, w
<1> QED BY <1>2, <1>3

\* Nothing is stored for a run that has ended, or not started.
LEMMA NothingStands ==
  ASSUME NEW l, NEW rec, NEW f, rec.art = NewRun(l).art, rec.dec = NewRun(l).dec,
         rec.next = NewRun(l).next
  PROVE  Standing(rec, l, f)
<1>1. /\ rec.art = [s \in StepsIn(l) |-> NoArtifact] /\ rec.dec = [s \in StepsIn(l) |-> NoDecision]
      /\ rec.next = 1
  BY DEF NewRun, StepsIn
<1>2. ASSUME NEW s \in StepsIn(l) PROVE rec.art[s].v = 0 /\ rec.dec[s] = NoDecision
  BY <1>1 DEF NoArtifact
<1>3. Numbered(rec, l) BY <1>1, <1>2, NoDecisionOK DEF Numbered
<1>4. Reached(rec, l, f) BY <1>2 DEF Reached, StepsIn
<1> QED BY <1>3, <1>4 DEF Standing

\* The record of another status with the same artifacts and decisions.
LEMMA SameStands ==
  ASSUME NEW l \in AllLanes, NEW rec, NEW tt, NEW f, Standing(tt, l, f),
         rec.art = tt.art, rec.dec = tt.dec, rec.next = tt.next
  PROVE  Standing(rec, l, f)
<1>1. Numbered(rec, l) BY DEF Standing, Numbered
<1>2. \A n \in Int : PassedTo(tt, l, n, f) => PassedTo(rec, l, n, f) BY SameMade
<1>3. \A j \in 1..Len(StepsOf(l)) : j - 1 \in Int BY HasSteps
<1>4. Reached(rec, l, f) BY <1>2, <1>3 DEF Standing, Reached
<1> QED BY <1>1, <1>4 DEF Standing

\* What is let through in front of a step stays let through in another record
\* that agrees in front of it.
LEMMA ReachedAgain ==
  ASSUME NEW l \in AllLanes, NEW rec, NEW old, NEW i \in Int, NEW f, Agree(rec, old, l, i),
         \A j \in 1..Len(StepsOf(l)) : rec.art[StepsOf(l)[j]].v # 0 =>
           j <= i /\ PassedTo(old, l, j - 1, f)
  PROVE  Reached(rec, l, f)
<1> SUFFICES ASSUME NEW j \in 1..Len(StepsOf(l)), rec.art[StepsOf(l)[j]].v # 0
             PROVE  PassedTo(rec, l, j - 1, f)
  BY DEF Reached
<1>1. j \in Int /\ j - 1 \in Int /\ (j - 1) + 1 = j BY HasSteps
<1>2. j <= i /\ PassedTo(old, l, j - 1, f) OBVIOUS
<1>3. Agree(rec, old, l, j) BY <1>1, <1>2, AgreeBelow
<1> QED BY <1>1, <1>2, <1>3, PassedSame

LEMMA EndPassStands ==
  ASSUME Inv, Stands, NEW r \in Runs, NEW outcome, EndPass(r, outcome),
         lane' = lane, facts' = facts,
         outcome.status \in Ended \/ Standing(outcome, lane, facts)
  PROVE  Stands'
<1> DEFINE rec == IF run[r].status = "driving" THEN outcome ELSE run[r]
           over == rec.status \in Ended
           new == IF over THEN Cut(rec) ELSE rec
<1>1. run' = [run EXCEPT ![r] = new] BY DEF EndPass
<1>2. over \/ Standing(rec, lane, facts) BY DEF Stands
<1> HIDE DEF rec
<1>3. over => new.art = NewRun(lane).art /\ new.dec = NewRun(lane).dec /\ new.next = NewRun(lane).next
  BY DEF Cut, NewRun
<1>4. Standing(new, lane, facts)
  <2>1. CASE over
    <3> HIDE DEF new
    <3> QED BY <1>3, <2>1, NothingStands
  <2>2. CASE ~over BY <1>2, <2>2
  <2> QED BY <2>1, <2>2
<1> HIDE DEF new
<1>5. Stores(r, new) BY <1>1 DEF Stores, Inv
<1> QED BY <1>4, <1>5, OneStands

LEMMA OnwardStands ==
  ASSUME Inv, Stands, NEW r \in Runs, NEW st, Onward(r, st), lane' = lane, facts' = facts
  PROVE  Stands'
<1>1. CASE IsLast(r)
  <2> DEFINE outcome == [WithEffects(run[r], st) EXCEPT !.status = "completed"]
  <2>1. EndPass(r, outcome) BY <1>1 DEF Onward
  <2>2. outcome.status = "completed" BY DEF Inv, Recorded, WithEffects
  <2> HIDE DEF outcome
  <2> QED BY <2>1, <2>2, EndPassStands DEF Ended
<1>2. CASE ~IsLast(r)
  <2>1. run' = run BY <1>2 DEF Onward
  <2> QED BY <2>1 DEF Stands, Runs
<1> QED BY <1>1, <1>2

\* A run that starts, or is given up, keeps its artifacts and its decisions.
LEMMA StatusStands ==
  ASSUME Inv, Stands, NEW r \in Runs, NEW status,
         run' = [run EXCEPT ![r].status = status], lane' = lane, facts' = facts
  PROVE  Stands'
<1> DEFINE rec == [run[r] EXCEPT !.status = status]
<1>1. Recorded(run[r], lane) /\ Standing(run[r], lane, facts) /\ lane \in AllLanes
  BY DEF Inv, Stands
<1>2. Stores(r, rec) BY DEF Stores, Inv
<1>3. rec.art = run[r].art /\ rec.dec = run[r].dec /\ rec.next = run[r].next
  BY <1>1 DEF Recorded
<1> HIDE DEF rec
<1> QED BY <1>1, <1>2, <1>3, SameStands, OneStands

\* A decision is made of the step in review, and nothing behind it is stored.
LEMMA ResumeStands ==
  ASSUME Inv, Current, Stands, NEW r \in Runs, NEW decision, Resume(r, decision),
         DecisionOK(decision)
  PROVE  Stands'
<1> DEFINE q == StepsOf(lane)
           i == run[r].at
           s == q[i]
           old == run[r]
           rec == [run[r] EXCEPT !.status = "driving", !.dec[Step(i)] = decision]
<1>1. /\ Recorded(old, lane) /\ Derived(old, lane) /\ lane \in AllLanes
      /\ Numbered(old, lane) /\ Reached(old, lane, facts)
      /\ old.status = "review" /\ run' = [run EXCEPT ![r] = rec]
      /\ lane' = lane /\ facts' = facts
  BY DEF Inv, Current, Stands, Standing, Resume
<1>2. Stores(r, rec) BY <1>1 DEF Stores, Inv
<1>3. /\ rec.art = old.art /\ rec.next = old.next
      /\ rec.dec = [old.dec EXCEPT ![s] = decision]
  BY <1>1 DEF Recorded, Step
<1>4. i \in 1..Len(q) /\ ~IsForward(old.dec[s]) /\ DOMAIN old.dec = StepsIn(lane)
  BY <1>1 DEF Recorded, Derived
<1> HIDE DEF q, i, s, old, rec
<1>5. \A u \in StepsIn(lane) \ {s} : rec.art[u] = old.art[u] /\ rec.dec[u] = old.dec[u]
  BY <1>3, <1>4
<1>6. i \in Int BY <1>4
<1>7. Agree(rec, old, lane, i) BY <1>1, <1>4, <1>5, AgreeBefore DEF q, s
<1>8. ASSUME NEW j \in 1..Len(q), rec.art[q[j]].v # 0
      PROVE  j <= i /\ PassedTo(old, lane, j - 1, facts)
  <2>1. old.art[q[j]].v # 0 BY <1>3, <1>8
  <2>2. j <= i BY <1>1, <1>4, <2>1, StoredBefore DEF q, s
  <2> QED BY <1>1, <2>1, <2>2 DEF Reached, q
<1>9. Reached(rec, lane, facts) BY <1>1, <1>6, <1>7, <1>8, ReachedAgain DEF q
<1>10. Numbered(rec, lane)
  <2> SUFFICES ASSUME NEW u \in StepsIn(lane)
               PROVE  DecisionOK(rec.dec[u]) /\ rec.art[u].v \in Nat /\ rec.art[u].v < rec.next
    BY DEF Numbered
  <2>1. DecisionOK(old.dec[u]) /\ rec.art[u].v \in Nat /\ rec.art[u].v < rec.next
    BY <1>1, <1>3 DEF Numbered
  <2>2. rec.dec[u] = decision \/ rec.dec[u] = old.dec[u] BY <1>3, <1>4
  <2> QED BY <2>1, <2>2
<1> QED BY <1>1, <1>2, <1>9, <1>10, OneStands DEF Standing

\* Going back drops everything from the reopened step on.
LEMMA BackStands ==
  ASSUME Inv, AskedFor, Stands, NEW r \in Runs, Back(r)
  PROVE  Stands'
<1> DEFINE q == StepsOf(lane)
           n == run[r].at - 1
           old == run[r]
           cut == InvalidateFrom(run[r], n)
           rec == [cut EXCEPT !.status = "driving"]
           Kept(s) == \E j \in 1..(n - 1) : s = Step(j)
<1>1. /\ Recorded(old, lane) /\ lane \in AllLanes
      /\ Numbered(old, lane) /\ Reached(old, lane, facts) /\ old.next \in Nat \ {0}
      /\ run' = [run EXCEPT ![r] = rec] /\ lane' = lane /\ facts' = facts
  BY DEF Inv, AskedFor, Sent, Stands, Standing, Back
<1>2. Stores(r, rec) BY <1>1 DEF Stores, Inv
<1>3. /\ DOMAIN cut = DOMAIN old /\ cut.next = old.next
      /\ cut.art = [s \in StepSet |-> IF Kept(s) THEN old.art[s] ELSE NoArtifact]
      /\ cut.dec = [s \in StepSet |-> IF Kept(s) THEN old.dec[s] ELSE NoDecision]
  BY <1>1 DEF Recorded, InvalidateFrom
<1>4. StepSet = StepsIn(lane) BY DEF StepSet, StepsIn, Step
<1> HIDE DEF cut
<1>5. rec.art = cut.art /\ rec.dec = cut.dec /\ rec.next = old.next BY <1>1, <1>3 DEF Recorded
<1>6. n \in Int /\ n < Len(q) /\ Len(q) \in Nat BY <1>1, HasSteps DEF Recorded
<1>7. \A j, k \in 1..Len(q) : q[j] = q[k] => j = k BY <1>1, StepsDiffer DEF Differ
<1>8. \A j \in 1..Len(q) : q[j] \in StepsIn(lane) /\ q[j] = Step(j) BY DEF StepsIn, Step
<1> HIDE DEF q, n, old, rec
<1>9. ASSUME NEW j \in 1..Len(q), Kept(q[j]) PROVE j <= n - 1
  <2>1. PICK k \in 1..(n - 1) : q[j] = Step(k) BY <1>9
  <2>2. k \in 1..Len(q) BY <1>6
  <2> QED BY <1>7, <1>8, <2>1, <2>2
<1>10. Agree(rec, old, lane, n)
  <2> SUFFICES ASSUME NEW k \in 1..(n - 1)
               PROVE  rec.dec[q[k]] = old.dec[q[k]] /\ rec.art[q[k]] = old.art[q[k]]
    BY DEF Agree, Prior, q
  <2>1. k \in 1..Len(q) BY <1>6
  <2>2. Kept(q[k]) BY <1>8, <2>1
  <2> HIDE DEF Kept
  <2> QED BY <1>3, <1>4, <1>5, <1>8, <2>1, <2>2
<1> HIDE DEF Kept
<1>11. ASSUME NEW j \in 1..Len(q), rec.art[q[j]].v # 0
       PROVE  j <= n /\ PassedTo(old, lane, j - 1, facts)
  <2>1. Kept(q[j]) /\ rec.art[q[j]] = old.art[q[j]]
    BY <1>3, <1>4, <1>5, <1>8, <1>11 DEF NoArtifact
  <2>2. j <= n BY <1>6, <1>9, <2>1
  <2>3. PassedTo(old, lane, j - 1, facts) BY <1>1, <1>11, <2>1 DEF Reached, q
  <2> QED BY <2>2, <2>3
<1>12. Reached(rec, lane, facts) BY <1>1, <1>6, <1>10, <1>11, ReachedAgain DEF q
<1>13. Numbered(rec, lane)
  <2> SUFFICES ASSUME NEW u \in StepsIn(lane)
               PROVE  DecisionOK(rec.dec[u]) /\ rec.art[u].v \in Nat /\ rec.art[u].v < rec.next
    BY DEF Numbered
  <2>1. CASE Kept(u)
    <3>1. rec.art[u] = old.art[u] /\ rec.dec[u] = old.dec[u] BY <1>3, <1>4, <1>5, <2>1
    <3> QED BY <1>1, <1>5, <3>1 DEF Numbered
  <2>2. CASE ~Kept(u)
    <3>1. rec.art[u] = NoArtifact /\ rec.dec[u] = NoDecision BY <1>3, <1>4, <1>5, <2>2
    <3>2. NoArtifact.v = 0 BY DEF NoArtifact
    <3> QED BY <1>1, <1>5, <3>1, <3>2, NoDecisionOK
  <2> QED BY <2>1, <2>2
<1> QED BY <1>1, <1>2, <1>12, <1>13, OneStands DEF Standing

\* A step computes its artifact behind the steps its pass was let through.
LEMMA SuspendStands ==
  ASSUME Inv, AskedFor, Current, Lawful, Stands, NEW r \in Runs, Suspend(r)
  PROVE  Stands'
<1>1. PICK a \in Compute(lane, Here(r), eng[r].st, Known) :
        LET rec == [run[r] EXCEPT !.status = "review", !.at = eng[r].i, !.next = @ + 1,
                                  !.art[Here(r)] = WithField(a, "v", run[r].next)]
        IN EndPass(r, IF RepeatsEffects(lane) THEN WithEffects(rec, eng[r].st) ELSE rec)
  BY DEF Suspend
<1> DEFINE q == StepsOf(lane)
           i == eng[r].i
           s == Here(r)
           v == run[r].next
           new == WithField(a, "v", v)
           old == run[r]
           rec == [run[r] EXCEPT !.status = "review", !.at = i, !.next = @ + 1, !.art[s] = new]
           outcome == IF RepeatsEffects(lane) THEN WithEffects(rec, eng[r].st) ELSE rec
<1>2. /\ Recorded(old, lane) /\ Walked(eng[r], old.dec, lane) /\ Derived(old, lane)
      /\ Sent(old, eng[r], lane, facts) /\ lane \in AllLanes
      /\ Numbered(old, lane) /\ Reached(old, lane, facts)
      /\ OneLawful(old, eng[r], lane, facts)
      /\ eng[r].pc = "walking" /\ ~Decided(r) /\ lane' = lane /\ facts' = facts
  BY DEF Inv, AskedFor, Current, Lawful, Stands, Standing, Suspend
<1>3. i \in 1..Len(q) /\ s = q[i] BY <1>2 DEF Walked, Here, Step
<1>4. DOMAIN old.art = StepsIn(lane) /\ old.next \in Nat \ {0} /\ v = old.next BY <1>2 DEF Sent
<1>5. ~IsForward(old.dec[s])
  BY <1>2, <1>3 DEF Walked, Decided, CurrentDecision, NoDecision
<1>6. /\ DOMAIN rec = DOMAIN old /\ rec.dec = old.dec /\ rec.next = old.next + 1
      /\ rec.art = [old.art EXCEPT ![s] = new]
  BY <1>2 DEF Recorded
<1>7. EndPass(r, outcome) BY <1>1
<1>8. outcome.art = rec.art /\ outcome.dec = rec.dec /\ outcome.next = rec.next
  BY <1>2, <1>6 DEF WithEffects, Recorded
<1>9. PassedTo(old, lane, i - 1, facts) BY <1>2 DEF OneLawful
<1>10. new.v = v BY DEF WithField
<1>11. s \in StepsIn(lane) /\ \A j \in 1..Len(q) : q[j] \in StepsIn(lane) BY <1>3 DEF StepsIn
<1> HIDE DEF q, i, s, new, old, rec, outcome, v
<1>12. \A u \in StepsIn(lane) \ {s} : outcome.art[u] = old.art[u] /\ outcome.dec[u] = old.dec[u]
  BY <1>4, <1>6, <1>8
<1>13. Agree(outcome, old, lane, i) BY <1>2, <1>3, <1>12, AgreeBefore DEF q
<1>14. i \in Int BY <1>3
<1>15. outcome.art[s] = new BY <1>4, <1>6, <1>8, <1>11
<1>16. ASSUME NEW j \in 1..Len(q), outcome.art[q[j]].v # 0
       PROVE  j <= i /\ PassedTo(old, lane, j - 1, facts)
  <2>1. CASE j = i BY <1>9, <1>14, <2>1
  <2>2. CASE j # i
    <3>1. q[j] # s BY <1>2, <1>3, <2>2, StepsDiffer DEF Differ, q
    <3>2. old.art[q[j]].v # 0 BY <1>11, <1>12, <1>16, <3>1
    <3>3. j <= i BY <1>2, <1>3, <1>5, <3>2, StoredBefore DEF q
    <3>4. PassedTo(old, lane, j - 1, facts) BY <1>2, <3>2 DEF Reached, q
    <3> QED BY <3>3, <3>4
  <2> QED BY <2>1, <2>2
<1>17. Reached(outcome, lane, facts) BY <1>2, <1>13, <1>14, <1>16, ReachedAgain DEF q
<1>18. Numbered(outcome, lane)
  <2> SUFFICES ASSUME NEW u \in StepsIn(lane)
               PROVE  /\ DecisionOK(outcome.dec[u]) /\ outcome.art[u].v \in Nat
                      /\ outcome.art[u].v < outcome.next
    BY DEF Numbered
  <2>1. /\ DecisionOK(old.dec[u]) /\ old.art[u].v \in Nat /\ old.art[u].v < old.next
    BY <1>2 DEF Numbered
  <2>2. outcome.dec[u] = old.dec[u] /\ outcome.next = old.next + 1 BY <1>6, <1>8
  <2>3. CASE u = s BY <1>4, <1>10, <1>15, <2>1, <2>2, <2>3
  <2>4. CASE u # s
    <3>1. outcome.art[u] = old.art[u] BY <1>12, <2>4
    <3> QED BY <1>4, <2>1, <2>2, <3>1
  <2> QED BY <2>3, <2>4
<1> QED BY <1>2, <1>7, <1>17, <1>18, EndPassStands DEF Standing

-----------------------------------------------------------------------------
LEMMA StandsInit == Init => Stands
<1> SUFFICES ASSUME Init, NEW r \in Runs PROVE Standing(run[r], lane, facts)
  BY DEF Stands
<1>1. run[r] = NewRun(lane) BY DEF Init
<1> QED BY <1>1, NothingStands

LEMMA StandsNext == Inv /\ AskedFor /\ Current /\ Lawful /\ Stands /\ [Next]_vars => Stands'
<1> SUFFICES ASSUME Inv, AskedFor, Current, Lawful, Stands, [Next]_vars PROVE Stands'
  OBVIOUS
<1>1. CASE UNCHANGED vars
  BY <1>1 DEF vars, Stands, Runs
<1>2. ASSUME NEW r \in Runs,
             \/ StartRun(r) \/ Proceed(r) \/ ProceedByApi(r) \/ Regenerate(r) \/ Back(r)
             \/ Suspend(r) \/ Forward(r) \/ BeginEffect(r) \/ MakeCall(r) \/ EndEffect(r)
             \/ Throw(r) \/ Refuse(r) \/ Break(r) \/ GiveUp(r)
      PROVE  Stands'
  <2>1. CASE StartRun(r) BY <2>1, StatusStands DEF StartRun
  <2>2. CASE Proceed(r)
    <3> DEFINE i == run[r].at
               w == run[r].art[Step(i)]
    <3>1. PICK draft : Resume(r, BuildProceed(w, draft)) BY <2>2 DEF Proceed
    <3>2. /\ run[r].status = "review" /\ Recorded(run[r], lane)
          /\ Sent(run[r], eng[r], lane, facts) /\ Made(run[r], lane, facts)
      BY <2>2 DEF Proceed, Inv, AskedFor, Lawful, OneLawful
    <3>3. i \in 1..Len(StepsOf(lane)) /\ w.v # 0 BY <3>2 DEF Recorded, Sent, Step
    <3>4. Computed(run[r], lane, i, facts) BY <3>2, <3>3 DEF Made, Step
    <3>5. PICK a, v : w = WithField(a, "v", v) BY <3>4 DEF Computed, Step
    <3> HIDE DEF w
    <3>6. DecisionOK(BuildProceed(w, draft)) BY <3>5, BuildOK
    <3> QED BY <3>1, <3>6, ResumeStands
  <2>3. CASE Regenerate(r)
    <3>1. Resume(r, [action |-> "regenerate", edits |-> NoEdits]) BY <2>3 DEF Regenerate
    <3> QED BY <3>1, RegenerateOK, ResumeStands
  <2>11. CASE ProceedByApi(r)
    <3> DEFINE free == FreeEdits(lane, Step(run[r].at), run[r].art[Step(run[r].at)]) \ {NoEdits}
    <3>1. PICK e \in free : Resume(r, [action |-> "edit", edits |-> e]) BY <2>11 DEF ProceedByApi
    <3>2. e # NoEdits OBVIOUS
    <3> HIDE DEF free
    <3>3. DecisionOK([action |-> "edit", edits |-> e]) BY <3>2 DEF DecisionOK
    <3> QED BY <3>1, <3>3, ResumeStands
  <2>4. CASE Back(r) BY <2>4, BackStands
  <2>5. CASE Suspend(r) BY <2>5, SuspendStands
  <2>6. CASE Forward(r) BY <2>6, OnwardStands DEF Forward
  <2>7. CASE BeginEffect(r) \/ MakeCall(r)
    <3>1. run' = run /\ lane' = lane /\ facts' = facts BY <2>7 DEF BeginEffect, MakeCall
    <3> QED BY <3>1 DEF Stands, Runs
  <2>8. CASE EndEffect(r)
    <3>1. PICK st : Onward(r, st) /\ lane' = lane /\ facts' = facts BY <2>8 DEF EndEffect
    <3> QED BY <3>1, OnwardStands
  <2>9. CASE Throw(r) \/ Refuse(r) \/ Break(r)
    <3> DEFINE outcome == [run[r] EXCEPT !.status = "failed"]
    <3>1. EndPass(r, outcome) /\ lane' = lane /\ facts' = facts
      BY <2>9 DEF Throw, Refuse, Break, FailPass
    <3>2. outcome.status \in Ended BY DEF Inv, Recorded, Ended
    <3> HIDE DEF outcome
    <3> QED BY <3>1, <3>2, EndPassStands
  <2>10. CASE GiveUp(r) BY <2>10, StatusStands DEF GiveUp
  <2> QED BY <1>2, <2>1, <2>2, <2>3, <2>4, <2>5, <2>6, <2>7, <2>8, <2>9, <2>10, <2>11
<1> QED BY <1>1, <1>2 DEF Next

\* In every record the decisions are edits exactly when they carry edits, and
\* the steps in front of a stored artifact were let through.
THEOREM WhatIsStoredWasReached == Spec => []Stands
<1> QED
  BY StandsInit, StandsNext, PassesFollowTheRecord, PassesAskForNothingElse, StoredIsDerived,
     EverythingIsLawful, PTL DEF Spec
=============================================================================

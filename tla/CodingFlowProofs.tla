--------------------------- MODULE CodingFlowProofs ---------------------------
(***************************************************************************)
(* What the coding lane's gates promise, for any paths, policy, contents,  *)
(* number of runs of the branch, pushes to the base branch and faults:     *)
(* a manifest that is published was cleared, shown and judged, and is in   *)
(* the commit; it is the commit where the working tree is the run's own.   *)
(* One Draft PR is asked for, and closed runs leave no container.          *)
(*                                                                         *)
(* Runs of the branch follow each other, so that one run at a time is      *)
(* between its start and its end.  The invariant says of that run what its *)
(* gates have established at the step it is at, and of the container and   *)
(* the branch how they relate to its patch.                                *)
(***************************************************************************)
EXTENDS CodingFlow, FiniteSetTheorems, TLAPS

RunRecord ==
  [pc : Steps \union {"idle", "closed", "thrown"}, sha : Nat,
   rca : {"none", "weak", "unfixable", "sound"}, patch : Files, manifest : Files,
   shown : Files, granted : SUBSET Destructive, spent : BOOLEAN, judged : Files,
   close : Closes]
Container == [up : BOOLEAN, files : Files, head : 0..(MaxMoves + 1)]

Types ==
  /\ sandbox \in BOOLEAN /\ preapproved \subseteq Destructive
  /\ run \in [Runs -> RunRecord]
  /\ container \in Container
  /\ base = moves + 1 /\ moves \in 0..MaxMoves /\ faults \in 0..MaxFaults
  /\ branch \in Files /\ pulls \in Seq(Patches)

Cleared == {"patch", "validate", "repair", "checks", "critic", "regenerate"} \union Publishing
OnDisk == {"preflight", "suspended", "draft"} \union (Cleared \ Publishing)
Unplanned == {"investigate", "strict-rca", "plan"}

Early == {"idle", "investigate", "strict-rca", "plan", "preflight"}

\* What the gates behind a run's step have established about its record.
Gated(rec, pre, head) ==
  /\ rec.sha <= head
  /\ rec.granted \subseteq pre \union DOMAIN rec.shown
  /\ rec.pc \in Early => rec.granted = {}
  /\ rec.pc = "strict-rca" => rec.rca # "none"
  /\ (rec.close # "none") <=> (rec.pc \in {"close", "closed"})
  /\ rec.pc \in OnDisk \union Publishing => rec.patch \in Patches
  /\ rec.pc = "suspended" => rec.shown = rec.patch
  /\ rec.pc \in Cleared =>
       rec.manifest = rec.patch /\ "ok" \in Preflights(rec.patch, pre \union rec.granted)
  /\ rec.pc \in {"checks", "critic", "regenerate", "draft", "open"} => PassesFloor(rec.patch)
  /\ rec.pc \in {"draft", "open"} => rec.judged = rec.patch

Holds(files, patch) ==
  \A p \in DOMAIN patch : p \in DOMAIN files /\ files[p] = patch[p]

\* Whether the run before it, if any, left no container to run r.
StartsClean(r) == r > 1 => run[r - 1].pc = "closed"

\* How the world relates to a run's record.
Placed(rec, clean, boxed, box, remote, asked) ==
  /\ clean /\ rec.pc \in Unplanned => ~box.up
  /\ boxed /\ box.up /\ rec.pc \in OnDisk =>
       /\ Holds(box.files, rec.patch)
       /\ clean /\ ~rec.spent => box.files = rec.patch
  /\ rec.pc = "open" =>
       /\ asked = <<>> /\ Holds(remote, rec.patch)
       /\ ~boxed \/ (clean /\ ~rec.spent) => remote = rec.patch

InTurn == \A r, q \in Runs : q < r /\ run[r].pc # "idle" => Ended(q)

\* Before the first run starts there is no container either.
NoneYet == (\A r \in Runs : run[r].pc = "idle") => ~container.up

Published ==
  /\ Len(pulls) <= 1
  /\ pulls # <<>> => branch # NoFiles
  /\ ~sandbox => \A i \in 1..Len(pulls) : branch = pulls[i]

Inv ==
  /\ Types /\ InTurn /\ Published /\ NoneYet /\ NoContainerLeft
  /\ \A r \in Runs :
       /\ Gated(run[r], preapproved, base)
       /\ Placed(run[r], StartsClean(r), sandbox, container, branch, pulls)

-----------------------------------------------------------------------------
(* The operators *)

LEMMA PatchesAreFiles ==
  /\ NoFiles \in Files /\ Patches \subseteq Files
  /\ \A patch \in Patches : DOMAIN patch \subseteq Paths /\ DOMAIN patch # {} /\ patch # NoFiles
BY DEF Files, Patches, NoFiles

\* Writing a patch over a working tree leaves a working tree that holds it.
LEMMA OverlayHolds ==
  ASSUME NEW patch \in Patches, NEW disk \in Files
  PROVE  /\ Overlay(patch, disk) \in Patches
         /\ Holds(Overlay(patch, disk), patch)
<1>1. PICK D \in (SUBSET Paths) \ {{}} : patch \in [D -> Bytes]
  BY DEF Patches
<1>2. DOMAIN disk \subseteq Paths /\ \A p \in DOMAIN disk : disk[p] \in Bytes
  <2>1. CASE disk = NoFiles BY <2>1 DEF NoFiles
  <2>2. CASE disk \in Patches BY <2>2 DEF Patches
  <2> QED BY <2>1, <2>2 DEF Files
<1>3. Overlay(patch, disk) \in [D \union DOMAIN disk -> Bytes]
  BY <1>1, <1>2 DEF Overlay
<1>4. D \union DOMAIN disk \in (SUBSET Paths) \ {{}} BY <1>1, <1>2
<1>5. Overlay(patch, disk) \in Patches BY <1>3, <1>4 DEF Patches
<1> QED BY <1>5 DEF Overlay, Holds

\* On a branch without files the patch itself is what is written.
LEMMA OverlayNothing ==
  ASSUME NEW patch \in Patches
  PROVE  Overlay(patch, NoFiles) = patch
<1>1. PICK D \in (SUBSET Paths) \ {{}} : patch \in [D -> Bytes]
  BY DEF Patches
<1>2. DOMAIN NoFiles = {} BY DEF NoFiles
<1>3. Overlay(patch, NoFiles) = [p \in D |-> patch[p]]
  BY <1>1, <1>2 DEF Overlay
<1> QED BY <1>1, <1>3

\* What preflight lets through is within the limits, off the denied paths, and
\* granted where it is destructive.
LEMMA LetThrough ==
  ASSUME NEW patch \in Patches, NEW granted, "ok" \in Preflights(patch, granted)
  PROVE  /\ DOMAIN patch \intersect Destructive \subseteq granted
         /\ DOMAIN patch \intersect Denied = {}
         /\ Cardinality(DOMAIN patch) <= MaxFiles
<1>1. IsFiniteSet(DOMAIN patch) BY PatchesAreFiles, CodingAssumption, FS_Subset
<1>2. Cardinality(DOMAIN patch) \in Nat BY <1>1, FS_CardinalityType
<1> QED BY <1>2, CodingAssumption DEF Preflights, Ungranted

-----------------------------------------------------------------------------
(* Taking turns *)

\* A run that may take a step: those before it are over, it is not.
Current(r) == ~Ended(r) /\ \A q \in Runs : q < r => Ended(q)

Waiting == {"idle", "closed", "thrown"}

LEMMA OthersWait ==
  ASSUME Inv, NEW r \in Runs, Current(r), NEW q \in Runs, q # r
  PROVE  run[q].pc \in Waiting
<1>1. r \in Int /\ q \in Int BY CodingAssumption DEF Runs
<1>2. CASE q < r BY <1>2 DEF Current, Ended, Waiting
<1>3. CASE r < q BY <1>3 DEF Current, Inv, InTurn, Waiting
<1> QED BY <1>1, <1>2, <1>3

LEMMA ActiveIsCurrent ==
  ASSUME Inv, NEW r \in Runs, run[r].pc \notin Waiting
  PROVE  Current(r)
BY DEF Current, Ended, Waiting, Inv, InTurn

LEMMA WaitingIsPlaced ==
  ASSUME NEW rec, rec.pc \in Waiting, NEW clean, NEW boxed, NEW box, NEW remote, NEW asked
  PROVE  Placed(rec, clean, boxed, box, remote, asked)
BY DEF Placed, Waiting, OnDisk, Unplanned, Cleared, Publishing

\* What a step of the current run has to establish; the other runs do not move.
LEMMA OneRunSteps ==
  ASSUME Inv, NEW r \in Runs, Current(r), NEW rec \in RunRecord,
         run' = [run EXCEPT ![r] = rec], rec.pc # "idle",
         UNCHANGED config,
         container' \in Container, branch' \in Files, pulls' \in Seq(Patches),
         base' = moves' + 1, moves' \in 0..MaxMoves, moves <= moves', faults' \in 0..MaxFaults,
         Gated(rec, preapproved', base'),
         Placed(rec, StartsClean(r), sandbox', container', branch', pulls'), Published',
         rec.pc = "closed" => ~container'.up
  PROVE  Inv'
<1>1. /\ run \in [Runs -> RunRecord] /\ r \in Runs
      /\ run'[r] = rec /\ \A q \in Runs \ {r} : run'[q] = run[q]
  BY DEF Inv, Types
<1>2. Types'
  BY <1>1 DEF Inv, Types, config, Runs
<1>3. InTurn'
  <2> SUFFICES ASSUME NEW p \in Runs, NEW q \in Runs, q < p, run'[p].pc # "idle"
               PROVE  run'[q].pc \in {"closed", "thrown"}
    BY DEF InTurn, Runs, Ended
  <2>1. p \in Int /\ q \in Int BY CodingAssumption DEF Runs
  <2>2. CASE p = r
    <3>1. q # r BY <2>1, <2>2
    <3> QED BY <1>1, <2>2, <3>1 DEF Current, Ended
  <2>3. CASE p # r
    <3>1. run[p].pc # "idle" BY <1>1, <2>3
    <3>2. Ended(q) BY <3>1 DEF Inv, InTurn
    <3>3. q # r BY <3>2 DEF Current
    <3> QED BY <1>1, <3>2, <3>3 DEF Ended
  <2> QED BY <2>2, <2>3
<1>4. NoneYet' /\ NoContainerLeft'
  <2>1. NoneYet' BY <1>1 DEF NoneYet, Runs
  <2>2. ASSUME NEW p \in Runs, run'[p].pc = "closed",
               \A q \in Runs : p < q => run'[q].pc = "idle"
        PROVE  ~container'.up
    <3>1. p \in Int /\ r \in Int BY CodingAssumption DEF Runs
    <3>2. CASE p = r BY <1>1, <2>2, <3>2
    <3>3. CASE p # r
      <4>1. ~(p < r) BY <1>1, <2>2
      <4>2. r < p BY <3>1, <3>3, <4>1
      <4>3. run[p].pc # "idle" BY <1>1, <2>2, <3>3
      <4> QED BY <4>2, <4>3 DEF Current, Inv, InTurn
    <3> QED BY <3>2, <3>3
  <2> QED BY <2>1, <2>2 DEF NoContainerLeft, Runs
<1>5. ASSUME NEW q \in Runs
      PROVE  /\ Gated(run'[q], preapproved', base')
             /\ Placed(run'[q], StartsClean(q)', sandbox', container', branch', pulls')
  <2>1. CASE q = r
    <3>1. r \in Int BY CodingAssumption DEF Runs
    <3>2. r > 1 => r - 1 \in Runs \ {r} BY <3>1, CodingAssumption DEF Runs
    <3>3. r > 1 => run'[r - 1] = run[r - 1] BY <1>1, <3>2
    <3>4. StartsClean(r)' = StartsClean(r) BY <3>3 DEF StartsClean
    <3> QED BY <1>1, <2>1, <3>4
  <2>2. CASE q # r
    <3>1. run'[q] = run[q] BY <1>1, <2>2
    <3>2. run[q].pc \in Waiting BY <2>2, OthersWait
    <3>3. Placed(run[q], StartsClean(q)', sandbox', container', branch', pulls') BY <3>2, WaitingIsPlaced
    <3>4. Gated(run[q], preapproved, base) /\ run[q].sha \in Nat
      BY <1>1 DEF Inv, Types, RunRecord
    <3>5. base = moves + 1 /\ moves \in Nat /\ moves' \in Nat
      BY CodingAssumption DEF Inv, Types
    <3>6. run[q].sha <= base'
      BY <3>4, <3>5 DEF Gated
    <3>7. preapproved' = preapproved BY DEF config
    <3>8. Gated(run[q], preapproved', base') BY <3>4, <3>6, <3>7 DEF Gated
    <3> QED BY <3>1, <3>3, <3>8
  <2> QED BY <2>1, <2>2
<1> QED BY <1>2, <1>3, <1>4, <1>5 DEF Inv, Runs

LEMMA Sound ==
  ASSUME Inv, NEW r \in Runs
  PROVE  /\ run \in [Runs -> RunRecord] /\ run[r] \in RunRecord
         /\ Gated(run[r], preapproved, base)
         /\ Placed(run[r], StartsClean(r), sandbox, container, branch, pulls)
BY DEF Inv, Types

\* A step that leaves the container, the branch and its Draft PRs alone.
LEMMA QuietStep ==
  ASSUME Inv, NEW r \in Runs, Current(r), NEW rec \in RunRecord,
         run' = [run EXCEPT ![r] = rec], rec.pc \notin {"idle", "open", "closed"},
         UNCHANGED <<container, base, branch, pulls, moves>>, UNCHANGED config,
         faults' \in 0..MaxFaults,
         Gated(rec, preapproved, base),
         rec.pc \in OnDisk =>
           run[r].pc \in OnDisk /\ rec.patch = run[r].patch /\ rec.spent = run[r].spent,
         rec.pc \in Unplanned => run[r].pc \in Unplanned \/ (StartsClean(r) => ~container.up)
  PROVE  Inv'
<1>1. Placed(rec, StartsClean(r), sandbox, container, branch, pulls)
  BY Sound DEF Placed
<1>2. /\ container' \in Container /\ branch' \in Files /\ pulls' \in Seq(Patches)
      /\ base' = moves' + 1 /\ moves' \in 0..MaxMoves /\ moves <= moves'
  BY CodingAssumption DEF Inv, Types
<1>3. Published' BY DEF Inv, Published, config
<1>4. Gated(rec, preapproved', base')
      /\ Placed(rec, StartsClean(r), sandbox', container', branch', pulls')
  BY <1>1 DEF config
<1> QED BY <1>2, <1>3, <1>4, OneRunSteps

\* Closing: nothing is promised of a run that is about to end.
LEMMA CloseStep ==
  ASSUME Inv, NEW r \in Runs, run[r].pc \notin Waiting, NEW close \in Closes \ {"none"},
         CloseWith(r, close),
         UNCHANGED <<container, base, branch, pulls, moves>>, UNCHANGED config, UNCHANGED faults
  PROVE  Inv'
<1> DEFINE rec == [run[r] EXCEPT !.pc = "close", !.close = close]
<1>1. rec \in RunRecord BY Sound DEF RunRecord, Steps
<1>2. run' = [run EXCEPT ![r] = rec] BY Sound DEF CloseWith
<1>3. /\ rec.pc = "close" /\ rec.close = close /\ rec.granted = run[r].granted
      /\ rec.shown = run[r].shown /\ rec.sha = run[r].sha
  BY Sound DEF RunRecord
<1>4. Gated(rec, preapproved, base)
  BY <1>3, Sound DEF Gated, Early, OnDisk, Cleared, Publishing
<1>5. rec.pc \notin OnDisk \union Unplanned BY <1>3 DEF OnDisk, Unplanned, Cleared, Publishing
<1>6. faults' \in 0..MaxFaults BY DEF Inv, Types
<1>7. Current(r) BY ActiveIsCurrent
<1> HIDE DEF rec
<1> QED BY <1>1, <1>2, <1>3, <1>4, <1>5, <1>6, <1>7, QuietStep

\* Throwing: the run is over, the world is as it was.
LEMMA DeadRecord ==
  ASSUME Inv, NEW rec, rec = [NewRun EXCEPT !.pc = "thrown"]
  PROVE  /\ rec \in RunRecord /\ rec.pc = "thrown" /\ Gated(rec, preapproved, base)
<1>1. rec \in RunRecord BY PatchesAreFiles DEF NewRun, RunRecord, Closes
<1>2. base \in Nat /\ base >= 1 BY CodingAssumption DEF Inv, Types
<1> QED BY <1>1, <1>2 DEF NewRun, Gated, Early, OnDisk, Cleared, Publishing

LEMMA DieStep ==
  ASSUME Inv, NEW r \in Runs, run[r].pc \notin Waiting, Dies(r),
         UNCHANGED <<container, base, branch, pulls, moves>>, UNCHANGED config,
         faults' \in 0..MaxFaults
  PROVE  Inv'
<1> DEFINE rec == [NewRun EXCEPT !.pc = "thrown"]
<1>1. rec \in RunRecord /\ rec.pc = "thrown" /\ Gated(rec, preapproved, base)
  BY DeadRecord
<1>2. run' = [run EXCEPT ![r] = rec] BY DEF Dies
<1>3. rec.pc \notin OnDisk \union Unplanned BY <1>1 DEF OnDisk, Unplanned, Cleared, Publishing
<1>4. Current(r) BY ActiveIsCurrent
<1> HIDE DEF rec
<1> QED BY <1>1, <1>2, <1>3, <1>4, QuietStep

\* A step that only moves on.
LEMMA GoStep ==
  ASSUME Inv, NEW r \in Runs, run[r].pc \notin Waiting, NEW step, GoTo(r, step),
         step \in Steps \ {"open", "close"},
         Gated([run[r] EXCEPT !.pc = step], preapproved, base),
         step \in OnDisk => run[r].pc \in OnDisk,
         step \in Unplanned => run[r].pc \in Unplanned,
         UNCHANGED <<world, config>>
  PROVE  Inv'
<1> DEFINE rec == [run[r] EXCEPT !.pc = step]
<1>1. rec \in RunRecord /\ rec.pc = step /\ rec.patch = run[r].patch /\ rec.spent = run[r].spent
  BY Sound DEF RunRecord
<1>2. run' = [run EXCEPT ![r] = rec] BY Sound DEF GoTo
<1>3. rec.pc \notin {"idle", "open", "closed"} BY <1>1 DEF Steps
<1>4. /\ UNCHANGED <<container, base, branch, pulls, moves>> /\ UNCHANGED config
      /\ faults' \in 0..MaxFaults
  BY DEF world, Inv, Types
<1>5. Current(r) BY ActiveIsCurrent
<1>6. /\ Gated(rec, preapproved, base) /\ (rec.pc \in OnDisk => run[r].pc \in OnDisk)
      /\ rec.pc \in Unplanned => run[r].pc \in Unplanned
  BY <1>1
<1> HIDE DEF rec
<1> QED BY <1>1, <1>2, <1>3, <1>4, <1>5, <1>6, QuietStep

\* A step that writes a patch to the disk of the container, when there is one.
LEMMA LandStep ==
  ASSUME Inv, NEW r \in Runs, run[r].pc \notin Waiting, NEW patch \in Patches, Land(r, patch),
         NEW rec \in RunRecord, run' = [run EXCEPT ![r] = rec],
         rec.pc \notin {"idle", "open", "closed"},
         UNCHANGED <<base, branch, pulls, moves>>, UNCHANGED config, UNCHANGED faults,
         Gated(rec, preapproved, base),
         rec.pc \in OnDisk => rec.patch = patch /\ (rec.spent \/ run[r].pc = "plan"),
         rec.pc \notin Unplanned
  PROVE  Inv'
<1>1. run[r].sha \in 0..(MaxMoves + 1)
  <2>1. run[r].sha \in Nat /\ run[r].sha <= base BY Sound DEF RunRecord, Gated
  <2>2. base = moves + 1 /\ moves \in 0..MaxMoves BY DEF Inv, Types
  <2> QED BY <2>1, <2>2, CodingAssumption
<1>2. container \in Container BY DEF Inv, Types
<1>3. Acquired(r) \in Container BY <1>1, <1>2, PatchesAreFiles DEF Acquired, Container
<1>4. /\ container' \in Container /\ (sandbox => Holds(container'.files, patch))
      /\ sandbox /\ StartsClean(r) /\ run[r].pc = "plan" => container'.files = patch
  <2>1. CASE sandbox
    <3>1. container' = [Acquired(r) EXCEPT !.files = Overlay(patch, Acquired(r).files)]
      BY <2>1 DEF Land
    <3>2. Acquired(r).files \in Files BY <1>3 DEF Container
    <3>3. Overlay(patch, Acquired(r).files) \in Files
          /\ Holds(Overlay(patch, Acquired(r).files), patch)
      BY <3>2, OverlayHolds, PatchesAreFiles
    <3>4. container' \in Container /\ container'.files = Overlay(patch, Acquired(r).files)
      BY <1>3, <3>1, <3>3 DEF Container
    <3>5. ASSUME StartsClean(r), run[r].pc = "plan" PROVE container'.files = patch
      <4>1. ~container.up BY <3>5, Sound DEF Placed, Unplanned
      <4>2. Acquired(r).files = NoFiles BY <4>1 DEF Acquired
      <4> QED BY <3>4, <4>2, OverlayNothing
    <3> QED BY <3>3, <3>4, <3>5
  <2>2. CASE ~sandbox
    BY <1>2, <2>2 DEF Land
  <2> QED BY <2>1, <2>2
<1>5. Placed(rec, StartsClean(r), sandbox', container', branch', pulls')
  BY <1>4 DEF Placed, config
<1>6. Gated(rec, preapproved', base') BY DEF config
<1>7. Published' BY DEF Inv, Published, config
<1>8. /\ branch' \in Files /\ pulls' \in Seq(Patches)
      /\ base' = moves' + 1 /\ moves' \in 0..MaxMoves /\ moves <= moves' /\ faults' \in 0..MaxFaults
  BY CodingAssumption DEF Inv, Types
<1>9. Current(r) BY ActiveIsCurrent
<1> QED BY <1>4, <1>5, <1>6, <1>7, <1>8, <1>9, OneRunSteps

\* A second patch lands on the disk before it is judged.
LEMMA LandCloseStep ==
  ASSUME Inv, NEW r \in Runs, run[r].pc \notin Waiting, NEW patch \in Patches, Land(r, patch),
         NEW close \in Closes \ {"none"}, CloseWith(r, close),
         UNCHANGED <<base, branch, pulls, moves, faults, config>>
  PROVE  Inv'
<1> DEFINE rec == [run[r] EXCEPT !.pc = "close", !.close = close]
<1>1. rec \in RunRecord BY Sound DEF RunRecord, Steps
<1>2. run' = [run EXCEPT ![r] = rec] BY Sound DEF CloseWith
<1>3. /\ rec.pc = "close" /\ rec.close = close /\ rec.granted = run[r].granted
      /\ rec.shown = run[r].shown /\ rec.sha = run[r].sha
  BY Sound DEF RunRecord
<1>4. Gated(rec, preapproved, base)
  BY <1>3, Sound DEF Gated, Early, OnDisk, Cleared, Publishing
<1>5. rec.pc \notin OnDisk \union Unplanned BY <1>3 DEF OnDisk, Unplanned, Cleared, Publishing
<1> HIDE DEF rec
<1> QED BY <1>1, <1>2, <1>3, <1>4, <1>5, LandStep

LEMMA LandDieStep ==
  ASSUME Inv, NEW r \in Runs, run[r].pc \notin Waiting, NEW patch \in Patches, Land(r, patch),
         Dies(r), UNCHANGED <<base, branch, pulls, moves, faults, config>>
  PROVE  Inv'
<1> DEFINE rec == [NewRun EXCEPT !.pc = "thrown"]
<1>1. rec \in RunRecord /\ rec.pc = "thrown" /\ Gated(rec, preapproved, base)
  BY DeadRecord
<1>2. run' = [run EXCEPT ![r] = rec] BY DEF Dies
<1>3. rec.pc \notin OnDisk \union Unplanned BY <1>1 DEF OnDisk, Unplanned, Cleared, Publishing
<1> HIDE DEF rec
<1> QED BY <1>1, <1>2, <1>3, LandStep

LEMMA LandAdoptStep ==
  ASSUME Inv, NEW r \in Runs, run[r].pc \in {"repair", "regenerate"},
         NEW next \in Patches, Land(r, next),
         NEW step \in {"checks", "critic"}, Adopt(r, next, step),
         "ok" \in Preflights(next, Approved(r)), PassesFloor(next),
         UNCHANGED <<base, branch, pulls, moves, faults, config>>
  PROVE  Inv'
<1> DEFINE rec == [run[r] EXCEPT !.pc = step, !.patch = next, !.manifest = next, !.spent = TRUE]
<1>1. rec \in RunRecord
  <2>1. next \in Files BY PatchesAreFiles
  <2>2. step \in Steps BY DEF Steps
  <2> QED BY <2>1, <2>2, Sound DEF RunRecord
<1>2. run' = [run EXCEPT ![r] = rec] BY Sound DEF Adopt
<1>3. /\ rec.pc = step /\ rec.close = run[r].close /\ rec.granted = run[r].granted
      /\ rec.shown = run[r].shown /\ rec.sha = run[r].sha
      /\ rec.patch = next /\ rec.manifest = next
  BY Sound DEF RunRecord
<1>4. Gated(rec, preapproved, base)
  BY <1>3, Sound DEF Gated, Early, Approved
<1>5. run[r].pc \notin Waiting BY DEF Waiting
<1>6. rec.pc \notin {"idle", "open", "closed"} \union Unplanned /\ rec.spent
  BY <1>3, Sound DEF Unplanned, RunRecord
<1> HIDE DEF rec
<1> QED BY <1>1, <1>2, <1>3, <1>4, <1>5, <1>6, LandStep

-----------------------------------------------------------------------------
(* The steps of a run *)

LEMMA LoadContextKeeps ==
  ASSUME Inv, NEW r \in Runs, LoadContext(r)
  PROVE  Inv'
<1> DEFINE rec == [run[r] EXCEPT !.pc = "investigate", !.sha = base]
<1>1. base \in Nat BY CodingAssumption DEF Inv, Types
<1>2. rec \in RunRecord BY <1>1, Sound DEF RunRecord, Steps
<1>3. run' = [run EXCEPT ![r] = rec] BY Sound DEF LoadContext
<1>4. /\ rec.pc = "investigate" /\ rec.close = run[r].close /\ rec.granted = run[r].granted
      /\ rec.shown = run[r].shown /\ rec.sha = base
  BY Sound DEF RunRecord
<1>5. run[r].pc = "idle" BY DEF LoadContext
<1>6. run[r].granted = {} /\ run[r].close = "none" BY <1>5, Sound DEF Gated, Early
<1>7. Gated(rec, preapproved, base)
  BY <1>1, <1>4, <1>6 DEF Gated, Early, OnDisk, Cleared, Publishing
<1>8. rec.pc \notin OnDisk BY <1>4 DEF OnDisk, Cleared, Publishing
<1>9. /\ UNCHANGED <<container, base, branch, pulls, moves>> /\ UNCHANGED config
      /\ faults' \in 0..MaxFaults
  BY DEF LoadContext, world, Inv, Types
<1>10. Current(r) BY <1>5 DEF LoadContext, Current, Ended
<1>11. StartsClean(r) => ~container.up
  <2>1. r \in Int /\ \A q \in Runs : q \in Int BY CodingAssumption DEF Runs
  <2>2. \A q \in Runs : r < q => run[q].pc = "idle"
    BY <1>5, <2>1 DEF Inv, InTurn, Ended
  <2>3. CASE r > 1
    <3>1. r - 1 \in Runs BY <2>3, CodingAssumption DEF Runs
    <3>2. \A q \in Runs : r - 1 < q => run[q].pc = "idle" BY <1>5, <2>1, <2>2
    <3> QED BY <2>3, <3>1, <3>2 DEF StartsClean, Inv, NoContainerLeft
  <2>4. CASE ~(r > 1)
    <3>1. \A q \in Runs : q = r \/ r < q BY <2>1, <2>4, CodingAssumption DEF Runs
    <3> QED BY <1>5, <2>2, <3>1 DEF Inv, NoneYet
  <2> QED BY <2>3, <2>4
<1> HIDE DEF rec
<1> QED BY <1>2, <1>3, <1>4, <1>7, <1>8, <1>9, <1>10, <1>11, QuietStep

LEMMA InvestigateKeeps ==
  ASSUME Inv, NEW r \in Runs, Investigate(r)
  PROVE  Inv'
<1> DEFINE found(rca) == [run[r] EXCEPT !.pc = "strict-rca", !.rca = rca]
           lost == [run[r] EXCEPT !.pc = "close", !.rca = "weak", !.close = "insufficient_evidence"]
<1>1. run[r].pc = "investigate" BY DEF Investigate
<1>2. /\ UNCHANGED <<container, base, branch, pulls, moves>> /\ UNCHANGED config
      /\ faults' \in 0..MaxFaults
  BY DEF Investigate, world, Inv, Types
<1>3. Current(r) BY <1>1, ActiveIsCurrent DEF Waiting
<1>4. ASSUME NEW rca \in {"weak", "unfixable", "sound"}, run' = [run EXCEPT ![r] = found(rca)]
      PROVE  Inv'
  <2>1. found(rca) \in RunRecord BY Sound DEF RunRecord, Steps
  <2>2. /\ found(rca).pc = "strict-rca" /\ found(rca).rca = rca /\ found(rca).close = run[r].close
        /\ found(rca).granted = run[r].granted /\ found(rca).shown = run[r].shown
        /\ found(rca).sha = run[r].sha
    BY Sound DEF RunRecord
  <2>3. Gated(found(rca), preapproved, base)
    BY <1>1, <2>2, Sound DEF Gated, Early, OnDisk, Cleared, Publishing
  <2>4. found(rca).pc \notin OnDisk /\ run[r].pc \in Unplanned
    BY <1>1, <2>2 DEF OnDisk, Unplanned, Cleared, Publishing
  <2> HIDE DEF found
  <2> QED BY <1>2, <1>3, <1>4, <2>1, <2>2, <2>3, <2>4, QuietStep
<1>5. ASSUME run' = [run EXCEPT ![r] = lost]
      PROVE  Inv'
  <2>1. lost \in RunRecord BY Sound DEF RunRecord, Steps, Closes, Reasons
  <2>2. /\ lost.pc = "close" /\ lost.close # "none" /\ lost.granted = run[r].granted
        /\ lost.shown = run[r].shown /\ lost.sha = run[r].sha
    BY Sound DEF RunRecord
  <2>3. Gated(lost, preapproved, base)
    BY <2>2, Sound DEF Gated, Early, OnDisk, Cleared, Publishing
  <2>4. lost.pc \notin OnDisk \union Unplanned BY <2>2 DEF OnDisk, Unplanned, Cleared, Publishing
  <2> HIDE DEF lost
  <2> QED BY <1>2, <1>3, <1>5, <2>1, <2>2, <2>3, <2>4, QuietStep
<1>6. \/ \E rca \in {"weak", "unfixable", "sound"} : run' = [run EXCEPT ![r] = found(rca)]
      \/ run' = [run EXCEPT ![r] = lost]
  BY Sound DEF Investigate
<1> QED BY <1>4, <1>5, <1>6

LEMMA StrictRcaKeeps ==
  ASSUME Inv, NEW r \in Runs, StrictRca(r)
  PROVE  Inv'
<1>1. run[r].pc = "strict-rca" /\ UNCHANGED <<world, config>> BY DEF StrictRca
<1>2. run[r].pc \notin Waiting BY <1>1 DEF Waiting
<1>3. /\ UNCHANGED <<container, base, branch, pulls, moves>> /\ UNCHANGED config /\ UNCHANGED faults
  BY <1>1 DEF world
<1>4. \/ CloseWith(r, "insufficient_evidence") \/ CloseWith(r, "unfixable") \/ GoTo(r, "plan")
  <2>1. run[r].rca \in {"weak", "unfixable", "sound"} BY <1>1, Sound DEF RunRecord, Gated
  <2>2. CASE run[r].rca = "weak" BY <2>2 DEF StrictRca
  <2>3. CASE run[r].rca = "unfixable" BY <2>3 DEF StrictRca
  <2>4. CASE run[r].rca = "sound" BY <2>4 DEF StrictRca
  <2> QED BY <2>1, <2>2, <2>3, <2>4
<1>5. CASE CloseWith(r, "insufficient_evidence")
  BY <1>2, <1>3, <1>5, CloseStep DEF Closes, Reasons
<1>6. CASE CloseWith(r, "unfixable")
  BY <1>2, <1>3, <1>6, CloseStep DEF Closes, Reasons
<1>7. CASE GoTo(r, "plan")
  <2> DEFINE rec == [run[r] EXCEPT !.pc = "plan"]
  <2>1. /\ rec.pc = "plan" /\ rec.close = run[r].close /\ rec.granted = run[r].granted
        /\ rec.shown = run[r].shown /\ rec.sha = run[r].sha
    BY Sound DEF RunRecord
  <2>2. Gated(rec, preapproved, base)
    BY <1>1, <2>1, Sound DEF Gated, Early, OnDisk, Cleared, Publishing
  <2>3. "plan" \in Steps \ {"open", "close"} /\ "plan" \notin OnDisk /\ run[r].pc \in Unplanned
    BY <1>1 DEF Steps, OnDisk, Unplanned, Cleared, Publishing
  <2> QED BY <1>1, <1>2, <1>7, <2>2, <2>3, GoStep
<1> QED BY <1>4, <1>5, <1>6, <1>7

LEMMA PlanKeeps ==
  ASSUME Inv, NEW r \in Runs, PlanSurgicalPatch(r)
  PROVE  Inv'
<1>1. run[r].pc = "plan" /\ UNCHANGED <<base, branch, pulls, moves, faults, config>>
  BY DEF PlanSurgicalPatch
<1>2. run[r].pc \notin Waiting BY <1>1 DEF Waiting
<1>3. ASSUME NEW plan \in Patches,
             run' = [run EXCEPT ![r].pc = "preflight", ![r].patch = plan], Land(r, plan)
      PROVE  Inv'
  <2> DEFINE rec == [run[r] EXCEPT !.pc = "preflight", !.patch = plan]
  <2>1. plan \in Files BY PatchesAreFiles
  <2>2. rec \in RunRecord BY <2>1, Sound DEF RunRecord, Steps
  <2>3. run' = [run EXCEPT ![r] = rec] BY <1>3, Sound
  <2>4. /\ rec.pc = "preflight" /\ rec.close = run[r].close /\ rec.granted = run[r].granted
        /\ rec.shown = run[r].shown /\ rec.sha = run[r].sha /\ rec.patch = plan
    BY Sound DEF RunRecord
  <2>5. Gated(rec, preapproved, base)
    BY <1>1, <2>4, Sound DEF Gated, Early, OnDisk, Cleared, Publishing
  <2>6. rec.pc \notin Unplanned BY <2>4 DEF Unplanned
  <2> HIDE DEF rec
  <2> QED BY <1>1, <1>2, <1>3, <2>2, <2>3, <2>4, <2>5, <2>6, LandStep
<1>4. CASE CloseWith(r, "path_denied") /\ UNCHANGED container
  BY <1>1, <1>2, <1>4, CloseStep DEF Closes, Reasons
<1> QED BY <1>3, <1>4 DEF PlanSurgicalPatch

\* A cleared patch becomes the manifest, with what was granted to clear it.
LEMMA ManifestedStep ==
  ASSUME Inv, NEW r \in Runs, run[r].pc \in {"preflight", "suspended"},
         NEW granted \in SUBSET Destructive, Manifested(r, granted),
         granted \subseteq preapproved \union DOMAIN run[r].shown,
         "ok" \in Preflights(run[r].patch, preapproved \union granted),
         UNCHANGED <<world, config>>
  PROVE  Inv'
<1> DEFINE rec == [run[r] EXCEPT !.pc = "patch", !.manifest = run[r].patch, !.granted = granted]
<1>1. rec \in RunRecord
  <2>1. run[r] \in RunRecord BY Sound
  <2>2. run[r].patch \in Files BY <2>1 DEF RunRecord
  <2> QED BY <2>1, <2>2 DEF RunRecord, Steps
<1>2. run' = [run EXCEPT ![r] = rec] BY Sound DEF Manifested
<1>3. /\ rec.pc = "patch" /\ rec.close = run[r].close /\ rec.granted = granted
      /\ rec.shown = run[r].shown /\ rec.sha = run[r].sha
      /\ rec.patch = run[r].patch /\ rec.manifest = run[r].patch /\ rec.spent = run[r].spent
  BY Sound DEF RunRecord
<1>4. run[r].patch \in Patches /\ run[r].close = "none" /\ run[r].sha <= base
  BY Sound DEF Gated, OnDisk
<1>5. Gated(rec, preapproved, base) BY <1>3, <1>4 DEF Gated, Early
<1>6. /\ UNCHANGED <<container, base, branch, pulls, moves>> /\ UNCHANGED config
      /\ faults' \in 0..MaxFaults
  BY DEF world, Inv, Types
<1>7. run[r].pc \in OnDisk /\ Current(r) /\ rec.pc \notin Unplanned
  BY <1>3, ActiveIsCurrent DEF OnDisk, Unplanned, Waiting
<1> HIDE DEF rec
<1> QED BY <1>1, <1>2, <1>3, <1>5, <1>6, <1>7, QuietStep

LEMMA PreflightKeeps ==
  ASSUME Inv, NEW r \in Runs, Preflight(r)
  PROVE  Inv'
<1>1. run[r].pc = "preflight" /\ UNCHANGED <<world, config>> BY DEF Preflight
<1>2. run[r].pc \notin Waiting BY <1>1 DEF Waiting
<1>3. /\ UNCHANGED <<container, base, branch, pulls, moves>> /\ UNCHANGED config /\ UNCHANGED faults
  BY <1>1 DEF world
<1>4. PICK verdict \in Preflights(run[r].patch, preapproved) :
        CASE verdict = "ok" -> Manifested(r, preapproved)
          [] verdict = "denied" -> CloseWith(r, "path_denied")
          [] verdict = "approval_required" ->
               run' = [run EXCEPT ![r].pc = "suspended", ![r].shown = run[r].patch]
  BY DEF Preflight
<1>5. verdict \in {"ok", "denied", "approval_required"} BY DEF Preflights
<1>6. CASE verdict = "ok"
  <2>1. Manifested(r, preapproved) BY <1>4, <1>6
  <2>2. preapproved \in SUBSET Destructive /\ preapproved \union preapproved = preapproved
    BY DEF Inv, Types
  <2> QED BY <1>1, <1>4, <1>6, <2>1, <2>2, ManifestedStep
<1>7. CASE verdict = "denied"
  <2>1. CloseWith(r, "path_denied") BY <1>4, <1>7
  <2> QED BY <1>2, <1>3, <2>1, CloseStep DEF Closes, Reasons
<1>8. CASE verdict = "approval_required"
  <2> DEFINE rec == [run[r] EXCEPT !.pc = "suspended", !.shown = run[r].patch]
  <2>1. run' = [run EXCEPT ![r].pc = "suspended", ![r].shown = run[r].patch]
    BY <1>4, <1>8
  <2>2. run' = [run EXCEPT ![r] = rec] BY <2>1, Sound
  <2>3. rec \in RunRecord BY Sound DEF RunRecord, Steps
  <2>4. /\ rec.pc = "suspended" /\ rec.close = run[r].close /\ rec.granted = run[r].granted
        /\ rec.shown = run[r].patch /\ rec.sha = run[r].sha /\ rec.patch = run[r].patch
        /\ rec.spent = run[r].spent
    BY Sound DEF RunRecord
  <2>5. run[r].granted = {} /\ run[r].close = "none" /\ run[r].sha <= base
        /\ run[r].patch \in Patches
    BY <1>1, Sound DEF Gated, Early, OnDisk
  <2>6. Gated(rec, preapproved, base)
    BY <2>4, <2>5 DEF Gated, Early, Cleared, Publishing
  <2>7. /\ faults' \in 0..MaxFaults /\ run[r].pc \in OnDisk /\ Current(r)
        /\ rec.pc \notin Unplanned
    BY <1>1, <1>2, <1>3, <2>4, ActiveIsCurrent DEF Inv, Types, OnDisk, Unplanned
  <2> HIDE DEF rec
  <2> QED BY <1>3, <2>2, <2>3, <2>4, <2>6, <2>7, QuietStep
<1> QED BY <1>5, <1>6, <1>7, <1>8

LEMMA ResumeApprovedKeeps ==
  ASSUME Inv, NEW r \in Runs, ResumeApproved(r)
  PROVE  Inv'
<1> DEFINE granted == preapproved \union Ungranted(run[r].patch, preapproved)
<1>1. run[r].pc = "suspended" /\ UNCHANGED <<world, config>> BY DEF ResumeApproved
<1>2. run[r].pc \notin Waiting BY <1>1 DEF Waiting
<1>3. run[r].shown = run[r].patch BY <1>1, Sound DEF Gated
<1>4. /\ granted \in SUBSET Destructive
      /\ granted \subseteq preapproved \union DOMAIN run[r].shown
      /\ preapproved \union granted = granted
  BY <1>3 DEF Ungranted, Inv, Types
<1>5. IF "ok" \in Preflights(run[r].patch, granted)
      THEN Manifested(r, granted) ELSE CloseWith(r, "path_denied")
  BY DEF ResumeApproved
<1> HIDE DEF granted
<1>6. CASE "ok" \in Preflights(run[r].patch, granted)
  BY <1>1, <1>4, <1>5, <1>6, ManifestedStep
<1>7. CASE "ok" \notin Preflights(run[r].patch, granted)
  <2>1. CloseWith(r, "path_denied") BY <1>5, <1>7
  <2>2. UNCHANGED <<container, base, branch, pulls, moves>> /\ UNCHANGED config /\ UNCHANGED faults
    BY <1>1 DEF world
  <2> QED BY <1>2, <2>1, <2>2, CloseStep DEF Closes, Reasons
<1> QED BY <1>6, <1>7

\* Moving on between preflight and the Draft PR.
LEMMA GoClearedStep ==
  ASSUME Inv, NEW r \in Runs, run[r].pc \in Cleared \ Publishing,
         NEW step \in Cleared \ Publishing, GoTo(r, step),
         step \in {"checks", "critic", "regenerate"} => PassesFloor(run[r].patch),
         UNCHANGED <<world, config>>
  PROVE  Inv'
<1> DEFINE rec == [run[r] EXCEPT !.pc = step]
<1>1. /\ rec.pc = step /\ rec.close = run[r].close /\ rec.granted = run[r].granted
      /\ rec.shown = run[r].shown /\ rec.sha = run[r].sha
      /\ rec.patch = run[r].patch /\ rec.manifest = run[r].manifest
  BY Sound DEF RunRecord
<1>2. Gated(rec, preapproved, base)
  BY <1>1, Sound DEF Gated, Early, OnDisk, Cleared, Publishing
<1>3. /\ step \in Steps \ {"open", "close"} /\ run[r].pc \notin Waiting
      /\ run[r].pc \in OnDisk /\ step \notin Unplanned
  BY DEF Steps, Waiting, OnDisk, Unplanned, Cleared, Publishing
<1> QED BY <1>2, <1>3, GoStep

\* The steps between preflight and the Draft PR that only move on or close.
Midway == {"patch", "validate", "repair", "checks", "critic", "regenerate"}

LEMMA MidwayFacts ==
  ASSUME Inv, NEW r \in Runs, run[r].pc \in Midway, UNCHANGED <<world, config>>
  PROVE  /\ run[r].pc \notin Waiting /\ run[r].pc \in Cleared \ Publishing
         /\ run[r].pc \in {"checks", "critic", "regenerate"} => PassesFloor(run[r].patch)
         /\ UNCHANGED <<container, base, branch, pulls, moves>>
         /\ UNCHANGED config /\ UNCHANGED faults /\ faults' \in 0..MaxFaults
BY Sound DEF Midway, Waiting, Cleared, Publishing, world, Gated, Inv, Types

LEMMA PatchStepKeeps ==
  ASSUME Inv, NEW r \in Runs, PatchStep(r)
  PROVE  Inv'
<1>1. run[r].pc \in Midway /\ UNCHANGED <<world, config>> BY DEF PatchStep, Midway
<1>2. CASE GoTo(r, "validate")
  BY <1>1, <1>2, MidwayFacts, GoClearedStep DEF Cleared, Publishing
<1>3. CASE CloseWith(r, "stale_source")
  BY <1>1, <1>3, MidwayFacts, CloseStep DEF Closes, Reasons
<1> QED BY <1>2, <1>3 DEF PatchStep

LEMMA ValidateKeeps ==
  ASSUME Inv, NEW r \in Runs, Validate(r)
  PROVE  Inv'
<1>1. run[r].pc \in Midway /\ UNCHANGED <<world, config>> BY DEF Validate, Midway
<1>2. CASE PassesFloor(run[r].patch)
  <2>1. GoTo(r, "checks") BY <1>2 DEF Validate
  <2> QED BY <1>1, <1>2, <2>1, MidwayFacts, GoClearedStep DEF Cleared, Publishing
<1>3. CASE ~PassesFloor(run[r].patch)
  <2>1. GoTo(r, "repair") BY <1>3 DEF Validate
  <2> QED BY <1>1, <2>1, MidwayFacts, GoClearedStep DEF Cleared, Publishing
<1> QED BY <1>2, <1>3

LEMMA RepairKeeps ==
  ASSUME Inv, NEW r \in Runs, Repair(r)
  PROVE  Inv'
<1>1. run[r].pc = "repair" /\ UNCHANGED <<base, branch, pulls, moves, faults, config>>
  BY DEF Repair
<1>2. run[r].pc \notin Waiting BY <1>1 DEF Waiting
<1>3. CASE CloseWith(r, "path_denied") /\ UNCHANGED container
  BY <1>1, <1>2, <1>3, CloseStep DEF Closes, Reasons
<1>4. ASSUME NEW next \in Patches, Land(r, next), CloseWith(r, "doom_loop")
      PROVE  Inv'
  BY <1>1, <1>2, <1>4, LandCloseStep DEF Closes, Reasons
<1>5. ASSUME NEW next \in Patches, Land(r, next),
             NEW verdict \in Preflights(next, Approved(r)),
             CASE verdict = "approval_required" -> CloseWith(r, "approval_required")
               [] verdict = "denied" -> CloseWith(r, "path_denied")
               [] verdict = "ok" ->
                    IF PassesFloor(next) THEN Adopt(r, next, "checks")
                    ELSE CloseWith(r, "validation_failed_after_repair")
      PROVE  Inv'
  <2>1. verdict \in {"ok", "denied", "approval_required"} BY DEF Preflights
  <2>2. CASE verdict = "approval_required"
    <3>1. CloseWith(r, "approval_required") BY <1>5, <2>2
    <3> QED BY <1>1, <1>2, <1>5, <3>1, LandCloseStep DEF Closes, Reasons
  <2>3. CASE verdict = "denied"
    <3>1. CloseWith(r, "path_denied") BY <1>5, <2>3
    <3> QED BY <1>1, <1>2, <1>5, <3>1, LandCloseStep DEF Closes, Reasons
  <2>4. CASE verdict = "ok"
    <3>1. IF PassesFloor(next) THEN Adopt(r, next, "checks")
          ELSE CloseWith(r, "validation_failed_after_repair")
      BY <1>5, <2>4
    <3>2. CASE PassesFloor(next)
      BY <1>1, <1>5, <2>4, <3>1, <3>2, LandAdoptStep
    <3>3. CASE ~PassesFloor(next)
      BY <1>1, <1>2, <1>5, <3>1, <3>3, LandCloseStep DEF Closes, Reasons
    <3> QED BY <3>2, <3>3
  <2> QED BY <2>1, <2>2, <2>3, <2>4
<1> QED BY <1>3, <1>4, <1>5 DEF Repair

LEMMA RunChecksKeeps ==
  ASSUME Inv, NEW r \in Runs, RunChecks(r)
  PROVE  Inv'
<1>1. /\ run[r].pc = "checks" /\ run[r].pc \in Midway /\ UNCHANGED <<world, config>>
  BY DEF RunChecks, Midway
<1>2. CASE GoTo(r, "critic")
  BY <1>1, <1>2, MidwayFacts, GoClearedStep DEF Cleared, Publishing
<1>3. CASE CloseWith(r, "validation_failed_after_repair")
  BY <1>1, <1>3, MidwayFacts, CloseStep DEF Closes, Reasons
<1>4. CASE Dies(r)
  BY <1>1, <1>4, MidwayFacts, DieStep
<1> QED BY <1>2, <1>3, <1>4 DEF RunChecks

LEMMA CriticKeeps ==
  ASSUME Inv, NEW r \in Runs, Critic(r)
  PROVE  Inv'
<1>1. /\ run[r].pc = "critic" /\ run[r].pc \in Midway /\ UNCHANGED <<world, config>>
  BY DEF Critic, Midway
<1>2. ASSUME run' = [run EXCEPT ![r].pc = "draft", ![r].judged = run[r].patch]
      PROVE  Inv'
  <2> DEFINE rec == [run[r] EXCEPT !.pc = "draft", !.judged = run[r].patch]
  <2>1. run' = [run EXCEPT ![r] = rec] BY <1>2, Sound
  <2>2. rec \in RunRecord BY Sound DEF RunRecord, Steps
  <2>3. /\ rec.pc = "draft" /\ rec.close = run[r].close /\ rec.granted = run[r].granted
        /\ rec.shown = run[r].shown /\ rec.sha = run[r].sha /\ rec.patch = run[r].patch
        /\ rec.manifest = run[r].manifest /\ rec.judged = run[r].patch
        /\ rec.spent = run[r].spent
    BY Sound DEF RunRecord
  <2>4. Gated(rec, preapproved, base)
    BY <1>1, <2>3, Sound DEF Gated, Early, OnDisk, Cleared, Publishing
  <2>5. run[r].pc \in OnDisk /\ Current(r) /\ rec.pc \notin Unplanned
    BY <1>1, <2>3, MidwayFacts, ActiveIsCurrent DEF OnDisk, Unplanned, Cleared, Publishing
  <2> HIDE DEF rec
  <2> QED BY <1>1, <2>1, <2>2, <2>3, <2>4, <2>5, MidwayFacts, QuietStep
<1>3. CASE CloseWith(r, "critic_blocked")
  BY <1>1, <1>3, MidwayFacts, CloseStep DEF Closes, Reasons
<1>4. CASE GoTo(r, "regenerate")
  BY <1>1, <1>4, MidwayFacts, GoClearedStep DEF Cleared, Publishing
<1> QED BY <1>2, <1>3, <1>4 DEF Critic

LEMMA RegenerateKeeps ==
  ASSUME Inv, NEW r \in Runs, Regenerate(r)
  PROVE  Inv'
<1>1. run[r].pc = "regenerate" /\ UNCHANGED <<base, branch, pulls, moves, faults, config>>
  BY DEF Regenerate
<1>2. run[r].pc \notin Waiting BY <1>1 DEF Waiting
<1>3. CASE CloseWith(r, "critic_blocked") /\ UNCHANGED container
  BY <1>1, <1>2, <1>3, CloseStep DEF Closes, Reasons
<1>4. ASSUME NEW next \in Patches, Land(r, next), CloseWith(r, "critic_blocked")
      PROVE  Inv'
  BY <1>1, <1>2, <1>4, LandCloseStep DEF Closes, Reasons
<1>5. ASSUME NEW next \in Patches, Land(r, next), Dies(r)
      PROVE  Inv'
  BY <1>1, <1>2, <1>5, LandDieStep
<1>6. ASSUME NEW next \in Patches, Land(r, next), "ok" \in Preflights(next, Approved(r)),
             PassesFloor(next), Adopt(r, next, AfterRegeneration)
      PROVE  Inv'
  BY <1>1, <1>6, LandAdoptStep DEF AfterRegeneration
<1> QED BY <1>3, <1>4, <1>5, <1>6 DEF Regenerate

LEMMA ApplyKeeps ==
  ASSUME Inv, NEW r \in Runs, Apply(r)
  PROVE  Inv'
<1>1. /\ run[r].pc = "draft" /\ UNCHANGED <<base, pulls, moves, faults, config>>
  BY DEF Apply
<1>2. run[r].pc \notin Waiting /\ Current(r) BY <1>1, ActiveIsCurrent DEF Waiting
<1>3. CASE Dies(r) /\ UNCHANGED <<container, branch>>
  <2>1. faults' \in 0..MaxFaults BY <1>1 DEF Inv, Types
  <2> QED BY <1>1, <1>2, <1>3, <2>1, DieStep
<1>4. CASE CloseWith(r, "stale_source") /\ UNCHANGED <<container, branch>>
  BY <1>1, <1>2, <1>4, CloseStep DEF Closes, Reasons
<1>5. /\ branch' \in Files => branch' \in Files /\ pulls' \in Seq(Patches)
      /\ base' = moves' + 1 /\ moves' \in 0..MaxMoves /\ moves <= moves' /\ faults' \in 0..MaxFaults
  BY <1>1, CodingAssumption DEF Inv, Types
<1>6. ASSUME GoTo(r, "ci"), container' = (IF sandbox THEN Acquired(r) ELSE container),
             UNCHANGED branch
      PROVE  Inv'
  <2> DEFINE rec == [run[r] EXCEPT !.pc = "ci"]
  <2>1. run' = [run EXCEPT ![r] = rec] BY <1>6, Sound DEF GoTo
  <2>2. rec \in RunRecord BY Sound DEF RunRecord, Steps
  <2>3. /\ rec.pc = "ci" /\ rec.close = run[r].close /\ rec.granted = run[r].granted
        /\ rec.shown = run[r].shown /\ rec.sha = run[r].sha /\ rec.patch = run[r].patch
        /\ rec.manifest = run[r].manifest
    BY Sound DEF RunRecord
  <2>4. Gated(rec, preapproved', base')
    BY <1>1, <2>3, Sound DEF Gated, Early, OnDisk, Cleared, Publishing, config
  <2>5. Placed(rec, StartsClean(r), sandbox', container', branch', pulls')
    BY <2>3 DEF Placed, OnDisk, Unplanned, Cleared, Publishing
  <2>6. container' \in Container
    <3>1. container \in Container BY DEF Inv, Types
    <3>2. run[r].sha \in 0..(MaxMoves + 1)
      <4>1. run[r].sha \in Nat /\ run[r].sha <= base BY Sound DEF RunRecord, Gated
      <4>2. base = moves + 1 /\ moves \in 0..MaxMoves BY DEF Inv, Types
      <4> QED BY <4>1, <4>2, CodingAssumption
    <3> QED BY <1>6, <3>1, <3>2, PatchesAreFiles DEF Acquired, Container
  <2>7. branch' \in Files BY <1>6 DEF Inv, Types
  <2>8. Published' BY <1>1, <1>6 DEF Inv, Published, config
  <2> HIDE DEF rec
  <2> QED BY <1>1, <1>2, <1>5, <2>1, <2>2, <2>3, <2>4, <2>5, <2>6, <2>7, <2>8, OneRunSteps
<1>7. ASSUME DurableReplay(r) = "free", branch' = Committed(r), GoTo(r, "open"),
             sandbox => container.up /\ container.head = run[r].sha,
             container' = (IF sandbox THEN [container EXCEPT !.head = Moved] ELSE container)
      PROVE  Inv'
  <2> DEFINE rec == [run[r] EXCEPT !.pc = "open"]
  <2>1. run' = [run EXCEPT ![r] = rec] BY <1>7, Sound DEF GoTo
  <2>2. rec \in RunRecord BY Sound DEF RunRecord, Steps
  <2>3. /\ rec.pc = "open" /\ rec.close = run[r].close /\ rec.granted = run[r].granted
        /\ rec.shown = run[r].shown /\ rec.sha = run[r].sha /\ rec.patch = run[r].patch
        /\ rec.manifest = run[r].manifest /\ rec.judged = run[r].judged
        /\ rec.spent = run[r].spent
    BY Sound DEF RunRecord
  <2>4. Gated(rec, preapproved', base')
    BY <1>1, <2>3, Sound DEF Gated, Early, OnDisk, Cleared, Publishing, config
  <2>5. branch = NoFiles /\ pulls = <<>>
    <3>1. branch = NoFiles BY <1>7 DEF DurableReplay
    <3> QED BY <3>1 DEF Inv, Published
  <2>6. run[r].patch \in Patches BY <1>1, Sound DEF Gated, OnDisk
  <2>7. /\ branch' \in Files /\ Holds(branch', run[r].patch)
        /\ ~sandbox \/ (StartsClean(r) /\ ~run[r].spent) => branch' = run[r].patch
    <3>1. CASE sandbox
      <4>1. /\ Holds(container.files, run[r].patch)
            /\ StartsClean(r) /\ ~run[r].spent => container.files = run[r].patch
        BY <1>1, <1>7, <3>1, Sound DEF Placed, OnDisk
      <4>2. container.files \in Files BY DEF Inv, Types, Container
      <4> QED BY <1>7, <3>1, <4>1, <4>2 DEF Committed
    <3>2. CASE ~sandbox
      <4>1. branch' = run[r].patch
        BY <1>7, <2>5, <2>6, <3>2, OverlayNothing DEF Committed
      <4> QED BY <2>6, <3>2, <4>1, PatchesAreFiles DEF Holds
    <3> QED BY <3>1, <3>2
  <2>8. pulls' = <<>> /\ sandbox' = sandbox BY <1>1, <2>5 DEF config
  <2>9. Placed(rec, StartsClean(r), sandbox', container', branch', pulls')
    BY <2>3, <2>7, <2>8 DEF Placed, OnDisk, Unplanned, Cleared, Publishing
  <2>10. container' \in Container
    <3>1. container \in Container /\ Moved \in 0..(MaxMoves + 1)
      BY CodingAssumption DEF Inv, Types, Moved
    <3> QED BY <1>7, <3>1 DEF Container
  <2>11. Published' BY <2>8 DEF Published
  <2> HIDE DEF rec
  <2> QED BY <1>1, <1>2, <1>5, <2>1, <2>2, <2>3, <2>4, <2>7, <2>9, <2>10, <2>11, OneRunSteps
<1> QED BY <1>3, <1>4, <1>6, <1>7 DEF Apply

LEMMA OpenDraftPullKeeps ==
  ASSUME Inv, NEW r \in Runs, OpenDraftPull(r)
  PROVE  Inv'
<1> DEFINE rec == [run[r] EXCEPT !.pc = "ci"]
<1>1. /\ run[r].pc = "open" /\ pulls' = Append(pulls, run[r].manifest) /\ GoTo(r, "ci")
      /\ UNCHANGED <<container, base, branch, moves, faults, config>>
  BY DEF OpenDraftPull
<1>2. Current(r) BY <1>1, ActiveIsCurrent DEF Waiting
<1>3. run' = [run EXCEPT ![r] = rec] BY <1>1, Sound DEF GoTo
<1>4. rec \in RunRecord BY Sound DEF RunRecord, Steps
<1>5. /\ rec.pc = "ci" /\ rec.close = run[r].close /\ rec.granted = run[r].granted
      /\ rec.shown = run[r].shown /\ rec.sha = run[r].sha /\ rec.patch = run[r].patch
      /\ rec.manifest = run[r].manifest
  BY Sound DEF RunRecord
<1>6. Gated(rec, preapproved', base')
  BY <1>1, <1>5, Sound DEF Gated, Early, OnDisk, Cleared, Publishing, config
<1>7. Placed(rec, StartsClean(r), sandbox', container', branch', pulls')
  BY <1>5 DEF Placed, OnDisk, Unplanned, Cleared, Publishing
<1>8. /\ run[r].manifest \in Patches /\ pulls = <<>> /\ Holds(branch, run[r].manifest)
      /\ ~sandbox => branch = run[r].manifest
  BY <1>1, Sound DEF Gated, Placed, Cleared, Publishing
<1>9. pulls' = <<run[r].manifest>> BY <1>1, <1>8
<1>10. branch # NoFiles BY <1>8, PatchesAreFiles DEF Holds, NoFiles
<1>11. Published'
  BY <1>1, <1>8, <1>9, <1>10 DEF Published, config
<1>12. /\ pulls' \in Seq(Patches) /\ container' \in Container /\ branch' \in Files
       /\ base' = moves' + 1 /\ moves' \in 0..MaxMoves /\ moves <= moves' /\ faults' \in 0..MaxFaults
  BY <1>1, <1>8, <1>9, CodingAssumption DEF Inv, Types
<1> HIDE DEF rec
<1> QED BY <1>1, <1>2, <1>3, <1>4, <1>5, <1>6, <1>7, <1>11, <1>12, OneRunSteps

LEMMA ResumeRejectedKeeps ==
  ASSUME Inv, NEW r \in Runs, ResumeRejected(r)
  PROVE  Inv'
<1>1. run[r].pc = "suspended" /\ CloseWith(r, "approval_rejected") /\ UNCHANGED <<world, config>>
  BY DEF ResumeRejected
<1>2. /\ run[r].pc \notin Waiting /\ UNCHANGED <<container, base, branch, pulls, moves>>
      /\ UNCHANGED config /\ UNCHANGED faults
  BY <1>1 DEF Waiting, world
<1> QED BY <1>1, <1>2, CloseStep DEF Closes, Reasons

LEMMA ReadCiStatusKeeps ==
  ASSUME Inv, NEW r \in Runs, ReadCiStatus(r)
  PROVE  Inv'
<1>1. run[r].pc = "ci" /\ UNCHANGED <<world, config>> BY DEF ReadCiStatus
<1>2. PICK close \in {"ci_failed", "awaiting_ci", "draft_pr_opened"} : CloseWith(r, close)
  BY DEF ReadCiStatus
<1>3. close \in Closes \ {"none"} BY DEF Closes, Reasons
<1>4. /\ run[r].pc \notin Waiting /\ UNCHANGED <<container, base, branch, pulls, moves>>
      /\ UNCHANGED config /\ UNCHANGED faults
  BY <1>1 DEF Waiting, world
<1> QED BY <1>2, <1>3, <1>4, CloseStep

LEMMA EvidenceCloseKeeps ==
  ASSUME Inv, NEW r \in Runs, EvidenceClose(r)
  PROVE  Inv'
<1> DEFINE rec == [NewRun EXCEPT !.pc = "closed", !.close = run[r].close]
<1>1. /\ run[r].pc = "close" /\ run' = [run EXCEPT ![r] = rec] /\ container' = NoContainer
      /\ UNCHANGED <<base, branch, pulls, moves, faults, config>>
  BY DEF EvidenceClose, Released
<1>2. Current(r) BY <1>1, ActiveIsCurrent DEF Waiting
<1>3. run[r].close \in Closes /\ run[r].close # "none"
  BY <1>1, Sound DEF RunRecord, Gated
<1>4. rec \in RunRecord /\ rec.pc = "closed" BY <1>3, PatchesAreFiles DEF NewRun, RunRecord
<1>5. base \in Nat /\ base >= 1 BY CodingAssumption DEF Inv, Types
<1>6. Gated(rec, preapproved, base)
  BY <1>3, <1>5 DEF NewRun, Gated, Early, OnDisk, Cleared, Publishing
<1>7. Gated(rec, preapproved', base') BY <1>1, <1>6 DEF config
<1>8. Placed(rec, StartsClean(r), sandbox', container', branch', pulls')
  BY <1>4 DEF Placed, OnDisk, Unplanned, Cleared, Publishing
<1>9. container' \in Container /\ ~container'.up
  BY <1>1, PatchesAreFiles, CodingAssumption DEF NoContainer, Container
<1>10. Published' BY <1>1 DEF Inv, Published, config
<1>11. /\ branch' \in Files /\ pulls' \in Seq(Patches)
       /\ base' = moves' + 1 /\ moves' \in 0..MaxMoves /\ moves <= moves' /\ faults' \in 0..MaxFaults
  BY <1>1, CodingAssumption DEF Inv, Types
<1> HIDE DEF rec
<1> QED BY <1>1, <1>2, <1>4, <1>7, <1>8, <1>9, <1>10, <1>11, OneRunSteps

LEMMA BreakKeeps ==
  ASSUME Inv, NEW r \in Runs, Break(r)
  PROVE  Inv'
<1>1. /\ run[r].pc \notin Waiting /\ Dies(r)
      /\ UNCHANGED <<container, base, branch, pulls, moves>> /\ UNCHANGED config
  BY DEF Break, InStep, Steps, Waiting
<1>2. faults' \in 0..MaxFaults BY CodingAssumption DEF Break, Inv, Types
<1> QED BY <1>1, <1>2, DieStep

\* After a restart the run is suspended or over, and there is no container.
LEMMA RestartKeeps ==
  ASSUME Inv, Restart
  PROVE  Inv'
<1> DEFINE dead == [NewRun EXCEPT !.pc = "thrown"]
<1>1. /\ run' = [r \in Runs |-> IF InStep(r) THEN dead ELSE run[r]]
      /\ container' = NoContainer /\ faults' = faults + 1 /\ faults < MaxFaults
      /\ UNCHANGED <<base, branch, pulls, moves, config>>
  BY DEF Restart
<1>2. dead \in RunRecord /\ dead.pc = "thrown" /\ Gated(dead, preapproved, base)
  BY DeadRecord
<1> HIDE DEF dead
<1>3. container' \in Container /\ ~container'.up
  BY <1>1, PatchesAreFiles, CodingAssumption DEF NoContainer, Container
<1>4. Types'
  <2>1. run' \in [Runs -> RunRecord] BY <1>1, <1>2, Sound
  <2>2. faults' \in 0..MaxFaults BY <1>1, CodingAssumption DEF Inv, Types
  <2> QED BY <1>1, <1>3, <2>1, <2>2 DEF Inv, Types, config, Runs
<1>5. InTurn'
  <2> SUFFICES ASSUME NEW p \in Runs, NEW q \in Runs, q < p, run'[p].pc # "idle"
               PROVE  run'[q].pc \in {"closed", "thrown"}
    BY DEF InTurn, Runs, Ended
  <2>1. run[p].pc # "idle" BY <1>1 DEF InStep, Steps
  <2>2. Ended(q) BY <2>1 DEF Inv, InTurn
  <2> QED BY <1>1, <2>2 DEF Ended, InStep, Steps
<1>6. Published' BY <1>1 DEF Inv, Published, config
<1>7. NoneYet' /\ NoContainerLeft' BY <1>3 DEF NoneYet, NoContainerLeft
<1>8. ASSUME NEW r \in Runs
      PROVE  /\ Gated(run'[r], preapproved', base')
             /\ Placed(run'[r], StartsClean(r)', sandbox', container', branch', pulls')
  <2>1. CASE InStep(r)
    <3>1. run'[r] = dead BY <1>1, <2>1
    <3>2. Gated(dead, preapproved', base') BY <1>1, <1>2 DEF config
    <3>3. Placed(dead, StartsClean(r)', sandbox', container', branch', pulls')
      BY <1>2, WaitingIsPlaced DEF Waiting
    <3> QED BY <3>1, <3>2, <3>3
  <2>2. CASE ~InStep(r)
    <3>1. run'[r] = run[r] BY <1>1, <2>2
    <3>2. Gated(run[r], preapproved', base') BY <1>1, Sound DEF config
    <3>3. run[r].pc # "open" BY <2>2 DEF InStep, Steps
    <3>4. Placed(run[r], StartsClean(r)', sandbox', container', branch', pulls')
      BY <1>3, <3>3 DEF Placed
    <3> QED BY <3>1, <3>2, <3>4
  <2> QED BY <2>1, <2>2
<1> QED BY <1>4, <1>5, <1>6, <1>7, <1>8 DEF Inv, Runs

LEMMA BaseMovesKeeps ==
  ASSUME Inv, BaseMoves
  PROVE  Inv'
<1>1. /\ moves < MaxMoves /\ moves' = moves + 1 /\ base' = base + 1
      /\ UNCHANGED <<run, container, branch, pulls, faults, config>>
  BY DEF BaseMoves
<1>2. Types' BY <1>1, CodingAssumption DEF Inv, Types, config, Runs
<1>3. InTurn' /\ Published' /\ NoneYet' /\ NoContainerLeft'
  BY <1>1 DEF Inv, InTurn, Published, NoneYet, NoContainerLeft, config, Ended, Runs
<1>4. ASSUME NEW r \in Runs
      PROVE  /\ Gated(run'[r], preapproved', base')
             /\ Placed(run'[r], StartsClean(r)', sandbox', container', branch', pulls')
  <2>1. run[r].sha \in Nat /\ base \in Nat
    BY Sound, CodingAssumption DEF RunRecord, Inv, Types
  <2>2. Gated(run[r], preapproved, base) BY Sound
  <2>3. run[r].sha <= base' BY <1>1, <2>1, <2>2 DEF Gated
  <2>4. Gated(run[r], preapproved', base') BY <1>1, <2>2, <2>3 DEF Gated, config
  <2>5. Placed(run[r], StartsClean(r)', sandbox', container', branch', pulls')
    BY <1>1, Sound DEF config, StartsClean
  <2> QED BY <1>1, <2>4, <2>5
<1> QED BY <1>2, <1>3, <1>4 DEF Inv, Runs

-----------------------------------------------------------------------------
(* The invariant *)

LEMMA InvInit ==
  ASSUME Init
  PROVE  Inv
<1>1. NewRun \in RunRecord /\ NewRun.pc = "idle" BY PatchesAreFiles DEF NewRun, RunRecord, Closes
<1>2. /\ \A r \in Runs : run[r] = NewRun
      /\ base = 1 /\ moves = 0 /\ faults = 0 /\ branch = NoFiles /\ pulls = <<>>
      /\ sandbox \in BOOLEAN /\ preapproved \subseteq Destructive
      /\ container = NoContainer
  BY DEF Init
<1>3. Types
  <2>1. run \in [Runs -> RunRecord] BY <1>1 DEF Init
  <2>2. container \in Container
    BY <1>2, PatchesAreFiles, CodingAssumption DEF NoContainer, Container
  <2> QED BY <1>2, <2>1, <2>2, PatchesAreFiles, CodingAssumption DEF Types
<1>4. InTurn BY <1>1, <1>2 DEF InTurn
<1>5. Published BY <1>2 DEF Published
<1>6. NoneYet /\ NoContainerLeft BY <1>2 DEF NoneYet, NoContainerLeft, NoContainer
<1>7. ASSUME NEW r \in Runs
      PROVE  /\ Gated(run[r], preapproved, base)
             /\ Placed(run[r], StartsClean(r), sandbox, container, branch, pulls)
  BY <1>1, <1>2, WaitingIsPlaced
     DEF NewRun, Gated, Early, OnDisk, Cleared, Publishing, Waiting
<1> QED BY <1>3, <1>4, <1>5, <1>6, <1>7 DEF Inv

LEMMA InvNext ==
  ASSUME Inv, [Next]_vars
  PROVE  Inv'
<1>1. ASSUME NEW r \in Runs,
             \/ LoadContext(r) \/ Investigate(r) \/ StrictRca(r) \/ PlanSurgicalPatch(r)
             \/ Preflight(r) \/ ResumeApproved(r) \/ ResumeRejected(r) \/ PatchStep(r)
             \/ Validate(r) \/ Repair(r) \/ RunChecks(r) \/ Critic(r) \/ Regenerate(r)
             \/ Apply(r) \/ OpenDraftPull(r) \/ ReadCiStatus(r) \/ EvidenceClose(r) \/ Break(r)
      PROVE  Inv'
  BY <1>1, LoadContextKeeps, InvestigateKeeps, StrictRcaKeeps, PlanKeeps, PreflightKeeps,
     ResumeApprovedKeeps, ResumeRejectedKeeps, PatchStepKeeps, ValidateKeeps, RepairKeeps,
     RunChecksKeeps, CriticKeeps, RegenerateKeeps, ApplyKeeps, OpenDraftPullKeeps,
     ReadCiStatusKeeps, EvidenceCloseKeeps, BreakKeeps
<1>2. CASE Restart BY <1>2, RestartKeeps
<1>3. CASE BaseMoves BY <1>3, BaseMovesKeeps
<1>4. CASE UNCHANGED vars
  BY <1>4
     DEF vars, Inv, Types, InTurn, Published, NoneYet, NoContainerLeft, StartsClean, Ended, Runs
<1> QED BY <1>1, <1>2, <1>3, <1>4 DEF Next

\* What the gates have established holds in every reachable state.
THEOREM GatesHold == Spec => []Inv
<1>1. Init => Inv BY InvInit
<1>2. Inv /\ [Next]_vars => Inv' BY InvNext
<1> QED BY <1>1, <1>2, PTL DEF Spec

-----------------------------------------------------------------------------
(* The properties *)

\* Every record of a run, the container and the branch have their types: a
\* closed run has a reason, an open one none, and its checkout is not newer
\* than the base branch.
THEOREM CodingTypes == Spec => []TypeOK
<1>1. ASSUME Inv PROVE TypeOK
  <2>1. ASSUME NEW r \in Runs
        PROVE  /\ run[r].sha \in 0..base
               /\ (run[r].close # "none") = (run[r].pc \in {"close", "closed"})
    <3>1. run[r] \in RunRecord /\ Gated(run[r], preapproved, base)
      BY <1>1, Sound
    <3>2. run[r].sha \in Nat /\ run[r].sha <= base
      BY <3>1 DEF RunRecord, Gated
    <3>3. base \in Nat BY <1>1, CodingAssumption DEF Inv, Types
    <3>4. (run[r].close # "none") <=> (run[r].pc \in {"close", "closed"})
      BY <3>1 DEF Gated
    <3> QED BY <3>2, <3>3, <3>4
  <2>2. Types /\ \A r \in Runs : run[r] \in RunRecord BY <1>1, Sound DEF Inv
  <2> QED BY <2>1, <2>2 DEF TypeOK, Types, Container, RunRecord
<1> QED BY <1>1, GatesHold, PTL

\* A manifest that goes to GitHub is within the policy, and its destructive
\* paths were preapproved or stood in the patch a human approved: the repair
\* and the critic's regeneration choose their paths anew, and cannot add one.
\* So is the branch itself, where the working tree is the run's own.
THEOREM OnlyShownPathsGoOut == Spec => []DestructiveIsShown
<1>1. ASSUME Inv PROVE DestructiveIsShown
  <2>1. ASSUME NEW r \in Runs, run[r].pc \in Publishing
        PROVE  /\ Allowed(r, DOMAIN run[r].manifest)
               /\ run[r].pc = "open" /\ OwnTree(r) => branch = run[r].manifest
    <3>1. /\ run[r].manifest = run[r].patch /\ run[r].patch \in Patches
          /\ "ok" \in Preflights(run[r].patch, preapproved \union run[r].granted)
          /\ run[r].granted \subseteq preapproved \union DOMAIN run[r].shown
      BY <1>1, <2>1, Sound DEF Gated, Cleared
    <3>2. Allowed(r, DOMAIN run[r].manifest) BY <3>1, LetThrough DEF Allowed
    <3>3. run[r].pc = "open" /\ OwnTree(r) => branch = run[r].manifest
      BY <1>1, <3>1, Sound DEF Placed, OwnTree, StartsClean
    <3> QED BY <3>2, <3>3
  <2>2. "open" \in Publishing BY DEF Publishing
  <2> QED BY <2>1, <2>2 DEF DestructiveIsShown
<1> QED BY <1>1, GatesHold, PTL

\* Without a sandbox the branch behind a Draft PR is the patch its hash names,
\* after any number of retries: a branch is only written while it is free.
THEOREM BranchIsItsHash == Spec => []PullIsItsHash
<1>1. Inv => PullIsItsHash BY DEF Inv, Published, PullIsItsHash
<1> QED BY <1>1, GatesHold, PTL

\* However often the lane is run again for the branch, it asks for one Draft PR.
THEOREM OneDraftPull == Spec => []OneOpenPull
<1>1. Inv => OneOpenPull BY DEF Inv, Published, OneOpenPull
<1> QED BY <1>1, GatesHold, PTL

\* What is published passed the validators and was judged last, and the commit
\* holds its bytes: nothing but them where the working tree is the run's own,
\* and them besides others on a tree the run shares.
THEOREM OnlyJudgedIsCommitted == Spec => []JudgedIsCommitted
<1>1. ASSUME Inv PROVE JudgedIsCommitted
  <2> SUFFICES ASSUME NEW r \in Runs, run[r].pc = "open"
               PROVE  /\ run[r].judged = run[r].manifest /\ PassesFloor(run[r].manifest)
                      /\ Holds(branch, run[r].judged)
                      /\ OwnTree(r) => branch = run[r].judged
    BY DEF JudgedIsCommitted, Holds
  <2>1. /\ run[r].manifest = run[r].patch /\ run[r].judged = run[r].patch
        /\ PassesFloor(run[r].patch)
    BY <1>1, Sound DEF Gated, Cleared, Publishing
  <2>2. /\ Holds(branch, run[r].patch)
        /\ OwnTree(r) => branch = run[r].patch
    BY <1>1, Sound DEF Placed, OwnTree, StartsClean
  <2> QED BY <2>1, <2>2
<1> QED BY <1>1, GatesHold, PTL

\* A run that is closed leaves no container to the next one, escalated runs
\* included, and one that a run before it left by throwing is gone with it.
THEOREM ClosedRunsLeaveNothing == Spec => []NoContainerLeft
<1>1. Inv => NoContainerLeft BY DEF Inv
<1> QED BY <1>1, GatesHold, PTL
===============================================================================

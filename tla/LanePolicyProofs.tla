--------------------------- MODULE LanePolicyProofs ---------------------------
(***************************************************************************)
(* Each lane's promise about the calls it makes, for any number of runs,   *)
(* changes and faults, whatever the steps compute within what the model    *)
(* lets them, whatever drafts of the forms are handed in, and whatever     *)
(* fails.                                                                  *)
(*                                                                         *)
(* The promise is about the call a pass makes now; what makes it true was  *)
(* settled steps before, in other passes: what a step computed from what   *)
(* stood then, what a human may have changed of it, and what the contract  *)
(* and the gate of each step let through. Lawful (LaneRunsProofs) keeps    *)
(* that history in the record. Here each lane is opened: from the history  *)
(* of the steps up to the one that calls (Approved), its promise follows.  *)
(***************************************************************************)
EXTENDS LaneRunsProofs

-----------------------------------------------------------------------------
(***************************************************************************)
(* The lanes' promises.                                                    *)
(*                                                                         *)
(* Behind a call stand the artifacts of the steps up to the one that makes *)
(* it. Each lane's promise follows from them, step by step.                *)
(***************************************************************************)

\* The first n steps have come about as they should.
Approved(rec, l, n, f) ==
  \A k \in 1..n : /\ IsForward(rec.dec[StepsOf(l)[k]])
                  /\ Computed(rec, l, k, f)
                  /\ HandedIn(rec, l, StepsOf(l)[k])
                  /\ PassedOn(rec, l, k, f)

\* What st holds of the steps before the i-th is what rec holds of them.
Shows(st, rec, l, i) ==
  \A u \in Prior(l, i) : /\ EffectiveArtifact(st, u) = EffectiveArtifact(rec, u)
                         /\ HasArtifact(st, u) = HasArtifact(rec, u)

\* An artifact a of step s, the i-th, was computed from st, which shows what
\* rec holds of the steps before.
From(rec, l, s, i, f, st, C, a) ==
  /\ Shows(st, rec, l, i) /\ Anew(l, s, st) /\ Receipted(l, s, st.eff)
  /\ a \in Compute(l, s, st, Looked(f, C))

\* e says what a says, whatever its number.
Restates(e, a) == DOMAIN e = DOMAIN a \union {"v"} /\ \A x \in DOMAIN a \ {"v"} : e[x] = a[x]

NoDrafts(l, s) == \A a : \A draft \in Drafts(l, s, a) : draft = NoEdits

LEMMA AgreeShows ==
  ASSUME NEW st, NEW rec, NEW l, NEW i, Agree(st, rec, l, i)
  PROVE  Shows(st, rec, l, i)
BY DEF Agree, Shows, EffectiveArtifact, HasArtifact

\* What is in force was computed, and handed in as it was or with a draft.
LEMMA Edited ==
  ASSUME NEW rec, NEW l, NEW n, NEW f, Approved(rec, l, n, f), NEW i \in 1..n
  PROVE  \E st, C, a, w, draft :
           /\ From(rec, l, StepsOf(l)[i], i, f, st, C, a) /\ Restates(w, a)
           /\ draft \in Drafts(l, StepsOf(l)[i], w)
           /\ EffectiveArtifact(rec, StepsOf(l)[i]) = Merged(draft, w)
<1> DEFINE s == StepsOf(l)[i]
<1>1. IsForward(rec.dec[s]) /\ Computed(rec, l, i, f) /\ HandedIn(rec, l, s) BY DEF Approved
<1>2. PICK st, C, a, v :
        /\ Agree(st, rec, l, i) /\ Anew(l, s, st) /\ Receipted(l, s, st.eff)
        /\ a \in Compute(l, s, st, Looked(f, C))
        /\ rec.art[s] = WithField(a, "v", v)
  BY <1>1 DEF Computed
<1> DEFINE w == WithField(a, "v", v)
<1>3. Restates(w, a) BY DEF WithField, Restates
<1>4. PICK draft \in Drafts(l, s, w) : rec.dec[s] = BuildProceed(w, draft)
  BY <1>1, <1>2 DEF HandedIn
<1>5. EffectiveArtifact(rec, s) = Merged(draft, w)
  <2> HIDE DEF w, s
  <2>1. rec.art[s] = w BY <1>2 DEF w
  <2>2. CASE Merged(draft, w) = w BY <1>4, <2>1, <2>2 DEF BuildProceed, EffectiveArtifact
  <2>3. CASE Merged(draft, w) # w BY <1>4, <2>1, <2>3 DEF BuildProceed, EffectiveArtifact
  <2> QED BY <2>2, <2>3
<1> HIDE DEF w
<1>6. From(rec, l, s, i, f, st, C, a) BY <1>2, AgreeShows DEF From
<1> QED BY <1>3, <1>4, <1>5, <1>6

\* Of a step without drafts, what is in force is what was computed.
LEMMA Unedited ==
  ASSUME NEW rec, NEW l, NEW n, NEW f, Approved(rec, l, n, f), NEW i \in 1..n,
         NoDrafts(l, StepsOf(l)[i])
  PROVE  \E st, C, a : /\ From(rec, l, StepsOf(l)[i], i, f, st, C, a)
                       /\ Restates(EffectiveArtifact(rec, StepsOf(l)[i]), a)
<1> DEFINE s == StepsOf(l)[i]
           e == EffectiveArtifact(rec, s)
<1>1. PICK st, C, a, w, draft :
        /\ From(rec, l, s, i, f, st, C, a) /\ Restates(w, a)
        /\ draft \in Drafts(l, s, w) /\ e = Merged(draft, w)
  BY Edited
<1>2. draft = NoEdits BY <1>1 DEF NoDrafts
<1> HIDE DEF s, e
<1>3. DOMAIN e = DOMAIN w /\ \A x \in DOMAIN w : e[x] = w[x] BY <1>1, <1>2 DEF Merged, NoEdits
<1>4. Restates(e, a) BY <1>1, <1>3 DEF Restates
<1> QED BY <1>1, <1>4 DEF s, e

\* What is in force satisfies the contract of its step.
LEMMA Contracted ==
  ASSUME NEW rec, NEW l, NEW n, NEW f, Approved(rec, l, n, f), NEW i \in 1..n
  PROVE  /\ Contract(l, StepsOf(l)[i], EffectiveArtifact(rec, StepsOf(l)[i]))
         /\ HasArtifact(rec, StepsOf(l)[i])
BY DEF Approved, PassedOn, HasArtifact

\* The gate of its step held on what is in force.
LEMMA Gated ==
  ASSUME NEW rec, NEW l, NEW n, NEW f, Approved(rec, l, n, f), NEW i \in 1..n
  PROVE  \E st, C : Shows(st, rec, l, i + 1) /\ LaneGate(l, StepsOf(l)[i], st, Looked(f, C))
<1>1. PICK st, C : Agree(st, rec, l, i + 1) /\ LaneGate(l, StepsOf(l)[i], st, Looked(f, C))
  BY DEF Approved, PassedOn
<1> QED BY <1>1, AgreeShows

LEMMA ReadOnlyStep ==
  ASSUME NEW l, NEW s, l \notin {"dependencies", "accessibility"},
         \A a : \E view : SurfaceOf(l, s, a) = ReadOnly(view)
  PROVE  NoDrafts(l, s)
<1> SUFFICES ASSUME NEW a PROVE SurfaceOf(l, s, a).drafts = {} /\ ApiDrafts(l, s, a) = {}
  BY DEF NoDrafts, Drafts
<1>1. ApiDrafts(l, s, a) = {} BY DEF ApiDrafts
<1>2. PICK view : SurfaceOf(l, s, a) = ReadOnly(view) OBVIOUS
<1> QED BY <1>1, <1>2 DEF ReadOnly, Surface

\* What can be looked up: the facts, whatever was carried out.
LEMMA LookedUp ==
  ASSUME NEW f, NEW C
  PROVE  \A x \in DOMAIN f \ {"carried"} : Looked(f, C)[x] = f[x]
BY DEF Looked, WithField

\* Of a step that nobody edited, what is in force is what was computed.
LEMMA AsComputed ==
  ASSUME NEW rec, NEW l, NEW n, NEW f, Approved(rec, l, n, f), NEW i \in 1..n,
         rec.dec[StepsOf(l)[i]].action # "edit"
  PROVE  \E st, C, a : /\ From(rec, l, StepsOf(l)[i], i, f, st, C, a)
                       /\ Restates(EffectiveArtifact(rec, StepsOf(l)[i]), a)
<1> DEFINE s == StepsOf(l)[i]
<1>1. PICK st, C, a, v :
        /\ Agree(st, rec, l, i) /\ Anew(l, s, st) /\ Receipted(l, s, st.eff)
        /\ a \in Compute(l, s, st, Looked(f, C))
        /\ rec.art[s] = WithField(a, "v", v)
  BY DEF Approved, Computed
<1>2. EffectiveArtifact(rec, s) = WithField(a, "v", v) BY <1>1 DEF EffectiveArtifact
<1> HIDE DEF s
<1>3. Restates(EffectiveArtifact(rec, s), a) BY <1>2 DEF WithField, Restates
<1>4. From(rec, l, s, i, f, st, C, a) BY <1>1, AgreeShows DEF From
<1> QED BY <1>3, <1>4 DEF s

-----------------------------------------------------------------------------
(* What a filter keeps *)

\* A bounded set of numbers that is not empty has a least one.
LEMMA LeastNumber ==
  ASSUME NEW N \in Nat, NEW S, S \subseteq 0..N, S # {}
  PROVE  \E m \in S : \A n \in S : m <= n
<1> DEFINE U == 1..N
           T == {1..n : n \in S}
           R == StrictSubsetOrdering(U)
<1>1. IsFiniteSet(U) BY FS_Interval
<1>2. IsWellFoundedOn(R, SUBSET U)
  BY <1>1, FS_StrictSubsetOrderingWellFounded, FS_FiniteSubsetsOfFinite
<1>3. \A n \in S : n \in 0..N /\ 1..n \subseteq U OBVIOUS
<1>4. T \subseteq SUBSET U /\ T # {} BY <1>3
<1> HIDE DEF R
<1>5. PICK x \in T : \A y \in T : ~(<<y, x>> \in R) BY <1>2, <1>4, WFMin
<1>6. PICK m \in S : x = 1..m OBVIOUS
<1>7. ASSUME NEW n \in S, n < m
      PROVE  FALSE
  <2>1. 1..n \in T OBVIOUS
  <2>2. 1..n \subseteq 1..m /\ 1..n # 1..m BY <1>3, <1>7
  <2>3. <<1..n, 1..m>> \in R
    BY <1>4, <1>6, <2>1, <2>2 DEF R, StrictSubsetOrdering
  <2> QED BY <1>5, <1>6, <2>1, <2>3
<1> QED BY <1>3, <1>7

\* The numbers from 1 to n are n.
LEMMA OneToN ==
  ASSUME NEW n \in Nat
  PROVE  IsFiniteSet(1..n) /\ Cardinality(1..n) = n
<1>1. 1 \in Int /\ n \in Int OBVIOUS
<1>2. /\ IsFiniteSet(1..n)
      /\ Cardinality(1..n) = IF 1 > n THEN 0 ELSE n - 1 + 1
  BY <1>1, FS_Interval
<1> QED BY <1>2

\* Each element kept is one of the sequence and of the set.
LEMMA SelectedIsKept ==
  ASSUME NEW seq, Len(seq) \in Nat, NEW S
  PROVE  /\ Len(Selected(seq, S)) \in 0..Len(seq)
         /\ DOMAIN Selected(seq, S) = 1..Len(Selected(seq, S))
         /\ Len(Selected(seq, S)) = 0 => Selected(seq, S) = <<>>
         /\ Selected(seq, S) \in Seq(S)
         /\ \A n \in 1..Len(Selected(seq, S)) :
              \E i \in 1..Len(seq) : seq[i] \in S /\ Selected(seq, S)[n] = seq[i]
<1> DEFINE L == Len(seq)
           kept == {i \in 1..L : seq[i] \in S}
           Upto(i) == {j \in kept : j <= i}
           c == Cardinality(kept)
           At(n) == CHOOSE i \in kept : Cardinality(Upto(i)) = n
<1>1. IsFiniteSet(1..L) /\ Cardinality(1..L) = L
  <2> HIDE DEF L
  <2>1. L \in Nat BY DEF L
  <2> QED BY <2>1, OneToN
<1>2. IsFiniteSet(kept) /\ c \in Nat /\ c <= L BY <1>1, FS_Subset, FS_CardinalityType
<1>3. ASSUME NEW i \in 0..L
      PROVE  IsFiniteSet(Upto(i)) /\ Cardinality(Upto(i)) \in Nat
  BY <1>2, FS_Subset, FS_CardinalityType
<1>4. Cardinality(Upto(0)) = 0
  <2>1. Upto(0) = {} OBVIOUS
  <2> QED BY <2>1, FS_EmptySet
<1>5. Upto(L) = kept OBVIOUS
<1>6. ASSUME NEW i \in 1..L
      PROVE  Cardinality(Upto(i)) = IF i \in kept THEN Cardinality(Upto(i - 1)) + 1
                                    ELSE Cardinality(Upto(i - 1))
  <2>1. i - 1 \in 0..L OBVIOUS
  <2>2. Upto(i) = IF i \in kept THEN Upto(i - 1) \union {i} ELSE Upto(i - 1) OBVIOUS
  <2>3. i \notin Upto(i - 1) OBVIOUS
  <2> HIDE DEF Upto
  <2> QED BY <1>3, <2>1, <2>2, <2>3, FS_AddElement
<1> HIDE DEF Upto
<1>7. ASSUME NEW n \in 1..c
      PROVE  \E i \in kept : Cardinality(Upto(i)) = n
  <2> DEFINE R == {i \in 0..L : Cardinality(Upto(i)) >= n}
  <2>0. Cardinality(Upto(L)) = c /\ c >= n /\ L \in 0..L BY <1>2, <1>5, <1>7
  <2>1. L \in R
    <3> HIDE DEF c, kept
    <3> QED BY <2>0
  <2>2. PICK i \in R : \A j \in R : i <= j BY <2>1, LeastNumber
  <2>3. i \in 1..L BY <1>4
  <2>4. i - 1 \in 0..L /\ ~(i - 1 \in R) BY <2>2, <2>3
  <2>5. Cardinality(Upto(i - 1)) < n BY <1>3, <2>4
  <2>6. i \in kept /\ Cardinality(Upto(i)) = n BY <1>2, <1>3, <1>6, <2>3, <2>4, <2>5
  <2> QED BY <2>6
<1>8. ASSUME NEW n \in 1..c
      PROVE  At(n) \in kept
  BY <1>7
<1> HIDE DEF At
<1>9. Selected(seq, S) = [n \in 1..c |-> seq[At(n)]] BY DEF Selected, At, Upto
<1>12. Selected(seq, S) \in Seq(S)
  <2>1. \A n \in 1..c : seq[At(n)] \in S BY <1>8
  <2>2. [n \in 1..c |-> seq[At(n)]] \in [1..c -> S] BY <2>1
  <2>3. c \in Nat BY <1>2
  <2> HIDE DEF c
  <2> QED BY <1>9, <2>2, <2>3
<1> HIDE DEF c
<1>10. /\ Len(Selected(seq, S)) = c /\ DOMAIN Selected(seq, S) = 1..c
       /\ c = 0 => Selected(seq, S) = <<>>
  BY <1>2, <1>9
<1>11. ASSUME NEW n \in 1..c
       PROVE  \E i \in 1..L : seq[i] \in S /\ Selected(seq, S)[n] = seq[i]
  <2>1. At(n) \in 1..L /\ seq[At(n)] \in S BY <1>8, <1>11
  <2>2. Selected(seq, S)[n] = seq[At(n)] BY <1>9, <1>11
  <2> QED BY <2>1, <2>2
<1> QED BY <1>2, <1>10, <1>11, <1>12
-----------------------------------------------------------------------------
(* What is joined *)

LEMMA JoinedPlaces ==
  ASSUME NEW S, NEW a \in Seq(S), NEW b \in Seq(S)
  PROVE  /\ Len(a \o b) = Len(a) + Len(b)
         /\ \A n \in 1..(Len(a) + Len(b)) :
              (a \o b)[n] = IF n <= Len(a) THEN a[n] ELSE b[n - Len(a)]
OBVIOUS

\* Of two sequences of one element at most, joined, each place holds one of theirs.
LEMMA JoinedHolds ==
  ASSUME NEW x, NEW y, NEW a \in {<<>>, <<x>>}, NEW b \in {<<>>, <<y>>}, NEW k \in 1..Len(a \o b)
  PROVE  (a = <<x>> /\ (a \o b)[k] = x) \/ (b = <<y>> /\ (a \o b)[k] = y)
<1>1. a \in Seq({x, y}) /\ b \in Seq({x, y})
  <2>1. <<>> \in Seq({x, y}) OBVIOUS
  <2>2. <<x>> \in Seq({x, y}) OBVIOUS
  <2>3. <<y>> \in Seq({x, y}) OBVIOUS
  <2> QED BY <2>1, <2>2, <2>3
<1>2. /\ a # <<x>> => Len(a) = 0
      /\ b # <<y>> => Len(b) = 0
      /\ a = <<x>> => Len(a) = 1 /\ a[1] = x
      /\ b = <<y>> => Len(b) = 1 /\ b[1] = y
  OBVIOUS
<1>3. /\ Len(a \o b) = Len(a) + Len(b)
      /\ \A n \in 1..(Len(a) + Len(b)) :
           (a \o b)[n] = IF n <= Len(a) THEN a[n] ELSE b[n - Len(a)]
  BY <1>1, JoinedPlaces
<1>4. k \in 1..(Len(a) + Len(b)) BY <1>3
<1>5. CASE a = <<x>> /\ b = <<y>>
  <2>1. (a \o b)[k] = IF k <= 1 THEN a[k] ELSE b[k - 1] BY <1>2, <1>3, <1>4, <1>5
  <2>2. k = 1 \/ k = 2 BY <1>2, <1>4, <1>5
  <2> QED BY <1>2, <1>5, <2>1, <2>2
<1>6. CASE a = <<x>> /\ b # <<y>>
  <2>1. k = 1 BY <1>2, <1>4, <1>6
  <2> QED BY <1>2, <1>3, <1>6, <2>1
<1>7. CASE a # <<x>> /\ b = <<y>>
  <2>1. k = 1 BY <1>2, <1>4, <1>7
  <2>2. Len(a) = 0 /\ Len(b) = 1 /\ b[1] = y BY <1>2, <1>7
  <2>3. (a \o b)[1] = b[1 - 0] BY <1>3, <2>2
  <2> QED BY <1>7, <2>1, <2>2, <2>3
<1>8. CASE a # <<x>> /\ b # <<y>>
  BY <1>2, <1>4, <1>8
<1> QED BY <1>5, <1>6, <1>7, <1>8

\* Each place of two sequences joined is a place of one of them.
LEMMA JoinedTaken ==
  ASSUME NEW S, NEW a \in Seq(S), NEW b \in Seq(S), NEW k \in 1..Len(a \o b)
  PROVE  (\E n \in 1..Len(a) : (a \o b)[k] = a[n]) \/ (\E n \in 1..Len(b) : (a \o b)[k] = b[n])
<1>1. k \in 1..(Len(a) + Len(b)) BY JoinedPlaces
<1>2. (a \o b)[k] = IF k <= Len(a) THEN a[k] ELSE b[k - Len(a)] BY <1>1, JoinedPlaces
<1>3. Len(a) \in Nat /\ Len(b) \in Nat OBVIOUS
<1>4. CASE k <= Len(a) BY <1>1, <1>2, <1>3, <1>4
<1>5. CASE ~(k <= Len(a))
  <2>1. k - Len(a) \in 1..Len(b) BY <1>1, <1>3, <1>5
  <2> QED BY <1>2, <1>5, <2>1
<1> QED BY <1>4, <1>5

-----------------------------------------------------------------------------
(* The lanes that push a patch *)

\* Both writes of a patch carry the same, and are known by its branch.
LEMMA Pushes ==
  ASSUME NEW branch, NEW files, NEW what, NEW k \in 1..Len(ApplyPatch(branch, files, what))
  PROVE  /\ ApplyPatch(branch, files, what)[k].what = what
         /\ ApplyPatch(branch, files, what)[k].key[1] = branch
<1> DEFINE key == <<branch, ComputePatchHash(files)>>
           x == Call("branch", key, TRUE, what)
           y == Call("pull-request", key, TRUE, what)
<1>1. ApplyPatch(branch, files, what) = <<x, y>> BY DEF ApplyPatch
<1>2. key[1] = branch OBVIOUS
<1> HIDE DEF key
<1>3. x.what = what /\ x.key = key /\ y.what = what /\ y.key = key BY DEF Call
<1> DEFINE calls == <<x, y>>
<1> HIDE DEF x, y
<1>4. k \in 1..Len(calls) BY <1>1
<1>5. calls[k] = x \/ calls[k] = y
  <2>1. k = 1 \/ k = 2 BY <1>4
  <2> QED BY <2>1
<1> QED BY <1>1, <1>2, <1>3, <1>5

\* What is filtered out of a sequence of files by what the files are.
LEMMA KeptFiles ==
  ASSUME NEW files, Len(files) \in Nat, NEW S, S \subseteq FilesOf(files)
  PROVE  /\ FilesOf(Selected(files, S)) \subseteq S
         /\ Len(Selected(files, S)) \in Nat
         /\ DOMAIN Selected(files, S) = 1..Len(Selected(files, S))
<1>1. /\ Len(Selected(files, S)) \in Nat
      /\ DOMAIN Selected(files, S) = 1..Len(Selected(files, S))
      /\ \A n \in 1..Len(Selected(files, S)) :
           \E i \in 1..Len(files) : files[i] \in S /\ Selected(files, S)[n] = files[i]
  BY SelectedIsKept
<1> QED BY <1>1 DEF FilesOf

\* What the reviewer left in the plan is of the plan.
LEMMA PlanIsKept ==
  ASSUME NEW files, Len(files) \in Nat
  PROVE  /\ Len(PatchFilesInPlan(files)) \in 0..Len(files)
         /\ FilesOf(PatchFilesInPlan(files)) \subseteq FilesOf(files)
         /\ Validates(files) => Validates(PatchFilesInPlan(files))
<1> DEFINE S == {file \in FilesOf(files) : file.included}
           plan == Selected(files, S)
<1>1. PatchFilesInPlan(files) = plan BY DEF PatchFilesInPlan
<1>2. S \subseteq FilesOf(files) OBVIOUS
<1> HIDE DEF S
<1>3. FilesOf(plan) \subseteq S /\ Len(plan) \in 0..Len(files) BY <1>2, KeptFiles, SelectedIsKept
<1> HIDE DEF plan
<1> QED BY <1>1, <1>2, <1>3 DEF Validates

LEMMA PatchIsSequence ==
  ASSUME NEW branch, NEW files, NEW what
  PROVE  \E x, y : ApplyPatch(branch, files, what) \in Seq({x, y})
<1> DEFINE key == <<branch, ComputePatchHash(files)>>
           x == Call("branch", key, TRUE, what)
           y == Call("pull-request", key, TRUE, what)
<1>1. ApplyPatch(branch, files, what) = <<x, y>> BY DEF ApplyPatch
<1> HIDE DEF x, y
<1>2. <<x, y>> \in Seq({x, y}) OBVIOUS
<1> QED BY <1>1, <1>2

-----------------------------------------------------------------------------
(* Security *)

LEMMA SecurityWalk ==
  /\ StepsOf("security") = SecuritySteps /\ Len(SecuritySteps) = 6
  /\ SecuritySteps[1] = "ingest" /\ SecuritySteps[2] = "triage"
  /\ SecuritySteps[3] = "investigate" /\ SecuritySteps[4] = "decide"
  /\ SecuritySteps[5] = "approve" /\ SecuritySteps[6] = "contain"
  /\ "triage" \in Prior("security", 4) /\ "decide" \in Prior("security", 5)
  /\ "decide" \in Prior("security", 6) /\ "approve" \in Prior("security", 6)
BY DEF StepsOf, SecuritySteps, Prior

\* A flagged text is never judged automatically.
LEMMA FlaggedIsUnknown ==
  ASSUME NEW text
  PROVE  ClassifySignals(text).flags # {} => ClassifySignals(text).class = "unknown"
<1> DEFINE score == SignalScore(text)
           magnitude == IF score < 0 THEN -score ELSE score
           flags == DetectInjection(text)
           class == IF flags # {} THEN "unknown"
                    ELSE IF score >= 25 THEN "tp"
                    ELSE IF score <= -40 THEN "fp"
                    ELSE IF score <= -20 THEN "benign" ELSE "unknown"
           severity == IF score >= 90 THEN "critical"
                       ELSE IF score >= 60 THEN "high"
                       ELSE IF score >= 25 THEN "medium" ELSE "low"
           percent == IF flags # {} THEN 40 ELSE IF magnitude > 55 THEN 95 ELSE 40 + magnitude
<1>1. ClassifySignals(text) =
        [class |-> class, severity |-> severity, percent |-> percent, flags |-> flags]
  BY DEF ClassifySignals
<1>2. flags # {} => class = "unknown" OBVIOUS
<1> HIDE DEF class, severity, percent, flags
<1> QED BY <1>1, <1>2

LEMMA TriageIsCareful ==
  ASSUME NEW rec, NEW f, NEW n, n \in 2..6, Approved(rec, "security", n, f)
  PROVE  LET triage == EffectiveArtifact(rec, "triage") IN
         triage.flags # {} => triage.class = "unknown"
<1>1. StepsOf("security")[2] = "triage" /\ 2 \in 1..n BY SecurityWalk
<1> DEFINE triage == EffectiveArtifact(rec, "triage")
<1>2. NoDrafts("security", "triage") BY ReadOnlyStep DEF SurfaceOf, SecuritySurface
<1>3. PICK st, C, a : From(rec, "security", "triage", 2, f, st, C, a) /\ Restates(triage, a)
  BY <1>1, <1>2, Unedited
<1> DEFINE signals == ClassifySignals(Looked(f, C).text)
<1>4. a \in ComputeTriage(st, Looked(f, C)) BY <1>3 DEF From, Compute, SecurityCompute
<1>5. signals.flags # {} => signals.class = "unknown" BY FlaggedIsUnknown
<1> HIDE DEF triage, signals
<1>6. /\ "flags" \in DOMAIN a /\ "class" \in DOMAIN a
      /\ a.flags = signals.flags /\ a.class = signals.class
  BY <1>4 DEF ComputeTriage, signals
<1>7. triage.flags = a.flags /\ triage.class = a.class BY <1>3, <1>6 DEF Restates
<1> QED BY <1>5, <1>6, <1>7 DEF triage

\* The decided action is the proposed one, or closes, unless its risk is refused.
LEMMA DecideSays ==
  ASSUME NEW st, NEW known, NEW a \in ComputeDecide(st, known)
  PROVE  LET triage == EffectiveArtifact(st, "triage") IN
         \E action \in {"close", ProposedActionFor(triage.class, triage.severity)} :
           /\ "action" \in DOMAIN a
           /\ a.action = IF RiskFor(action, triage.severity, known.environment, BlockedTarget(known)).refused
                         THEN "escalate" ELSE action
BY DEF ComputeDecide, Unless

\* A flagged alert is never contained, and a blocked target never is.
LEMMA SecurityDecides ==
  ASSUME NEW rec, NEW f \in SecurityFacts, NEW n \in 4..6, Approved(rec, "security", n, f)
  PROVE  LET decide == EffectiveArtifact(rec, "decide") IN
         /\ decide.action = "contain" => ~BlockedTarget(f)
         /\ EffectiveArtifact(rec, "triage").flags # {} => decide.action \in {"escalate", "close"}
<1>1. StepsOf("security")[4] = "decide" /\ 4 \in 1..n /\ "triage" \in Prior("security", 4)
  BY SecurityWalk
<1> DEFINE decide == EffectiveArtifact(rec, "decide")
           triage == EffectiveArtifact(rec, "triage")
<1>2. NoDrafts("security", "decide") BY ReadOnlyStep DEF SurfaceOf, SecuritySurface
<1>3. PICK st, C, a : From(rec, "security", "decide", 4, f, st, C, a) /\ Restates(decide, a)
  BY <1>1, <1>2, Unedited
<1> DEFINE known == Looked(f, C)
<1>4. a \in ComputeDecide(st, known) BY <1>3 DEF From, Compute, SecurityCompute
<1>5. EffectiveArtifact(st, "triage") = triage BY <1>1, <1>3 DEF From, Shows
<1>6. BlockedTarget(known) = BlockedTarget(f)
  <2>1. "services" \in DOMAIN f BY DEF SecurityFacts
  <2>2. known.services = f.services BY <2>1, LookedUp
  <2> QED BY <2>2 DEF BlockedTarget
<1>7. triage.flags # {} => triage.class = "unknown" BY TriageIsCareful
<1> HIDE DEF triage, decide, known
<1>8. PICK action \in {"close", ProposedActionFor(triage.class, triage.severity)} :
        /\ "action" \in DOMAIN a
        /\ a.action = IF RiskFor(action, triage.severity, known.environment, BlockedTarget(known)).refused
                      THEN "escalate" ELSE action
  BY <1>4, <1>5, DecideSays
<1>9. decide.action = a.action BY <1>3, <1>8 DEF Restates
<1>10. decide.action = "contain" => ~BlockedTarget(f)
  BY <1>6, <1>8, <1>9 DEF RiskFor
<1>11. triage.flags # {} => decide.action \in {"escalate", "close"}
  BY <1>7, <1>8, <1>9 DEF ProposedActionFor
<1> QED BY <1>10, <1>11 DEF triage, decide

\* Every role of the decided tier has signed.
LEMMA SecurityIsSigned ==
  ASSUME NEW rec, NEW f, Approved(rec, "security", 6, f)
  PROVE  SignerMatrix[EffectiveArtifact(rec, "decide").tier]
           \subseteq EffectiveArtifact(rec, "approve").signed
<1>1. /\ StepsOf("security")[5] = "approve" /\ 5 \in 1..6 /\ "decide" \in Prior("security", 5)
      /\ "approve" \in Prior("security", 5 + 1)
  BY SecurityWalk
<1> DEFINE decide == EffectiveArtifact(rec, "decide")
           approve == EffectiveArtifact(rec, "approve")
<1>2. PICK st, C, a, w, draft :
        /\ From(rec, "security", "approve", 5, f, st, C, a) /\ Restates(w, a)
        /\ draft \in Drafts("security", "approve", w) /\ approve = Merged(draft, w)
  BY <1>1, Edited
<1>3. a \in ComputeApprove(st)
  BY <1>2 DEF From, Compute, SecurityCompute, StoredOr, Anew, KeptBy, ShownAgain
<1>4. EffectiveArtifact(st, "decide") = decide BY <1>1, <1>2 DEF From, Shows
<1>5. PICK tt, D : Shows(tt, rec, "security", 5 + 1) /\ LaneGate("security", "approve", tt, Looked(f, D))
  BY <1>1, Gated
<1>6. EffectiveArtifact(tt, "approve") = approve BY <1>1, <1>5 DEF Shows
<1>7. approve.signers \subseteq approve.signed
  BY <1>5, <1>6 DEF LaneGate, SecurityGate, AssertApproved
<1> HIDE DEF decide, approve
<1>8. "signers" \in DOMAIN a /\ a.signers = SignerMatrix[decide.tier]
  BY <1>3, <1>4 DEF ComputeApprove, Unless
<1>9. "signers" \in DOMAIN w /\ w.signers = a.signers BY <1>2, <1>8 DEF Restates
<1>10. "signers" \notin DOMAIN draft
  BY <1>2 DEF Drafts, NoEdits, SurfaceOf, SecuritySurface, ApiDrafts, SecurityApproveSurface, Surface
<1>11. approve.signers = w.signers BY <1>2, <1>9, <1>10 DEF Merged
<1> QED BY <1>7, <1>8, <1>9, <1>11 DEF decide, approve

\* What is contained is what was decided.
LEMMA SecurityContains ==
  ASSUME NEW rec, NEW f, Approved(rec, "security", 6, f)
  PROVE  LET decide == EffectiveArtifact(rec, "decide")
             what == Fields(EffectiveArtifact(rec, "contain"))
         IN what.action = decide.action /\ what.outcome = OutcomeFor[decide.action]
<1>1. StepsOf("security")[6] = "contain" /\ 6 \in 1..6 /\ "decide" \in Prior("security", 6)
  BY SecurityWalk
<1> DEFINE decide == EffectiveArtifact(rec, "decide")
           contain == EffectiveArtifact(rec, "contain")
<1>2. NoDrafts("security", "contain") BY ReadOnlyStep DEF SurfaceOf, SecuritySurface
<1>3. PICK st, C, a : From(rec, "security", "contain", 6, f, st, C, a) /\ Restates(contain, a)
  BY <1>1, <1>2, Unedited
<1>4. a \in ComputeContainPreview(st)
  BY <1>3 DEF From, Compute, SecurityCompute, StoredOr, Anew, KeptBy, ShownAgain
<1>5. EffectiveArtifact(st, "decide") = decide BY <1>1, <1>3 DEF From, Shows
<1> HIDE DEF decide, contain
<1>6. /\ {"action", "outcome"} \subseteq DOMAIN a
      /\ a.action = decide.action /\ a.outcome = OutcomeFor[decide.action]
  BY <1>4, <1>5 DEF ComputeContainPreview, Unless
<1>7. /\ {"action", "outcome"} \subseteq DOMAIN contain
      /\ contain.action = decide.action /\ contain.outcome = OutcomeFor[decide.action]
  BY <1>3, <1>6 DEF Restates
<1> QED BY <1>7 DEF Fields, decide, contain

LEMMA SecurityLaw ==
  ASSUME NEW rec, NEW f \in SecurityFacts, NEW i \in 1..6, Approved(rec, "security", i, f), NEW C,
         NEW k \in 1..Len(SecurityWrites(SecuritySteps[i], rec))
  PROVE  SecurityPolicy(rec, SecurityWrites(SecuritySteps[i], rec)[k], Looked(f, C))
<1> DEFINE contain == EffectiveArtifact(rec, "contain")
           decide == EffectiveArtifact(rec, "decide")
           what == Fields(contain)
           call == SecurityWrites(SecuritySteps[i], rec)[k]
<1>1. i = 6
  <2>1. SecuritySteps[i] = "contain" BY DEF SecurityWrites
  <2> QED BY SecurityWalk, <2>1
<1>2. HasArtifact(rec, "contain")
  <2>1. StepsOf("security")[6] = "contain" /\ 6 \in 1..6 BY SecurityWalk
  <2> QED BY <1>1, <2>1, Contracted
<1>3. call.what = what
  <2>1. StoredOr(rec, "contain", ComputeContainPreview(rec)) = {contain} BY <1>2 DEF StoredOr
  <2>2. (CHOOSE p \in {contain} : TRUE) = contain OBVIOUS
  <2>3. ContainEffect(rec) = <<Contain(what), RememberCase(what)>> BY <2>1, <2>2 DEF ContainEffect
  <2>4. SecurityWrites(SecuritySteps[i], rec) = <<Contain(what), RememberCase(what)>>
    BY SecurityWalk, <1>1, <2>3 DEF SecurityWrites
  <2> HIDE DEF what
  <2>5. call \in {Contain(what), RememberCase(what)} BY <2>4
  <2> QED BY <2>5 DEF Contain, RememberCase, Call
<1>4. BlockedTarget(Looked(f, C)) = BlockedTarget(f)
  <2>1. "services" \in DOMAIN f BY DEF SecurityFacts
  <2>2. Looked(f, C).services = f.services BY <2>1, LookedUp
  <2> QED BY <2>2 DEF BlockedTarget
<1>5. what.action = decide.action /\ what.outcome = OutcomeFor[decide.action]
  BY <1>1, SecurityContains
<1>6. SignerMatrix[decide.tier] \subseteq EffectiveArtifact(rec, "approve").signed
  BY <1>1, SecurityIsSigned
<1>7. /\ decide.action = "contain" => ~BlockedTarget(f)
      /\ EffectiveArtifact(rec, "triage").flags # {} => decide.action \in {"escalate", "close"}
  BY <1>1, SecurityDecides
<1> HIDE DEF call, what, decide
<1>8. SecurityPolicy(rec, call, Looked(f, C))
  BY <1>3, <1>4, <1>5, <1>6, <1>7 DEF SecurityPolicy, decide
<1> QED BY <1>8 DEF call

-----------------------------------------------------------------------------
(* MSP *)

LEMMA MspWalk ==
  /\ StepsOf("msp") = MspSteps /\ Len(MspSteps) = 5
  /\ MspSteps[1] = "intake" /\ MspSteps[2] = "ticket" /\ MspSteps[3] = "draft"
  /\ MspSteps[4] = "approve" /\ MspSteps[5] = "send"
  /\ "intake" \in Prior("msp", 2) /\ "intake" \in Prior("msp", 3)
  /\ "draft" \in Prior("msp", 4) /\ "intake" \in Prior("msp", 5)
  /\ "draft" \in Prior("msp", 5) /\ "draft" \in Prior("msp", 5 + 1)
BY DEF StepsOf, MspSteps, Prior

LEMMA MspReadOnly ==
  ASSUME NEW s \in {"intake", "ticket", "approve", "send"}
  PROVE  NoDrafts("msp", s)
<1>1. MspDrafts(s) = {} BY DEF MspDrafts
<1>2. \A a : SurfaceOf("msp", s, a) = ReadOnly(Fields(a)) BY <1>1 DEF SurfaceOf, ReadOnly
<1>3. \A a : \E view : SurfaceOf("msp", s, a) = ReadOnly(view) BY <1>2
<1> QED BY <1>3, ReadOnlyStep

\* The reply, its ticket and its draft are about the client of the intake.
LEMMA MspIsOneClient ==
  ASSUME NEW rec, NEW f, Approved(rec, "msp", 5, f)
  PROVE  LET client == EffectiveArtifact(rec, "intake").client IN
         /\ EffectiveArtifact(rec, "ticket").client = client
         /\ EffectiveArtifact(rec, "send").client = client
<1> DEFINE intake == EffectiveArtifact(rec, "intake")
           ticket == EffectiveArtifact(rec, "ticket")
           send == EffectiveArtifact(rec, "send")
<1>1. ticket.client = intake.client
  <2>1. PICK st, C, a : From(rec, "msp", "ticket", 2, f, st, C, a) /\ Restates(ticket, a)
    BY MspReadOnly, MspWalk, Unedited, 2 \in 1..5
  <2>2. a \in ComputeTicket(st)
    BY <2>1 DEF From, Compute, MspCompute, StoredOr, Anew, KeptBy, ShownAgain
  <2>3. EffectiveArtifact(st, "intake") = intake BY <2>1, MspWalk DEF From, Shows
  <2> HIDE DEF intake, ticket
  <2>4. "client" \in DOMAIN a /\ a.client = intake.client BY <2>2, <2>3 DEF ComputeTicket
  <2> QED BY <2>1, <2>4 DEF Restates
<1>2. send.client = intake.client
  <2>1. PICK st, C, a : From(rec, "msp", "send", 5, f, st, C, a) /\ Restates(send, a)
    BY MspReadOnly, MspWalk, Unedited, 5 \in 1..5
  <2>2. a \in ComputeSendPlan(st)
    BY <2>1 DEF From, Compute, MspCompute, StoredOr, Anew, KeptBy, ShownAgain
  <2>3. EffectiveArtifact(st, "intake") = intake BY <2>1, MspWalk DEF From, Shows
  <2> HIDE DEF intake, send
  <2>4. "client" \in DOMAIN a /\ a.client = intake.client BY <2>2, <2>3 DEF ComputeSendPlan, Unless
  <2> QED BY <2>1, <2>4 DEF Restates
<1> QED BY <1>1, <1>2

\* The technician was told of every reason to doubt the reply.
LEMMA MspIsTold ==
  ASSUME NEW rec, NEW f, Approved(rec, "msp", 5, f)
  PROVE  EffectiveArtifact(rec, "approve").told = Cardinality(EffectiveArtifact(rec, "draft").escalations)
<1> DEFINE draft == EffectiveArtifact(rec, "draft")
           approve == EffectiveArtifact(rec, "approve")
<1>1. PICK st, C, a : From(rec, "msp", "approve", 4, f, st, C, a) /\ Restates(approve, a)
  BY MspReadOnly, MspWalk, Unedited, 4 \in 1..5
<1>2. a \in ComputeMspApprove(st)
  BY <1>1 DEF From, Compute, MspCompute, StoredOr, Anew, KeptBy, ShownAgain
<1>3. EffectiveArtifact(st, "draft") = draft BY <1>1, MspWalk DEF From, Shows
<1> HIDE DEF draft, approve
<1>4. "told" \in DOMAIN a /\ a.told = Cardinality(draft.escalations)
  <2> DEFINE told == Cardinality(draft.escalations)
  <2>1. a \in Unless(~HasArtifact(st, "draft"),
              {[state |-> "pending", told |-> told, from |-> DerivedFrom(st, {"draft"})]})
    BY <1>2, <1>3 DEF ComputeMspApprove
  <2> HIDE DEF told
  <2>2. "told" \in DOMAIN a /\ a.told = told BY <2>1 DEF Unless
  <2> QED BY <2>2 DEF told
<1>5. approve.told = a.told BY <1>1, <1>4 DEF Restates
<1> QED BY <1>4, <1>5 DEF draft, approve

\* What a draft there is no reason to doubt cites was searched for its client.
LEMMA MspCitesItsClient ==
  ASSUME NEW rec, NEW f, Approved(rec, "msp", 5, f),
         EffectiveArtifact(rec, "draft").escalations = {},
         NEW p \in EffectiveArtifact(rec, "draft").citations
  PROVE  MspPassage[p].client = EffectiveArtifact(rec, "intake").client
<1> DEFINE draft == EffectiveArtifact(rec, "draft")
           intake == EffectiveArtifact(rec, "intake")
<1>1. PICK st, C, a, w, d :
        /\ From(rec, "msp", "draft", 3, f, st, C, a) /\ Restates(w, a)
        /\ d \in Drafts("msp", "draft", w) /\ draft = Merged(d, w)
  BY MspWalk, Edited, 3 \in 1..5
<1>2. a \in ComputeDraft(st, Looked(f, C)) BY <1>1 DEF From, Compute, MspCompute
<1>3. EffectiveArtifact(st, "intake") = intake BY <1>1, MspWalk DEF From, Shows
<1> DEFINE known == Looked(f, C)
           client == EffectiveArtifact(st, "intake").client
           scope == [tenant |-> known.tenant, service |-> known.service, client |-> client]
           passages == MspSearch(scope, known.terms)
           stale == {q \in passages : MspPassage[q].stale}
           marks == DerivedFrom(st, {"intake"})
           many == Cardinality(passages)
           old == Cardinality(stale)
           Drafted(body, citations, escalations) ==
             [body |-> body, citations |-> citations, escalations |-> escalations,
              escalated |-> escalations # {}, passageCount |-> many,
              staleCount |-> old, from |-> marks]
           answers == ContractOutput(MspDrafterAnswers, MspDraftOutput)
<1>4. ComputeDraft(st, known) =
        CASE passages = {} -> {Drafted("none", {}, {"empty_retrieval"})}
          [] passages # {} /\ passages = stale -> {Drafted("none", {}, {"stale_evidence"})}
          [] OTHER -> {Drafted(answer.body, answer.citations, AnswerEscalations(answer, passages)) :
                         answer \in answers}
  BY DEF ComputeDraft
<1>5. \A q \in passages : MspPassage[q].client = client
  <2>1. scope.client = client OBVIOUS
  <2> HIDE DEF scope, client, known
  <2> QED BY <2>1 DEF MspSearch
<1>6. \A b, c, e : LET x == Drafted(b, c, e) IN
        {"citations", "escalations"} \subseteq DOMAIN x /\ x.citations = c /\ x.escalations = e
  OBVIOUS
<1>7. a \in ComputeDraft(st, known) BY <1>2
<1> HIDE DEF draft, intake, known, client, scope, passages, stale, marks, many, old, Drafted, answers
<1>8. \E b, c, e : a = Drafted(b, c, e) BY <1>4, <1>7
<1>9. {"citations", "escalations"} \subseteq DOMAIN a BY <1>6, <1>8
<1>10. draft.citations = a.citations /\ draft.escalations = a.escalations
  <2>1. DOMAIN d \subseteq {"body"}
    BY <1>1 DEF Drafts, NoEdits, SurfaceOf, ApiDrafts, MspDrafts, BodyCorrections, Surface
  <2>2. w.citations = a.citations /\ w.escalations = a.escalations
        /\ {"citations", "escalations"} \subseteq DOMAIN w
    BY <1>1, <1>9 DEF Restates
  <2> QED BY <1>1, <2>1, <2>2 DEF Merged
<1>11. a.escalations = {} /\ p \in a.citations BY <1>10 DEF draft
<1>12. PICK answer \in answers :
         a = Drafted(answer.body, answer.citations, AnswerEscalations(answer, passages))
  <2>1. {"empty_retrieval"} # {} /\ {"stale_evidence"} # {} OBVIOUS
  <2>2. a # Drafted("none", {}, {"empty_retrieval"}) /\ a # Drafted("none", {}, {"stale_evidence"})
    BY <1>6, <1>11, <2>1
  <2> QED BY <1>4, <1>7, <2>2
<1>13. AnswerEscalations(answer, passages) = {} /\ a.citations = answer.citations
  BY <1>6, <1>11, <1>12
<1>14. "unsupported_claim" \in MspEscalationReasons BY DEF MspEscalationReasons
<1>15. answer.citations \subseteq passages BY <1>13, <1>14 DEF AnswerEscalations
<1>16. MspPassage[p].client = client BY <1>5, <1>11, <1>13, <1>15
<1> QED BY <1>3, <1>16 DEF client, intake

LEMMA MspLaw ==
  ASSUME NEW rec, NEW f, NEW i \in 1..5, Approved(rec, "msp", i, f), NEW known, NEW dedupes,
         NEW k \in 1..Len(MspWrites(MspSteps[i], rec, known, dedupes))
  PROVE  MspPolicy(rec, MspWrites(MspSteps[i], rec, known, dedupes)[k])
<1> DEFINE draft == EffectiveArtifact(rec, "draft")
           calls == MspWrites(MspSteps[i], rec, known, dedupes)
           call == calls[k]
<1>1. SUFFICES ASSUME call.sys = "mail" PROVE MspPolicy(rec, call) BY DEF MspPolicy
<1>2. i = 2 \/ i = 5
  <2>1. MspSteps[i] \in {"ticket", "send"} BY DEF MspWrites
  <2> QED BY MspWalk, <2>1
<1>3. i # 2
  <2>1. SUFFICES ASSUME i = 2 PROVE FALSE OBVIOUS
  <2>2. calls = TicketEffect(rec, dedupes) BY <2>1, MspWalk DEF MspWrites
  <2> DEFINE client == EffectiveArtifact(rec, "ticket").client
  <2>3. calls = <<Call("desk", "ticket", dedupes, client)>> BY <2>2 DEF TicketEffect
  <2>4. Call("desk", "ticket", dedupes, client).sys = "desk" BY DEF Call
  <2> DEFINE x == Call("desk", "ticket", dedupes, client)
  <2>5. k \in 1..Len(calls) OBVIOUS
  <2> HIDE DEF x, calls
  <2>6. calls[k] = x BY <2>3, <2>5 DEF x
  <2>7. x.sys = "desk" BY <2>4 DEF x
  <2> QED BY <1>1, <2>6, <2>7
<1>4. i = 5 BY <1>2, <1>3
<1> DEFINE x == MailSend(rec)
           y == Call("desk", "comment", dedupes, "sent")
           comment == SendComment(rec, known, dedupes)
<1>5. call = x
  <2>1. calls = <<x>> \o comment BY <1>4, MspWalk DEF MspWrites, ExecuteSend
  <2>2. comment \in {<<>>, <<y>>} BY DEF SendComment
  <2>3. y.sys = "desk" BY DEF Call
  <2>4. k \in 1..Len(calls) OBVIOUS
  <2> HIDE DEF x, y, comment, calls
  <2>5. calls[k] = x \/ calls[k] = y
    <3>1. <<x>> \in {<<>>, <<x>>} OBVIOUS
    <3> DEFINE one == <<x>>
    <3> HIDE DEF one
    <3>2. one \in {<<>>, <<x>>} BY <3>1 DEF one
    <3>3. k \in 1..Len(one \o comment) BY <2>1, <2>4 DEF one
    <3>4. (one \o comment)[k] = x \/ (one \o comment)[k] = y BY <2>2, <3>2, <3>3, JoinedHolds
    <3> QED BY <2>1, <3>4 DEF one
  <2> QED BY <1>1, <2>3, <2>5
<1>6. x.what.body = draft.body /\ x.what.citations = draft.citations
  <2> HIDE DEF draft
  <2>1. MailSend(rec) = Call("mail", "case", TRUE, [body |-> draft.body, citations |-> draft.citations])
    BY DEF MailSend, draft
  <2> QED BY <2>1 DEF Call
<1>7. ~Thin(draft.body)
  <2>1. PICK st, C : Shows(st, rec, "msp", 5 + 1) /\ LaneGate("msp", "send", st, Looked(f, C))
    BY <1>4, MspWalk, Gated, 5 \in 1..5
  <2>2. EffectiveArtifact(st, "draft") = draft BY <2>1, MspWalk DEF Shows
  <2> HIDE DEF draft
  <2> QED BY <2>1, <2>2 DEF LaneGate, MspGate
<1> HIDE DEF x, call
<1>8. MspPolicy(rec, call)
  BY <1>4, <1>5, <1>6, <1>7, MspIsOneClient, MspIsTold, MspCitesItsClient DEF MspPolicy
<1> QED BY <1>8

-----------------------------------------------------------------------------
(* Features *)

LEMMA FeaturesWalk ==
  /\ StepsOf("features") = FeaturesSteps /\ Len(FeaturesSteps) = 4
  /\ FeaturesSteps[1] = "feature-selection" /\ FeaturesSteps[2] = "scope-design"
  /\ FeaturesSteps[3] = "implementation" /\ FeaturesSteps[4] = "complete"
  /\ "feature-selection" \in Prior("features", 2) /\ "feature-selection" \in Prior("features", 3)
  /\ "scope-design" \in Prior("features", 3) /\ "implementation" \in Prior("features", 4)
  /\ "implementation" \in Prior("features", 3 + 1)
BY DEF StepsOf, FeaturesSteps, Prior

\* Files in the areas A, at most m of them.
WithinScope(files, A, m) ==
  /\ Len(files) \in Nat /\ Len(files) <= m
  /\ \A n \in 1..Len(files) : "area" \in DOMAIN files[n] /\ files[n].area \in A

LEMMA EngineerSaysTheArea ==
  ASSUME NEW answer \in FeatureEngineerAnswers
  PROVE  /\ Len(answer.files) \in Nat
         /\ \A n \in 1..Len(answer.files) : "area" \in DOMAIN answer.files[n]
<1> DEFINE NewFile(path, area, criteria, content) ==
             [path |-> path, area |-> area, criteria |-> criteria, content |-> content, included |-> TRUE]
           Answer(verdict, files) == [verdict |-> verdict, files |-> files]
           App(content) == NewFile("app", "ui", {"ac1"}, content)
           Test == NewFile("test", "tests", {"ac2"}, "good")
           doc == NewFile("doc", "docs-flags", {"ac1"}, "good")
           migration == NewFile("migration", "ui", {"ac2"}, "good")
           secret == NewFile("secret", "ui", {}, "good")
           broken == App("broken")
           good == App("good")
           all == {doc, migration, secret, broken, good, Test}
<1>1. \A p, r, c, t : "area" \in DOMAIN NewFile(p, r, c, t) OBVIOUS
<1>2. \A x \in all : "area" \in DOMAIN x
  <2> HIDE DEF NewFile
  <2> QED BY <1>1
<1>3. \A x, y : Answer(x, y).files = y OBVIOUS
<1>4. \/ answer = Answer("needs_attention", <<broken>>)
      \/ answer = Answer("ready", <<good, doc, Test, migration>>)
      \/ answer = Answer("ready", <<good, secret>>)
  BY DEF FeatureEngineerAnswers
<1> HIDE DEF Answer
<1>5. \/ answer.files = <<broken>> \/ answer.files = <<good, doc, Test, migration>>
      \/ answer.files = <<good, secret>>
  BY <1>3, <1>4
<1>6. {broken, good, doc, Test, migration, secret} \subseteq all OBVIOUS
<1> HIDE DEF all, doc, migration, secret, broken, good, Test, NewFile, App
<1>7. answer.files \in Seq(all)
  <2>1. <<broken>> \in Seq(all) BY <1>6
  <2>2. <<good, secret>> \in Seq(all) BY <1>6
  <2>3. <<good, doc, Test, migration>> \in Seq(all) BY <1>6
  <2> QED BY <1>5, <2>1, <2>2, <2>3
<1> QED BY <1>2, <1>7

\* The first files of a sequence.
LEMMA FirstFiles ==
  ASSUME NEW S, NEW seq \in Seq(S), NEW m \in Nat
  PROVE  /\ Len(FirstOf(seq, m)) \in Nat /\ Len(FirstOf(seq, m)) <= m
         /\ \A n \in 1..Len(FirstOf(seq, m)) : FirstOf(seq, m)[n] \in S
<1> DEFINE t == IF Len(seq) < m THEN Len(seq) ELSE m
           first == SubSeq(seq, 1, t)
<1>1. FirstOf(seq, m) = first BY DEF FirstOf
<1>2. t \in Nat /\ t <= m /\ t <= Len(seq) OBVIOUS
<1> HIDE DEF t
<1>3. Len(first) = t /\ \A n \in 1..t : first[n] = seq[n] BY <1>2
<1>4. \A n \in 1..t : seq[n] \in S BY <1>2
<1> HIDE DEF first
<1> QED BY <1>1, <1>2, <1>3, <1>4

\* What a human makes of the plan stays within the scope.
LEMMA PlanDraftsStay ==
  ASSUME NEW files, NEW A, NEW m \in Nat, WithinScope(files, A, m), NEW plan \in PlanDrafts(files)
  PROVE  WithinScope(plan, A, m)
<1> DEFINE L == Len(files)
           first == files[1].path
           last == files[L].path
           Rewrite(n, content) == IF files[n].path = first THEN [files[n] EXCEPT !.content = content]
                                  ELSE files[n]
           Rewritten(content) == [n \in 1..L |-> Rewrite(n, content)]
           S == {file \in FilesOf(files) : file.path # last}
           kept == Selected(files, S)
<1>1. plan = Rewritten("edited") \/ plan = Rewritten("broken") \/ plan = kept BY DEF PlanDrafts
<1>2. L \in Nat /\ L <= m /\ \A n \in 1..L : "area" \in DOMAIN files[n] /\ files[n].area \in A
  BY DEF WithinScope
<1>3. ASSUME NEW content
      PROVE  WithinScope(Rewritten(content), A, m)
  <2>1. ASSUME NEW n \in 1..L
        PROVE  "area" \in DOMAIN Rewrite(n, content) /\ Rewrite(n, content).area \in A
    BY <1>2, <2>1
  <2> HIDE DEF Rewrite, L
  <2>2. Len(Rewritten(content)) = L BY <1>2
  <2>3. \A n \in 1..L : Rewritten(content)[n] = Rewrite(n, content) OBVIOUS
  <2> HIDE DEF Rewritten
  <2> QED BY <1>2, <2>1, <2>2, <2>3 DEF WithinScope
<1>4. WithinScope(kept, A, m)
  <2> HIDE DEF S
  <2>1. /\ Len(kept) \in 0..L
        /\ \A n \in 1..Len(kept) : \E i \in 1..L : files[i] \in S /\ kept[n] = files[i]
    BY <1>2, SelectedIsKept
  <2> HIDE DEF kept, L
  <2> QED BY <1>2, <2>1 DEF WithinScope
<1> HIDE DEF Rewritten, kept
<1> QED BY <1>1, <1>3, <1>4

\* What the engineer answered of it, within the scope.
LEMMA ImplementationIsComputed ==
  ASSUME NEW rec, NEW st, NEW C, NEW a, NEW f, From(rec, "features", "implementation", 3, f, st, C, a),
         EffectiveArtifact(rec, "feature-selection").maxChangedFiles \in Nat
  PROVE  LET scope == EffectiveArtifact(rec, "scope-design") IN
         /\ {"ticket", "files", "passed"} \subseteq DOMAIN a
         /\ a.ticket = scope.ticket /\ a.passed = Validates(a.files)
         /\ WithinScope(a.files, scope.areas,
                        EffectiveArtifact(rec, "feature-selection").maxChangedFiles)
<1> DEFINE selection == EffectiveArtifact(rec, "feature-selection")
           scope == EffectiveArtifact(rec, "scope-design")
           areas == scope.areas
           ticket == scope.ticket
           included == selection.included
           most == selection.maxChangedFiles
           Within(answer) == {file \in FilesOf(answer.files) : file.area \in areas}
           Enabled(answer) == Selected(answer.files, Within(answer))
           Writable(answer) == Enabled(answer) # <<>> /\ \A p \in PathsOf(Enabled(answer)) : AllowsPath(p)
           Coverage(files) == [c \in included |-> EvidenceFor(c, files)]
           passed(files) == Validates(files)
           marks == DerivedFrom(st, {"feature-selection", "scope-design"})
           Implementation(verdict, files) ==
             [ticket |-> ticket, areas |-> areas, verdict |-> verdict, files |-> files,
              coverage |-> Coverage(files), passed |-> passed(files), from |-> marks]
           missing == ~HasArtifact(st, "feature-selection") \/ ~HasArtifact(st, "scope-design")
           bad == included = {} \/ areas = {}
           answers == {x \in FeatureEngineerAnswers : Writable(x)}
<1>1. a \in ComputeImplementation(st) BY DEF From, Compute, FeaturesCompute
<1>2. /\ EffectiveArtifact(st, "feature-selection") = selection
      /\ EffectiveArtifact(st, "scope-design") = scope
  BY FeaturesWalk DEF From, Shows
<1>3. ComputeImplementation(st) =
        IF missing THEN {}
        ELSE Unless(bad, {Implementation(answer.verdict, FirstOf(Enabled(answer), most)) : answer \in answers})
  BY <1>2 DEF ComputeImplementation
<1>4. answers \subseteq FeatureEngineerAnswers OBVIOUS
<1>5. \A verdict, files : LET x == Implementation(verdict, files) IN
        /\ {"ticket", "files", "passed"} \subseteq DOMAIN x
        /\ x.ticket = ticket /\ x.files = files /\ x.passed = passed(files)
  <2> HIDE DEF ticket, areas, Coverage, passed, marks
  <2> QED OBVIOUS
<1>6. most \in Nat OBVIOUS
<1> HIDE DEF missing, bad, answers, Implementation, Enabled, Within, selection, most, areas, ticket
<1>7. PICK answer \in answers : a = Implementation(answer.verdict, FirstOf(Enabled(answer), most))
  BY <1>1, <1>3 DEF Unless
<1>8. WithinScope(FirstOf(Enabled(answer), most), areas, most)
  <2>1. /\ Len(answer.files) \in Nat
        /\ \A n \in 1..Len(answer.files) : "area" \in DOMAIN answer.files[n]
    BY <1>4, EngineerSaysTheArea
  <2> DEFINE S == Within(answer)
  <2>2. \A x \in S : "area" \in DOMAIN x /\ x.area \in areas BY <2>1 DEF Within, FilesOf
  <2> HIDE DEF S
  <2>3. Enabled(answer) \in Seq(S) BY <2>1, SelectedIsKept DEF Enabled, S
  <2> DEFINE first == FirstOf(Enabled(answer), most)
  <2>4. Len(first) \in Nat /\ Len(first) <= most /\ \A n \in 1..Len(first) : first[n] \in S
    BY <1>6, <2>3, FirstFiles
  <2> HIDE DEF first
  <2>5. WithinScope(first, areas, most) BY <2>2, <2>4 DEF WithinScope
  <2> QED BY <2>5 DEF first
<1>9. /\ {"ticket", "files", "passed"} \subseteq DOMAIN a
      /\ a.ticket = ticket /\ a.files = FirstOf(Enabled(answer), most) /\ a.passed = Validates(a.files)
  BY <1>5, <1>7
<1> QED BY <1>8, <1>9 DEF areas, ticket, most, selection

LEMMA FeatureLimit ==
  ASSUME NEW rec, NEW f, Approved(rec, "features", 4, f)
  PROVE  EffectiveArtifact(rec, "feature-selection").maxChangedFiles \in Nat
<1> DEFINE selection == EffectiveArtifact(rec, "feature-selection")
<1>1. Contract("features", "feature-selection", selection) BY FeaturesWalk, Contracted, 1 \in 1..4
<1> HIDE DEF selection
<1>2. selection.maxChangedFiles \in 1..MaxChangedFiles
  BY <1>1 DEF Contract, FeaturesContract, FeatureSelectionValid
<1> QED BY <1>2 DEF MaxChangedFiles, selection

\* The scope is of the ticket that was picked.
LEMMA ScopeIsOfTheTicket ==
  ASSUME NEW rec, NEW f, Approved(rec, "features", 4, f)
  PROVE  EffectiveArtifact(rec, "scope-design").ticket = EffectiveArtifact(rec, "feature-selection").ticket
<1> DEFINE selection == EffectiveArtifact(rec, "feature-selection")
           scope == EffectiveArtifact(rec, "scope-design")
<1>1. PICK st, C, a, w, d :
        /\ From(rec, "features", "scope-design", 2, f, st, C, a) /\ Restates(w, a)
        /\ d \in Drafts("features", "scope-design", w) /\ scope = Merged(d, w)
  BY FeaturesWalk, Edited, 2 \in 1..4
<1>2. a \in ComputeScopeDesign(st) BY <1>1 DEF From, Compute, FeaturesCompute
<1>3. EffectiveArtifact(st, "feature-selection") = selection BY <1>1, FeaturesWalk DEF From, Shows
<1> HIDE DEF selection, scope
<1>4. "ticket" \in DOMAIN a /\ a.ticket = selection.ticket
  BY <1>2, <1>3 DEF ComputeScopeDesign, Unless
<1>5. DOMAIN d \subseteq {"areas"}
  BY <1>1 DEF Drafts, NoEdits, SurfaceOf, FeaturesSurface, ApiDrafts, ScopeDesignSurface, Surface
<1>6. scope.ticket = a.ticket BY <1>1, <1>4, <1>5 DEF Restates, Merged
<1> QED BY <1>4, <1>6 DEF selection, scope

\* What is implemented is of the ticket and within the scope, edited or not.
LEMMA ImplementationIsWithin ==
  ASSUME NEW rec, NEW f, Approved(rec, "features", 4, f)
  PROVE  LET selection == EffectiveArtifact(rec, "feature-selection")
             scope == EffectiveArtifact(rec, "scope-design")
             implementation == EffectiveArtifact(rec, "implementation")
         IN /\ implementation.ticket = scope.ticket
            /\ WithinScope(implementation.files, scope.areas, selection.maxChangedFiles)
<1> DEFINE most == EffectiveArtifact(rec, "feature-selection").maxChangedFiles
           scope == EffectiveArtifact(rec, "scope-design")
           areas == scope.areas
           implementation == EffectiveArtifact(rec, "implementation")
<1>1. PICK st, C, a, w, d :
        /\ From(rec, "features", "implementation", 3, f, st, C, a) /\ Restates(w, a)
        /\ d \in Drafts("features", "implementation", w) /\ implementation = Merged(d, w)
  BY FeaturesWalk, Edited, 3 \in 1..4
<1>2. most \in Nat BY FeatureLimit
<1>3. /\ {"ticket", "files", "passed"} \subseteq DOMAIN a /\ a.ticket = scope.ticket
      /\ WithinScope(a.files, areas, most)
  BY <1>1, <1>2, ImplementationIsComputed
<1> HIDE DEF most, scope, areas, implementation
<1>4. {"ticket", "files"} \subseteq DOMAIN w /\ w.ticket = a.ticket /\ w.files = a.files
  BY <1>1, <1>3 DEF Restates
<1>5. DOMAIN d \subseteq {"files"} /\ ("files" \in DOMAIN d => d.files \in PlanDrafts(w.files))
  <2> DEFINE view == FeatureImplementationView(w)
             plans == PlanDrafts(w.files)
  <2>1. FeatureImplementationSurface(w) = Surface(view, {[files |-> files] : files \in plans})
    BY DEF FeatureImplementationSurface
  <2> HIDE DEF view, plans
  <2>2. d = NoEdits \/ \E files \in plans : d = [files |-> files]
    BY <1>1, <2>1 DEF Drafts, SurfaceOf, FeaturesSurface, ApiDrafts, Surface
  <2>3. CASE d = NoEdits BY <2>3 DEF NoEdits
  <2>4. CASE \E files \in plans : d = [files |-> files]
    <3>1. PICK files \in plans : d = [files |-> files] BY <2>4
    <3> QED BY <3>1 DEF plans
  <2> QED BY <2>2, <2>3, <2>4
<1>6. implementation.ticket = scope.ticket BY <1>1, <1>3, <1>4, <1>5 DEF Merged
<1>7. implementation.files = a.files \/ implementation.files \in PlanDrafts(a.files)
  BY <1>1, <1>4, <1>5 DEF Merged
<1>8. WithinScope(implementation.files, areas, most) BY <1>2, <1>3, <1>7, PlanDraftsStay
<1> QED BY <1>6, <1>8 DEF most, scope, areas, implementation

\* An implementation that is said to pass passes.
LEMMA ImplementationPasses ==
  ASSUME NEW rec, NEW f, Approved(rec, "features", 4, f), EffectiveArtifact(rec, "implementation").passed
  PROVE  Validates(FeaturePatch(EffectiveArtifact(rec, "implementation")))
<1> DEFINE implementation == EffectiveArtifact(rec, "implementation")
           files == implementation.files
           passed == implementation.passed
<1>1. FeaturePatch(implementation) = PatchFilesInPlan(files) BY DEF FeaturePatch
<1>2. Len(files) \in Nat BY ImplementationIsWithin DEF WithinScope
<1>3. CASE rec.dec["implementation"].action = "edit"
  <2>1. PassedOn(rec, "features", 3, f) BY DEF Approved
  <2>2. PICK st, C : /\ Agree(st, rec, "features", 3 + 1)
                     /\ LaneGate("features", "implementation", st, Looked(f, C))
    BY <2>1, FeaturesWalk DEF PassedOn
  <2>3. /\ st.dec["implementation"] = rec.dec["implementation"]
        /\ EffectiveArtifact(st, "implementation") = implementation
    BY <2>2, FeaturesWalk DEF Agree, EffectiveArtifact
  <2>4. FeaturesGate("implementation", st) BY <2>2 DEF LaneGate
  <2> HIDE DEF implementation
  <2>5. ~EditViolations(FeaturePatch(implementation)) BY <1>3, <2>3, <2>4 DEF FeaturesGate
  <2> QED BY <2>5 DEF EditViolations, implementation
<1>4. CASE rec.dec["implementation"].action # "edit"
  <2>1. PICK st, C, a : /\ From(rec, "features", "implementation", 3, f, st, C, a)
                        /\ Restates(implementation, a)
    BY <1>4, FeaturesWalk, AsComputed, 3 \in 1..4
  <2>2. {"files", "passed"} \subseteq DOMAIN a /\ a.passed = Validates(a.files)
    BY <2>1, FeatureLimit, ImplementationIsComputed
  <2>3. files = a.files /\ passed = a.passed BY <2>1, <2>2 DEF Restates
  <2>4. passed = Validates(files) BY <2>2, <2>3
  <2>5. Validates(files) BY <2>4
  <2> HIDE DEF files
  <2>6. Validates(PatchFilesInPlan(files)) BY <1>2, <2>5, PlanIsKept
  <2> QED BY <1>1, <2>6
<1> QED BY <1>3, <1>4

\* What the completion says.
LEMMA FeatureIsCompleted ==
  ASSUME NEW rec, NEW f, Approved(rec, "features", 4, f)
  PROVE  LET implementation == EffectiveArtifact(rec, "implementation")
             completion == EffectiveArtifact(rec, "complete")
             kept == FeaturePatch(implementation)
         IN /\ completion.branch = FeatureBranchFor(implementation.ticket)
            /\ Fields(completion).paths = [n \in 1..Len(kept) |-> kept[n].path]
            /\ Fields(completion).passed = implementation.passed
<1> DEFINE implementation == EffectiveArtifact(rec, "implementation")
           completion == EffectiveArtifact(rec, "complete")
           kept == FeaturePatch(implementation)
<1>1. NoDrafts("features", "complete") BY ReadOnlyStep DEF SurfaceOf, FeaturesSurface, FeatureCompleteSurface
<1>2. PICK st, C, a : From(rec, "features", "complete", 4, f, st, C, a) /\ Restates(completion, a)
  BY <1>1, FeaturesWalk, Unedited, 4 \in 1..4
<1>3. a \in ComputeCompletion(st) BY <1>2 DEF From, Compute, FeaturesCompute
<1>4. EffectiveArtifact(st, "implementation") = implementation BY <1>2, FeaturesWalk DEF From, Shows
<1> HIDE DEF implementation, completion
<1> DEFINE ticket == implementation.ticket
           branch == FeatureBranchFor(implementation.ticket)
           paths == [n \in 1..Len(kept) |-> kept[n].path]
           passed == implementation.passed
           coverage == implementation.coverage
           missing == ~HasArtifact(st, "feature-selection") \/ ~HasArtifact(st, "implementation")
           marks == DerivedFrom(st, {"feature-selection", "implementation"})
           said == [ticket |-> ticket, passed |-> passed, branch |-> branch, paths |-> paths,
                    coverage |-> coverage, from |-> marks]
<1>5. ComputeCompletion(st) = IF missing THEN {} ELSE {said} BY <1>4 DEF ComputeCompletion
<1>6. a = said
  <2> HIDE DEF said, missing
  <2> QED BY <1>3, <1>5
<1> HIDE DEF ticket, branch, paths, passed, coverage, marks, missing, kept
<1>7. /\ {"branch", "paths", "passed"} \subseteq DOMAIN a
      /\ a.branch = branch /\ a.paths = paths /\ a.passed = passed
  BY <1>6
<1> HIDE DEF said
<1>8. /\ {"branch", "paths", "passed"} \subseteq DOMAIN completion
      /\ completion.branch = branch /\ completion.paths = paths /\ completion.passed = passed
  BY <1>2, <1>7 DEF Restates
<1>9. \A x \in {"paths", "passed"} : Fields(completion)[x] = completion[x] BY <1>8 DEF Fields
<1>10. Fields(completion).paths = paths /\ Fields(completion).passed = passed BY <1>8, <1>9
<1> QED BY <1>8, <1>10 DEF branch, paths, passed, kept, implementation, completion

LEMMA FeaturesLaw ==
  ASSUME NEW rec, NEW f, NEW i \in 1..4, Approved(rec, "features", i, f),
         NEW k \in 1..Len(FeaturesWrites(FeaturesSteps[i], rec))
  PROVE  FeaturesPolicy(rec, FeaturesWrites(FeaturesSteps[i], rec)[k])
<1> DEFINE selection == EffectiveArtifact(rec, "feature-selection")
           most == selection.maxChangedFiles
           areas == EffectiveArtifact(rec, "scope-design").areas
           implementation == EffectiveArtifact(rec, "implementation")
           planned == implementation.files
           completion == EffectiveArtifact(rec, "complete")
           files == FeaturePatch(implementation)
           body == Fields(completion)
           branch == completion.branch
           what == [files |-> files, body |-> body]
           call == FeaturesWrites(FeaturesSteps[i], rec)[k]
<1>1. i = 4
  <2>1. FeaturesSteps[i] = "complete" BY DEF FeaturesWrites
  <2> QED BY FeaturesWalk, <2>1
<1>2. call.what = what /\ call.key[1] = branch
  <2>1. FeaturesWrites(FeaturesSteps[i], rec) = ApplyPatch(branch, files, what)
    BY <1>1, FeaturesWalk DEF FeaturesWrites, DraftPullRequest
  <2>2. k \in 1..Len(ApplyPatch(branch, files, what)) BY <2>1
  <2> HIDE DEF branch, files, what
  <2> QED BY <2>1, <2>2, Pushes
<1>3. /\ branch = FeatureBranchFor(implementation.ticket)
      /\ body.paths = [n \in 1..Len(files) |-> files[n].path]
      /\ body.passed = implementation.passed
  BY <1>1, FeatureIsCompleted
<1>4. implementation.ticket = selection.ticket
  BY <1>1, ImplementationIsWithin, ScopeIsOfTheTicket
<1>5. WithinScope(planned, areas, most) /\ most \in Nat BY <1>1, ImplementationIsWithin, FeatureLimit
<1>6. Len(files) <= most /\ \A file \in FilesOf(files) : file.area \in areas
  <2>1. files = PatchFilesInPlan(planned) BY DEF FeaturePatch
  <2> HIDE DEF planned, files, areas, most
  <2>2. Len(planned) \in Nat /\ Len(planned) <= most BY <1>5 DEF WithinScope
  <2>3. Len(files) \in 0..Len(planned) /\ FilesOf(files) \subseteq FilesOf(planned)
    BY <2>1, <2>2, PlanIsKept
  <2>4. \A file \in FilesOf(planned) : file.area \in areas BY <1>5 DEF WithinScope, FilesOf
  <2> QED BY <1>5, <2>2, <2>3, <2>4
<1>7. implementation.passed => Validates(files) BY <1>1, ImplementationPasses
<1> HIDE DEF call
<1>8. call.what.files = files /\ call.what.body = body
  <2> HIDE DEF files, body
  <2> QED BY <1>2
<1> DEFINE passed == body.passed
<1>9. passed => Validates(files)
  <2> HIDE DEF implementation, files, body
  <2> QED BY <1>3, <1>7
<1>10. FeaturesPolicy(rec, call)
  <2> HIDE DEF files, body, branch
  <2> QED BY <1>2, <1>3, <1>4, <1>6, <1>8, <1>9 DEF FeaturesPolicy
<1> QED BY <1>10 DEF call

-----------------------------------------------------------------------------
(* Issues *)

LEMMA IssuesWalk ==
  /\ StepsOf("issues") = IssuesSteps /\ Len(IssuesSteps) = 4
  /\ IssuesSteps[1] = "issue-selection" /\ IssuesSteps[2] = "analysis"
  /\ IssuesSteps[3] = "implementation" /\ IssuesSteps[4] = "complete"
  /\ "issue-selection" \in Prior("issues", 3) /\ "issue-selection" \in Prior("issues", 4)
  /\ "implementation" \in Prior("issues", 4) /\ "implementation" \in Prior("issues", 3 + 1)
BY DEF StepsOf, IssuesSteps, Prior

OneOrNone(files) == files = <<>> \/ \E x : files = <<x>>

LEMMA EngineerTests ==
  ASSUME NEW answer \in IssueEngineerAnswers
  PROVE  OneOrNone(answer.test)
<1> DEFINE NewFile(path, content) == [path |-> path, content |-> content, included |-> TRUE]
           Answer(files, test) == [files |-> files, test |-> test]
           App(content) == NewFile("app", content)
           Test(content) == <<NewFile("test", content)>>
<1>1. \A x, y : Answer(x, y).test = y OBVIOUS
<1>2. \A content : OneOrNone(Test(content)) BY DEF OneOrNone
<1>3. OneOrNone(<<>>) BY DEF OneOrNone
<1>4. \/ \E x, content : answer = Answer(x, Test(content))
      \/ \E x : answer = Answer(x, <<>>)
  <2> HIDE DEF Answer, Test, NewFile
  <2> QED BY DEF IssueEngineerAnswers, Answer, Test, NewFile
<1> HIDE DEF Answer, Test
<1> QED BY <1>1, <1>2, <1>3, <1>4

\* What the engineer answered, and a regression test if one is required.
LEMMA FixIsComputed ==
  ASSUME NEW rec, NEW st, NEW C, NEW a, NEW f, From(rec, "issues", "implementation", 3, f, st, C, a)
  PROVE  /\ {"files", "test", "passed"} \subseteq DOMAIN a
         /\ a.passed = Validates(a.files) /\ OneOrNone(a.test)
         /\ EffectiveArtifact(rec, "issue-selection").test => a.test # <<>>
<1> DEFINE selection == EffectiveArtifact(rec, "issue-selection")
           test == selection.test
           Regression(answer) == IF test THEN answer.test ELSE <<>>
           Taken(answer) == /\ test => answer.test # <<>>
                            /\ \A p \in PathsOf(answer.files \o Regression(answer)) : AllowsPath(p)
           missing == ~HasArtifact(st, "issue-selection") \/ ~HasArtifact(st, "analysis")
           marks == DerivedFrom(st, {"issue-selection", "analysis"})
           ticket == selection.ticket
           Fixed(answer) == [ticket |-> ticket, files |-> answer.files, test |-> Regression(answer),
                             passed |-> Validates(answer.files), from |-> marks]
           answers == {x \in IssueEngineerAnswers : Taken(x)}
<1>1. a \in ComputeFix(st) BY DEF From, Compute, IssuesCompute
<1>2. EffectiveArtifact(st, "issue-selection") = selection BY IssuesWalk DEF From, Shows
<1>3. ComputeFix(st) = IF missing THEN {} ELSE {Fixed(answer) : answer \in answers}
  BY <1>2 DEF ComputeFix
<1>4. \A answer \in answers : answer \in IssueEngineerAnswers /\ (test => answer.test # <<>>) OBVIOUS
<1> DEFINE passed(answer) == Validates(answer.files)
<1>5. \A answer : LET x == Fixed(answer) IN
        /\ {"files", "test", "passed"} \subseteq DOMAIN x
        /\ x.files = answer.files /\ x.test = Regression(answer) /\ x.passed = passed(answer)
  <2> HIDE DEF Regression, test, marks, ticket
  <2> QED OBVIOUS
<1> HIDE DEF Fixed, answers, missing, test
<1>6. PICK answer \in answers : a = Fixed(answer) BY <1>1, <1>3
<1>7. OneOrNone(a.test) /\ (test => a.test # <<>>)
  <2>1. OneOrNone(answer.test) /\ OneOrNone(<<>>) BY <1>4, EngineerTests DEF OneOrNone
  <2>2. a.test = Regression(answer) BY <1>5, <1>6
  <2>3. CASE test BY <1>4, <2>1, <2>2, <2>3
  <2>4. CASE ~test BY <2>1, <2>2, <2>4
  <2> QED BY <2>3, <2>4
<1>8. a.passed = Validates(a.files) BY <1>5, <1>6
<1>9. {"files", "test", "passed"} \subseteq DOMAIN a BY <1>5, <1>6
<1> QED BY <1>7, <1>8, <1>9 DEF test

\* The test stays, rewritten or not.
LEMMA FixHasItsTest ==
  ASSUME NEW rec, NEW f, NEW n, 3 \in 1..n, Approved(rec, "issues", n, f)
  PROVE  LET implementation == EffectiveArtifact(rec, "implementation") IN
         /\ OneOrNone(implementation.test)
         /\ EffectiveArtifact(rec, "issue-selection").test => implementation.test # <<>>
<1> DEFINE selection == EffectiveArtifact(rec, "issue-selection")
           implementation == EffectiveArtifact(rec, "implementation")
           test == selection.test
<1>1. PICK st, C, a, w, d :
        /\ From(rec, "issues", "implementation", 3, f, st, C, a) /\ Restates(w, a)
        /\ d \in Drafts("issues", "implementation", w) /\ implementation = Merged(d, w)
  BY IssuesWalk, Edited
<1>2. /\ {"files", "test", "passed"} \subseteq DOMAIN a
      /\ OneOrNone(a.test) /\ (test => a.test # <<>>)
  BY <1>1, FixIsComputed
<1> HIDE DEF selection, implementation, test
<1>3. "test" \in DOMAIN w /\ w.test = a.test BY <1>1, <1>2 DEF Restates
<1>4. "test" \in DOMAIN d => \E x : d.test = <<x>>
  <2> DEFINE Rewritten(i, content) == [w.test[i] EXCEPT !.content = content]
             view == IssueImplementationView(w)
             plans == PlanDrafts(w.files)
  <2>1. IssueImplementationSurface(w) =
          Surface(view, {[files |-> files] : files \in plans}
            \union {[test |-> <<Rewritten(i, content)>>] : i \in 1..Len(w.test), content \in {"broken"}})
    BY DEF IssueImplementationSurface
  <2> HIDE DEF Rewritten, view, plans
  <2>2. \/ d = NoEdits \/ \E files : d = [files |-> files]
        \/ \E i, content : d = [test |-> <<Rewritten(i, content)>>]
    BY <1>1, <2>1 DEF Drafts, SurfaceOf, IssuesSurface, ApiDrafts, Surface
  <2>3. CASE d = NoEdits BY <2>3 DEF NoEdits
  <2>4. CASE \E files : d = [files |-> files] BY <2>4
  <2>5. CASE \E i, content : d = [test |-> <<Rewritten(i, content)>>]
    <3>1. PICK i, content : d = [test |-> <<Rewritten(i, content)>>] BY <2>5
    <3>2. d.test = <<Rewritten(i, content)>> BY <3>1
    <3> QED BY <3>2
  <2> QED BY <2>2, <2>3, <2>4, <2>5
<1>5. CASE "test" \in DOMAIN d
  <2>1. implementation.test = d.test BY <1>1, <1>5 DEF Merged
  <2>2. PICK x : d.test = <<x>> BY <1>4, <1>5
  <2>3. <<x>> # <<>> OBVIOUS
  <2> QED BY <2>1, <2>2, <2>3 DEF OneOrNone, implementation, selection, test
<1>6. CASE "test" \notin DOMAIN d
  <2>1. implementation.test = a.test BY <1>1, <1>3, <1>6 DEF Merged
  <2> QED BY <1>2, <2>1 DEF implementation, selection, test
<1> QED BY <1>5, <1>6

\* The files that pass are the files of a patch that passes.
LEMMA LongerPatchPasses ==
  ASSUME NEW S, NEW files \in Seq(S), NEW test, OneOrNone(test), Validates(files \o test)
  PROVE  Validates(files)
<1>1. CASE test = <<>> BY <1>1
<1>2. CASE test # <<>>
  <2>1. PICK x : test = <<x>> BY <1>2 DEF OneOrNone
  <2> DEFINE T == S \union {x}
  <2>2. files \in Seq(T) /\ test \in Seq(T)
    <3>1. <<x>> \in Seq({x}) OBVIOUS
    <3> QED BY <2>1, <3>1
  <2> HIDE DEF T
  <2>3. /\ Len(files \o test) = Len(files) + Len(test)
        /\ \A n \in 1..(Len(files) + Len(test)) :
             (files \o test)[n] = IF n <= Len(files) THEN files[n] ELSE test[n - Len(files)]
    BY <2>2, JoinedPlaces
  <2>4. Len(files) \in Nat /\ Len(test) \in Nat BY <2>2
  <2>5. \A n \in 1..Len(files) : n \in 1..Len(files \o test) /\ (files \o test)[n] = files[n]
    BY <2>3, <2>4
  <2> QED BY <2>5 DEF Validates, FilesOf
<1> QED BY <1>1, <1>2

\* A patch that is said to pass passes.
LEMMA FixPasses ==
  ASSUME NEW rec, NEW f, Approved(rec, "issues", 4, f), EffectiveArtifact(rec, "implementation").passed
  PROVE  Validates(PatchFilesInPlan(EffectiveArtifact(rec, "implementation").files))
<1> DEFINE implementation == EffectiveArtifact(rec, "implementation")
           files == implementation.files
           S == {file \in FilesOf(files) : file.included}
           plan == Selected(files, S)
<1>1. PatchFilesInPlan(files) = plan BY DEF PatchFilesInPlan
<1>2. Contract("issues", "implementation", implementation) BY IssuesWalk, Contracted, 3 \in 1..4
<1>3. Len(files) \in Nat
  <2> HIDE DEF implementation
  <2>1. Len(files) \in 1..MaxChangedFiles BY <1>2 DEF Contract, IssuesContract, IssueImplementationValid
  <2> QED BY <2>1 DEF MaxChangedFiles
<1>4. S \subseteq FilesOf(files) OBVIOUS
<1>5. plan \in Seq(S) /\ FilesOf(plan) \subseteq S
  <2> HIDE DEF S, files
  <2> QED BY <1>3, <1>4, SelectedIsKept, KeptFiles
<1>6. CASE rec.dec["implementation"].action = "edit"
  <2>1. PassedOn(rec, "issues", 3, f) BY DEF Approved
  <2>2. PICK st, C : Agree(st, rec, "issues", 3 + 1) /\ LaneGate("issues", "implementation", st, Looked(f, C))
    BY <2>1, IssuesWalk DEF PassedOn
  <2>3. /\ st.dec["implementation"] = rec.dec["implementation"]
        /\ EffectiveArtifact(st, "implementation") = implementation
    BY <2>2, IssuesWalk DEF Agree, EffectiveArtifact
  <2>4. FixEditGate(st) BY <2>2 DEF LaneGate, IssuesGate
  <2>5. OneOrNone(implementation.test) BY FixHasItsTest, 3 \in 1..4
  <2> HIDE DEF implementation
  <2>6. Validates(FixPatch(implementation))
    BY <1>6, <2>3, <2>4 DEF FixEditGate, EditViolations
  <2> DEFINE test == implementation.test
  <2>7. FixPatch(implementation) = plan \o test BY <1>1 DEF FixPatch
  <2> HIDE DEF plan, test
  <2>8. Validates(plan) BY <1>5, <2>5, <2>6, <2>7, LongerPatchPasses DEF test
  <2> QED BY <1>1, <2>8 DEF implementation, files
<1>7. CASE rec.dec["implementation"].action # "edit"
  <2>1. PICK st, C, a : /\ From(rec, "issues", "implementation", 3, f, st, C, a)
                        /\ Restates(implementation, a)
    BY <1>7, IssuesWalk, AsComputed, 3 \in 1..4
  <2>2. {"files", "test", "passed"} \subseteq DOMAIN a /\ a.passed = Validates(a.files)
    BY <2>1, FixIsComputed
  <2>3. implementation.files = a.files /\ implementation.passed = a.passed
    BY <2>1, <2>2 DEF Restates
  <2>4. Validates(files) BY <2>2, <2>3
  <2> HIDE DEF S, plan
  <2>5. Validates(plan) BY <1>4, <1>5, <2>4 DEF Validates
  <2> QED BY <1>1, <2>5
<1> QED BY <1>6, <1>7

\* What the completion says.
LEMMA FixIsCompleted ==
  ASSUME NEW rec, NEW f, Approved(rec, "issues", 4, f)
  PROVE  LET implementation == EffectiveArtifact(rec, "implementation")
             completion == EffectiveArtifact(rec, "complete")
             patch == FixPatch(implementation)
         IN /\ completion.branch = IssueBranchFor(EffectiveArtifact(rec, "issue-selection").ticket)
            /\ Fields(completion).paths = [n \in 1..Len(patch) |-> patch[n].path]
            /\ Fields(completion).test = (implementation.test # <<>>)
            /\ Fields(completion).passed = implementation.passed
<1> DEFINE selection == EffectiveArtifact(rec, "issue-selection")
           implementation == EffectiveArtifact(rec, "implementation")
           completion == EffectiveArtifact(rec, "complete")
           patch == FixPatch(implementation)
<1>1. NoDrafts("issues", "complete") BY ReadOnlyStep DEF SurfaceOf, IssuesSurface, IssueCompleteSurface
<1>2. PICK st, C, a : From(rec, "issues", "complete", 4, f, st, C, a) /\ Restates(completion, a)
  BY <1>1, IssuesWalk, Unedited, 4 \in 1..4
<1>3. a \in ComputeFixCompletion(st) BY <1>2 DEF From, Compute, IssuesCompute
<1>4. /\ EffectiveArtifact(st, "issue-selection") = selection
      /\ EffectiveArtifact(st, "implementation") = implementation
  BY <1>2, IssuesWalk DEF From, Shows
<1> HIDE DEF selection, implementation, completion
<1> DEFINE branch == IssueBranchFor(selection.ticket)
           paths == [n \in 1..Len(patch) |-> patch[n].path]
           test == implementation.test # <<>>
           passed == implementation.passed
           ticket == selection.ticket
           missing == ~HasArtifact(st, "issue-selection") \/ ~HasArtifact(st, "implementation")
           marks == DerivedFrom(st, {"issue-selection", "implementation"})
           said == [ticket |-> ticket, branch |-> branch, paths |-> paths, test |-> test,
                    passed |-> passed, from |-> marks]
<1>5. ComputeFixCompletion(st) = IF missing THEN {} ELSE {said} BY <1>4 DEF ComputeFixCompletion
<1>6. a = said
  <2> HIDE DEF said, missing
  <2> QED BY <1>3, <1>5
<1> HIDE DEF branch, paths, test, passed, ticket, marks, missing, patch
<1>7. /\ {"branch", "paths", "test", "passed"} \subseteq DOMAIN a
      /\ a.branch = branch /\ a.paths = paths /\ a.test = test /\ a.passed = passed
  BY <1>6
<1> HIDE DEF said
<1>8. /\ {"branch", "paths", "test", "passed"} \subseteq DOMAIN completion
      /\ completion.branch = branch /\ completion.paths = paths /\ completion.test = test
      /\ completion.passed = passed
  BY <1>2, <1>7 DEF Restates
<1>9. \A x \in {"paths", "test", "passed"} : Fields(completion)[x] = completion[x]
  BY <1>8 DEF Fields
<1>10. Fields(completion).paths = paths /\ Fields(completion).test = test
       /\ Fields(completion).passed = passed
  BY <1>8, <1>9
<1> QED BY <1>8, <1>10 DEF branch, paths, test, passed, patch, selection, implementation, completion

LEMMA IssuesLaw ==
  ASSUME NEW rec, NEW f, NEW i \in 1..4, Approved(rec, "issues", i, f),
         NEW k \in 1..Len(IssuesWrites(IssuesSteps[i], rec))
  PROVE  IssuesPolicy(rec, IssuesWrites(IssuesSteps[i], rec)[k])
<1> DEFINE selection == EffectiveArtifact(rec, "issue-selection")
           implementation == EffectiveArtifact(rec, "implementation")
           completion == EffectiveArtifact(rec, "complete")
           patch == FixPatch(implementation)
           files == PatchFilesInPlan(implementation.files)
           test == implementation.test
           body == Fields(completion)
           branch == completion.branch
           what == [files |-> files, test |-> test, body |-> body]
           call == IssuesWrites(IssuesSteps[i], rec)[k]
<1>1. i = 4
  <2>1. IssuesSteps[i] = "complete" BY DEF IssuesWrites
  <2> QED BY IssuesWalk, <2>1
<1>2. call.what = what /\ call.key[1] = branch
  <2>1. IssuesWrites(IssuesSteps[i], rec) = ApplyPatch(branch, patch, what)
    BY <1>1, IssuesWalk DEF IssuesWrites, FixPullRequest
  <2>2. k \in 1..Len(ApplyPatch(branch, patch, what)) BY <2>1
  <2> HIDE DEF branch, patch, what
  <2> QED BY <2>1, <2>2, Pushes
<1>3. /\ branch = IssueBranchFor(selection.ticket)
      /\ body.paths = [n \in 1..Len(patch) |-> patch[n].path]
      /\ body.test = (test # <<>>) /\ body.passed = implementation.passed
  BY <1>1, FixIsCompleted
<1>4. selection.test => test # <<>> BY <1>1, FixHasItsTest, 3 \in 1..4
<1>5. implementation.passed => Validates(files) BY <1>1, FixPasses
<1>6. patch = files \o test BY DEF FixPatch
<1> HIDE DEF call
<1>7. call.what.files = files /\ call.what.test = test /\ call.what.body = body
  <2> HIDE DEF files, test, body
  <2> QED BY <1>2
<1> DEFINE wanted == selection.test
           passed == body.passed
           tested == body.test
<1>8. /\ wanted => test # <<>> /\ tested
      /\ passed => Validates(files)
  <2> HIDE DEF implementation, files, test, body
  <2> QED BY <1>3, <1>4, <1>5
<1>9. IssuesPolicy(rec, call)
  <2> HIDE DEF files, test, body, branch, patch
  <2> QED BY <1>2, <1>3, <1>6, <1>7, <1>8 DEF IssuesPolicy
<1> QED BY <1>9 DEF call

-----------------------------------------------------------------------------
(* Dependencies *)

LEMMA DependenciesWalk ==
  /\ StepsOf("dependencies") = DependenciesSteps /\ Len(DependenciesSteps) = 5
  /\ DependenciesSteps[1] = "scan" /\ DependenciesSteps[2] = "group"
  /\ DependenciesSteps[3] = "apply" /\ DependenciesSteps[4] = "validate"
  /\ DependenciesSteps[5] = "merge"
  /\ "group" \in Prior("dependencies", 3) /\ "apply" \in Prior("dependencies", 4)
  /\ "apply" \in Prior("dependencies", 5) /\ "validate" \in Prior("dependencies", 5)
BY DEF StepsOf, DependenciesSteps, Prior

\* The packages of the rows are kept ones, each in its group.
KeptRows(rows, grouping) ==
  /\ DOMAIN rows = KeptIn(grouping)
  /\ \A p \in DOMAIN rows : /\ {"group", "included"} \subseteq DOMAIN rows[p]
                            /\ rows[p].group = grouping.rows[p].group

LEMMA LeftOutIsKept ==
  ASSUME NEW rows, NEW grouping, KeptRows(rows, grouping), NEW q \in DOMAIN rows
  PROVE  KeptRows([rows EXCEPT ![q].included = FALSE], grouping)
<1> DEFINE x == [rows[q] EXCEPT !.included = FALSE]
           left == [rows EXCEPT ![q].included = FALSE]
<1>1. DOMAIN x = DOMAIN rows[q] /\ x.group = rows[q].group BY DEF KeptRows
<1>2. left = [rows EXCEPT ![q] = x] OBVIOUS
<1>3. DOMAIN left = DOMAIN rows OBVIOUS
<1> HIDE DEF x, left
<1>4. \A p \in DOMAIN rows : left[p] = IF p = q THEN x ELSE rows[p] BY <1>2
<1>5. KeptRows(left, grouping) BY <1>1, <1>3, <1>4 DEF KeptRows
<1> QED BY <1>5 DEF left

\* Whatever is left out of it, an apply bumps kept packages in their groups.
LEMMA ApplyKeeps ==
  ASSUME NEW rec, NEW f, Approved(rec, "dependencies", 5, f)
  PROVE  KeptRows(EffectiveArtifact(rec, "apply").rows, EffectiveArtifact(rec, "group"))
<1> DEFINE grouping == EffectiveArtifact(rec, "group")
           apply == EffectiveArtifact(rec, "apply")
<1>1. PICK st, C, a, w, d :
        /\ From(rec, "dependencies", "apply", 3, f, st, C, a) /\ Restates(w, a)
        /\ d \in Drafts("dependencies", "apply", w) /\ apply = Merged(d, w)
  BY DependenciesWalk, Edited, 3 \in 1..5
<1>2. a \in ComputeApply(st) BY <1>1 DEF From, Compute, DependenciesCompute
<1>3. EffectiveArtifact(st, "group") = grouping BY <1>1, DependenciesWalk DEF From, Shows
<1> HIDE DEF grouping, apply
<1>4. "rows" \in DOMAIN a /\ KeptRows(a.rows, grouping)
  <2> DEFINE Row(p) == [group |-> grouping.rows[p].group, included |-> TRUE]
             rows == [p \in KeptIn(grouping) |-> Row(p)]
             accepted == GroupsOf(rows)
             marks == DerivedFrom(st, {"group"})
             bad == ~AssertExcludeReasons(grouping) \/ KeptIn(grouping) = {}
             said == [rows |-> rows, accepted |-> accepted, pinned |-> TRUE, from |-> marks]
  <2>1. ComputeApply(st) = IF ~HasArtifact(st, "group") THEN {} ELSE Unless(bad, {said})
    BY <1>3 DEF ComputeApply
  <2>2. \A p : {"group", "included"} \subseteq DOMAIN Row(p) /\ Row(p).group = grouping.rows[p].group
    OBVIOUS
  <2> HIDE DEF Row
  <2>3. DOMAIN rows = KeptIn(grouping) /\ \A p \in KeptIn(grouping) : rows[p] = Row(p) OBVIOUS
  <2> HIDE DEF rows, accepted, marks, bad
  <2>4. "rows" \in DOMAIN said /\ said.rows = rows OBVIOUS
  <2> HIDE DEF said
  <2>5. a = said BY <1>2, <2>1 DEF Unless
  <2> QED BY <2>2, <2>3, <2>4, <2>5 DEF KeptRows
<1>5. "rows" \in DOMAIN w /\ w.rows = a.rows BY <1>1, <1>4 DEF Restates
<1>6. \/ "rows" \notin DOMAIN d
      \/ \E q \in DOMAIN w.rows : d.rows = [w.rows EXCEPT ![q].included = FALSE]
  <2> DEFINE Out(q) == [w.rows EXCEPT ![q].included = FALSE]
             view == ApplyView(w)
             rest == {[accepted |-> w.accepted \ {g}] : g \in w.accepted \ {"major"}}
             less == {[rows |-> Out(q)] : q \in DOMAIN w.rows}
  <2>1. ApplyDrafts(w) = less \union rest BY DEF ApplyDrafts
  <2>2. \A e \in rest : "rows" \notin DOMAIN e OBVIOUS
  <2> HIDE DEF Out
  <2>3. \A e \in less : \E q \in DOMAIN w.rows : e.rows = Out(q) OBVIOUS
  <2>4. DOMAIN NoEdits = {} BY DEF NoEdits
  <2>5. \A e : /\ DOMAIN WithField(e, "pinned", FALSE) = DOMAIN e \union {"pinned"}
               /\ "rows" \in DOMAIN e => WithField(e, "pinned", FALSE).rows = e.rows
    BY DEF WithField
  <2> HIDE DEF less, rest, view
  <2>6. \/ d = NoEdits \/ d \in less \union rest
        \/ \E e \in less \union rest : d = WithField(e, "pinned", FALSE)
    BY <1>1, <2>1
    DEF Drafts, SurfaceOf, DependenciesSurface, ApiDrafts, DependenciesApiDrafts, ApplySurface, Surface,
        AsRead
  <2>7. "rows" \in DOMAIN d => \E q \in DOMAIN w.rows : d.rows = Out(q)
    <3> HIDE DEF Out
    <3>1. CASE d = NoEdits BY <2>4, <3>1
    <3>2. CASE d \in less \union rest BY <2>2, <2>3, <3>2
    <3>3. CASE \E e \in less \union rest : d = WithField(e, "pinned", FALSE)
      <4>1. PICK e \in less \union rest : d = WithField(e, "pinned", FALSE) BY <3>3
      <4>2. SUFFICES ASSUME "rows" \in DOMAIN d PROVE \E q \in DOMAIN w.rows : d.rows = Out(q)
        OBVIOUS
      <4>3. "rows" \in DOMAIN e
        <5>1. "rows" # "pinned" OBVIOUS
        <5>2. DOMAIN d = DOMAIN e \union {"pinned"}
          <6>1. DOMAIN WithField(e, "pinned", FALSE) = DOMAIN e \union {"pinned"} BY <2>5
          <6> QED BY <4>1, <6>1
        <5> QED BY <4>2, <5>1, <5>2
      <4>4. e \in less /\ d.rows = e.rows BY <2>2, <2>5, <4>1, <4>3
      <4> QED BY <2>3, <4>4
    <3> QED BY <2>6, <3>1, <3>2, <3>3
  <2> QED BY <2>7 DEF Out
<1>7. KeptRows(apply.rows, grouping)
  <2>1. CASE "rows" \notin DOMAIN d
    <3>1. apply.rows = w.rows BY <1>1, <1>5, <2>1 DEF Merged
    <3> QED BY <1>4, <1>5, <3>1
  <2>2. CASE "rows" \in DOMAIN d
    <3>1. apply.rows = d.rows BY <1>1, <2>2 DEF Merged
    <3>2. PICK q \in DOMAIN w.rows : d.rows = [w.rows EXCEPT ![q].included = FALSE] BY <1>6, <2>2
    <3>3. KeptRows(w.rows, grouping) BY <1>4, <1>5
    <3>4. KeptRows([w.rows EXCEPT ![q].included = FALSE], grouping) BY <3>3, LeftOutIsKept
    <3> QED BY <3>1, <3>2, <3>4
  <2> QED BY <2>1, <2>2
<1> QED BY <1>7 DEF apply, grouping

\* Each group of the apply has a status.
LEMMA GroupsAreValidated ==
  ASSUME NEW rec, NEW f, Approved(rec, "dependencies", 5, f)
  PROVE  DOMAIN EffectiveArtifact(rec, "validate").status = GroupsOf(EffectiveArtifact(rec, "apply").rows)
<1> DEFINE apply == EffectiveArtifact(rec, "apply")
           validate == EffectiveArtifact(rec, "validate")
<1>1. PICK st, C, a, w, d :
        /\ From(rec, "dependencies", "validate", 4, f, st, C, a) /\ Restates(w, a)
        /\ d \in Drafts("dependencies", "validate", w) /\ validate = Merged(d, w)
  BY DependenciesWalk, Edited, 4 \in 1..5
<1>2. a \in ComputeValidate(st) BY <1>1 DEF From, Compute, DependenciesCompute
<1>3. EffectiveArtifact(st, "apply") = apply BY <1>1, DependenciesWalk DEF From, Shows
<1> HIDE DEF apply, validate
<1>4. "status" \in DOMAIN a /\ DOMAIN a.status = GroupsOf(apply.rows)
  <2> DEFINE left == LeftOn(apply)
             groups == GroupsOf(apply.rows)
             Status(g, failing) == IF g \notin left THEN "skipped" ELSE IF g \in failing THEN "failed" ELSE "green"
             status(failing) == [g \in groups |-> Status(g, failing)]
             marks == DerivedFrom(st, {"apply"})
             skipped == groups \ left
             Said(failing) == [status |-> status(failing), skipped |-> skipped, from |-> marks]
             sets == SUBSET left
  <2>1. ComputeValidate(st) =
          IF ~HasArtifact(st, "apply") THEN {} ELSE {Said(failing) : failing \in sets}
    BY <1>3 DEF ComputeValidate
  <2> HIDE DEF sets
  <2>2. \A failing : DOMAIN status(failing) = groups OBVIOUS
  <2> HIDE DEF status, marks, skipped
  <2>3. \A failing : "status" \in DOMAIN Said(failing) /\ Said(failing).status = status(failing) OBVIOUS
  <2> HIDE DEF Said
  <2>4. PICK failing : a = Said(failing) BY <1>2, <2>1
  <2> QED BY <2>2, <2>3, <2>4
<1>5. "status" \in DOMAIN w /\ w.status = a.status BY <1>1, <1>4 DEF Restates
<1>6. DOMAIN d \subseteq {"skipped"}
  <2> DEFINE Failed == {g \in DOMAIN w.status : w.status[g] = "failed"}
             view == ValidateView(w)
             More(more) == w.skipped \union more
             sets == SUBSET Failed
  <2>1. ValidateSurface(w) = Surface(view, {[skipped |-> More(more)] : more \in sets}) BY DEF ValidateSurface
  <2> HIDE DEF view, More, sets
  <2>2. d = NoEdits \/ \E more \in sets : d = [skipped |-> More(more)]
    BY <1>1, <2>1 DEF Drafts, SurfaceOf, DependenciesSurface, ApiDrafts, DependenciesApiDrafts, Surface
  <2> QED BY <2>2 DEF NoEdits
<1>7. validate.status = a.status BY <1>1, <1>5, <1>6 DEF Merged
<1> QED BY <1>4, <1>7 DEF apply, validate

\* What is previewed is left on and green.
LEMMA PreviewedIsGreen ==
  ASSUME NEW rec, NEW f, Approved(rec, "dependencies", 5, f),
         NEW g \in DOMAIN EffectiveArtifact(rec, "merge").previews
  PROVE  LET apply == EffectiveArtifact(rec, "apply") IN
         /\ g \in LeftOn(apply) /\ EffectiveArtifact(rec, "validate").status[g] = "green"
         /\ EffectiveArtifact(rec, "merge").previews[g].cveFixes = IncludedIn(apply, g) \intersect Vulnerable
<1> DEFINE apply == EffectiveArtifact(rec, "apply")
           validate == EffectiveArtifact(rec, "validate")
           merge == EffectiveArtifact(rec, "merge")
<1>1. NoDrafts("dependencies", "merge")
  <2>1. \A a : SurfaceOf("dependencies", "merge", a).drafts = {}
    BY DEF SurfaceOf, DependenciesSurface, MergeSurface, ReadOnly, Surface
  <2>2. \A a : ApiDrafts("dependencies", "merge", a) = {} BY DEF ApiDrafts, DependenciesApiDrafts
  <2> QED BY <2>1, <2>2 DEF NoDrafts, Drafts
<1>2. PICK st, C, a : From(rec, "dependencies", "merge", 5, f, st, C, a) /\ Restates(merge, a)
  BY <1>1, DependenciesWalk, Unedited, 5 \in 1..5
<1>3. a \in ComputeMerge(st) BY <1>2 DEF From, Compute, DependenciesCompute
<1>4. EffectiveArtifact(st, "apply") = apply /\ EffectiveArtifact(st, "validate") = validate
  BY <1>2, DependenciesWalk DEF From, Shows
<1>5. DOMAIN validate.status = GroupsOf(apply.rows) BY GroupsAreValidated
<1>6. g \in DOMAIN merge.previews OBVIOUS
<1> HIDE DEF apply, validate, merge
<1> DEFINE planned == LeftOn(apply) \ validate.skipped
           Preview(packages) == [packages |-> packages, cveFixes |-> packages \intersect Vulnerable]
           previews == [h \in planned |-> Preview(IncludedIn(apply, h))]
           marks == DerivedFrom(st, {"apply", "validate"})
           ungreen == \E h \in DOMAIN validate.status \ validate.skipped : validate.status[h] # "green"
           bad == planned = {} \/ ungreen
           missing == ~HasArtifact(st, "apply") \/ ~HasArtifact(st, "validate")
<1>7. ComputeMerge(st) = IF missing THEN {} ELSE Unless(bad, {[previews |-> previews, from |-> marks]})
  BY <1>4 DEF ComputeMerge
<1>8. ~ungreen /\ "previews" \in DOMAIN a /\ a.previews = previews
  <2> HIDE DEF planned, previews, marks, missing, ungreen
  <2> QED BY <1>3, <1>7 DEF Unless
<1>9. merge.previews = previews BY <1>2, <1>8 DEF Restates
<1>10. g \in planned BY <1>6, <1>9
<1>11. merge.previews[g].cveFixes = IncludedIn(apply, g) \intersect Vulnerable
  <2>1. previews[g] = Preview(IncludedIn(apply, g)) BY <1>10
  <2> HIDE DEF previews
  <2> QED BY <1>9, <2>1
<1>12. g \in DOMAIN validate.status BY <1>5, <1>10 DEF LeftOn
<1>13. validate.status[g] = "green" BY <1>8, <1>10, <1>12
<1> QED BY <1>10, <1>11, <1>13 DEF apply, validate, merge

\* A bump is of one previewed group.
LEMMA BumpsArePreviewed ==
  ASSUME NEW rec, NEW k \in 1..Len(BumpPullRequests(rec))
  PROVE  \E g \in DOMAIN EffectiveArtifact(rec, "merge").previews :
           LET what == BumpPullRequests(rec)[k].what IN
           /\ what.group = g /\ what.packages = IncludedIn(EffectiveArtifact(rec, "apply"), g)
           /\ what.cveFixes = EffectiveArtifact(rec, "merge").previews[g].cveFixes
<1> DEFINE previews == EffectiveArtifact(rec, "merge").previews
           Packages(g) == IncludedIn(EffectiveArtifact(rec, "apply"), g)
           What(g) == [group |-> g, packages |-> Packages(g), cveFixes |-> previews[g].cveFixes]
           Patch(g) == ApplyPatch(DependencyBranch(g), BuildGroupFileChanges(Packages(g)), What(g))
           Bump(g) == IF g \notin DOMAIN previews THEN <<>> ELSE Patch(g)
           one == Bump(DependencyGroups[1])
           two == Bump(DependencyGroups[2])
           calls == BumpPullRequests(rec)
<1>1. calls = one \o two BY DEF BumpPullRequests
<1>2. \A g : What(g).group = g /\ What(g).packages = Packages(g) /\ What(g).cveFixes = previews[g].cveFixes
  <2> HIDE DEF previews, Packages
  <2> QED OBVIOUS
<1> HIDE DEF What
<1>3. ASSUME NEW g
      PROVE  /\ \E x, y : Bump(g) \in Seq({x, y})
             /\ \A n \in 1..Len(Bump(g)) : g \in DOMAIN previews /\ Bump(g)[n].what = What(g)
  <2>1. CASE g \notin DOMAIN previews
    <3>1. Bump(g) = <<>> BY <2>1
    <3> HIDE DEF Bump
    <3>2. Bump(g) \in Seq({g, g}) /\ Len(Bump(g)) = 0 BY <3>1
    <3> QED BY <3>2
  <2>2. CASE g \in DOMAIN previews
    <3>1. Bump(g) = Patch(g) BY <2>2
    <3> DEFINE branch == DependencyBranch(g)
               files == BuildGroupFileChanges(Packages(g))
               what == What(g)
    <3>2. Patch(g) = ApplyPatch(branch, files, what) OBVIOUS
    <3> HIDE DEF Bump, Patch, branch, files, what
    <3>3. \E x, y : Patch(g) \in Seq({x, y})
      <4>1. PICK x, y : ApplyPatch(branch, files, what) \in Seq({x, y}) BY PatchIsSequence
      <4> QED BY <3>2, <4>1
    <3>4. \A n \in 1..Len(Patch(g)) : Patch(g)[n].what = what BY <3>2, Pushes
    <3> QED BY <2>2, <3>1, <3>3, <3>4 DEF what
  <2> QED BY <2>1, <2>2
<1>4. /\ (\E x, y : one \in Seq({x, y})) /\ (\E x, y : two \in Seq({x, y}))
      /\ \A n \in 1..Len(one) : /\ DependencyGroups[1] \in DOMAIN previews
                                /\ one[n].what = What(DependencyGroups[1])
      /\ \A n \in 1..Len(two) : /\ DependencyGroups[2] \in DOMAIN previews
                                /\ two[n].what = What(DependencyGroups[2])
  <2> HIDE DEF Bump
  <2> QED BY <1>3
<1> HIDE DEF one, two, calls, previews, Packages
<1>5. PICK x1, y1 : one \in Seq({x1, y1}) BY <1>4
<1>6. PICK x2, y2 : two \in Seq({x2, y2}) BY <1>4
<1> DEFINE S == {x1, y1, x2, y2}
<1>7. one \in Seq(S) /\ two \in Seq(S) BY <1>5, <1>6
<1> HIDE DEF S
<1>8. k \in 1..Len(one \o two) BY <1>1 DEF calls
<1>9. (\E n \in 1..Len(one) : calls[k] = one[n]) \/ (\E n \in 1..Len(two) : calls[k] = two[n])
  BY <1>1, <1>7, <1>8, JoinedTaken
<1>10. \E g \in DOMAIN previews : calls[k].what = What(g) BY <1>4, <1>9
<1> QED BY <1>2, <1>10 DEF calls, previews, Packages

LEMMA DependenciesLaw ==
  ASSUME NEW rec, NEW f, NEW i \in 1..5, Approved(rec, "dependencies", i, f),
         NEW k \in 1..Len(DependenciesWrites(DependenciesSteps[i], rec))
  PROVE  DependenciesPolicy(rec, DependenciesWrites(DependenciesSteps[i], rec)[k])
<1> DEFINE grouping == EffectiveArtifact(rec, "group")
           apply == EffectiveArtifact(rec, "apply")
           call == DependenciesWrites(DependenciesSteps[i], rec)[k]
<1>1. i = 5
  <2>1. DependenciesSteps[i] = "merge" BY DEF DependenciesWrites
  <2> QED BY DependenciesWalk, <2>1
<1>2. DependenciesWrites(DependenciesSteps[i], rec) = BumpPullRequests(rec)
  BY <1>1, DependenciesWalk DEF DependenciesWrites
<1>3. PICK g \in DOMAIN EffectiveArtifact(rec, "merge").previews :
        /\ call.what.group = g /\ call.what.packages = IncludedIn(apply, g)
        /\ call.what.cveFixes = EffectiveArtifact(rec, "merge").previews[g].cveFixes
  BY <1>2, BumpsArePreviewed
<1> HIDE DEF call
<1>4. /\ g \in LeftOn(apply) /\ EffectiveArtifact(rec, "validate").status[g] = "green"
      /\ EffectiveArtifact(rec, "merge").previews[g].cveFixes = IncludedIn(apply, g) \intersect Vulnerable
  BY <1>1, PreviewedIsGreen
<1>5. KeptRows(apply.rows, grouping) BY <1>1, ApplyKeeps
<1>6. \A p \in IncludedIn(apply, g) :
        ~grouping.rows[p].excluded /\ grouping.rows[p].group = g /\ apply.rows[p].included
  <2> HIDE DEF apply, grouping
  <2>1. TAKE p \in IncludedIn(apply, g)
  <2>2. p \in DOMAIN apply.rows /\ apply.rows[p].group = g /\ apply.rows[p].included
    BY DEF IncludedIn
  <2>3. p \in KeptIn(grouping) /\ apply.rows[p].group = grouping.rows[p].group
    BY <1>5, <2>2 DEF KeptRows
  <2> QED BY <2>2, <2>3 DEF KeptIn
<1>7. IncludedIn(apply, g) # {} /\ g \in apply.accepted BY <1>4 DEF LeftOn
<1>8. DependenciesPolicy(rec, call) BY <1>3, <1>4, <1>6, <1>7 DEF DependenciesPolicy
<1> QED BY <1>8 DEF call

-----------------------------------------------------------------------------
(* Accessibility *)

LEMMA AccessibilityWalk ==
  /\ StepsOf("accessibility") = AccessibilitySteps /\ Len(AccessibilitySteps) = 4
  /\ AccessibilitySteps[1] = "crawl" /\ AccessibilitySteps[2] = "violations"
  /\ AccessibilitySteps[3] = "fix" /\ AccessibilitySteps[4] = "re-scan"
  /\ "fix" \in Prior("accessibility", 4 + 1) /\ "re-scan" \in Prior("accessibility", 4 + 1)
BY DEF StepsOf, AccessibilitySteps, Prior

\* No critical violation remains that nobody waived.
LEMMA CriticalsAreWaived ==
  ASSUME NEW rec, NEW f, Approved(rec, "accessibility", 4, f)
  PROVE  GateFor(rec.art["re-scan"].remaining, EffectiveArtifact(rec, "re-scan").waivers)
<1>1. PassedOn(rec, "accessibility", 4, f) BY DEF Approved
<1>2. PICK st, C : /\ Agree(st, rec, "accessibility", 4 + 1)
                   /\ LaneGate("accessibility", "re-scan", st, Looked(f, C))
  BY <1>1, AccessibilityWalk DEF PassedOn
<1>3. st.art["re-scan"] = rec.art["re-scan"] /\ st.dec["re-scan"] = rec.dec["re-scan"]
  BY <1>2, AccessibilityWalk DEF Agree
<1>4. EffectiveArtifact(st, "re-scan") = EffectiveArtifact(rec, "re-scan") BY <1>3 DEF EffectiveArtifact
<1>5. ApplyWaivers(st) BY <1>2 DEF LaneGate, AccessibilityGate
<1> QED BY <1>3, <1>4, <1>5 DEF ApplyWaivers

\* A fix that has no files has the empty sequence of them.
Regular(fixes) ==
  /\ Len(fixes) \in Nat /\ DOMAIN fixes = 1..Len(fixes)
  /\ \A n \in 1..Len(fixes) :
       /\ {"files", "applied"} \subseteq DOMAIN fixes[n]
       /\ Len(fixes[n].files) \in Nat
       /\ Len(fixes[n].files) = 0 => fixes[n].files = <<>>

LEMMA FixerAnswersWell ==
  ASSUME NEW drafts \in FixerAnswers
  PROVE  Len(drafts) \in Nat /\ \A n \in 1..Len(drafts) : Len(drafts[n].files) \in Nat
<1> DEFINE Draft(violation, path, manual) ==
             [violation |-> violation, manual |-> manual, files |-> <<[path |-> path, content |-> "good"]>>]
           Alt == Draft("alt", "app", FALSE)
<1>1. \A v, p, m : Len(Draft(v, p, m).files) \in Nat OBVIOUS
<1>2. \/ drafts = <<Alt, Alt, Draft("label", "secret", FALSE)>>
      \/ drafts = <<Alt, Draft("focus", "app", FALSE)>>
      \/ drafts = <<Draft("alt", "app", TRUE)>> \/ drafts = <<Draft("trap", "app", FALSE)>> \/ drafts = <<>>
  BY DEF FixerAnswers
<1>3. Len(Alt.files) \in Nat BY <1>1
<1> HIDE DEF Draft, Alt
<1>4. CASE drafts = <<Alt, Alt, Draft("label", "secret", FALSE)>>
  <2> DEFINE x == Draft("label", "secret", FALSE)
  <2>1. Len(x.files) \in Nat BY <1>1
  <2> HIDE DEF x
  <2>2. Len(drafts) = 3 /\ drafts[1] = Alt /\ drafts[2] = Alt /\ drafts[3] = x BY <1>4 DEF x
  <2> QED BY <1>3, <2>1, <2>2
<1>5. CASE drafts = <<Alt, Draft("focus", "app", FALSE)>>
  <2> DEFINE x == Draft("focus", "app", FALSE)
  <2>1. Len(x.files) \in Nat BY <1>1
  <2> HIDE DEF x
  <2>2. Len(drafts) = 2 /\ drafts[1] = Alt /\ drafts[2] = x BY <1>5 DEF x
  <2> QED BY <1>3, <2>1, <2>2
<1>6. CASE drafts = <<Draft("alt", "app", TRUE)>>
  <2> DEFINE x == Draft("alt", "app", TRUE)
  <2>1. Len(x.files) \in Nat BY <1>1
  <2> HIDE DEF x
  <2>2. Len(drafts) = 1 /\ drafts[1] = x BY <1>6 DEF x
  <2> QED BY <2>1, <2>2
<1>7. CASE drafts = <<Draft("trap", "app", FALSE)>>
  <2> DEFINE x == Draft("trap", "app", FALSE)
  <2>1. Len(x.files) \in Nat BY <1>1
  <2> HIDE DEF x
  <2>2. Len(drafts) = 1 /\ drafts[1] = x BY <1>7 DEF x
  <2> QED BY <2>1, <2>2
<1>8. CASE drafts = <<>> BY <1>8
<1> QED BY <1>2, <1>4, <1>5, <1>6, <1>7, <1>8

LEMMA FixesAreRegular ==
  ASSUME NEW drafts \in FixerAnswers, NEW shown
  PROVE  Regular(FixesOf(drafts, shown))
<1> DEFINE L == Len(drafts)
           firsts == {i \in 1..L : \A j \in 1..(i - 1) : drafts[j].violation # drafts[i].violation}
           places == [i \in 1..L |-> i]
           taken == Selected(places, firsts)
           N == Len(taken)
           InView(draft) == Selected(draft.files, {file \in FilesOf(draft.files) : file.path \in shown})
           Manual(draft) == draft.manual \/ InView(draft) = <<>>
           Fix(draft) == [violation |-> draft.violation, files |-> InView(draft),
                          manual |-> Manual(draft), applied |-> ~Manual(draft)]
           fixes == [i \in 1..N |-> Fix(drafts[taken[i]])]
<1>1. FixesOf(drafts, shown) = fixes BY DEF FixesOf
<1>2. L \in Nat /\ \A n \in 1..L : Len(drafts[n].files) \in Nat BY FixerAnswersWell
<1>3. Len(places) = L /\ \A i \in 1..L : places[i] = i
  <2> HIDE DEF L
  <2> QED BY <1>2
<1>4. N \in Nat /\ \A i \in 1..N : taken[i] \in 1..L
  <2> HIDE DEF places, firsts
  <2>1. Len(places) \in Nat BY <1>2, <1>3
  <2>2. /\ Len(taken) \in 0..Len(places)
        /\ \A n \in 1..Len(taken) : \E i \in 1..Len(places) : places[i] \in firsts /\ taken[n] = places[i]
    BY <2>1, SelectedIsKept
  <2> HIDE DEF taken, L
  <2> QED BY <1>2, <1>3, <2>2
<1> HIDE DEF places, firsts, taken, L, N
<1>5. Len(fixes) = N /\ DOMAIN fixes = 1..N
  <2> HIDE DEF Fix
  <2> QED BY <1>4
<1>6. \A draft : {"files", "applied"} \subseteq DOMAIN Fix(draft) /\ Fix(draft).files = InView(draft)
  <2> HIDE DEF InView, Manual
  <2> QED OBVIOUS
<1>7. ASSUME NEW draft, Len(draft.files) \in Nat
      PROVE  Len(InView(draft)) \in Nat /\ (Len(InView(draft)) = 0 => InView(draft) = <<>>)
  <2> DEFINE S == {file \in FilesOf(draft.files) : file.path \in shown}
  <2> HIDE DEF S
  <2>1. InView(draft) = Selected(draft.files, S) BY DEF S
  <2> QED BY <1>7, <2>1, SelectedIsKept
<1>8. ASSUME NEW n \in 1..N
      PROVE  /\ {"files", "applied"} \subseteq DOMAIN fixes[n] /\ Len(fixes[n].files) \in Nat
             /\ Len(fixes[n].files) = 0 => fixes[n].files = <<>>
  <2> DEFINE draft == drafts[taken[n]]
  <2>1. Len(draft.files) \in Nat BY <1>2, <1>4
  <2>2. fixes[n] = Fix(draft)
    <3> HIDE DEF Fix
    <3> QED OBVIOUS
  <2> HIDE DEF draft, fixes, Fix, InView
  <2> QED BY <1>6, <1>7, <2>1, <2>2
<1> HIDE DEF fixes
<1> QED BY <1>1, <1>4, <1>5, <1>8 DEF Regular

\* Switching a fix off leaves its files.
LEMMA SwitchedOffIsRegular ==
  ASSUME NEW fixes, Regular(fixes), NEW j \in 1..Len(fixes)
  PROVE  Regular([fixes EXCEPT ![j].applied = FALSE])
<1> DEFINE off == [fixes EXCEPT ![j].applied = FALSE]
           x == [fixes[j] EXCEPT !.applied = FALSE]
<1>1. x.files = fixes[j].files /\ DOMAIN x = DOMAIN fixes[j] BY DEF Regular
<1>2. off = [fixes EXCEPT ![j] = x] OBVIOUS
<1> HIDE DEF x, off
<1>3. DOMAIN off = 1..Len(fixes) BY <1>2 DEF Regular
<1>4. \A n \in 1..Len(fixes) : off[n] = IF n = j THEN x ELSE fixes[n] BY <1>2 DEF Regular
<1>5. Len(off) = Len(fixes) BY <1>3 DEF Regular
<1>6. Regular(off) BY <1>1, <1>3, <1>4, <1>5 DEF Regular
<1> QED BY <1>6 DEF off

LEMMA ApprovedFixesAreRegular ==
  ASSUME NEW rec, NEW f, NEW n \in 3..4, Approved(rec, "accessibility", n, f)
  PROVE  Regular(EffectiveArtifact(rec, "fix").fixes)
<1> DEFINE fix == EffectiveArtifact(rec, "fix")
<1>1. PICK st, C, a, w, d :
        /\ From(rec, "accessibility", "fix", 3, f, st, C, a) /\ Restates(w, a)
        /\ d \in Drafts("accessibility", "fix", w) /\ fix = Merged(d, w)
  BY AccessibilityWalk, Edited, 3 \in 1..n
<1>2. a \in ComputeFixes(st) BY <1>1 DEF From, Compute, AccessibilityCompute
<1> HIDE DEF fix
<1>3. "fixes" \in DOMAIN a /\ Regular(a.fixes)
  <2> DEFINE violations == EffectiveArtifact(st, "violations").violations
             routes == EffectiveArtifact(st, "crawl").selected
             components == {ComponentOf(route) : route \in routes \intersect {RouteOf(v) : v \in violations}}
             shown == {path \in components : AllowsPath(path)}
             Reported(drafts) == \A draft \in FilesOf(drafts) : draft.violation \in violations
             missing == ~HasArtifact(st, "crawl") \/ ~HasArtifact(st, "violations")
             none == components # {} /\ shown = {}
             marks == DerivedFrom(st, {"crawl", "violations"})
             answers == {x \in FixerAnswers : Reported(x)}
             Fixed(drafts) == [fixes |-> FixesOf(drafts, shown), from |-> marks]
  <2>1. ComputeFixes(st) = IF missing THEN {} ELSE Unless(none, {Fixed(drafts) : drafts \in answers})
    BY DEF ComputeFixes
  <2>2. answers \subseteq FixerAnswers OBVIOUS
  <2>3. \A drafts : "fixes" \in DOMAIN Fixed(drafts) /\ Fixed(drafts).fixes = FixesOf(drafts, shown) OBVIOUS
  <2> HIDE DEF missing, none, answers, Fixed, shown
  <2>4. PICK drafts \in answers : a = Fixed(drafts) BY <1>2, <2>1 DEF Unless
  <2> QED BY <2>2, <2>3, <2>4, FixesAreRegular
<1>4. "fixes" \in DOMAIN w /\ w.fixes = a.fixes BY <1>1, <1>3 DEF Restates
<1>5. \/ "fixes" \notin DOMAIN d
      \/ \E j \in 1..Len(w.fixes) : d.fixes = [w.fixes EXCEPT ![j].applied = FALSE]
  <2> DEFINE Off(j) == [w.fixes EXCEPT ![j].applied = FALSE]
             movable == {j \in 1..Len(w.fixes) : ~w.fixes[j].manual}
             view == FixView(w)
  <2>1. FixSurface(w) = Surface(view, {[fixes |-> Off(j)] : j \in movable}) BY DEF FixSurface
  <2> HIDE DEF Off, view
  <2>2. d = NoEdits \/ \E j \in movable : d = [fixes |-> Off(j)]
    BY <1>1, <2>1 DEF Drafts, SurfaceOf, AccessibilitySurface, ApiDrafts, AccessibilityApiDrafts, Surface
  <2>3. CASE d = NoEdits BY <2>3 DEF NoEdits
  <2>4. CASE \E j \in movable : d = [fixes |-> Off(j)]
    <3>1. PICK j \in movable : d = [fixes |-> Off(j)] BY <2>4
    <3>2. j \in 1..Len(w.fixes) /\ d.fixes = Off(j) BY <3>1
    <3> QED BY <3>2 DEF Off
  <2> QED BY <2>2, <2>3, <2>4
<1>6. Regular(fix.fixes)
  <2>1. CASE "fixes" \notin DOMAIN d
    <3>1. fix.fixes = w.fixes BY <1>1, <1>4, <2>1 DEF Merged
    <3> QED BY <1>3, <1>4, <3>1
  <2>2. CASE "fixes" \in DOMAIN d
    <3>1. fix.fixes = d.fixes BY <1>1, <2>2 DEF Merged
    <3>2. PICK j \in 1..Len(w.fixes) : d.fixes = [w.fixes EXCEPT ![j].applied = FALSE] BY <1>5, <2>2
    <3>3. Regular(w.fixes) BY <1>3, <1>4
    <3>4. Regular([w.fixes EXCEPT ![j].applied = FALSE]) BY <3>3, SwitchedOffIsRegular
    <3> QED BY <3>1, <3>2, <3>4
  <2> QED BY <2>1, <2>2
<1> QED BY <1>6 DEF fix

\* What is pushed are files of fixes that are applied.
LEMMA AppliedIsPushed ==
  ASSUME NEW fixes, Regular(fixes), NEW file \in FilesOf(PatchOfFixes(fixes))
  PROVE  \E fix \in FilesOf(fixes) : fix.applied /\ ~fix.manual /\ file \in FilesOf(fix.files)
<1> DEFINE S == {fix \in FilesOf(fixes) : fix.applied /\ ~fix.manual /\ fix.files # <<>>}
           applied == Selected(fixes, S)
           N == Len(applied)
           patch == [i \in 1..N |-> applied[i].files[1]]
<1>1. PatchOfFixes(fixes) = patch BY DEF PatchOfFixes, AppliedIn
<1>2. S \subseteq FilesOf(fixes) /\ \A fix \in S : fix.applied /\ ~fix.manual /\ fix.files # <<>> OBVIOUS
<1> HIDE DEF S
<1>3. /\ N \in 0..Len(fixes)
      /\ \A n \in 1..N : \E i \in 1..Len(fixes) : fixes[i] \in S /\ applied[n] = fixes[i]
  <2>1. Len(fixes) \in Nat BY DEF Regular
  <2> QED BY <2>1, SelectedIsKept
<1> HIDE DEF applied, N
<1>4. N \in Nat BY <1>3 DEF Regular
<1>5. Len(patch) = N BY <1>4
<1>6. PICK n \in 1..N : file = applied[n].files[1] BY <1>1, <1>4, <1>5 DEF FilesOf
<1>7. PICK i \in 1..Len(fixes) : fixes[i] \in S /\ applied[n] = fixes[i] BY <1>3
<1>8. fixes[i].files # <<>> BY <1>2, <1>7
<1>9. 1 \in 1..Len(fixes[i].files) BY <1>8 DEF Regular
<1>10. file \in FilesOf(fixes[i].files) BY <1>6, <1>7, <1>9 DEF FilesOf
<1> QED BY <1>2, <1>7, <1>10

LEMMA AccessibilityLaw ==
  ASSUME NEW rec, NEW f, NEW i \in 1..4, Approved(rec, "accessibility", i, f),
         NEW k \in 1..Len(AccessibilityWrites(AccessibilitySteps[i], rec))
  PROVE  AccessibilityPolicy(rec, AccessibilityWrites(AccessibilitySteps[i], rec)[k])
<1> DEFINE fixes == EffectiveArtifact(rec, "fix").fixes
           patch == PatchOfFixes(fixes)
           remaining == rec.art["re-scan"].remaining
           waivers == EffectiveArtifact(rec, "re-scan").waivers
           branch == rec.art["re-scan"].branch
           what == [files |-> patch, remaining |-> remaining, waivers |-> waivers]
           call == AccessibilityWrites(AccessibilitySteps[i], rec)[k]
<1>1. i = 4
  <2>1. AccessibilitySteps[i] = "re-scan" BY DEF AccessibilityWrites
  <2> QED BY AccessibilityWalk, <2>1
<1>2. call.what = what
  <2>1. AccessibilityWrites(AccessibilitySteps[i], rec) = ApplyPatch(branch, patch, what)
    BY <1>1, AccessibilityWalk DEF AccessibilityWrites, FixesPullRequest
  <2>2. k \in 1..Len(ApplyPatch(branch, patch, what)) BY <2>1
  <2> HIDE DEF branch, patch, what
  <2> QED BY <2>1, <2>2, Pushes
<1> HIDE DEF call
<1>3. call.what.files = patch /\ call.what.waivers = waivers
  <2> HIDE DEF patch, remaining, waivers
  <2> QED BY <1>2
<1>4. GateFor(remaining, waivers) BY <1>1, CriticalsAreWaived
<1>5. Regular(fixes) BY <1>1, ApprovedFixesAreRegular, 4 \in 3..4
<1>6. \A file \in FilesOf(patch) :
        \E fix \in FilesOf(fixes) : fix.applied /\ ~fix.manual /\ file \in FilesOf(fix.files)
  <2> HIDE DEF fixes
  <2> QED BY <1>5, AppliedIsPushed
<1>7. AccessibilityPolicy(rec, call)
  <2> HIDE DEF patch
  <2> QED BY <1>3, <1>4, <1>6 DEF AccessibilityPolicy, GateFor
<1> QED BY <1>7 DEF call

-----------------------------------------------------------------------------
(* Vendors *)

LEMMA VendorsWalk ==
  /\ StepsOf("vendors") = VendorsSteps /\ Len(VendorsSteps) = 5
  /\ VendorsSteps[1] = "collect" /\ VendorsSteps[2] = "verify" /\ VendorsSteps[3] = "risk-score"
  /\ VendorsSteps[4] = "approve" /\ VendorsSteps[5] = "create"
  /\ "collect" \in Prior("vendors", 1 + 1) /\ "verify" \in Prior("vendors", 2 + 1)
  /\ {"collect", "verify"} \subseteq Prior("vendors", 3) /\ "risk-score" \in Prior("vendors", 4)
  /\ "approve" \in Prior("vendors", 4 + 1)
BY DEF StepsOf, VendorsSteps, Prior

\* No document is just missing and no failed check goes without a note.
LEMMA VendorsAreChecked ==
  ASSUME NEW rec, NEW f, Approved(rec, "vendors", 5, f)
  PROVE  CollectGate(rec) /\ VerifyGate(rec)
<1>1. PICK st, C : Shows(st, rec, "vendors", 1 + 1) /\ LaneGate("vendors", "collect", st, Looked(f, C))
  BY VendorsWalk, Gated, 1 \in 1..5
<1>2. PICK tt, D : Shows(tt, rec, "vendors", 2 + 1) /\ LaneGate("vendors", "verify", tt, Looked(f, D))
  BY VendorsWalk, Gated, 2 \in 1..5
<1>3. EffectiveArtifact(st, "collect") = EffectiveArtifact(rec, "collect")
  BY <1>1, VendorsWalk DEF Shows
<1>4. EffectiveArtifact(tt, "verify") = EffectiveArtifact(rec, "verify")
  BY <1>2, VendorsWalk DEF Shows
<1>5. CollectGate(st) /\ VerifyGate(tt) BY <1>1, <1>2 DEF LaneGate, VendorsGate
<1> QED BY <1>3, <1>4, <1>5 DEF CollectGate, VerifyGate

\* The signers asked for are those of the tier of the current risk.
LEMMA VendorsRisk ==
  ASSUME NEW rec, NEW f, Approved(rec, "vendors", 5, f)
  PROVE  EffectiveArtifact(rec, "risk-score").requiredSigners =
           ApproverMatrix[TierOf(RiskScore(EffectiveArtifact(rec, "collect"),
                                           EffectiveArtifact(rec, "verify")))]
<1> DEFINE risk == EffectiveArtifact(rec, "risk-score")
           collect == EffectiveArtifact(rec, "collect")
           verify == EffectiveArtifact(rec, "verify")
<1>1. NoDrafts("vendors", "risk-score") BY ReadOnlyStep DEF SurfaceOf, VendorsSurface, VendorRiskSurface
<1>2. PICK st, C, a : From(rec, "vendors", "risk-score", 3, f, st, C, a) /\ Restates(risk, a)
  BY <1>1, VendorsWalk, Unedited, 3 \in 1..5
<1>3. a \in ComputeRisk(st) BY <1>2 DEF From, Compute, VendorsCompute
<1>4. EffectiveArtifact(st, "collect") = collect /\ EffectiveArtifact(st, "verify") = verify
  BY <1>2, VendorsWalk DEF From, Shows
<1> HIDE DEF risk, collect, verify
<1>5. /\ "requiredSigners" \in DOMAIN a
      /\ a.requiredSigners = ApproverMatrix[TierOf(RiskScore(collect, verify))]
  BY <1>3, <1>4 DEF ComputeRisk, Unless
<1>6. risk.requiredSigners = a.requiredSigners BY <1>2, <1>5 DEF Restates
<1> QED BY <1>5, <1>6 DEF risk, collect, verify

\* A chain keeps its signers whoever has approved, and all of them have.
LEMMA VendorsAreSigned ==
  ASSUME NEW rec, NEW f, Approved(rec, "vendors", 5, f)
  PROVE  Approvers(EffectiveArtifact(rec, "approve").chain) =
           EffectiveArtifact(rec, "risk-score").requiredSigners
<1> DEFINE risk == EffectiveArtifact(rec, "risk-score")
           approve == EffectiveArtifact(rec, "approve")
<1>1. PICK st, C, a, w, draft :
        /\ From(rec, "vendors", "approve", 4, f, st, C, a) /\ Restates(w, a)
        /\ draft \in Drafts("vendors", "approve", w) /\ approve = Merged(draft, w)
  BY VendorsWalk, Edited, 4 \in 1..5
<1>2. a \in ComputeChain(st)
  BY <1>1 DEF From, Compute, VendorsCompute, StoredOr, Anew, KeptBy, ShownAgain
<1>3. EffectiveArtifact(st, "risk-score") = risk BY <1>1, VendorsWalk DEF From, Shows
<1>4. PICK tt, D : Shows(tt, rec, "vendors", 4 + 1) /\ LaneGate("vendors", "approve", tt, Looked(f, D))
  BY VendorsWalk, Gated, 4 \in 1..5
<1>5. EffectiveArtifact(tt, "approve") = approve BY <1>4, VendorsWalk DEF Shows
<1>6. Approvers(approve.chain) = DOMAIN approve.chain
  BY <1>4, <1>5 DEF LaneGate, VendorsGate, AssertChainApproved
<1> HIDE DEF risk, approve
<1>7. "chain" \in DOMAIN a /\ DOMAIN a.chain = risk.requiredSigners
  BY <1>2, <1>3 DEF ComputeChain, Unless
<1>8. "chain" \in DOMAIN w /\ w.chain = a.chain BY <1>1, <1>7 DEF Restates
<1>9. DOMAIN approve.chain = DOMAIN w.chain
  <2>1. CASE draft = NoEdits
    <3>1. approve.chain = w.chain BY <1>1, <1>8, <2>1 DEF Merged, NoEdits
    <3> QED BY <3>1
  <2>2. CASE draft # NoEdits
    <3>1. draft \in VendorApproveSurface(w).drafts
      BY <1>1, <2>2 DEF Drafts, SurfaceOf, VendorsSurface, ApiDrafts
    <3>2. VendorApproveView(w).chain = w.chain
      BY <1>8 DEF VendorApproveView, Parsed
    <3> DEFINE view == VendorApproveView(w)
               Signed(approvers) ==
                 [chain |-> [role \in DOMAIN view.chain |->
                               IF role \in approvers THEN "approved" ELSE "pending"],
                  allApproved |-> approvers = DOMAIN view.chain]
    <3>3. VendorApproveSurface(w) =
            Surface(view, {Signed({}), Signed({"procurement-lead"}), Signed(DOMAIN view.chain)})
      BY DEF VendorApproveSurface
    <3>4. \A x : "chain" \in DOMAIN Signed(x) /\ DOMAIN Signed(x).chain = DOMAIN view.chain
      OBVIOUS
    <3> HIDE DEF view, Signed
    <3>5. PICK x : draft = Signed(x) BY <3>1, <3>3 DEF Surface
    <3>6. "chain" \in DOMAIN draft /\ DOMAIN draft.chain = DOMAIN view.chain BY <3>4, <3>5
    <3>7. approve.chain = draft.chain BY <1>1, <3>6 DEF Merged
    <3> QED BY <3>2, <3>6, <3>7 DEF view
  <2> QED BY <2>1, <2>2
<1> QED BY <1>6, <1>7, <1>8, <1>9 DEF risk, approve

LEMMA VendorsLaw ==
  ASSUME NEW rec, NEW f, NEW i \in 1..5, Approved(rec, "vendors", i, f),
         NEW k \in 1..Len(VendorsWrites(VendorsSteps[i], rec))
  PROVE  VendorsPolicy(rec)
<1>1. i = 5
  <2>1. VendorsSteps[i] = "create" BY DEF VendorsWrites
  <2> QED BY VendorsWalk, <2>1
<1> QED BY <1>1, VendorsAreChecked, VendorsRisk, VendorsAreSigned DEF VendorsPolicy

-----------------------------------------------------------------------------
(* Onboarding *)

LEMMA OnboardingWalk ==
  /\ StepsOf("onboarding") = OnboardingSteps /\ Len(OnboardingSteps) = 5
  /\ OnboardingSteps[1] = "collect" /\ OnboardingSteps[2] = "verify" /\ OnboardingSteps[3] = "risk-score"
  /\ OnboardingSteps[4] = "approve" /\ OnboardingSteps[5] = "provision"
  /\ "collect" \in Prior("onboarding", 1 + 1) /\ "verify" \in Prior("onboarding", 2 + 1)
  /\ {"collect", "verify"} \subseteq Prior("onboarding", 3) /\ "risk-score" \in Prior("onboarding", 4)
  /\ "approve" \in Prior("onboarding", 4 + 1) /\ "collect" \in Prior("onboarding", 5)
BY DEF StepsOf, OnboardingSteps, Prior

\* No document is just missing and no failed check goes without a note.
LEMMA HiresAreChecked ==
  ASSUME NEW rec, NEW f, Approved(rec, "onboarding", 5, f)
  PROVE  HireCollectGate(rec) /\ HireVerifyGate(rec)
<1>1. PICK st, C : Shows(st, rec, "onboarding", 1 + 1) /\ LaneGate("onboarding", "collect", st, Looked(f, C))
  BY OnboardingWalk, Gated, 1 \in 1..5
<1>2. PICK tt, D : Shows(tt, rec, "onboarding", 2 + 1) /\ LaneGate("onboarding", "verify", tt, Looked(f, D))
  BY OnboardingWalk, Gated, 2 \in 1..5
<1>3. EffectiveArtifact(st, "collect") = EffectiveArtifact(rec, "collect")
  BY <1>1, OnboardingWalk DEF Shows
<1>4. EffectiveArtifact(tt, "verify") = EffectiveArtifact(rec, "verify")
  BY <1>2, OnboardingWalk DEF Shows
<1>5. HireCollectGate(st) /\ HireVerifyGate(tt) BY <1>1, <1>2 DEF LaneGate, OnboardingGate
<1> QED BY <1>3, <1>4, <1>5 DEF HireCollectGate, HireVerifyGate

\* The signers asked for are those of the tier of the current risk.
LEMMA HiresRisk ==
  ASSUME NEW rec, NEW f, Approved(rec, "onboarding", 5, f)
  PROVE  EffectiveArtifact(rec, "risk-score").requiredSigners =
           HireSigners[HireTierOf(HireRiskScore(EffectiveArtifact(rec, "collect"),
                                           EffectiveArtifact(rec, "verify")))]
<1> DEFINE risk == EffectiveArtifact(rec, "risk-score")
           collect == EffectiveArtifact(rec, "collect")
           verify == EffectiveArtifact(rec, "verify")
<1>1. NoDrafts("onboarding", "risk-score") BY ReadOnlyStep DEF SurfaceOf, OnboardingSurface, HireRiskSurface
<1>2. PICK st, C, a : From(rec, "onboarding", "risk-score", 3, f, st, C, a) /\ Restates(risk, a)
  BY <1>1, OnboardingWalk, Unedited, 3 \in 1..5
<1>3. a \in ComputeHireRisk(st) BY <1>2 DEF From, Compute, OnboardingCompute
<1>4. EffectiveArtifact(st, "collect") = collect /\ EffectiveArtifact(st, "verify") = verify
  BY <1>2, OnboardingWalk DEF From, Shows
<1> HIDE DEF risk, collect, verify
<1>5. /\ "requiredSigners" \in DOMAIN a
      /\ a.requiredSigners = HireSigners[HireTierOf(HireRiskScore(collect, verify))]
  BY <1>3, <1>4 DEF ComputeHireRisk, Unless
<1>6. risk.requiredSigners = a.requiredSigners BY <1>2, <1>5 DEF Restates
<1> QED BY <1>5, <1>6 DEF risk, collect, verify

\* A chain keeps its signers whoever has approved, and all of them have.
LEMMA HiresAreSigned ==
  ASSUME NEW rec, NEW f, Approved(rec, "onboarding", 5, f)
  PROVE  HireApprovers(EffectiveArtifact(rec, "approve").chain) =
           EffectiveArtifact(rec, "risk-score").requiredSigners
<1> DEFINE risk == EffectiveArtifact(rec, "risk-score")
           approve == EffectiveArtifact(rec, "approve")
<1>1. PICK st, C, a, w, draft :
        /\ From(rec, "onboarding", "approve", 4, f, st, C, a) /\ Restates(w, a)
        /\ draft \in Drafts("onboarding", "approve", w) /\ approve = Merged(draft, w)
  BY OnboardingWalk, Edited, 4 \in 1..5
<1>2. a \in ComputeHireChain(st)
  BY <1>1 DEF From, Compute, OnboardingCompute, StoredOr, Anew, KeptBy, ShownAgain
<1>3. EffectiveArtifact(st, "risk-score") = risk BY <1>1, OnboardingWalk DEF From, Shows
<1>4. PICK tt, D : Shows(tt, rec, "onboarding", 4 + 1) /\ LaneGate("onboarding", "approve", tt, Looked(f, D))
  BY OnboardingWalk, Gated, 4 \in 1..5
<1>5. EffectiveArtifact(tt, "approve") = approve BY <1>4, OnboardingWalk DEF Shows
<1>6. HireApprovers(approve.chain) = DOMAIN approve.chain
  BY <1>4, <1>5 DEF LaneGate, OnboardingGate, AssertHireApproved
<1> HIDE DEF risk, approve
<1>7. "chain" \in DOMAIN a /\ DOMAIN a.chain = risk.requiredSigners
  BY <1>2, <1>3 DEF ComputeHireChain, Unless
<1>8. "chain" \in DOMAIN w /\ w.chain = a.chain BY <1>1, <1>7 DEF Restates
<1>9. DOMAIN approve.chain = DOMAIN w.chain
  <2>1. CASE draft = NoEdits
    <3>1. approve.chain = w.chain BY <1>1, <1>8, <2>1 DEF Merged, NoEdits
    <3> QED BY <3>1
  <2>2. CASE draft # NoEdits
    <3>1. draft \in HireApproveSurface(w).drafts
      BY <1>1, <2>2 DEF Drafts, SurfaceOf, OnboardingSurface, ApiDrafts
    <3>2. HireApproveView(w).chain = w.chain
      BY <1>8 DEF HireApproveView, Parsed
    <3> DEFINE view == HireApproveView(w)
               Signed(approvers) ==
                 [chain |-> [role \in DOMAIN view.chain |->
                               IF role \in approvers THEN "approved" ELSE "pending"],
                  allApproved |-> approvers = DOMAIN view.chain]
    <3>3. HireApproveSurface(w) =
            Surface(view, {Signed({}), Signed({"people-partner"}), Signed(DOMAIN view.chain)})
      BY DEF HireApproveSurface
    <3>4. \A x : "chain" \in DOMAIN Signed(x) /\ DOMAIN Signed(x).chain = DOMAIN view.chain
      OBVIOUS
    <3> HIDE DEF view, Signed
    <3>5. PICK x : draft = Signed(x) BY <3>1, <3>3 DEF Surface
    <3>6. "chain" \in DOMAIN draft /\ DOMAIN draft.chain = DOMAIN view.chain BY <3>4, <3>5
    <3>7. approve.chain = draft.chain BY <1>1, <3>6 DEF Merged
    <3> QED BY <3>2, <3>6, <3>7 DEF view
  <2> QED BY <2>1, <2>2
<1> QED BY <1>6, <1>7, <1>8, <1>9 DEF risk, approve

\* Every fact about a hire says whether the hire is an engineer.
LEMMA HireAsks ==
  ASSUME NEW f \in OnboardingFacts
  PROVE  "engineering" \in DOMAIN f
<1> DEFINE Hire(access, manager, start, engineering, colleagues) ==
             [access |-> access, manager |-> manager, start |-> start,
              engineering |-> engineering, colleagues |-> colleagues]
<1>1. \A a, m, s, e, c : "engineering" \in DOMAIN Hire(a, m, s, e, c) OBVIOUS
<1>2. \E a, m, s, e, c : f = Hire(a, m, s, e, c)
  <2> HIDE DEF Hire
  <2> QED BY DEF OnboardingFacts, Hire
<1> HIDE DEF Hire
<1> QED BY <1>1, <1>2

\* The accounts are those of the access tier that was scored.
LEMMA HiresAreProvisioned ==
  ASSUME NEW rec, NEW f \in OnboardingFacts, Approved(rec, "onboarding", 5, f)
  PROVE  EffectiveArtifact(rec, "provision").accounts =
           ProvisionAccounts(EffectiveArtifact(rec, "collect").access, f.engineering)
<1> DEFINE collect == EffectiveArtifact(rec, "collect")
           provision == EffectiveArtifact(rec, "provision")
<1>1. NoDrafts("onboarding", "provision")
  BY ReadOnlyStep DEF SurfaceOf, OnboardingSurface, HireProvisionSurface
<1>2. PICK st, C, a : From(rec, "onboarding", "provision", 5, f, st, C, a) /\ Restates(provision, a)
  BY <1>1, OnboardingWalk, Unedited, 5 \in 1..5
<1>3. a \in ComputeProvision(st, Looked(f, C))
  BY <1>2 DEF From, Compute, OnboardingCompute, StoredOr, Anew, KeptBy, ShownAgain
<1>4. EffectiveArtifact(st, "collect") = collect BY <1>2, OnboardingWalk DEF From, Shows
<1>5. Looked(f, C).engineering = f.engineering
  <2>1. "engineering" \in DOMAIN f BY HireAsks
  <2> QED BY <2>1, LookedUp
<1> HIDE DEF collect, provision
<1>6. "accounts" \in DOMAIN a /\ a.accounts = ProvisionAccounts(collect.access, f.engineering)
  BY <1>3, <1>4, <1>5 DEF ComputeProvision, Unless
<1>7. provision.accounts = a.accounts BY <1>2, <1>6 DEF Restates
<1> QED BY <1>6, <1>7 DEF collect, provision

LEMMA OnboardingLaw ==
  ASSUME NEW rec, NEW f \in OnboardingFacts, NEW i \in 1..5, Approved(rec, "onboarding", i, f), NEW C,
         NEW k \in 1..Len(OnboardingWrites(OnboardingSteps[i], rec))
  PROVE  OnboardingPolicy(rec, OnboardingWrites(OnboardingSteps[i], rec)[k], Looked(f, C))
<1> DEFINE provision == EffectiveArtifact(rec, "provision")
           call == OnboardingWrites(OnboardingSteps[i], rec)[k]
<1>1. i = 5
  <2>1. OnboardingSteps[i] = "provision" BY DEF OnboardingWrites
  <2> QED BY OnboardingWalk, <2>1
<1>2. call.what.accounts = provision.accounts
  <2>1. OnboardingWrites(OnboardingSteps[i], rec) = <<ProvisionEmployee(provision)>>
    BY OnboardingWalk, <1>1 DEF OnboardingWrites
  <2> HIDE DEF provision
  <2> QED BY <2>1 DEF ProvisionEmployee, Call
<1>3. Looked(f, C).engineering = f.engineering
  <2>1. "engineering" \in DOMAIN f BY HireAsks
  <2> QED BY <2>1, LookedUp
<1> HIDE DEF call
<1>4. OnboardingPolicy(rec, call, Looked(f, C))
  BY <1>1, <1>2, <1>3, HiresAreChecked, HiresRisk, HiresAreSigned, HiresAreProvisioned DEF OnboardingPolicy
<1> QED BY <1>4 DEF call

-----------------------------------------------------------------------------
(* Offboarding *)

LEMMA OffboardingWalk ==
  /\ StepsOf("offboarding") = OffboardingSteps /\ Len(OffboardingSteps) = 5
  /\ OffboardingSteps[1] = "intake" /\ OffboardingSteps[2] = "access-audit"
  /\ OffboardingSteps[3] = "approve" /\ OffboardingSteps[4] = "revoke"
  /\ OffboardingSteps[5] = "attest"
  /\ "intake" \in Prior("offboarding", 2) /\ "access-audit" \in Prior("offboarding", 3)
  /\ "access-audit" \in Prior("offboarding", 4) /\ "approve" \in Prior("offboarding", 4 + 1)
  /\ "revoke" \in Prior("offboarding", 5) /\ "attest" \in Prior("offboarding", 5 + 1)
BY DEF StepsOf, OffboardingSteps, Prior

\* Every fact about a leaver says what is held and what fails.
LEMMA LeaverAsks ==
  ASSUME NEW f \in OffboardingFacts
  PROVE  {"access", "systems", "failing"} \subseteq DOMAIN f
<1> DEFINE Leaver(found, access, systems, failing, leaveOwed) ==
             [found |-> found, access |-> access, systems |-> systems, failing |-> failing,
              leaveOwed |-> leaveOwed]
<1>1. \A v, a, s, g, o : {"access", "systems", "failing"} \subseteq DOMAIN Leaver(v, a, s, g, o) OBVIOUS
<1>2. \E v, a, s, g, o : f = Leaver(v, a, s, g, o)
  <2> HIDE DEF Leaver
  <2> QED BY DEF OffboardingFacts, Leaver
<1> HIDE DEF Leaver
<1> QED BY <1>1, <1>2

LEMMA LeaverLooked ==
  ASSUME NEW f \in OffboardingFacts, NEW C
  PROVE  /\ Looked(f, C).access = f.access /\ Looked(f, C).systems = f.systems
         /\ Looked(f, C).failing = f.failing
BY LeaverAsks, LookedUp

\* The intake is what the directory says of the leaver.
LEMMA LeaverIsLookedUp ==
  ASSUME NEW rec, NEW f \in OffboardingFacts, NEW n \in {4, 5}, Approved(rec, "offboarding", n, f)
  PROVE  LET intake == EffectiveArtifact(rec, "intake") IN
         intake.access = f.access /\ intake.systems = f.systems
<1> DEFINE intake == EffectiveArtifact(rec, "intake")
<1>1. NoDrafts("offboarding", "intake")
  BY ReadOnlyStep DEF SurfaceOf, OffboardingSurface, OffboardingIntakeSurface
<1>2. PICK st, C, a : From(rec, "offboarding", "intake", 1, f, st, C, a) /\ Restates(intake, a)
  BY <1>1, OffboardingWalk, Unedited, 1 \in 1..n
<1>3. a \in ComputeLeaver(st, Looked(f, C)) BY <1>2 DEF From, Compute, OffboardingCompute
<1> HIDE DEF intake
<1>4. {"access", "systems"} \subseteq DOMAIN a /\ a.access = f.access /\ a.systems = f.systems
  <2> DEFINE known == Looked(f, C)
             access == known.access
             systems == known.systems
             bad == ~known.found
  <2>1. a \in Unless(bad, {[access |-> access, systems |-> systems, from |-> DerivedFrom(st, {})]})
    BY <1>3 DEF ComputeLeaver
  <2>2. access = f.access /\ systems = f.systems BY LeaverLooked
  <2> HIDE DEF access, systems, bad
  <2> QED BY <2>1, <2>2 DEF Unless
<1> QED BY <1>2, <1>4 DEF Restates, intake

\* The audit tiers every system of the intake.
LEMMA AuditIsOfTheSystems ==
  ASSUME NEW rec, NEW f \in OffboardingFacts, NEW n \in {4, 5}, Approved(rec, "offboarding", n, f)
  PROVE  LET entries == EffectiveArtifact(rec, "access-audit").entries IN
         /\ DOMAIN entries = f.systems
         /\ \A system \in f.systems :
              entries[system].blastRadius = BlastTierFor(BlastScoreFor(system, f.access))
<1> DEFINE intake == EffectiveArtifact(rec, "intake")
           audit == EffectiveArtifact(rec, "access-audit")
<1>1. NoDrafts("offboarding", "access-audit")
  BY ReadOnlyStep DEF SurfaceOf, OffboardingSurface, OffboardingAuditSurface
<1>2. PICK st, C, a : From(rec, "offboarding", "access-audit", 2, f, st, C, a) /\ Restates(audit, a)
  BY <1>1, OffboardingWalk, Unedited, 2 \in 1..n
<1>3. a \in ComputeAudit(st) BY <1>2 DEF From, Compute, OffboardingCompute
<1>4. EffectiveArtifact(st, "intake") = intake BY <1>2, OffboardingWalk DEF From, Shows
<1>5. intake.access = f.access /\ intake.systems = f.systems BY LeaverIsLookedUp
<1> HIDE DEF intake, audit
<1> DEFINE Score(system) == BlastScoreFor(system, intake.access)
           Entry(system) == [blastRadius |-> BlastTierFor(Score(system)), riskScore |-> Score(system),
                             reversibility |-> SystemProfile(system).reversibility]
           entries == [system \in intake.systems |-> Entry(system)]
<1>6. "entries" \in DOMAIN a /\ a.entries = entries
  <2> DEFINE Tier(systems, tier) == IF systems # {} THEN tier ELSE "low"
             risks == [risk \in AuditRisks |->
                         CASE risk = "high-blast" ->
                                Tier({s \in intake.systems : entries[s].blastRadius = "high"}, "high")
                           [] risk = "irreversible" ->
                                Tier({s \in intake.systems : entries[s].reversibility = "irreversible"}, "high")
                           [] OTHER -> Tier({s \in intake.systems : entries[s].blastRadius # "high"}, "medium")]
             access == intake.access
             marks == DerivedFrom(st, {"intake"})
             bad == ~HasArtifact(st, "intake")
             said == [access |-> access, entries |-> entries, risks |-> risks, from |-> marks]
  <2>1. ComputeAudit(st) = Unless(bad, {said}) BY <1>4 DEF ComputeAudit
  <2> HIDE DEF entries, risks, access, marks, bad
  <2>2. "entries" \in DOMAIN said /\ said.entries = entries OBVIOUS
  <2> HIDE DEF said
  <2> QED BY <1>3, <2>1, <2>2 DEF Unless
<1>7. audit.entries = entries
  <2> HIDE DEF entries
  <2> QED BY <1>2, <1>6 DEF Restates
<1>8. DOMAIN entries = intake.systems /\ \A system \in intake.systems :
        entries[system].blastRadius = BlastTierFor(Score(system))
  <2>1. \A system : Entry(system).blastRadius = BlastTierFor(Score(system)) OBVIOUS
  <2>2. \A system \in intake.systems : entries[system] = Entry(system)
    <3> HIDE DEF Entry
    <3> QED OBVIOUS
  <2>3. DOMAIN entries = intake.systems
    <3> HIDE DEF Entry
    <3> QED OBVIOUS
  <2> HIDE DEF entries, Entry, Score
  <2> QED BY <2>1, <2>2, <2>3
<1> HIDE DEF entries
<1> QED BY <1>5, <1>7, <1>8 DEF audit

\* What is revoked is what was audited.
LEMMA RevocationsAreAudited ==
  ASSUME NEW rec, NEW f \in OffboardingFacts, NEW n \in {4, 5}, Approved(rec, "offboarding", n, f)
  PROVE  DOMAIN EffectiveArtifact(rec, "revoke").actions = f.systems
<1> DEFINE entries == EffectiveArtifact(rec, "access-audit").entries
           revoke == EffectiveArtifact(rec, "revoke")
<1>1. NoDrafts("offboarding", "revoke")
  BY ReadOnlyStep DEF SurfaceOf, OffboardingSurface, OffboardingRevokeSurface
<1>2. PICK st, C, a : From(rec, "offboarding", "revoke", 4, f, st, C, a) /\ Restates(revoke, a)
  BY <1>1, OffboardingWalk, Unedited, 4 \in 1..n
<1>3. a \in ComputeRevokePlan(st)
  BY <1>2 DEF From, Compute, OffboardingCompute, StoredOr, Anew, KeptBy, ShownAgain
<1>4. EffectiveArtifact(st, "access-audit").entries = entries BY <1>2, OffboardingWalk DEF From, Shows
<1>5. DOMAIN entries = f.systems BY AuditIsOfTheSystems
<1> HIDE DEF entries, revoke
<1>6. "actions" \in DOMAIN a /\ DOMAIN a.actions = DOMAIN entries
  <2> DEFINE actions == [system \in DOMAIN entries |->
                           [blastRadius |-> entries[system].blastRadius, status |-> "pending"]]
             bad == ~HasArtifact(st, "access-audit")
             marks == DerivedFrom(st, {"access-audit"})
  <2>1. ComputeRevokePlan(st) = Unless(bad, {[actions |-> actions, from |-> marks]})
    BY <1>4 DEF ComputeRevokePlan
  <2>2. DOMAIN actions = DOMAIN entries OBVIOUS
  <2> HIDE DEF actions, bad, marks
  <2> QED BY <1>3, <2>1, <2>2 DEF Unless
<1> QED BY <1>2, <1>5, <1>6 DEF Restates, revoke

\* An item as a human decided on it.
DecidedItem(item, x, y) == [item EXCEPT !.approved = x, !.signed = y]

\* A high-blast system is to be approved by name, whatever was edited.
LEMMA HighBlastIsExplicit ==
  ASSUME NEW rec, NEW f \in OffboardingFacts, Approved(rec, "offboarding", 4, f)
  PROVE  LET items == EffectiveArtifact(rec, "approve").items IN
         /\ DOMAIN items = f.systems
         /\ \A system \in f.systems : BlastScoreFor(system, f.access) >= 55 => items[system].explicit
<1> DEFINE entries == EffectiveArtifact(rec, "access-audit").entries
           approve == EffectiveArtifact(rec, "approve")
<1>1. PICK st, C, a, w, d :
        /\ From(rec, "offboarding", "approve", 3, f, st, C, a) /\ Restates(w, a)
        /\ d \in Drafts("offboarding", "approve", w) /\ approve = Merged(d, w)
  BY OffboardingWalk, Edited, 3 \in 1..4
<1>2. a \in ComputeRevocationItems(st)
  BY <1>1 DEF From, Compute, OffboardingCompute, StoredOr, Anew, KeptBy, ShownAgain
<1>3. EffectiveArtifact(st, "access-audit").entries = entries BY <1>1, OffboardingWalk DEF From, Shows
<1>4. /\ DOMAIN entries = f.systems
      /\ \A system \in f.systems :
           entries[system].blastRadius = BlastTierFor(BlastScoreFor(system, f.access))
  BY AuditIsOfTheSystems
<1> HIDE DEF entries, approve
<1> DEFINE High(system) == entries[system].blastRadius = "high"
           Item(system) == [blastRadius |-> entries[system].blastRadius, explicit |-> High(system),
                            approved |-> ~High(system), signed |-> FALSE]
           items == [system \in DOMAIN entries |-> Item(system)]
<1>5. "items" \in DOMAIN a /\ a.items = items
  <2> DEFINE explicit == {system \in DOMAIN entries : High(system)}
             many == Cardinality(explicit)
             none == explicit = {}
             marks == DerivedFrom(st, {"access-audit"})
             bad == ~HasArtifact(st, "access-audit")
             said == [items |-> items, explicitRequired |-> many, allApproved |-> none, from |-> marks]
  <2>1. ComputeRevocationItems(st) = Unless(bad, {said}) BY <1>3 DEF ComputeRevocationItems
  <2> HIDE DEF items, many, none, marks, bad
  <2>2. "items" \in DOMAIN said /\ said.items = items OBVIOUS
  <2> HIDE DEF said
  <2> QED BY <1>2, <2>1, <2>2 DEF Unless
<1>6. "items" \in DOMAIN w /\ w.items = a.items
  <2> HIDE DEF items
  <2> QED BY <1>1, <1>5 DEF Restates
<1>7. /\ DOMAIN items = f.systems
      /\ \A system \in f.systems : /\ {"explicit", "approved", "signed"} \subseteq DOMAIN items[system]
                                   /\ items[system].explicit = High(system)
  <2> DEFINE explicit(system) == High(system)
  <2>1. \A system : /\ {"explicit", "approved", "signed"} \subseteq DOMAIN Item(system)
                    /\ Item(system).explicit = explicit(system)
    <3> DEFINE blast(system) == entries[system].blastRadius
               unapproved(system) == ~High(system)
    <3>1. \A system : Item(system) = [blastRadius |-> blast(system), explicit |-> explicit(system),
                                      approved |-> unapproved(system), signed |-> FALSE]
      OBVIOUS
    <3> HIDE DEF Item, explicit, blast, unapproved
    <3> QED BY <3>1
  <2> HIDE DEF Item
  <2>2. DOMAIN items = DOMAIN entries /\ \A system \in DOMAIN entries : items[system] = Item(system)
    OBVIOUS
  <2> HIDE DEF items, High
  <2> QED BY <1>4, <2>1, <2>2
<1>8. \/ "items" \notin DOMAIN d
      \/ /\ DOMAIN d.items = DOMAIN w.items
         /\ \A system \in DOMAIN w.items : \E x, y :
              d.items[system] = DecidedItem(w.items[system], x, y)
  <2> DEFINE view == OffboardingApproveView(w)
             Changed(system, approved, named) ==
               [view.items[system] EXCEPT !.approved = system \in approved,
                                          !.signed = named /\ view.items[system].explicit]
             Items(approved, named) == [system \in DOMAIN view.items |-> Changed(system, approved, named)]
             Whole(approved) == approved = DOMAIN view.items
             choices == SUBSET DOMAIN view.items
  <2>1. OffboardingApproveSurface(w) =
          Surface(view, {[items |-> Items(approved, named), allApproved |-> Whole(approved)]
                           : approved \in choices, named \in BOOLEAN})
    BY DEF OffboardingApproveSurface
  <2>2. view.items = w.items BY <1>6 DEF OffboardingApproveView, Parsed
  <2>3. \A approved, named :
          /\ DOMAIN Items(approved, named) = DOMAIN view.items
          /\ \A system \in DOMAIN view.items :
               Items(approved, named)[system] = Changed(system, approved, named)
    <3> HIDE DEF Changed, view
    <3> QED OBVIOUS
  <2>4. \A system, approved, named : \E x, y :
          Changed(system, approved, named) = DecidedItem(view.items[system], x, y)
    <3> HIDE DEF view
    <3> QED BY DEF DecidedItem
  <2> HIDE DEF Items, Whole, choices, view, Changed
  <2>5. d = NoEdits \/ \E approved, named :
          d = [items |-> Items(approved, named), allApproved |-> Whole(approved)]
    BY <1>1, <2>1 DEF Drafts, SurfaceOf, OffboardingSurface, ApiDrafts, Surface
  <2>6. CASE d = NoEdits BY <2>6 DEF NoEdits
  <2>7. CASE \E approved, named :
               d = [items |-> Items(approved, named), allApproved |-> Whole(approved)]
    <3>1. PICK approved, named : d = [items |-> Items(approved, named), allApproved |-> Whole(approved)]
      BY <2>7
    <3>2. d.items = Items(approved, named) BY <3>1
    <3>3. DOMAIN d.items = DOMAIN w.items BY <2>2, <2>3, <3>2
    <3>4. ASSUME NEW system \in DOMAIN w.items
          PROVE  \E x, y : d.items[system] = DecidedItem(w.items[system], x, y)
      <4>1. d.items[system] = Changed(system, approved, named) BY <2>2, <2>3, <3>2, <3>4
      <4>2. PICK x, y : Changed(system, approved, named) = DecidedItem(view.items[system], x, y) BY <2>4
      <4> QED BY <2>2, <4>1, <4>2
    <3> QED BY <3>3, <3>4
  <2> QED BY <2>5, <2>6, <2>7
<1>9. /\ DOMAIN approve.items = f.systems
      /\ \A system \in f.systems : approve.items[system].explicit = items[system].explicit
  <2>1. CASE "items" \notin DOMAIN d
    <3>1. approve.items = items BY <1>1, <1>5, <1>6, <2>1 DEF Merged
    <3> HIDE DEF items
    <3> QED BY <1>7, <3>1
  <2>2. CASE "items" \in DOMAIN d
    <3> HIDE DEF items, High
    <3>1. approve.items = d.items BY <1>1, <2>2 DEF Merged
    <3>2. w.items = items BY <1>5, <1>6
    <3>3. DOMAIN d.items = f.systems BY <1>7, <1>8, <2>2, <3>2
    <3>4. ASSUME NEW system \in f.systems
          PROVE  d.items[system].explicit = items[system].explicit
      <4>1. PICK x, y : d.items[system] = DecidedItem(items[system], x, y)
        BY <1>7, <1>8, <2>2, <3>2, <3>4
      <4> DEFINE item == items[system]
      <4> HIDE DEF item
      <4>2. DecidedItem(item, x, y).explicit = item.explicit
        <5>1. "explicit" \in DOMAIN item BY <1>7 DEF item
        <5> QED BY <5>1 DEF DecidedItem
      <4> QED BY <4>1, <4>2 DEF item
    <3> QED BY <3>1, <3>3, <3>4
  <2> QED BY <2>1, <2>2
<1>10. ASSUME NEW system \in f.systems, BlastScoreFor(system, f.access) >= 55
       PROVE  approve.items[system].explicit
  <2>1. BlastTierFor(BlastScoreFor(system, f.access)) = "high" BY <1>10 DEF BlastTierFor
  <2>2. High(system) BY <1>4, <2>1
  <2> HIDE DEF High, items
  <2>3. items[system].explicit = High(system) BY <1>7
  <2> QED BY <1>9, <2>2, <2>3
<1> QED BY <1>9, <1>10 DEF approve

\* Every item is signed off when the access goes.
LEMMA RevocationsAreSignedOff ==
  ASSUME NEW rec, NEW f, Approved(rec, "offboarding", 4, f)
  PROVE  LET items == EffectiveArtifact(rec, "approve").items IN
         \A system \in DOMAIN items : SignedOff(items[system])
<1> DEFINE approve == EffectiveArtifact(rec, "approve")
<1>1. PICK st, C : Shows(st, rec, "offboarding", 4 + 1) /\ LaneGate("offboarding", "revoke", st, Looked(f, C))
  BY OffboardingWalk, Gated, 4 \in 1..4
<1>2. EffectiveArtifact(st, "approve") = approve BY <1>1, OffboardingWalk DEF Shows
<1>3. AssertRevocationsApproved(st) BY <1>1 DEF LaneGate, OffboardingGate
<1> HIDE DEF approve
<1> QED BY <1>2, <1>3 DEF AssertRevocationsApproved, approve

\* A case closes over every revocation that failed.
LEMMA FailuresAreAcknowledged ==
  ASSUME NEW rec, NEW f \in OffboardingFacts, Approved(rec, "offboarding", 5, f)
  PROVE  f.failing \intersect f.systems \subseteq DOMAIN EffectiveArtifact(rec, "attest").acknowledgements
<1> DEFINE revoke == EffectiveArtifact(rec, "revoke")
           attest == EffectiveArtifact(rec, "attest")
<1>1. PICK st, C, a, w, d :
        /\ From(rec, "offboarding", "attest", 5, f, st, C, a) /\ Restates(w, a)
        /\ d \in Drafts("offboarding", "attest", w) /\ attest = Merged(d, w)
  BY OffboardingWalk, Edited, 5 \in 1..5
<1>2. a \in ComputeAttest(st, Looked(f, C))
  BY <1>1 DEF From, Compute, OffboardingCompute, StoredOr, Anew, KeptBy, ShownAgain
<1>3. EffectiveArtifact(st, "revoke") = revoke BY <1>1, OffboardingWalk DEF From, Shows
<1>4. st.eff["revoke"] # NoEffect BY <1>1 DEF From, Receipted
<1>5. DOMAIN revoke.actions = f.systems BY RevocationsAreAudited
<1>6. PICK st2, D : Shows(st2, rec, "offboarding", 5 + 1) /\ LaneGate("offboarding", "attest", st2, Looked(f, D))
  BY OffboardingWalk, Gated, 5 \in 1..5
<1>7. EffectiveArtifact(st2, "attest") = attest BY <1>6, OffboardingWalk DEF Shows
<1>8. AssertFailuresAcknowledged(st2) BY <1>6 DEF LaneGate, OffboardingGate
<1> HIDE DEF revoke, attest
<1>9. attest.failed \subseteq DOMAIN attest.acknowledgements
  BY <1>7, <1>8 DEF AssertFailuresAcknowledged
<1>10. "failed" \in DOMAIN a /\ a.failed = f.systems \intersect f.failing
  <2> DEFINE known == Looked(f, C)
             receipt == RevokeReceiptOf(st, known)
             Ready(yes) == IF yes THEN "ready" ELSE "pending"
             finalPay == [item \in FinalPayItems |->
                            CASE item = "access-revocation" -> Ready(receipt.failed = {})
                              [] item = "leave-balance" -> Ready(~known.leaveOwed)
                              [] item = "equipment-return" -> Ready(FALSE)]
             equipment == [item \in EquipmentIds |-> "outstanding"]
             revoked == receipt.revoked
             failed == receipt.failed
             existing == "offboarding-case" \in known.carried
             marks == DerivedFrom(st, {"intake", "revoke"})
             bad == ~HasArtifact(st, "intake")
             said == [finalPay |-> finalPay, equipment |-> equipment, revoked |-> revoked,
                      failed |-> failed, acknowledgements |-> << >>, existing |-> existing,
                      from |-> marks]
  <2>1. ComputeAttest(st, known) = Unless(bad, {said}) BY DEF ComputeAttest
  <2>2. failed = f.systems \intersect f.failing
    <3> DEFINE planned == DOMAIN revoke.actions
               gone == planned \ known.failing
               missed == planned \intersect known.failing
    <3>1. receipt = [revoked |-> gone, failed |-> missed] BY <1>3, <1>4 DEF RevokeReceiptOf
    <3> HIDE DEF gone, missed, receipt
    <3>2. failed = missed BY <3>1
    <3>3. known.failing = f.failing BY LeaverLooked
    <3> QED BY <1>5, <3>2, <3>3 DEF missed
  <2>3. a \in ComputeAttest(st, known) BY <1>2
  <2> HIDE DEF known, finalPay, equipment, revoked, failed, existing, marks, bad
  <2>4. "failed" \in DOMAIN said /\ said.failed = failed OBVIOUS
  <2> HIDE DEF said
  <2> QED BY <2>1, <2>2, <2>3, <2>4 DEF Unless
<1>11. "failed" \in DOMAIN w /\ w.failed = a.failed BY <1>1, <1>10 DEF Restates
<1>12. DOMAIN d \subseteq {"acknowledgements"}
  <2> DEFINE view == OffboardingAttestView(w)
             Notes(written) == [system \in view.failed |-> system \in written]
             choices == SUBSET view.failed
  <2>1. OffboardingAttestSurface(w) =
          Surface(view, {[acknowledgements |-> Notes(written)] : written \in choices})
    BY DEF OffboardingAttestSurface
  <2> HIDE DEF view, Notes, choices
  <2>2. d = NoEdits \/ \E written \in choices : d = [acknowledgements |-> Notes(written)]
    BY <1>1, <2>1 DEF Drafts, SurfaceOf, OffboardingSurface, ApiDrafts, Surface
  <2> QED BY <2>2 DEF NoEdits
<1>13. attest.failed = a.failed BY <1>1, <1>11, <1>12 DEF Merged
<1> QED BY <1>9, <1>10, <1>13 DEF attest

\* Each call of a revocation is to a system of the plan.
LEMMA RevokesThePlan ==
  ASSUME NEW plan, NEW known, NEW k \in 1..Len(ExecuteRevocations(plan, known))
  PROVE  ExecuteRevocations(plan, known)[k].sys \in DOMAIN plan.actions
<1> DEFINE asked == DOMAIN plan.actions \ known.failing
           To(system) == Call(system, "employee", TRUE, "revoked")
           S == {To(system) : system \in asked}
           Revoke(i) == IF LeaverSystems[i] \in asked THEN <<To(LeaverSystems[i])>> ELSE <<>>
           calls == Revoke(1) \o Revoke(2) \o Revoke(3) \o Revoke(4) \o Revoke(5)
<1>1. ExecuteRevocations(plan, known) = calls BY DEF ExecuteRevocations
<1>2. \A system : To(system).sys = system BY DEF Call
<1>3. asked \subseteq DOMAIN plan.actions OBVIOUS
<1> HIDE DEF asked, To
<1>4. ASSUME NEW i
      PROVE  Revoke(i) \in Seq(S)
  <2>1. CASE LeaverSystems[i] \in asked
    <3>1. To(LeaverSystems[i]) \in S BY <2>1
    <3>2. Revoke(i) = <<To(LeaverSystems[i])>> BY <2>1
    <3> HIDE DEF S, Revoke
    <3> QED BY <3>1, <3>2
  <2>2. CASE LeaverSystems[i] \notin asked
    <3>1. Revoke(i) = <<>> BY <2>2
    <3> HIDE DEF S, Revoke
    <3> QED BY <3>1
  <2> QED BY <2>1, <2>2
<1>5. \A c \in S : c.sys \in asked BY <1>2
<1> HIDE DEF S, Revoke
<1>6. calls \in Seq(S)
  <2>1. Revoke(1) \o Revoke(2) \in Seq(S) BY <1>4
  <2>2. Revoke(1) \o Revoke(2) \o Revoke(3) \in Seq(S) BY <1>4, <2>1
  <2>3. Revoke(1) \o Revoke(2) \o Revoke(3) \o Revoke(4) \in Seq(S) BY <1>4, <2>2
  <2> QED BY <1>4, <2>3
<1> HIDE DEF calls
<1>7. calls[k] \in S BY <1>1, <1>6
<1> QED BY <1>1, <1>3, <1>5, <1>7

LEMMA OffboardingLaw ==
  ASSUME NEW rec, NEW f \in OffboardingFacts, NEW i \in 1..5, Approved(rec, "offboarding", i, f), NEW C,
         NEW k \in 1..Len(OffboardingWrites(OffboardingSteps[i], rec, Looked(f, C)))
  PROVE  OffboardingPolicy(OffboardingSteps[i], rec,
                           OffboardingWrites(OffboardingSteps[i], rec, Looked(f, C))[k], Looked(f, C))
<1> DEFINE items == EffectiveArtifact(rec, "approve").items
           revoke == EffectiveArtifact(rec, "revoke")
           attest == EffectiveArtifact(rec, "attest")
           known == Looked(f, C)
           calls == OffboardingWrites(OffboardingSteps[i], rec, known)
           call == calls[k]
<1>1. i = 4 \/ i = 5
  <2>1. OffboardingSteps[i] \in {"revoke", "attest"} BY DEF OffboardingWrites
  <2> QED BY OffboardingWalk, <2>1
<1>2. known.access = f.access /\ known.systems = f.systems /\ known.failing = f.failing BY LeaverLooked
<1>3. CASE i = 4
  <2>1. calls = ExecuteRevocations(revoke, known) BY <1>3, OffboardingWalk DEF OffboardingWrites
  <2>2. call.sys \in DOMAIN revoke.actions
    <3>1. k \in 1..Len(ExecuteRevocations(revoke, known)) BY <2>1
    <3> HIDE DEF revoke, known, calls
    <3> QED BY <2>1, <3>1, RevokesThePlan
  <2>3. Approved(rec, "offboarding", 4, f) BY <1>3
  <2>4. DOMAIN revoke.actions = f.systems BY <2>3, RevocationsAreAudited
  <2>5. /\ DOMAIN items = f.systems
        /\ \A system \in f.systems : BlastScoreFor(system, f.access) >= 55 => items[system].explicit
    BY <2>3, HighBlastIsExplicit
  <2>6. \A system \in DOMAIN items : SignedOff(items[system]) BY <2>3, RevocationsAreSignedOff
  <2> HIDE DEF items, revoke, known, call
  <2>7. SignedOff(items[call.sys]) BY <2>2, <2>4, <2>5, <2>6
  <2> DEFINE high == BlastScoreFor(call.sys, f.access) >= 55
  <2>8. items[call.sys].approved /\ (high => items[call.sys].signed)
    BY <2>2, <2>4, <2>5, <2>7 DEF SignedOff
  <2>9. OffboardingSteps[i] = "revoke" BY <1>3, OffboardingWalk
  <2> QED BY <1>2, <2>8, <2>9 DEF OffboardingPolicy, items, call, known
<1>4. CASE i = 5
  <2>1. f.failing \intersect f.systems \subseteq DOMAIN attest.acknowledgements
    BY <1>4, FailuresAreAcknowledged
  <2>2. OffboardingSteps[i] = "attest" BY <1>4, OffboardingWalk
  <2> HIDE DEF call, known
  <2> QED BY <1>2, <2>1, <2>2 DEF OffboardingPolicy, known, call
<1> QED BY <1>1, <1>3, <1>4

-----------------------------------------------------------------------------
(* Screening *)

LEMMA ScreeningWalk ==
  /\ StepsOf("screening") = ScreeningSteps /\ Len(ScreeningSteps) = 4
  /\ ScreeningSteps[1] = "requisition" /\ ScreeningSteps[2] = "screen"
  /\ ScreeningSteps[3] = "shortlist" /\ ScreeningSteps[4] = "schedule"
  /\ "screen" \in Prior("screening", 3) /\ "shortlist" \in Prior("screening", 4)
  /\ "shortlist" \in Prior("screening", 3 + 1)
BY DEF StepsOf, ScreeningSteps, Prior

\* The shortlist is ready in the record.
LEMMA ShortlistIsReady ==
  ASSUME NEW rec, NEW f, Approved(rec, "screening", 4, f)
  PROVE  AssertShortlistReady(rec)
<1>1. PICK st, C : Shows(st, rec, "screening", 3 + 1) /\ LaneGate("screening", "shortlist", st, Looked(f, C))
  BY ScreeningWalk, Gated, 3 \in 1..4
<1>2. /\ EffectiveArtifact(st, "shortlist") = EffectiveArtifact(rec, "shortlist")
      /\ HasArtifact(st, "shortlist") = HasArtifact(rec, "shortlist")
  BY <1>1, ScreeningWalk DEF Shows
<1>3. AssertShortlistReady(st) BY <1>1 DEF LaneGate, ScreeningGate
<1> QED BY <1>2, <1>3 DEF AssertShortlistReady

\* Whoever is planned for is included.
LEMMA PlannedAreIncluded ==
  ASSUME NEW rec, NEW f, Approved(rec, "screening", 4, f)
  PROVE  DOMAIN EffectiveArtifact(rec, "schedule").invites =
           Included(EffectiveArtifact(rec, "shortlist").entries)
<1> DEFINE shortlist == EffectiveArtifact(rec, "shortlist")
           schedule == EffectiveArtifact(rec, "schedule")
<1>1. NoDrafts("screening", "schedule")
  BY ReadOnlyStep DEF SurfaceOf, ScreeningSurface, ScreeningScheduleSurface
<1>2. PICK st, C, a : From(rec, "screening", "schedule", 4, f, st, C, a) /\ Restates(schedule, a)
  BY <1>1, ScreeningWalk, Unedited, 4 \in 1..4
<1>3. a \in ComputeSchedulePlan(st)
  BY <1>2 DEF From, Compute, ScreeningCompute, StoredOr, Anew, KeptBy, ShownAgain
<1>4. EffectiveArtifact(st, "shortlist") = shortlist BY <1>2, ScreeningWalk DEF From, Shows
<1>5. "invites" \in DOMAIN a /\ DOMAIN a.invites = Included(EffectiveArtifact(st, "shortlist").entries)
  <2> DEFINE included == Included(EffectiveArtifact(st, "shortlist").entries)
             interviewers == EffectiveArtifact(st, "requisition").interviewers
             planned == Selected(Candidates, included)
             Place(c) == CHOOSE i \in 1..Len(planned) : planned[i] = c
             invites == [c \in included |->
                           [slot |-> Place(c), interviewer |-> 1 + ((Place(c) - 1) % interviewers)]]
             marks == DerivedFrom(st, {"requisition", "shortlist"})
             bad == \/ ~HasArtifact(st, "shortlist") \/ ~HasArtifact(st, "requisition")
                    \/ included = {}
  <2>1. ComputeSchedulePlan(st) = Unless(bad, {[invites |-> invites, from |-> marks]})
    BY DEF ComputeSchedulePlan
  <2>2. DOMAIN invites = included OBVIOUS
  <2> HIDE DEF invites, marks, bad, included
  <2>3. "invites" \in DOMAIN a /\ a.invites = invites BY <1>3, <2>1 DEF Unless
  <2> QED BY <2>2, <2>3 DEF included
<1> HIDE DEF shortlist, schedule
<1>6. schedule.invites = a.invites BY <1>2, <1>5 DEF Restates
<1> QED BY <1>4, <1>5, <1>6 DEF shortlist, schedule

\* Nobody but a human includes whom the screening excluded.
LEMMA ExclusionsStand ==
  ASSUME NEW rec, NEW f, Approved(rec, "screening", 4, f), rec.dec["shortlist"].action # "edit",
         NEW c \in Included(EffectiveArtifact(rec, "shortlist").entries)
  PROVE  ShortlistEntryFor(EffectiveArtifact(rec, "screen").candidates[c]).decision = "include"
<1> DEFINE shortlist == EffectiveArtifact(rec, "shortlist")
           candidates == EffectiveArtifact(rec, "screen").candidates
<1>1. PICK st, C, a : From(rec, "screening", "shortlist", 3, f, st, C, a) /\ Restates(shortlist, a)
  BY ScreeningWalk, AsComputed, 3 \in 1..4
<1>2. a \in ComputeShortlist(st)
  BY <1>1 DEF From, Compute, ScreeningCompute, StoredOr, Anew, KeptBy, ShownAgain
<1>3. EffectiveArtifact(st, "screen").candidates = candidates BY <1>1, ScreeningWalk DEF From, Shows
<1>4. c \in DOMAIN shortlist.entries /\ shortlist.entries[c].decision = "include" BY DEF Included
<1> HIDE DEF shortlist, candidates
<1> DEFINE entries == [d \in DOMAIN candidates |-> ShortlistEntryFor(candidates[d])]
<1>5. a = WithField(Counted(entries), "from", DerivedFrom(st, {"screen"}))
  BY <1>2, <1>3 DEF ComputeShortlist, Unless
<1>6. "entries" \in DOMAIN a /\ a.entries = entries
  <2> HIDE DEF entries
  <2> QED BY <1>5 DEF WithField, Counted
<1>7. shortlist.entries = entries
  <2> HIDE DEF entries
  <2> QED BY <1>1, <1>6 DEF Restates
<1>8. c \in DOMAIN entries /\ entries[c].decision = "include" BY <1>4, <1>7
<1> QED BY <1>8 DEF candidates

LEMMA ScreeningLaw ==
  ASSUME NEW rec, NEW f, NEW i \in 1..4, Approved(rec, "screening", i, f), NEW known,
         NEW k \in 1..Len(ScreeningWrites(ScreeningSteps[i], rec, known))
  PROVE  ScreeningPolicy(rec, ScreeningWrites(ScreeningSteps[i], rec, known)[k])
<1> DEFINE plan == EffectiveArtifact(rec, "schedule")
           calls == ScreeningWrites(ScreeningSteps[i], rec, known)
           call == calls[k]
<1>1. i = 4
  <2>1. ScreeningSteps[i] = "schedule" BY DEF ScreeningWrites
  <2> QED BY ScreeningWalk, <2>1
<1>2. call.key \in DOMAIN plan.invites
  <2> DEFINE asked == DOMAIN plan.invites \ known.failing
             Invited(c) == Call("ats", c, TRUE, plan.invites[c])
             Invite(c) == IF c \in asked THEN <<Invited(c)>> ELSE <<>>
             x == Invited(Candidates[1])
             y == Invited(Candidates[2])
             one == Invite(Candidates[1])
             two == Invite(Candidates[2])
  <2>1. calls = one \o two
    BY ScreeningWalk, <1>1 DEF ScreeningWrites, ExecuteSchedule
  <2>2. x.key = Candidates[1] /\ y.key = Candidates[2] BY DEF Call
  <2> HIDE DEF plan, calls, Invited
  <2>3. /\ one \in {<<>>, <<x>>} /\ two \in {<<>>, <<y>>}
        /\ one # <<>> => Candidates[1] \in asked
        /\ two # <<>> => Candidates[2] \in asked
    OBVIOUS
  <2> HIDE DEF x, y, one, two, Invite
  <2>4. k \in 1..Len(one \o two) BY <2>1 DEF calls
  <2>5. (one = <<x>> /\ (one \o two)[k] = x) \/ (two = <<y>> /\ (one \o two)[k] = y)
    BY <2>3, <2>4, JoinedHolds
  <2>6. <<x>> # <<>> /\ <<y>> # <<>> OBVIOUS
  <2>7. calls[k].key \in asked BY <2>1, <2>2, <2>3, <2>5, <2>6
  <2> QED BY <2>7
<1>3. call.key \in Included(EffectiveArtifact(rec, "shortlist").entries)
  BY <1>1, <1>2, PlannedAreIncluded
<1>4. AssertShortlistReady(rec) BY <1>1, ShortlistIsReady
<1> HIDE DEF call
<1> DEFINE screened == EffectiveArtifact(rec, "screen").candidates[call.key]
<1>5. ShortlistEntryFor(screened).decision = "exclude" => rec.dec["shortlist"].action = "edit"
  BY <1>1, <1>3, ExclusionsStand
<1> HIDE DEF screened
<1>6. ScreeningPolicy(rec, call) BY <1>3, <1>4, <1>5 DEF ScreeningPolicy, screened
<1> QED BY <1>6 DEF call

-----------------------------------------------------------------------------
(* Leave *)

LEMMA LeaveWalk ==
  /\ StepsOf("leave") = LeaveSteps /\ Len(LeaveSteps) = 4
  /\ LeaveSteps[1] = "intake" /\ LeaveSteps[2] = "policy-check"
  /\ LeaveSteps[3] = "approve" /\ LeaveSteps[4] = "apply"
  /\ "intake" \in Prior("leave", 2)
  /\ "policy-check" \in Prior("leave", 3) /\ "policy-check" \in Prior("leave", 4)
BY DEF StepsOf, LeaveSteps, Prior

\* No step of the lane takes a draft.
LEMMA LeaveTakesNoEdits ==
  ASSUME NEW s \in {"intake", "policy-check", "approve", "apply"}
  PROVE  NoDrafts("leave", s)
<1>1. CASE s = "intake" BY <1>1, ReadOnlyStep DEF SurfaceOf, LeaveSurface, LeaveIntakeSurface
<1>2. CASE s = "policy-check" BY <1>2, ReadOnlyStep DEF SurfaceOf, LeaveSurface, LeavePolicySurface
<1>3. CASE s = "approve" BY <1>3, ReadOnlyStep DEF SurfaceOf, LeaveSurface, LeaveApproveSurface
<1>4. CASE s = "apply" BY <1>4, ReadOnlyStep DEF SurfaceOf, LeaveSurface, LeaveApplySurface
<1> QED BY <1>1, <1>2, <1>3, <1>4

\* The verdict asks for an exception exactly when a check that needs one did not pass.
LEMMA LeaveVerdict ==
  ASSUME NEW rec, NEW f, Approved(rec, "leave", 4, f)
  PROVE  LET policy == EffectiveArtifact(rec, "policy-check") IN
         (policy.verdict = "exception_required") =
           (policy.checks["balance"] = "fail" \/ policy.checks["blackout"] = "flag")
<1> DEFINE policy == EffectiveArtifact(rec, "policy-check")
<1>1. PICK st, C, a : From(rec, "leave", "policy-check", 2, f, st, C, a) /\ Restates(policy, a)
  BY LeaveTakesNoEdits, LeaveWalk, Unedited, 2 \in 1..4
<1>2. a \in ComputePolicy(st, Looked(f, C)) BY <1>1 DEF From, Compute, LeaveCompute
<1>3. policy.balanceAfter \in Int
  <2>1. Contract("leave", "policy-check", policy) BY LeaveWalk, Contracted, 2 \in 1..4
  <2>2. Fields(policy) \in LeavePolicyArtifact BY <2>1 DEF Contract, Conforms, LeaveContract
  <2> HIDE DEF policy
  <2>3. Fields(policy).balanceAfter \in Int /\ "balanceAfter" \in DOMAIN Fields(policy)
    BY <2>2 DEF LeavePolicyArtifact
  <2> QED BY <2>3 DEF Fields
<1> HIDE DEF policy
<1>4. PICK blackout \in BOOLEAN :
        /\ {"balanceAfter", "checks", "verdict"} \subseteq DOMAIN a
        /\ a.checks["balance"] = IF a.balanceAfter >= 0 THEN "pass" ELSE "fail"
        /\ a.checks["blackout"] = IF ~blackout THEN "pass" ELSE "flag"
        /\ a.verdict = IF a.balanceAfter < 0 \/ blackout THEN "exception_required" ELSE "ok"
  <2> DEFINE intake == EffectiveArtifact(st, "intake")
             workingDays == WorkingDaysBetween(intake.range)
             balanceAfter == intake.balanceDays - workingDays
             overlaps == {booked \in LeaveBookings(Looked(f, C)) : Meets(booked, intake.range)}
             blackout == \E period \in BlackoutPeriods : Meets(period, intake.range)
             Check(good, otherwise) == IF good THEN "pass" ELSE otherwise
             checks == [check \in PolicyChecks |->
                          CASE check = "balance" -> Check(balanceAfter >= 0, "fail")
                            [] check = "coverage" -> Check(overlaps = {}, "flag")
                            [] check = "blackout" -> Check(~blackout, "flag")
                            [] check = "notice" -> Check(intake.range.from - Today >= NoticeDays, "flag")]
             verdict == IF balanceAfter < 0 \/ blackout THEN "exception_required" ELSE "ok"
             marks == DerivedFrom(st, {"intake"})
             bad == ~HasArtifact(st, "intake") \/ RangeThrows(intake.range) \/ workingDays < 1
  <2>1. ComputePolicy(st, Looked(f, C)) =
          Unless(bad, {[range |-> intake.range, workingDays |-> workingDays,
            balanceBefore |-> intake.balanceDays, balanceAfter |-> balanceAfter, checks |-> checks,
            overlaps |-> overlaps, verdict |-> verdict, from |-> marks]})
    BY DEF ComputePolicy
  <2>2. /\ checks["balance"] = IF balanceAfter >= 0 THEN "pass" ELSE "fail"
        /\ checks["blackout"] = IF ~blackout THEN "pass" ELSE "flag"
    BY DEF PolicyChecks
  <2>3. blackout \in BOOLEAN OBVIOUS
  <2> HIDE DEF checks, overlaps, marks, bad, balanceAfter, workingDays, blackout
  <2>4. /\ {"balanceAfter", "checks", "verdict"} \subseteq DOMAIN a
        /\ a.balanceAfter = balanceAfter /\ a.checks = checks /\ a.verdict = verdict
    BY <1>2, <2>1 DEF Unless
  <2> QED BY <2>2, <2>3, <2>4
<1>5. policy.checks = a.checks /\ policy.verdict = a.verdict /\ policy.balanceAfter = a.balanceAfter
  BY <1>1, <1>4 DEF Restates
<1>6. (policy.verdict = "exception_required") <=>
        (policy.checks["balance"] = "fail" \/ policy.checks["blackout"] = "flag")
  BY <1>3, <1>4, <1>5
<1> QED BY <1>6 DEF policy

\* The approver is told what the policy step found.
LEMMA LeaveApproverIsTold ==
  ASSUME NEW rec, NEW f, Approved(rec, "leave", 4, f)
  PROVE  LET policy == EffectiveArtifact(rec, "policy-check")
             approve == EffectiveArtifact(rec, "approve") IN
         /\ approve.workingDays = policy.workingDays
         /\ approve.exception = (policy.verdict = "exception_required")
<1> DEFINE policy == EffectiveArtifact(rec, "policy-check")
           approve == EffectiveArtifact(rec, "approve")
<1>1. PICK st, C, a : From(rec, "leave", "approve", 3, f, st, C, a) /\ Restates(approve, a)
  BY LeaveTakesNoEdits, LeaveWalk, Unedited, 3 \in 1..4
<1>2. a \in ComputeLeaveApprove(st, Looked(f, C))
  BY <1>1 DEF From, Compute, LeaveCompute, StoredOr, Anew, KeptBy, ShownAgain
<1>3. EffectiveArtifact(st, "policy-check") = policy BY <1>1, LeaveWalk DEF From, Shows
<1> HIDE DEF policy, approve
<1>4. /\ "workingDays" \in DOMAIN a /\ "exception" \in DOMAIN a
      /\ a.workingDays = policy.workingDays
      /\ a.exception = (policy.verdict = "exception_required")
  BY <1>2, <1>3 DEF ComputeLeaveApprove, Unless
<1>5. approve.workingDays = a.workingDays /\ approve.exception = a.exception
  BY <1>1, <1>4 DEF Restates
<1> QED BY <1>4, <1>5 DEF policy, approve

\* What is booked is what the policy was checked for.
LEMMA LeaveBooks ==
  ASSUME NEW rec, NEW f, Approved(rec, "leave", 4, f)
  PROVE  EffectiveArtifact(rec, "apply").request = LeaveEntry(EffectiveArtifact(rec, "policy-check"))
<1> DEFINE policy == EffectiveArtifact(rec, "policy-check")
           apply == EffectiveArtifact(rec, "apply")
<1>1. PICK st, C, a : From(rec, "leave", "apply", 4, f, st, C, a) /\ Restates(apply, a)
  BY LeaveTakesNoEdits, LeaveWalk, Unedited, 4 \in 1..4
<1>2. a \in ComputeLeaveApply(st, Looked(f, C))
  BY <1>1 DEF From, Compute, LeaveCompute, StoredOr, Anew, KeptBy, ShownAgain
<1>3. EffectiveArtifact(st, "policy-check") = policy BY <1>1, LeaveWalk DEF From, Shows
<1> HIDE DEF policy, apply
<1>4. "request" \in DOMAIN a /\ a.request = LeaveEntry(policy)
  BY <1>2, <1>3 DEF ComputeLeaveApply, Unless
<1>5. apply.request = a.request BY <1>1, <1>4 DEF Restates
<1> QED BY <1>4, <1>5 DEF policy, apply

LEMMA LeaveLaw ==
  ASSUME NEW rec, NEW f, NEW i \in 1..4, Approved(rec, "leave", i, f),
         NEW k \in 1..Len(LeaveWrites(LeaveSteps[i], rec))
  PROVE  LeavePolicy(rec, LeaveWrites(LeaveSteps[i], rec)[k])
<1> DEFINE policy == EffectiveArtifact(rec, "policy-check")
           approve == EffectiveArtifact(rec, "approve")
           apply == EffectiveArtifact(rec, "apply")
           call == LeaveWrites(LeaveSteps[i], rec)[k]
<1>1. i = 4
  <2>1. LeaveSteps[i] = "apply" BY DEF LeaveWrites
  <2> QED BY LeaveWalk, <2>1
<1>2. call.what = apply.request
  <2>1. LeaveWrites(LeaveSteps[i], rec) = BookLeave(apply) BY LeaveWalk, <1>1 DEF LeaveWrites
  <2> HIDE DEF apply
  <2> QED BY <2>1 DEF BookLeave, Call
<1>3. apply.request = LeaveEntry(policy) BY <1>1, LeaveBooks
<1>4. /\ approve.workingDays = policy.workingDays
      /\ approve.exception = (policy.verdict = "exception_required")
  BY <1>1, LeaveApproverIsTold
<1>5. (policy.verdict = "exception_required") =
        (policy.checks["balance"] = "fail" \/ policy.checks["blackout"] = "flag")
  BY <1>1, LeaveVerdict
<1> HIDE DEF call, apply
<1>6. call.what.workingDays = policy.workingDays
  <2> HIDE DEF policy
  <2> QED BY <1>2, <1>3 DEF LeaveEntry
<1>7. LeavePolicy(rec, call) BY <1>2, <1>3, <1>4, <1>5, <1>6 DEF LeavePolicy
<1> QED BY <1>7 DEF call

-----------------------------------------------------------------------------
(* HR help *)

LEMMA HrHelpWalk ==
  /\ StepsOf("hr-help") = HrHelpSteps /\ Len(HrHelpSteps) = 5
  /\ HrHelpSteps[1] = "intake" /\ HrHelpSteps[2] = "retrieve" /\ HrHelpSteps[3] = "draft"
  /\ HrHelpSteps[4] = "approve" /\ HrHelpSteps[5] = "send"
  /\ "retrieve" \in Prior("hr-help", 3) /\ "draft" \in Prior("hr-help", 4)
BY DEF StepsOf, HrHelpSteps, Prior

\* One of the passages retrieved is not stale.
LEMMA HrHelpIsAnswerable ==
  ASSUME NEW rec, NEW f, Approved(rec, "hr-help", 5, f)
  PROVE  Answerable(DOMAIN EffectiveArtifact(rec, "retrieve").passages)
<1> DEFINE retrieve == EffectiveArtifact(rec, "retrieve")
<1>1. NoDrafts("hr-help", "retrieve") BY ReadOnlyStep DEF SurfaceOf, HrHelpSurface, HrHelpRetrieveSurface
<1>2. PICK st, C, a : From(rec, "hr-help", "retrieve", 2, f, st, C, a) /\ Restates(retrieve, a)
  BY <1>1, HrHelpWalk, Unedited, 2 \in 1..5
<1>3. a \in ComputeRetrieve(st, Looked(f, C)) BY <1>2 DEF From, Compute, HrHelpCompute
<1> HIDE DEF retrieve
<1>4. PICK found : Answerable(found) /\ "passages" \in DOMAIN a /\ DOMAIN a.passages = found
  <2> DEFINE terms == EffectiveArtifact(st, "intake").terms
             tries == {tried \in HttpRetrieve(Looked(f, C).service, terms) : Answerable(tried)}
             Passages(found) == [p \in found |-> [score |-> PassageScore(p, terms), stale |-> IsStale(p)]]
             Stale(found) == Cardinality({p \in found : IsStale(p)})
             marks == DerivedFrom(st, {"intake"})
  <2>1. ComputeRetrieve(st, Looked(f, C)) =
          Unless(~HasArtifact(st, "intake"),
            {[terms |-> terms, passages |-> Passages(found), staleCount |-> Stale(found), from |-> marks]
              : found \in tries})
    BY DEF ComputeRetrieve
  <2>2. \A found \in tries : Answerable(found) OBVIOUS
  <2>3. \A found : DOMAIN Passages(found) = found OBVIOUS
  <2> HIDE DEF terms, tries, Passages, Stale, marks
  <2>4. PICK found \in tries : "passages" \in DOMAIN a /\ a.passages = Passages(found)
    BY <1>3, <2>1 DEF Unless
  <2> QED BY <2>2, <2>3, <2>4
<1>5. retrieve.passages = a.passages BY <1>2, <1>4 DEF Restates
<1> QED BY <1>4, <1>5 DEF retrieve

\* What an answer cites was retrieved, and its flags are counted, however it is rewritten.
LEMMA HrHelpIsCited ==
  ASSUME NEW rec, NEW f, Approved(rec, "hr-help", 5, f)
  PROVE  LET draft == EffectiveArtifact(rec, "draft") IN
         /\ draft.citations \subseteq DOMAIN EffectiveArtifact(rec, "retrieve").passages
         /\ draft.totalFlags = Cardinality(draft.flags)
         /\ draft.flags \subseteq FlagKindsOfAnswers
<1> DEFINE draft == EffectiveArtifact(rec, "draft")
           retrieve == EffectiveArtifact(rec, "retrieve")
<1>1. PICK st, C, a, w, d :
        /\ From(rec, "hr-help", "draft", 3, f, st, C, a) /\ Restates(w, a)
        /\ d \in Drafts("hr-help", "draft", w) /\ draft = Merged(d, w)
  BY HrHelpWalk, Edited, 3 \in 1..5
<1>2. a \in ComputeHrDraft(st) BY <1>1 DEF From, Compute, HrHelpCompute
<1>3. EffectiveArtifact(st, "retrieve") = retrieve BY <1>1, HrHelpWalk DEF From, Shows
<1> HIDE DEF draft, retrieve
<1>4. /\ {"citations", "flags", "totalFlags"} \subseteq DOMAIN a
      /\ a.citations \subseteq DOMAIN retrieve.passages /\ a.totalFlags = Cardinality(a.flags)
      /\ a.flags \subseteq FlagKindsOfAnswers
  <2>1. PICK output \in CitedDrafts(retrieve), guardrail \in ContractOutput(HelpGuardrailAnswers, GuardrailOutput) :
          /\ {"citations", "flags", "totalFlags"} \subseteq DOMAIN a
          /\ a.citations = output.citations /\ a.flags = guardrail.flags
          /\ a.totalFlags = Cardinality(guardrail.flags)
    BY <1>2, <1>3 DEF ComputeHrDraft, Unless
  <2>2. output.citations \subseteq DOMAIN retrieve.passages BY DEF CitedDrafts
  <2>3. guardrail.flags \subseteq FlagKindsOfAnswers BY DEF ContractOutput, GuardrailOutput
  <2> QED BY <2>1, <2>2, <2>3
<1>5. DOMAIN d \subseteq {"answer"}
  BY <1>1 DEF Drafts, NoEdits, SurfaceOf, HrHelpSurface, ApiDrafts, HrHelpDraftSurface, Surface
<1>6. /\ {"citations", "flags", "totalFlags"} \subseteq DOMAIN w
      /\ w.citations = a.citations /\ w.flags = a.flags /\ w.totalFlags = a.totalFlags
  BY <1>1, <1>4 DEF Restates
<1>7. draft.citations = a.citations /\ draft.flags = a.flags /\ draft.totalFlags = a.totalFlags
  BY <1>1, <1>5, <1>6 DEF Merged
<1> QED BY <1>4, <1>7 DEF draft, retrieve

\* Flags are put to the approver.
LEMMA HrHelpIsSignedOff ==
  ASSUME NEW rec, NEW f, Approved(rec, "hr-help", 5, f)
  PROVE  EffectiveArtifact(rec, "draft").flags # {} => EffectiveArtifact(rec, "approve").signOff
<1> DEFINE draft == EffectiveArtifact(rec, "draft")
           approve == EffectiveArtifact(rec, "approve")
<1>1. NoDrafts("hr-help", "approve") BY ReadOnlyStep DEF SurfaceOf, HrHelpSurface, HrHelpApproveSurface
<1>2. PICK st, C, a : From(rec, "hr-help", "approve", 4, f, st, C, a) /\ Restates(approve, a)
  BY <1>1, HrHelpWalk, Unedited, 4 \in 1..5
<1>3. a \in ComputeHrApprove(st)
  BY <1>2 DEF From, Compute, HrHelpCompute, StoredOr, Anew, KeptBy, ShownAgain
<1>4. EffectiveArtifact(st, "draft") = draft BY <1>2, HrHelpWalk DEF From, Shows
<1>5. draft.totalFlags = Cardinality(draft.flags) /\ draft.flags \subseteq FlagKindsOfAnswers
  BY HrHelpIsCited
<1> HIDE DEF draft, approve
<1>6. "signOff" \in DOMAIN a /\ (draft.totalFlags > 0 => a.signOff)
  <2> DEFINE doubts == draft.totalFlags > 0 \/ ~draft.allowed
  <2>1. draft.totalFlags > 0 => doubts OBVIOUS
  <2> HIDE DEF doubts
  <2>2. a \in {[state |-> "pending", signOff |-> doubts, from |-> DerivedFrom(st, {"draft"})]}
    BY <1>3, <1>4 DEF ComputeHrApprove, Unless, doubts
  <2>3. "signOff" \in DOMAIN a /\ a.signOff = doubts BY <2>2
  <2> QED BY <2>1, <2>3
<1>7. approve.signOff = a.signOff BY <1>2, <1>6 DEF Restates
<1>8. IsFiniteSet(FlagKindsOfAnswers)
  <2>1. IsFiniteSet({"legal-advice"} \union {"pii-leakage"}) BY FS_Singleton, FS_AddElement
  <2>2. FlagKindsOfAnswers = {"legal-advice"} \union {"pii-leakage"} BY DEF FlagKindsOfAnswers
  <2> QED BY <2>1, <2>2
<1>9. IsFiniteSet(draft.flags) BY <1>5, <1>8, FS_Subset
<1>10. draft.flags # {} => draft.totalFlags > 0
  BY <1>5, <1>9, FS_EmptySet, FS_CardinalityType
<1> QED BY <1>6, <1>7, <1>10 DEF draft, approve

LEMMA HrHelpLaw ==
  ASSUME NEW rec, NEW f, NEW i \in 1..5, Approved(rec, "hr-help", i, f),
         NEW k \in 1..Len(HrHelpWrites(HrHelpSteps[i], rec))
  PROVE  HrHelpPolicy(rec, HrHelpWrites(HrHelpSteps[i], rec)[k])
<1> DEFINE draft == EffectiveArtifact(rec, "draft")
           call == HrHelpWrites(HrHelpSteps[i], rec)[k]
<1>1. i = 5
  <2>1. HrHelpSteps[i] = "send" BY DEF HrHelpWrites
  <2> QED BY HrHelpWalk, <2>1
<1>2. call.what.citations = draft.citations
  <2>1. HrHelpWrites(HrHelpSteps[i], rec) =
          <<Call("hr-answers", "case", TRUE, [answer |-> draft.answer, citations |-> draft.citations])>>
    BY HrHelpWalk, <1>1 DEF HrHelpWrites, RecordAnswer
  <2> HIDE DEF draft
  <2> QED BY <2>1 DEF Call
<1> HIDE DEF call
<1>3. HrHelpPolicy(rec, call)
  BY <1>1, <1>2, HrHelpIsAnswerable, HrHelpIsCited, HrHelpIsSignedOff DEF HrHelpPolicy, Answerable
<1> QED BY <1>3 DEF call

-----------------------------------------------------------------------------
(* Bills *)

LEMMA BillsWalk ==
  /\ StepsOf("bills") = BillsSteps /\ Len(BillsSteps) = 4
  /\ BillsSteps[1] = "intake" /\ BillsSteps[2] = "extract"
  /\ BillsSteps[3] = "approve" /\ BillsSteps[4] = "post"
  /\ "extract" \in Prior("bills", 3) /\ "extract" \in Prior("bills", 4)
BY DEF StepsOf, BillsSteps, Prior

LEMMA BillsTakeNoEdits ==
  ASSUME NEW s, s # "extract"
  PROVE  NoDrafts("bills", s)
<1> SUFFICES ASSUME NEW a PROVE SurfaceOf("bills", s, a).drafts = {} /\ ApiDrafts("bills", s, a) = {}
  BY DEF NoDrafts, Drafts
<1>1. SurfaceOf("bills", s, a) = Surface(Fields(a), {}) BY DEF SurfaceOf, BillsSurface, BillsDrafts
<1> QED BY <1>1 DEF Surface, ApiDrafts

\* What the registry holds against the sender stays, whatever a human corrects.
LEMMA BillsAreVetted ==
  ASSUME NEW rec, NEW f \in BillsFacts, Approved(rec, "bills", 4, f), NEW D
  PROVE  LET extract == EffectiveArtifact(rec, "extract") IN
         VendorEscalations(extract.stated, LookupVendor(Looked(f, D))) \subseteq extract.escalations
<1> DEFINE extract == EffectiveArtifact(rec, "extract")
<1>1. PICK st, C, a, w, draft :
        /\ From(rec, "bills", "extract", 2, f, st, C, a) /\ Restates(w, a)
        /\ draft \in Drafts("bills", "extract", w) /\ extract = Merged(draft, w)
  BY BillsWalk, Edited, 2 \in 1..4
<1>2. a \in ComputeExtract(st, Looked(f, C)) BY <1>1 DEF From, Compute, BillsCompute
<1>3. LookupVendor(Looked(f, C)) = LookupVendor(f) /\ LookupVendor(Looked(f, D)) = LookupVendor(f)
  <2>1. {"tenant", "service", "bank"} \subseteq DOMAIN f BY DEF BillsFacts
  <2>2. \A E : /\ Looked(f, E).tenant = f.tenant /\ Looked(f, E).service = f.service
               /\ Looked(f, E).bank = f.bank
    BY <2>1, LookedUp
  <2> QED BY <2>2 DEF LookupVendor
<1> HIDE DEF extract
<1> DEFINE vendor == LookupVendor(f)
<1>4. /\ {"stated", "escalations"} \subseteq DOMAIN a
      /\ VendorEscalations(a.stated, vendor) \subseteq a.escalations
  <2>1. PICK output : /\ a.stated = output.bank /\ {"stated", "escalations"} \subseteq DOMAIN a
                      /\ a.escalations = ReadingEscalations(output.bill)
                                           \union VendorEscalations(output.bank, vendor)
    BY <1>2, <1>3 DEF ComputeExtract
  <2> QED BY <2>1
<1>5. "stated" \notin DOMAIN draft /\ "escalations" \notin DOMAIN draft
  BY <1>1 DEF Drafts, NoEdits, SurfaceOf, BillsSurface, ApiDrafts, BillsDrafts, BillCorrections, Surface
<1>6. w.stated = a.stated /\ w.escalations = a.escalations /\ {"stated", "escalations"} \subseteq DOMAIN w
  BY <1>1, <1>4 DEF Restates
<1>7. extract.stated = a.stated /\ extract.escalations = a.escalations
  BY <1>1, <1>5, <1>6 DEF Merged
<1> QED BY <1>3, <1>4, <1>7 DEF extract

\* The approver is told of every escalation; the post restates the total.
LEMMA BillsAreTold ==
  ASSUME NEW rec, NEW f, Approved(rec, "bills", 4, f)
  PROVE  LET extract == EffectiveArtifact(rec, "extract") IN
         /\ EffectiveArtifact(rec, "approve").told = Cardinality(extract.escalations)
         /\ EffectiveArtifact(rec, "post").totalCents = extract.bill.totalCents
<1> DEFINE extract == EffectiveArtifact(rec, "extract")
           approve == EffectiveArtifact(rec, "approve")
           post == EffectiveArtifact(rec, "post")
<1>1. PICK st, C, a : From(rec, "bills", "approve", 3, f, st, C, a) /\ Restates(approve, a)
  BY BillsTakeNoEdits, BillsWalk, Unedited, 3 \in 1..4
<1>2. PICK tt, D, b : From(rec, "bills", "post", 4, f, tt, D, b) /\ Restates(post, b)
  BY BillsTakeNoEdits, BillsWalk, Unedited, 4 \in 1..4
<1>3. a \in ComputeBillsApprove(st)
  BY <1>1 DEF From, Compute, BillsCompute, StoredOr, Anew, KeptBy, ShownAgain
<1>4. b \in ComputePostPlan(tt)
  BY <1>2 DEF From, Compute, BillsCompute, StoredOr, Anew, KeptBy, ShownAgain
<1>5. EffectiveArtifact(st, "extract") = extract /\ EffectiveArtifact(tt, "extract") = extract
  BY <1>1, <1>2, BillsWalk DEF From, Shows
<1> HIDE DEF extract, approve, post
<1>6. "told" \in DOMAIN a /\ a.told = Cardinality(extract.escalations)
  BY <1>3, <1>5 DEF ComputeBillsApprove, Unless
<1>7. "totalCents" \in DOMAIN b /\ b.totalCents = extract.bill.totalCents
  BY <1>4, <1>5 DEF ComputePostPlan, Unless
<1>8. approve.told = a.told /\ post.totalCents = b.totalCents BY <1>1, <1>2, <1>6, <1>7 DEF Restates
<1> QED BY <1>6, <1>7, <1>8 DEF extract, approve, post

\* The lines add up to the total.
LEMMA LinesAddUp ==
  ASSUME NEW bill
  PROVE  SumOf(LedgerLines(bill)) = bill.totalCents
<1>1. CASE bill.lineItems # <<>> /\ SumOf(bill.lineItems) = bill.totalCents BY <1>1 DEF LedgerLines
<1>2. CASE ~(bill.lineItems # <<>> /\ SumOf(bill.lineItems) = bill.totalCents)
  <2> DEFINE total == bill.totalCents
  <2>1. LedgerLines(bill) = <<total>> BY <1>2 DEF LedgerLines
  <2> HIDE DEF total
  <2>2. SumOf(<<total>>) = total BY DEF SumOf
  <2> QED BY <2>1, <2>2 DEF total
<1> QED BY <1>1, <1>2

LEMMA BillsLaw ==
  ASSUME NEW rec, NEW f \in BillsFacts, NEW i \in 1..4, Approved(rec, "bills", i, f), NEW C,
         NEW k \in 1..Len(BillsWrites(BillsSteps[i], rec))
  PROVE  BillsPolicy(rec, BillsWrites(BillsSteps[i], rec)[k], Looked(f, C))
<1> DEFINE bill == EffectiveArtifact(rec, "extract").bill
           call == BillsWrites(BillsSteps[i], rec)[k]
<1>1. i = 4
  <2>1. BillsSteps[i] = "post" BY DEF BillsWrites
  <2> QED BY BillsWalk, <2>1
<1>2. call.what.lines = LedgerLines(bill)
  <2>1. BillsWrites(BillsSteps[i], rec) = ExecutePost(bill) BY BillsWalk, <1>1 DEF BillsWrites
  <2> HIDE DEF bill
  <2> QED BY <2>1 DEF ExecutePost, LedgerPost, Call
<1>3. SumOf(call.what.lines) = EffectiveArtifact(rec, "post").totalCents
  BY <1>1, <1>2, LinesAddUp, BillsAreTold
<1> HIDE DEF call
<1>4. BillsPolicy(rec, call, Looked(f, C))
  BY <1>1, <1>3, BillsAreVetted, BillsAreTold DEF BillsPolicy
<1> QED BY <1>4 DEF call

-----------------------------------------------------------------------------
(* Review *)

LEMMA ReviewWalk ==
  /\ StepsOf("review") = ReviewSteps /\ Len(ReviewSteps) = 4
  /\ ReviewSteps[1] = "select-pr" /\ ReviewSteps[2] = "review-options"
  /\ ReviewSteps[3] = "ai-review" /\ ReviewSteps[4] = "complete"
  /\ "select-pr" \in Prior("review", 2) /\ "review-options" \in Prior("review", 3)
  /\ "ai-review" \in Prior("review", 4)
BY DEF StepsOf, ReviewSteps, Prior

\* Every input says since when it is reviewed.
LEMMA ReviewAsks ==
  ASSUME NEW f \in ReviewFacts
  PROVE  "lastReviewed" \in DOMAIN f
<1> DEFINE Input(pr, delta, listed, login) ==
             [prNumber |-> pr, lastReviewed |-> delta, listed |-> listed, login |-> login]
<1>1. \A p, d, t, n : "lastReviewed" \in DOMAIN Input(p, d, t, n) OBVIOUS
<1>2. \E p, d, t, n : f = Input(p, d, t, n)
  <2> HIDE DEF Input
  <2> QED BY DEF ReviewFacts, Input
<1> HIDE DEF Input
<1> QED BY <1>1, <1>2

\* The options are those of the pull request that was picked.
LEMMA ReviewIsOfThePick ==
  ASSUME NEW rec, NEW f, Approved(rec, "review", 4, f)
  PROVE  EffectiveArtifact(rec, "review-options").pullRequest = EffectiveArtifact(rec, "select-pr").selected
<1> DEFINE select == EffectiveArtifact(rec, "select-pr")
           options == EffectiveArtifact(rec, "review-options")
<1>1. PICK st, C, a, w, d :
        /\ From(rec, "review", "review-options", 2, f, st, C, a) /\ Restates(w, a)
        /\ d \in Drafts("review", "review-options", w) /\ options = Merged(d, w)
  BY ReviewWalk, Edited, 2 \in 1..4
<1>2. a \in ComputeReviewOptions(st) BY <1>1 DEF From, Compute, ReviewCompute
<1>3. EffectiveArtifact(st, "select-pr") = select BY <1>1, ReviewWalk DEF From, Shows
<1> HIDE DEF select, options
<1>4. "pullRequest" \in DOMAIN a /\ a.pullRequest = select.selected
  BY <1>2, <1>3 DEF ComputeReviewOptions, Unless
<1>5. DOMAIN d \subseteq {"enabled"}
  BY <1>1 DEF Drafts, NoEdits, SurfaceOf, ReviewSurface, ApiDrafts, ReviewOptionsSurface, Surface
<1>6. options.pullRequest = a.pullRequest BY <1>1, <1>4, <1>5 DEF Restates, Merged
<1> QED BY <1>4, <1>6 DEF select, options

\* What a human makes of a review, before it is posted.
LEMMA ReviewEdits ==
  ASSUME NEW s \in {"ai-review", "complete"}, NEW w, NEW d \in Drafts("review", s, w)
  PROVE  /\ DOMAIN d \subseteq {"verdict", "summary", "comments"}
         /\ "comments" \in DOMAIN d => d.comments = <<>> \/ d.comments = w.comments
<1>1. \/ d = NoEdits \/ d = BuildReviewEdits("approve", "given", <<>>)
      \/ d = BuildReviewEdits(w.verdict, "empty", w.comments)
  BY DEF Drafts, SurfaceOf, ReviewSurface, ApiDrafts, AiReviewSurface, Surface
<1>2. \A v, t, c : DOMAIN BuildReviewEdits(v, t, c) = {"verdict", "summary", "comments"}
                   /\ BuildReviewEdits(v, t, c).comments = c
  BY DEF BuildReviewEdits
<1>3. DOMAIN NoEdits = {} BY DEF NoEdits
<1> QED BY <1>1, <1>2, <1>3

\* A review comments on files that changed, and on the pull request of its options.
LEMMA ReviewIsOfTheDiff ==
  ASSUME NEW rec, NEW f, Approved(rec, "review", 4, f)
  PROVE  LET review == EffectiveArtifact(rec, "ai-review") IN
         /\ review.pullRequest = EffectiveArtifact(rec, "review-options").pullRequest
         /\ \E C : \A n \in 1..Len(review.comments) :
                     review.comments[n] \in ChangedFiles(Looked(f, C).lastReviewed)
<1> DEFINE options == EffectiveArtifact(rec, "review-options")
           review == EffectiveArtifact(rec, "ai-review")
<1>1. PICK st, C, a, w, d :
        /\ From(rec, "review", "ai-review", 3, f, st, C, a) /\ Restates(w, a)
        /\ d \in Drafts("review", "ai-review", w) /\ review = Merged(d, w)
  BY ReviewWalk, Edited, 3 \in 1..4
<1>2. a \in ComputeAiReview(st, Looked(f, C)) BY <1>1 DEF From, Compute, ReviewCompute
<1>3. EffectiveArtifact(st, "review-options") = options BY <1>1, ReviewWalk DEF From, Shows
<1> DEFINE changed == ChangedFiles(Looked(f, C).lastReviewed)
           kept == Selected(<<"late", "docs", "stray">>, changed)
<1> HIDE DEF options, review
<1>4. /\ {"pullRequest", "comments"} \subseteq DOMAIN a
      /\ a.pullRequest = options.pullRequest /\ a.comments = kept
  <2> DEFINE categories == IF options.enabled # {} THEN options.enabled ELSE ReviewCategory
             marks == DerivedFrom(st, {"review-options"})
             since == Looked(f, C).lastReviewed
             Said(output) == [pullRequest |-> options.pullRequest, verdict |-> output.verdict,
                              summary |-> "given",
                              comments |-> OnChangedPaths(output.comments, ChangedFiles(since)),
                              categories |-> categories, deltaOnly |-> since, from |-> marks]
  <2>1. ComputeAiReview(st, Looked(f, C)) =
          IF ~HasArtifact(st, "review-options") THEN {} ELSE {Said(output) : output \in ReviewerAnswers}
    BY <1>3 DEF ComputeAiReview
  <2>2. \A output : LET x == Said(output) IN
          /\ {"pullRequest", "comments"} \subseteq DOMAIN x /\ x.pullRequest = options.pullRequest
          /\ x.comments = OnChangedPaths(output.comments, ChangedFiles(since))
    <3> HIDE DEF categories, marks, since
    <3> QED OBVIOUS
  <2> HIDE DEF Said
  <2>3. PICK output \in ReviewerAnswers : a = Said(output) BY <1>2, <2>1
  <2>4. output.comments = <<"late", "docs", "stray">> BY DEF ReviewerAnswers
  <2> QED BY <2>2, <2>3, <2>4 DEF OnChangedPaths
<1>5. \A n \in 1..Len(kept) : kept[n] \in changed
  <2> DEFINE said == <<"late", "docs", "stray">>
  <2>1. Len(said) \in Nat OBVIOUS
  <2> HIDE DEF said, changed
  <2> QED BY <2>1, SelectedIsKept DEF said
<1> HIDE DEF kept
<1>6. /\ DOMAIN d \subseteq {"verdict", "summary", "comments"}
      /\ "comments" \in DOMAIN d => d.comments = <<>> \/ d.comments = w.comments
  BY <1>1, ReviewEdits
<1>7. review.pullRequest = a.pullRequest BY <1>1, <1>4, <1>6 DEF Restates, Merged
<1>8. review.comments = kept \/ review.comments = <<>>
  BY <1>1, <1>4, <1>6 DEF Restates, Merged
<1>9. \A n \in 1..Len(review.comments) : review.comments[n] \in changed
  <2>1. CASE review.comments = kept BY <1>5, <2>1
  <2>2. CASE review.comments = <<>>
    <3>1. Len(review.comments) = 0 BY <2>2
    <3> QED BY <3>1
  <2> QED BY <1>8, <2>1, <2>2
<1> QED BY <1>4, <1>7, <1>9 DEF review, options

\* What is posted restates the review.
LEMMA ReviewIsRestated ==
  ASSUME NEW rec, NEW f, Approved(rec, "review", 4, f)
  PROVE  LET review == EffectiveArtifact(rec, "ai-review")
             complete == EffectiveArtifact(rec, "complete")
         IN /\ complete.pullRequest = review.pullRequest
            /\ complete.comments = review.comments \/ complete.comments = <<>>
<1> DEFINE review == EffectiveArtifact(rec, "ai-review")
           complete == EffectiveArtifact(rec, "complete")
<1>1. PICK st, C, a, w, d :
        /\ From(rec, "review", "complete", 4, f, st, C, a) /\ Restates(w, a)
        /\ d \in Drafts("review", "complete", w) /\ complete = Merged(d, w)
  BY ReviewWalk, Edited, 4 \in 1..4
<1>2. a \in ComputeReviewComplete(st) BY <1>1 DEF From, Compute, ReviewCompute
<1>3. EffectiveArtifact(st, "ai-review") = review BY <1>1, ReviewWalk DEF From, Shows
<1> HIDE DEF review, complete
<1>4. /\ {"pullRequest", "comments"} \subseteq DOMAIN a
      /\ a.pullRequest = review.pullRequest /\ a.comments = review.comments
  <2> DEFINE said == [x \in {"pullRequest", "verdict", "summary", "comments", "deltaOnly"} |-> review[x]]
             marks == DerivedFrom(st, {"ai-review"})
             bad == ~ReviewTextValid(review)
  <2>1. a \in IF ~HasArtifact(st, "ai-review") THEN {} ELSE Unless(bad, {WithField(said, "from", marks)})
    BY <1>2, <1>3 DEF ComputeReviewComplete
  <2> HIDE DEF marks, bad
  <2>2. a = WithField(said, "from", marks)
    <3> HIDE DEF said
    <3> QED BY <2>1 DEF Unless
  <2> QED BY <2>2 DEF WithField
<1>5. /\ DOMAIN d \subseteq {"verdict", "summary", "comments"}
      /\ "comments" \in DOMAIN d => d.comments = <<>> \/ d.comments = w.comments
  BY <1>1, ReviewEdits
<1>6. complete.pullRequest = a.pullRequest BY <1>1, <1>4, <1>5 DEF Restates, Merged
<1>7. complete.comments = a.comments \/ complete.comments = <<>>
  BY <1>1, <1>4, <1>5 DEF Restates, Merged
<1> QED BY <1>4, <1>6, <1>7 DEF review, complete

\* Every call of a review carries the same review.
LEMMA ReviewCalls ==
  ASSUME NEW pr, NEW event, NEW comments, Len(comments) \in Nat,
         NEW k \in 1..Len(SubmitReview(pr, event, comments))
  PROVE  SubmitReview(pr, event, comments)[k].what =
           [pullRequest |-> pr, event |-> event, comments |-> comments]
<1> DEFINE what == [pullRequest |-> pr, event |-> event, comments |-> comments]
           n == Len(comments)
           Comment(i) == Call("review-comment", <<pr, i>>, FALSE, what)
           opening == Call("pending-review", pr, FALSE, what)
           closing == Call("review", pr, FALSE, what)
           middle == [i \in 1..n |-> Comment(i)]
           all == {opening, closing} \union {Comment(i) : i \in 1..n}
<1>1. SubmitReview(pr, event, comments) = (<<opening>> \o middle) \o <<closing>>
  BY DEF SubmitReview
<1> HIDE DEF what
<1>2. \A x \in all : x.what = what BY DEF Call
<1>3. middle \in Seq(all)
  <2> HIDE DEF Comment
  <2>1. n \in Nat OBVIOUS
  <2>2. middle \in [1..n -> all] OBVIOUS
  <2> HIDE DEF all, n, middle
  <2> QED BY <2>1, <2>2
<1>4. opening \in all /\ closing \in all OBVIOUS
<1> HIDE DEF all, middle, opening, closing
<1>5. <<opening>> \in Seq(all) /\ <<closing>> \in Seq(all) BY <1>4
<1> DEFINE first == <<opening>>
           last == <<closing>>
           calls == (first \o middle) \o last
<1> HIDE DEF first, last
<1>6. calls \in Seq(all)
  <2>1. first \o middle \in Seq(all) BY <1>3, <1>5 DEF first
  <2> QED BY <1>5, <2>1 DEF last
<1>7. SubmitReview(pr, event, comments) = calls BY <1>1 DEF first, last
<1> HIDE DEF calls
<1>8. calls[k] \in all BY <1>6, <1>7
<1> QED BY <1>2, <1>7, <1>8 DEF what

LEMMA ReviewLaw ==
  ASSUME NEW rec, NEW f \in ReviewFacts, NEW i \in 1..4, Approved(rec, "review", i, f), NEW C,
         NEW k \in 1..Len(ReviewWrites(ReviewSteps[i], rec, Looked(f, C)))
  PROVE  ReviewPolicy(rec, ReviewWrites(ReviewSteps[i], rec, Looked(f, C))[k], Looked(f, C))
<1> DEFINE select == EffectiveArtifact(rec, "select-pr")
           review == EffectiveArtifact(rec, "ai-review")
           complete == EffectiveArtifact(rec, "complete")
           known == Looked(f, C)
           event == ReviewEvent(complete, known.login)
           call == ReviewWrites(ReviewSteps[i], rec, known)[k]
<1>1. i = 4
  <2>1. ReviewSteps[i] = "complete" BY DEF ReviewWrites
  <2> QED BY ReviewWalk, <2>1
<1>2. Contract("review", "complete", complete) BY <1>1, ReviewWalk, Contracted, 4 \in 1..4
<1>3. Len(complete.comments) \in Nat
  <2> HIDE DEF complete
  <2>1. complete.comments \in Seq(CommentPath)
    BY <1>2 DEF Contract, ReviewContract, ReviewTextValid
  <2> QED BY <2>1
<1>4. call.what = [pullRequest |-> complete.pullRequest, event |-> event, comments |-> complete.comments]
  <2>1. ReviewWrites(ReviewSteps[i], rec, known) = SubmitReview(complete.pullRequest, event, complete.comments)
    BY <1>1, ReviewWalk DEF ReviewWrites, PostReview
  <2>2. k \in 1..Len(SubmitReview(complete.pullRequest, event, complete.comments)) BY <2>1
  <2> HIDE DEF complete, event, known
  <2> QED BY <1>3, <2>1, <2>2, ReviewCalls
<1> HIDE DEF call
<1>5. call.what.pullRequest = complete.pullRequest /\ call.what.event = event
      /\ call.what.comments = complete.comments
  <2> HIDE DEF complete, event
  <2> QED BY <1>4
<1>6. complete.pullRequest = select.selected
  BY <1>1, ReviewIsRestated, ReviewIsOfTheDiff, ReviewIsOfThePick
<1>7. event # complete.verdict => event = "comment" /\ complete.pullRequest = "own"
  <2> HIDE DEF complete
  <2> QED BY DEF ReviewEvent, event
<1>8. PICK D : \A n \in 1..Len(review.comments) :
                 review.comments[n] \in ChangedFiles(Looked(f, D).lastReviewed)
  BY <1>1, ReviewIsOfTheDiff
<1>9. Looked(f, D).lastReviewed = known.lastReviewed
  <2>1. "lastReviewed" \in DOMAIN f BY ReviewAsks
  <2> QED BY <2>1, LookedUp
<1>10. complete.comments = review.comments \/ complete.comments = <<>> BY <1>1, ReviewIsRestated
<1>11. \A n \in 1..Len(complete.comments) :
         /\ \E m \in 1..Len(review.comments) : review.comments[m] = complete.comments[n]
         /\ complete.comments[n] \in ChangedFiles(known.lastReviewed)
  <2> HIDE DEF complete, review, known
  <2>1. CASE complete.comments = review.comments BY <1>8, <1>9, <2>1
  <2>2. CASE complete.comments = <<>>
    <3>1. Len(complete.comments) = 0 BY <2>2
    <3> QED BY <3>1
  <2> QED BY <1>10, <2>1, <2>2
<1>12. ReviewPolicy(rec, call, known)
  <2> HIDE DEF known, event
  <2> QED BY <1>5, <1>6, <1>7, <1>11 DEF ReviewPolicy
<1> QED BY <1>12 DEF call

-----------------------------------------------------------------------------
(* Every lane *)

\* Behind the i-th step, let forward with all the steps before it, each call a
\* lane asks for keeps the lane's promise.
LEMMA LanesKeepTheirPromises ==
  ASSUME NEW l \in AllLanes, NEW f \in FactsOf(l), NEW rec, NEW i \in 1..Len(StepsOf(l)),
         Approved(rec, l, i, f), NEW C, NEW dedupes,
         NEW k \in 1..Len(LaneWrites(l, StepsOf(l)[i], rec, Looked(f, C), dedupes))
  PROVE  PolicyHolds(l, StepsOf(l)[i], rec,
                     LaneWrites(l, StepsOf(l)[i], rec, Looked(f, C), dedupes)[k], Looked(f, C))
<1>1. CASE l = "security"
  <2>1. f \in SecurityFacts /\ StepsOf(l) = SecuritySteps /\ i \in 1..6
    BY <1>1, SecurityWalk DEF FactsOf
  <2>2. LaneWrites(l, StepsOf(l)[i], rec, Looked(f, C), dedupes) = SecurityWrites(SecuritySteps[i], rec)
    BY <1>1, <2>1 DEF LaneWrites
  <2>3. SecurityPolicy(rec, SecurityWrites(SecuritySteps[i], rec)[k], Looked(f, C))
    BY <1>1, <2>1, <2>2, SecurityLaw
  <2> QED BY <1>1, <2>1, <2>2, <2>3 DEF PolicyHolds
<1>2. CASE l = "msp"
  <2>1. StepsOf(l) = MspSteps /\ i \in 1..5
    BY <1>2, MspWalk
  <2>2. LaneWrites(l, StepsOf(l)[i], rec, Looked(f, C), dedupes)
          = MspWrites(MspSteps[i], rec, Looked(f, C), dedupes)
    BY <1>2, <2>1 DEF LaneWrites
  <2>3. MspPolicy(rec, MspWrites(MspSteps[i], rec, Looked(f, C), dedupes)[k])
    BY <1>2, <2>1, <2>2, MspLaw
  <2> QED BY <1>2, <2>1, <2>2, <2>3 DEF PolicyHolds
<1>3. CASE l = "features"
  <2>1. StepsOf(l) = FeaturesSteps /\ i \in 1..4
    BY <1>3, FeaturesWalk
  <2>2. LaneWrites(l, StepsOf(l)[i], rec, Looked(f, C), dedupes)
          = FeaturesWrites(FeaturesSteps[i], rec)
    BY <1>3, <2>1 DEF LaneWrites
  <2>3. FeaturesPolicy(rec, FeaturesWrites(FeaturesSteps[i], rec)[k])
    BY <1>3, <2>1, <2>2, FeaturesLaw
  <2> QED BY <1>3, <2>1, <2>2, <2>3 DEF PolicyHolds
<1>4. CASE l = "issues"
  <2>1. StepsOf(l) = IssuesSteps /\ i \in 1..4
    BY <1>4, IssuesWalk
  <2>2. LaneWrites(l, StepsOf(l)[i], rec, Looked(f, C), dedupes)
          = IssuesWrites(IssuesSteps[i], rec)
    BY <1>4, <2>1 DEF LaneWrites
  <2>3. IssuesPolicy(rec, IssuesWrites(IssuesSteps[i], rec)[k])
    BY <1>4, <2>1, <2>2, IssuesLaw
  <2> QED BY <1>4, <2>1, <2>2, <2>3 DEF PolicyHolds
<1>5. CASE l = "dependencies"
  <2>1. StepsOf(l) = DependenciesSteps /\ i \in 1..5
    BY <1>5, DependenciesWalk
  <2>2. LaneWrites(l, StepsOf(l)[i], rec, Looked(f, C), dedupes)
          = DependenciesWrites(DependenciesSteps[i], rec)
    BY <1>5, <2>1 DEF LaneWrites
  <2>3. DependenciesPolicy(rec, DependenciesWrites(DependenciesSteps[i], rec)[k])
    BY <1>5, <2>1, <2>2, DependenciesLaw
  <2> QED BY <1>5, <2>1, <2>2, <2>3 DEF PolicyHolds
<1>6. CASE l = "accessibility"
  <2>1. StepsOf(l) = AccessibilitySteps /\ i \in 1..4
    BY <1>6, AccessibilityWalk
  <2>2. LaneWrites(l, StepsOf(l)[i], rec, Looked(f, C), dedupes)
          = AccessibilityWrites(AccessibilitySteps[i], rec)
    BY <1>6, <2>1 DEF LaneWrites
  <2>3. AccessibilityPolicy(rec, AccessibilityWrites(AccessibilitySteps[i], rec)[k])
    BY <1>6, <2>1, <2>2, AccessibilityLaw
  <2> QED BY <1>6, <2>1, <2>2, <2>3 DEF PolicyHolds
<1>7. CASE l = "vendors"
  <2>1. StepsOf(l) = VendorsSteps /\ i \in 1..5
    BY <1>7, VendorsWalk
  <2>2. LaneWrites(l, StepsOf(l)[i], rec, Looked(f, C), dedupes)
          = VendorsWrites(VendorsSteps[i], rec)
    BY <1>7, <2>1 DEF LaneWrites
  <2>3. VendorsPolicy(rec)
    BY <1>7, <2>1, <2>2, VendorsLaw
  <2> QED BY <1>7, <2>1, <2>2, <2>3 DEF PolicyHolds
<1>8. CASE l = "onboarding"
  <2>1. f \in OnboardingFacts /\ StepsOf(l) = OnboardingSteps /\ i \in 1..5
    BY <1>8, OnboardingWalk DEF FactsOf
  <2>2. LaneWrites(l, StepsOf(l)[i], rec, Looked(f, C), dedupes)
          = OnboardingWrites(OnboardingSteps[i], rec)
    BY <1>8, <2>1 DEF LaneWrites
  <2>3. OnboardingPolicy(rec, OnboardingWrites(OnboardingSteps[i], rec)[k], Looked(f, C))
    BY <1>8, <2>1, <2>2, OnboardingLaw
  <2> QED BY <1>8, <2>1, <2>2, <2>3 DEF PolicyHolds
<1>9. CASE l = "offboarding"
  <2>1. f \in OffboardingFacts /\ StepsOf(l) = OffboardingSteps /\ i \in 1..5
    BY <1>9, OffboardingWalk DEF FactsOf
  <2>2. LaneWrites(l, StepsOf(l)[i], rec, Looked(f, C), dedupes)
          = OffboardingWrites(OffboardingSteps[i], rec, Looked(f, C))
    BY <1>9, <2>1 DEF LaneWrites
  <2>3. OffboardingPolicy(OffboardingSteps[i], rec,
                        OffboardingWrites(OffboardingSteps[i], rec, Looked(f, C))[k], Looked(f, C))
    BY <1>9, <2>1, <2>2, OffboardingLaw
  <2> QED BY <1>9, <2>1, <2>2, <2>3 DEF PolicyHolds
<1>10. CASE l = "screening"
  <2>1. StepsOf(l) = ScreeningSteps /\ i \in 1..4
    BY <1>10, ScreeningWalk
  <2>2. LaneWrites(l, StepsOf(l)[i], rec, Looked(f, C), dedupes)
          = ScreeningWrites(ScreeningSteps[i], rec, Looked(f, C))
    BY <1>10, <2>1 DEF LaneWrites
  <2>3. ScreeningPolicy(rec, ScreeningWrites(ScreeningSteps[i], rec, Looked(f, C))[k])
    BY <1>10, <2>1, <2>2, ScreeningLaw
  <2> QED BY <1>10, <2>1, <2>2, <2>3 DEF PolicyHolds
<1>11. CASE l = "leave"
  <2>1. StepsOf(l) = LeaveSteps /\ i \in 1..4
    BY <1>11, LeaveWalk
  <2>2. LaneWrites(l, StepsOf(l)[i], rec, Looked(f, C), dedupes)
          = LeaveWrites(LeaveSteps[i], rec)
    BY <1>11, <2>1 DEF LaneWrites
  <2>3. LeavePolicy(rec, LeaveWrites(LeaveSteps[i], rec)[k])
    BY <1>11, <2>1, <2>2, LeaveLaw
  <2> QED BY <1>11, <2>1, <2>2, <2>3 DEF PolicyHolds
<1>12. CASE l = "hr-help"
  <2>1. StepsOf(l) = HrHelpSteps /\ i \in 1..5
    BY <1>12, HrHelpWalk
  <2>2. LaneWrites(l, StepsOf(l)[i], rec, Looked(f, C), dedupes)
          = HrHelpWrites(HrHelpSteps[i], rec)
    BY <1>12, <2>1 DEF LaneWrites
  <2>3. HrHelpPolicy(rec, HrHelpWrites(HrHelpSteps[i], rec)[k])
    BY <1>12, <2>1, <2>2, HrHelpLaw
  <2> QED BY <1>12, <2>1, <2>2, <2>3 DEF PolicyHolds
<1>13. CASE l = "bills"
  <2>1. f \in BillsFacts /\ StepsOf(l) = BillsSteps /\ i \in 1..4
    BY <1>13, BillsWalk DEF FactsOf
  <2>2. LaneWrites(l, StepsOf(l)[i], rec, Looked(f, C), dedupes)
          = BillsWrites(BillsSteps[i], rec)
    BY <1>13, <2>1 DEF LaneWrites
  <2>3. BillsPolicy(rec, BillsWrites(BillsSteps[i], rec)[k], Looked(f, C))
    BY <1>13, <2>1, <2>2, BillsLaw
  <2> QED BY <1>13, <2>1, <2>2, <2>3 DEF PolicyHolds
<1>14. CASE l = "review"
  <2>1. f \in ReviewFacts /\ StepsOf(l) = ReviewSteps /\ i \in 1..4
    BY <1>14, ReviewWalk DEF FactsOf
  <2>2. LaneWrites(l, StepsOf(l)[i], rec, Looked(f, C), dedupes)
          = ReviewWrites(ReviewSteps[i], rec, Looked(f, C))
    BY <1>14, <2>1 DEF LaneWrites
  <2>3. ReviewPolicy(rec, ReviewWrites(ReviewSteps[i], rec, Looked(f, C))[k], Looked(f, C))
    BY <1>14, <2>1, <2>2, ReviewLaw
  <2> QED BY <1>14, <2>1, <2>2, <2>3 DEF PolicyHolds
<1> QED
  BY <1>1, <1>2, <1>3, <1>4, <1>5, <1>6, <1>7, <1>8, <1>9, <1>10, <1>11, <1>12, <1>13, <1>14 DEF AllLanes

\* The steps up to the one a pass writes for have come about as they should.
LEMMA WritingIsApproved ==
  ASSUME Inv, AskedFor, Lawful, NEW r \in Runs, eng[r].pc = "writing", ByForms(run[r])
  PROVE  Approved(Envelope(run[r]), lane, eng[r].i, facts)
<1> DEFINE rec == run[r]
           e == eng[r]
           tt == Envelope(rec)
<1>1. /\ Walked(e, rec.dec, lane) /\ Sent(rec, e, lane, facts)
      /\ OneLawful(rec, e, lane, facts) /\ e.pc = "writing"
  BY DEF Inv, AskedFor, Lawful
<1>2. tt.art = rec.art /\ tt.dec = rec.dec BY DEF Envelope
<1>7. \A u \in StepsIn(lane) : HandedIn(rec, lane, u) BY DEF ByForms, StepSet, StepsIn, Step
<1> HIDE DEF rec, e, tt
<1>3. e.i \in 1..Len(StepsOf(lane)) /\ e.i \in Int BY <1>1, HasSteps DEF Walked, Inv
<1>4. /\ Made(tt, lane, facts) /\ PassedTo(tt, lane, e.i - 1, facts)
      /\ PassedOn(tt, lane, e.i, facts)
  <2>1. /\ Made(rec, lane, facts) /\ PassedTo(rec, lane, e.i - 1, facts)
        /\ PassedOn(rec, lane, e.i, facts)
    BY <1>1 DEF OneLawful
  <2>2. /\ Made(rec, lane, facts) => Made(tt, lane, facts)
        /\ \A n \in Int : PassedTo(rec, lane, n, facts) => PassedTo(tt, lane, n, facts)
        /\ \A k : PassedOn(rec, lane, k, facts) => PassedOn(tt, lane, k, facts)
    BY <1>2, SameMade
  <2>3. e.i - 1 \in Int BY <1>3
  <2> QED BY <2>1, <2>2, <2>3
<1>5. ASSUME NEW j \in 1..e.i
      PROVE  /\ IsForward(tt.dec[StepsOf(lane)[j]]) /\ Computed(tt, lane, j, facts)
             /\ HandedIn(tt, lane, StepsOf(lane)[j]) /\ PassedOn(tt, lane, j, facts)
  <2>1. j \in 1..Len(StepsOf(lane)) /\ (j = e.i \/ j \in 1..(e.i - 1)) BY <1>3
  <2>2. PassedOn(tt, lane, j, facts) BY <1>4, <2>1 DEF PassedTo
  <2>3. IsForward(tt.dec[StepsOf(lane)[j]]) BY <1>1, <1>2, <2>1 DEF Walked, LetForward
  <2>4. Computed(tt, lane, j, facts) BY <1>4, <2>1, <2>2 DEF Made, PassedOn
  <2>5. HandedIn(tt, lane, StepsOf(lane)[j]) BY <1>2, <1>7, <2>1 DEF HandedIn, StepsIn
  <2> QED BY <2>2, <2>3, <2>4, <2>5
<1>6. Approved(tt, lane, e.i, facts) BY <1>5 DEF Approved
<1> QED BY <1>6 DEF tt, rec, e

\* Each lane's own promise about the calls it makes holds of every call of a run
\* edited by the forms, however the human edited, regenerated and went back, and
\* whatever failed before:
\* refused containments are never contained, criticals only remain waived, tiers
\* are signed, failed checks are noted (the lanes' flow.ts).
THEOREM EveryLaneKeepsItsPromise == Spec => LanePolicy
<1>1. ASSUME Inv, Once, AskedFor, Lawful, NEW r \in Runs, Calling(r), ByForms(run[r])
      PROVE  PolicyHolds(lane, Here(r), Envelope(run[r]), Head(eng[r].calls), Known)
  <2> DEFINE s == Here(r)
             tt == Envelope(run[r])
             i == eng[r].i
             C == {c.sys : c \in made}
             call == Head(eng[r].calls)
             asked == LaneWrites(lane, s, tt, Known, DeskDedupes)
  <2>1. /\ eng[r].pc = "writing" /\ eng[r].calls # <<>>
        /\ Walked(eng[r], run[r].dec, lane) /\ Sent(run[r], eng[r], lane, facts)
        /\ lane \in AllLanes /\ facts \in FactsOf(lane)
    BY <1>1 DEF Calling, Inv, AskedFor
  <2>2. /\ s \in StepsIn(lane) /\ IsForward(run[r].dec[s]) /\ s = StepsOf(lane)[i]
        /\ i \in 1..Len(StepsOf(lane))
    BY <2>1 DEF Walked, StepsIn, Here, Step
  <2>3. HasArtifact(tt, s) BY <2>1, <2>2 DEF Sent, Stored, Envelope, HasArtifact
  <2>4. Filled(lane, s, tt, Known) = {tt} BY <2>3 DEF Filled
  <2>5. (CHOOSE x \in {tt} : TRUE) = tt OBVIOUS
  <2>6. asked = Asked(run[r], lane, s, facts)
    <3>1. Writes(lane, s, tt, Known, DeskDedupes) = Asked(run[r], lane, s, facts)
      BY <1>1, <2>1, <2>2, ComputedIsAsked
    <3> QED BY <2>4, <2>5, <3>1 DEF Writes
  <2>7. 1 \in 1..Len(eng[r].calls) /\ eng[r].calls[1] = call BY <1>1, <2>1, CallsLeft
  <2>8. Among(eng[r].calls, Asked(run[r], lane, s, facts)) BY <2>1, <2>2 DEF Sent
  <2> HIDE DEF asked, s, tt, call
  <2>9. PICK k \in 1..Len(asked) : asked[k] = call BY <2>6, <2>7, <2>8 DEF Among
  <2>10. Approved(tt, lane, i, facts) BY <1>1, <2>1, WritingIsApproved DEF tt
  <2> HIDE DEF i, C
  <2>11. Known = Looked(facts, C) BY DEF Known, Looked, C
  <2>12. asked = LaneWrites(lane, StepsOf(lane)[i], tt, Looked(facts, C), DeskDedupes)
    BY <2>2, <2>11 DEF asked
  <2>13. PolicyHolds(lane, StepsOf(lane)[i], tt, asked[k], Looked(facts, C))
    BY <2>1, <2>2, <2>9, <2>10, <2>12, LanesKeepTheirPromises
  <2>14. PolicyHolds(lane, s, tt, call, Known) BY <2>2, <2>9, <2>11, <2>13
  <2> QED BY <2>14 DEF s, tt, call
<1>2. Inv /\ Once /\ AskedFor /\ Lawful =>
        [\A r \in Runs : Calling(r) /\ ByForms(run[r]) =>
           PolicyHolds(lane, Here(r), Envelope(run[r]), Head(eng[r].calls), Known)]_vars
  BY <1>1
<1> QED
  BY <1>2, PassesFollowTheRecord, CallsAreKnown, PassesAskForNothingElse, EverythingIsLawful, PTL
     DEF LanePolicy
=============================================================================

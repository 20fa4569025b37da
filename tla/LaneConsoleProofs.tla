--------------------------- MODULE LaneConsoleProofs ---------------------------
(***************************************************************************)
(* The console keeps up with the flow, in each of the twelve lanes whose   *)
(* artifacts it lets a human edit or approve: for any number of runs,      *)
(* changes and faults, what is in review is shown as it is stored, and a   *)
(* draft of it that the console lets through makes neither the step throw  *)
(* nor the computation of the next one: outside the dead ends (LaneRuns    *)
(* lists them), where the console does let through what the flow refuses,  *)
(* and the cases that end whatever a human does.                           *)
(*                                                                         *)
(* The console and the engine are two programs that read an artifact each  *)
(* on its own, with checks of its own.  That they agree needs three        *)
(* things: what is stored has every field the console's parser reads       *)
(* (from how it was computed, ShownSays, and from its contract, which      *)
(* LaneTypesProofs proves); what a draft leaves of it is still within the  *)
(* contract and passes the gate (DraftWins: the edited fields are the      *)
(* draft's, the others as stored); and the agent or the system that        *)
(* computes the next step has an answer its filters keep.  Each lane in    *)
(* turn, step by step (Mirrors), then the runs.                            *)
(***************************************************************************)
EXTENDS LaneTypesProofs

-----------------------------------------------------------------------------
(* A review and what may follow it *)

\* The console shows what an artifact says.
Pictured(l, s, a) ==
  LET view == SurfaceOf(l, s, a).view IN
  view # NoView /\ \A x \in DOMAIN view : view[x] = a[x]

\* The i-th step of rec is in review: what it shows was computed, and is within
\* its contract, behind steps that came about as they should.
Showing(rec, l, i, f) ==
  LET shown == rec.art[StepsOf(l)[i]] IN
  /\ Approved(rec, l, i - 1, f) /\ Computed(rec, l, i, f)
  /\ shown.v # 0 /\ Contract(l, StepsOf(l)[i], shown)

\* st is what the pass holds that goes on with a draft of the artifact shown.
Resumes(st, rec, l, i, draft) ==
  LET s == StepsOf(l)[i] IN
  /\ st.art = rec.art /\ st.dec[s] = BuildProceed(rec.art[s], draft)
  /\ Shows(st, rec, l, i)
  /\ EffectiveArtifact(st, s) = Merged(draft, rec.art[s])
  /\ HasArtifact(st, s)

\* The console let the steps before the i-th through.
LetBy(rec, i) ==
  \A j \in 1..(i - 1) : LetThrough(Step(j), EffectiveArtifact(rec, Step(j)))

\* What makes neither the step throw nor the computation of the next one.
Goes(i, st, e) ==
  /\ Contract(lane, Step(i), e) /\ LaneGate(lane, Step(i), st, Known)
  /\ i # Len(StepsOf(lane)) => Compute(lane, Step(i + 1), st, Known) # {}

Mirrors(rec, i) ==
  LET s == Step(i)
      shown == rec.art[s]
  IN /\ Pictured(lane, s, shown)
     /\ LetBy(rec, i) =>
          \A draft \in {NoEdits} \union SurfaceOf(lane, s, shown).drafts :
            LetThrough(s, Merged(draft, shown)) =>
              \A st : Resumes(st, rec, lane, i, draft) => Goes(i, st, Merged(draft, shown))

-----------------------------------------------------------------------------
(* What a view shows, and what a draft leaves *)

\* A surface whose view was parsed shows what the artifact says.
LEMMA SurfaceIsSaid ==
  ASSUME NEW a, NEW required, NEW defaults, NEW drafts, NEW l, NEW s,
         required \union DOMAIN defaults \subseteq DOMAIN a,
         "hidden" \notin required \union DOMAIN defaults,
         SurfaceOf(l, s, a) = Surface(Parsed(a, required, defaults), drafts)
  PROVE  /\ Pictured(l, s, a)
         /\ SurfaceOf(l, s, a).drafts = drafts
<1>1. /\ Parsed(a, required, defaults) # NoView
      /\ \A x \in DOMAIN Parsed(a, required, defaults) : Parsed(a, required, defaults)[x] = a[x]
  <2>1. Parsed(a, required, defaults) =
          [x \in required \union DOMAIN defaults |-> IF x \in DOMAIN a THEN a[x] ELSE defaults[x]]
    BY DEF Parsed
  <2>2. "hidden" \in DOMAIN NoView BY DEF NoView
  <2> QED BY <2>1, <2>2
<1> DEFINE view == Parsed(a, required, defaults)
<1> HIDE DEF view
<1>2. SurfaceOf(l, s, a) = [view |-> view, drafts |-> IF view = NoView THEN {} ELSE drafts]
  BY DEF Surface, view
<1>3. view # NoView /\ \A x \in DOMAIN view : view[x] = a[x] BY <1>1 DEF view
<1> QED BY <1>2, <1>3 DEF Pictured

\* The same, where each field the parser reads is one the artifact has.
LEMMA ReadOnlyIsSaid ==
  ASSUME NEW a, NEW required, NEW defaults, NEW l, NEW s,
         required \union DOMAIN defaults \subseteq DOMAIN a,
         "hidden" \notin required \union DOMAIN defaults,
         SurfaceOf(l, s, a) = ReadOnly(Parsed(a, required, defaults))
  PROVE  Pictured(l, s, a) /\ SurfaceOf(l, s, a).drafts = {}
BY SurfaceIsSaid DEF ReadOnly

LEMMA Overlaid ==
  ASSUME NEW draft, NEW a
  PROVE  /\ DOMAIN Merged(draft, a) = DOMAIN draft \union DOMAIN a
         /\ \A x \in DOMAIN draft : Merged(draft, a)[x] = draft[x]
         /\ \A x \in DOMAIN a \ DOMAIN draft : Merged(draft, a)[x] = a[x]
BY DEF Merged

LEMMA NothingEdited ==
  ASSUME NEW a, NEW v
  PROVE  Merged(NoEdits, WithField(a, "v", v)) = WithField(a, "v", v)
<1> DEFINE w == WithField(a, "v", v)
<1>1. w = [x \in DOMAIN w |-> w[x]] BY DEF WithField
<1>2. DOMAIN NoEdits = {} BY DEF NoEdits
<1>3. Merged(NoEdits, w) = [x \in DOMAIN w |-> w[x]] BY <1>2 DEF Merged
<1> QED BY <1>1, <1>3

LEMMA KnownIsLooked == \E C : Known = Looked(facts, C)
BY DEF Known, Looked

\* What is in review was computed from what stands.
LEMMA ShownSays ==
  ASSUME NEW rec, NEW l, NEW i, NEW f, Showing(rec, l, i, f)
  PROVE  \E st, C, a, v : /\ From(rec, l, StepsOf(l)[i], i, f, st, C, a)
                          /\ rec.art[StepsOf(l)[i]] = WithField(a, "v", v)
                          /\ Merged(NoEdits, rec.art[StepsOf(l)[i]]) = rec.art[StepsOf(l)[i]]
<1>1. PICK st, C, a, v :
        /\ Agree(st, rec, l, i) /\ Anew(l, StepsOf(l)[i], st) /\ Receipted(l, StepsOf(l)[i], st.eff)
        /\ a \in Compute(l, StepsOf(l)[i], st, Looked(f, C))
        /\ rec.art[StepsOf(l)[i]] = WithField(a, "v", v)
  BY DEF Showing, Computed
<1>2. From(rec, l, StepsOf(l)[i], i, f, st, C, a) BY <1>1, AgreeShows DEF From
<1>3. Merged(NoEdits, rec.art[StepsOf(l)[i]]) = rec.art[StepsOf(l)[i]] BY <1>1, NothingEdited
<1> QED BY <1>1, <1>2, <1>3

\* What follows a review in which nothing can be edited.
LEMMA UneditedMirrors ==
  ASSUME NEW rec, NEW i, Showing(rec, lane, i, facts),
         Pictured(lane, Step(i), rec.art[Step(i)]),
         SurfaceOf(lane, Step(i), rec.art[Step(i)]).drafts = {},
         ASSUME NEW st, LetBy(rec, i), LetThrough(Step(i), rec.art[Step(i)]),
                Resumes(st, rec, lane, i, NoEdits),
                EffectiveArtifact(st, Step(i)) = rec.art[Step(i)]
         PROVE  /\ LaneGate(lane, Step(i), st, Known)
                /\ i # Len(StepsOf(lane)) => Compute(lane, Step(i + 1), st, Known) # {}
  PROVE  Mirrors(rec, i)
<1>1. Merged(NoEdits, rec.art[Step(i)]) = rec.art[Step(i)] BY ShownSays DEF Step
<1>2. Contract(lane, Step(i), rec.art[Step(i)]) BY DEF Showing, Step
<1>3. ASSUME NEW st, LetBy(rec, i), LetThrough(Step(i), rec.art[Step(i)]),
             Resumes(st, rec, lane, i, NoEdits)
      PROVE  Goes(i, st, rec.art[Step(i)])
  <2>1. EffectiveArtifact(st, Step(i)) = rec.art[Step(i)] BY <1>1, <1>3 DEF Resumes, Step
  <2> QED BY <1>2, <1>3, <2>1 DEF Goes
<1> QED BY <1>1, <1>3 DEF Mirrors

\* What follows a review in which drafts can be made.
LEMMA EditedMirrors ==
  ASSUME NEW rec, NEW i, NEW shown, NEW drafts, shown = rec.art[Step(i)],
         Showing(rec, lane, i, facts),
         Pictured(lane, Step(i), shown), SurfaceOf(lane, Step(i), shown).drafts = drafts,
         ASSUME NEW draft \in {NoEdits} \union drafts, NEW e, e = Merged(draft, shown),
                draft = NoEdits => e = shown,
                LetBy(rec, i), LetThrough(Step(i), e), NEW st, Resumes(st, rec, lane, i, draft),
                EffectiveArtifact(st, Step(i)) = e, HasArtifact(st, Step(i))
         PROVE  /\ Contract(lane, Step(i), e) /\ LaneGate(lane, Step(i), st, Known)
                /\ i # Len(StepsOf(lane)) => Compute(lane, Step(i + 1), st, Known) # {}
  PROVE  Mirrors(rec, i)
<1>1. Merged(NoEdits, shown) = shown BY ShownSays DEF Step
<1>2. ASSUME NEW draft \in {NoEdits} \union drafts, LetBy(rec, i),
             LetThrough(Step(i), Merged(draft, shown)), NEW st, Resumes(st, rec, lane, i, draft)
      PROVE  Goes(i, st, Merged(draft, shown))
  <2> DEFINE e == Merged(draft, shown)
  <2>1. EffectiveArtifact(st, Step(i)) = e /\ HasArtifact(st, Step(i)) BY <1>2 DEF Resumes, Step
  <2>2. draft = NoEdits => e = shown BY <1>1
  <2>3. LetThrough(Step(i), e) BY <1>2
  <2>4. e = Merged(draft, shown) OBVIOUS
  <2> HIDE DEF e
  <2>5. /\ Contract(lane, Step(i), e) /\ LaneGate(lane, Step(i), st, Known)
        /\ i # Len(StepsOf(lane)) => Compute(lane, Step(i + 1), st, Known) # {}
    BY <1>2, <2>1, <2>2, <2>3, <2>4
  <2> QED BY <2>4, <2>5 DEF Goes
<1> QED BY <1>2 DEF Mirrors

\* Whatever draft of what the i-th step shows is let through, the lane goes on.
GoesOn(rec, i, shown, drafts) ==
  \A draft \in {NoEdits} \union drafts : \A e, st :
    /\ e = Merged(draft, shown) /\ (draft = NoEdits => e = shown)
    /\ LetBy(rec, i) /\ LetThrough(Step(i), e) /\ Resumes(st, rec, lane, i, draft)
    /\ EffectiveArtifact(st, Step(i)) = e /\ HasArtifact(st, Step(i))
    => /\ Contract(lane, Step(i), e) /\ LaneGate(lane, Step(i), st, Known)
       /\ i # Len(StepsOf(lane)) => Compute(lane, Step(i + 1), st, Known) # {}

LEMMA GoingOnMirrors ==
  ASSUME NEW rec, NEW i, NEW shown, NEW drafts, shown = rec.art[Step(i)],
         Showing(rec, lane, i, facts), GoesOn(rec, i, shown, drafts),
         Pictured(lane, Step(i), shown), SurfaceOf(lane, Step(i), shown).drafts = drafts
  PROVE  Mirrors(rec, i)
BY EditedMirrors DEF GoesOn

\* What stands behind a review still stands in the pass that goes on.
LEMMA Behind ==
  ASSUME NEW rec, NEW l, NEW i, NEW f, Showing(rec, l, i, f), NEW st, NEW draft,
         Resumes(st, rec, l, i, draft), NEW j \in 1..(i - 1)
  PROVE  /\ HasArtifact(st, StepsOf(l)[j]) /\ HasArtifact(rec, StepsOf(l)[j])
         /\ EffectiveArtifact(st, StepsOf(l)[j]) = EffectiveArtifact(rec, StepsOf(l)[j])
         /\ Contract(l, StepsOf(l)[j], EffectiveArtifact(st, StepsOf(l)[j]))
<1>1. Approved(rec, l, i - 1, f) /\ Shows(st, rec, l, i) BY DEF Showing, Resumes
<1>2. /\ Contract(l, StepsOf(l)[j], EffectiveArtifact(rec, StepsOf(l)[j]))
      /\ HasArtifact(rec, StepsOf(l)[j])
  BY <1>1, Contracted
<1>3. StepsOf(l)[j] \in Prior(l, i) BY DEF Prior
<1> QED BY <1>1, <1>2, <1>3 DEF Shows

LEMMA StoredOrSome ==
  ASSUME NEW st, NEW s, NEW computed, computed # {}
  PROVE  StoredOr(st, s, computed) # {}
BY DEF StoredOr

LEMMA DraftOverlaid ==
  ASSUME NEW draft, NEW a, DOMAIN draft \subseteq DOMAIN Fields(a)
  PROVE  /\ DOMAIN Fields(Merged(draft, a)) = DOMAIN Fields(a)
         /\ \A x \in DOMAIN Fields(a) :
              Fields(Merged(draft, a))[x] = IF x \in DOMAIN draft THEN draft[x] ELSE Fields(a)[x]
BY DEF Fields, Merged

\* What a draft leaves of what is shown.
LEMMA DraftWins ==
  ASSUME NEW draft, NEW a, NEW e, e = Merged(draft, a), NEW x
  PROVE  /\ x \in DOMAIN draft => e[x] = draft[x]
         /\ x \in DOMAIN a /\ x \notin DOMAIN draft => e[x] = a[x]
BY DEF Merged

LEMMA FieldIs ==
  ASSUME NEW a, NEW x, x \in DOMAIN Fields(a)
  PROVE  x \in DOMAIN a /\ Fields(a)[x] = a[x] /\ x \notin {"v", "from"}
BY DEF Fields

-----------------------------------------------------------------------------
(* Security *)

LEMMA SecurityOpened ==
  ASSUME lane = "security", NEW i \in 1..6, NEW a, NEW st
  PROVE  /\ Step(i) = SecuritySteps[i] /\ Len(StepsOf(lane)) = 6
         /\ SurfaceOf(lane, Step(i), a) = SecuritySurface(SecuritySteps[i], a)
         /\ Contract(lane, Step(i), a) <=> Fields(a) \in SecurityContract(SecuritySteps[i])
         /\ LetThrough(Step(i), a) => ~SecurityBlocked(SecuritySteps[i], a)
         /\ LaneGate(lane, Step(i), st, Known) <=> SecurityGate(SecuritySteps[i], st, Known)
         /\ i < 6 => Compute(lane, Step(i + 1), st, Known) = SecurityCompute(SecuritySteps[i + 1], st, Known)
<1>1. Step(i) = SecuritySteps[i] /\ Len(StepsOf(lane)) = 6 BY SecurityWalk DEF Step
<1>2. i < 6 => Step(i + 1) = SecuritySteps[i + 1] BY SecurityWalk DEF Step
<1>3. SurfaceOf(lane, Step(i), a) = SecuritySurface(SecuritySteps[i], a) BY <1>1 DEF SurfaceOf
<1>4. Contract(lane, Step(i), a) <=> Fields(a) \in SecurityContract(SecuritySteps[i])
  BY <1>1 DEF Contract, Conforms
<1>5. LetThrough(Step(i), a) => ~SecurityBlocked(SecuritySteps[i], a)
  BY <1>1 DEF LetThrough, Blocked
<1>6. LaneGate(lane, Step(i), st, Known) <=> SecurityGate(SecuritySteps[i], st, Known) BY <1>1 DEF LaneGate
<1>7. i < 6 => Compute(lane, Step(i + 1), st, Known) = SecurityCompute(SecuritySteps[i + 1], st, Known)
  BY <1>2 DEF Compute
<1> QED BY <1>1, <1>3, <1>4, <1>5, <1>6, <1>7

LEMMA SecurityIngestMirrors ==
  ASSUME lane = "security", NEW rec, Showing(rec, "security", 1, facts),
         rec.art["ingest"].seenBefore => SeenBefore(Known)
  PROVE  Mirrors(rec, 1)
<1> DEFINE shown == rec.art["ingest"]
           defaults == [checks |-> {}]
<1>0. /\ SecuritySteps[1] = "ingest" /\ SecuritySteps[2] = "triage" /\ Len(StepsOf(lane)) = 6
      /\ Step(1) = "ingest" /\ StepsOf(lane)[1] = "ingest"
  BY SecurityOpened, SecurityWalk DEF SecuritySteps
<1>1. Fields(shown) \in IngestArtifact
  <2>1. Contract(lane, "ingest", shown) BY <1>0 DEF Showing
  <2>2. Fields(shown) \in SecurityContract("ingest") BY <1>0, <2>1, SecurityOpened
  <2> QED BY <2>2 DEF SecurityContract
<1>2. SurfaceOf(lane, "ingest", shown) = ReadOnly(Parsed(shown, {"seenBefore"}, defaults))
  <2>1. SurfaceOf(lane, "ingest", shown) = SecuritySurface("ingest", shown) BY <1>0, SecurityOpened
  <2> QED BY <2>1 DEF SecuritySurface, SecurityIngestView
<1>3. DOMAIN Fields(shown) = {"seenBefore", "checks"}
  BY <1>1 DEF IngestArtifact
<1>4. /\ {"seenBefore"} \union DOMAIN defaults \subseteq DOMAIN shown
      /\ "hidden" \notin {"seenBefore"} \union DOMAIN defaults
  BY <1>3 DEF Fields
<1> HIDE DEF defaults
<1>5. Pictured(lane, "ingest", shown) /\ SurfaceOf(lane, "ingest", shown).drafts = {}
  BY <1>2, <1>4, ReadOnlyIsSaid
<1>6. ASSUME NEW st, Resumes(st, rec, lane, 1, NoEdits), LetThrough("ingest", shown),
             EffectiveArtifact(st, "ingest") = shown
      PROVE  LaneGate(lane, Step(1), st, Known) /\ Compute(lane, Step(1 + 1), st, Known) # {}
  <2>1. SecurityGate("ingest", st, Known)
    <3>1. EffectiveArtifact(st, "ingest") = shown /\ HasArtifact(st, "ingest") BY <1>0, <1>6 DEF Resumes
    <3>2. ~shown.seenBefore BY <1>6 DEF LetThrough, CaseEndsHere
    <3>3. "fail" \notin shown.checks
      <4>1. PICK st0, C, a, v : a \in ComputeIngest(st0, Looked(facts, C)) /\ shown = WithField(a, "v", v)
        BY <1>0, ShownSays DEF From, Compute, SecurityCompute
      <4>2. "fail" \notin a.checks BY <4>1 DEF ComputeIngest
      <4>3. "checks" \in DOMAIN Fields(a) BY <4>1, IngestConforms DEF IngestArtifact
      <4> HIDE DEF shown
      <4>4. shown.checks = a.checks BY <4>1, <4>3, StillSays
      <4> QED BY <4>2, <4>4
    <3> QED BY <3>1, <3>2, <3>3 DEF SecurityGate
  <2>2. ComputeTriage(st, Known) # {} BY DEF ComputeTriage
  <2>3. SecurityCompute("triage", st, Known) # {} BY <2>2 DEF SecurityCompute
  <2> QED BY <1>0, <2>1, <2>3, SecurityOpened
<1> HIDE DEF shown
<1>7. Step(1) = "ingest" /\ rec.art[Step(1)] = shown BY <1>0 DEF shown
<1> QED BY <1>0, <1>5, <1>6, <1>7, UneditedMirrors

LEMMA SecurityTriageMirrors ==
  ASSUME lane = "security", NEW rec, Showing(rec, "security", 2, facts)
  PROVE  Mirrors(rec, 2)
<1> DEFINE shown == rec.art["triage"]
           defaults == [severity |-> "low", flags |-> {}, needsInvestigation |-> FALSE]
<1>0. /\ SecuritySteps[2] = "triage" /\ SecuritySteps[3] = "investigate"
      /\ Len(StepsOf(lane)) = 6 /\ Step(2) = "triage" /\ StepsOf(lane)[1] = "ingest"
      /\ StepsOf(lane)[2] = "triage"
  BY SecurityOpened, SecurityWalk DEF SecuritySteps
<1>1. Fields(shown) \in AlertTriage
  <2>1. Contract(lane, "triage", shown) BY <1>0 DEF Showing
  <2>2. Fields(shown) \in SecurityContract("triage") BY <1>0, <2>1, SecurityOpened
  <2> QED BY <2>2 DEF SecurityContract
<1>2. SurfaceOf(lane, "triage", shown) = ReadOnly(Parsed(shown, {"class"}, defaults))
  <2>1. SurfaceOf(lane, "triage", shown) = SecuritySurface("triage", shown) BY <1>0, SecurityOpened
  <2> QED BY <2>1 DEF SecuritySurface, SecurityTriageView
<1>3. DOMAIN Fields(shown) = {"class", "severity", "flags", "needsInvestigation"}
  BY <1>1 DEF AlertTriage
<1>4. /\ {"class"} \union DOMAIN defaults \subseteq DOMAIN shown
      /\ "hidden" \notin {"class"} \union DOMAIN defaults
  BY <1>3 DEF Fields
<1> HIDE DEF defaults
<1>5. Pictured(lane, "triage", shown) /\ SurfaceOf(lane, "triage", shown).drafts = {}
  BY <1>2, <1>4, ReadOnlyIsSaid
<1>6. ASSUME NEW st, Resumes(st, rec, lane, 2, NoEdits)
      PROVE  LaneGate(lane, Step(2), st, Known) /\ Compute(lane, Step(2 + 1), st, Known) # {}
  <2>1. SecurityGate("triage", st, Known) BY DEF SecurityGate
  <2>2. HasArtifact(st, "triage") BY <1>0, <1>6 DEF Resumes
  <2> DEFINE sourced == {claims \in InvestigatorAnswers : ValidateClaims(claims, Retrieved(Known))}
             answers == ContractOutput(InvestigatorAnswers, sourced)
             Cited(claims) == [claims |-> claims, missing |-> MissingEvidence(Known),
                               from |-> DerivedFrom(st, {"ingest", "triage"})]
  <2>3. {"alert-record"} \in answers
    <3>1. {"alert-record"} \subseteq Retrieved(Known) BY DEF Retrieved
    <3>2. {"alert-record"} \in InvestigatorAnswers BY DEF InvestigatorAnswers
    <3> QED BY <3>1, <3>2 DEF ContractOutput, ValidateClaims
  <2>4. ComputeInvestigate(st, Known) = Unless(~HasArtifact(st, "triage"), {Cited(claims) : claims \in answers})
    BY DEF ComputeInvestigate
  <2> HIDE DEF answers, Cited
  <2>5. ComputeInvestigate(st, Known) # {} BY <2>2, <2>3, <2>4 DEF Unless
  <2>6. SecurityCompute("investigate", st, Known) # {} BY <2>5 DEF SecurityCompute
  <2> QED BY <1>0, <2>1, <2>6, SecurityOpened
<1> HIDE DEF shown
<1>7. Step(2) = "triage" /\ rec.art[Step(2)] = shown BY <1>0 DEF shown
<1> QED BY <1>0, <1>5, <1>6, <1>7, UneditedMirrors

LEMMA SecurityInvestigateMirrors ==
  ASSUME lane = "security", NEW rec, Showing(rec, "security", 3, facts)
  PROVE  Mirrors(rec, 3)
<1> DEFINE shown == rec.art["investigate"]
           defaults == [missing |-> {}]
<1>0. /\ SecuritySteps[3] = "investigate" /\ SecuritySteps[4] = "decide"
      /\ Len(StepsOf(lane)) = 6 /\ Step(3) = "investigate" /\ StepsOf(lane)[1] = "ingest"
      /\ StepsOf(lane)[2] = "triage" /\ StepsOf(lane)[3] = "investigate"
  BY SecurityOpened, SecurityWalk DEF SecuritySteps
<1>1. Fields(shown) \in EvidencePack
  <2>1. Contract(lane, "investigate", shown) BY <1>0 DEF Showing
  <2>2. Fields(shown) \in SecurityContract("investigate") BY <1>0, <2>1, SecurityOpened
  <2> QED BY <2>2 DEF SecurityContract
<1>2. SurfaceOf(lane, "investigate", shown) = ReadOnly(Parsed(shown, {"claims"}, defaults))
  <2>1. SurfaceOf(lane, "investigate", shown) = SecuritySurface("investigate", shown) BY <1>0, SecurityOpened
  <2>2. shown.claims # {} BY <1>1 DEF EvidencePack, Fields
  <2> QED BY <2>1, <2>2 DEF SecuritySurface, SecurityInvestigateView
<1>3. DOMAIN Fields(shown) = {"claims", "missing"}
  BY <1>1 DEF EvidencePack
<1>4. /\ {"claims"} \union DOMAIN defaults \subseteq DOMAIN shown
      /\ "hidden" \notin {"claims"} \union DOMAIN defaults
  BY <1>3 DEF Fields
<1> HIDE DEF defaults
<1>5. Pictured(lane, "investigate", shown) /\ SurfaceOf(lane, "investigate", shown).drafts = {}
  BY <1>2, <1>4, ReadOnlyIsSaid
<1>6. ASSUME NEW st, Resumes(st, rec, lane, 3, NoEdits)
      PROVE  LaneGate(lane, Step(3), st, Known) /\ Compute(lane, Step(3 + 1), st, Known) # {}
  <2>1. SecurityGate("investigate", st, Known) BY DEF SecurityGate
  <2>2. HasArtifact(st, "triage") /\ HasArtifact(st, "investigate")
    BY <1>0, <1>6, Behind, 2 \in 1..(3 - 1) DEF Resumes
  <2>3. ComputeDecide(st, Known) # {} BY <2>2 DEF ComputeDecide, Unless
  <2>4. SecurityCompute("decide", st, Known) # {} BY <2>3 DEF SecurityCompute
  <2> QED BY <1>0, <2>1, <2>4, SecurityOpened
<1> HIDE DEF shown
<1>7. Step(3) = "investigate" /\ rec.art[Step(3)] = shown BY <1>0 DEF shown
<1> QED BY <1>0, <1>5, <1>6, <1>7, UneditedMirrors

LEMMA SecurityDecideMirrors ==
  ASSUME lane = "security", NEW rec, Showing(rec, "security", 4, facts)
  PROVE  Mirrors(rec, 4)
<1> DEFINE shown == rec.art["decide"]
           defaults == [refused |-> FALSE, requiresHuman |-> FALSE]
<1>0. /\ SecuritySteps[4] = "decide" /\ SecuritySteps[5] = "approve" /\ Len(StepsOf(lane)) = 6
      /\ Step(4) = "decide" /\ StepsOf(lane)[1] = "ingest" /\ StepsOf(lane)[2] = "triage"
      /\ StepsOf(lane)[3] = "investigate" /\ StepsOf(lane)[4] = "decide"
  BY SecurityOpened, SecurityWalk DEF SecuritySteps
<1>1. Fields(shown) \in DecideArtifact
  <2>1. Contract(lane, "decide", shown) BY <1>0 DEF Showing
  <2>2. Fields(shown) \in SecurityContract("decide") BY <1>0, <2>1, SecurityOpened
  <2> QED BY <2>2 DEF SecurityContract
<1>2. SurfaceOf(lane, "decide", shown) = ReadOnly(Parsed(shown, {"action", "tier"}, defaults))
  <2>1. SurfaceOf(lane, "decide", shown) = SecuritySurface("decide", shown) BY <1>0, SecurityOpened
  <2> QED BY <2>1 DEF SecuritySurface, SecurityDecideView
<1>3. DOMAIN Fields(shown) = {"action", "tier", "refused", "requiresHuman"}
  BY <1>1 DEF DecideArtifact
<1>4. /\ {"action", "tier"} \union DOMAIN defaults \subseteq DOMAIN shown
      /\ "hidden" \notin {"action", "tier"} \union DOMAIN defaults
  BY <1>3 DEF Fields
<1> HIDE DEF defaults
<1>5. Pictured(lane, "decide", shown) /\ SurfaceOf(lane, "decide", shown).drafts = {}
  BY <1>2, <1>4, ReadOnlyIsSaid
<1>6. ASSUME NEW st, Resumes(st, rec, lane, 4, NoEdits)
      PROVE  LaneGate(lane, Step(4), st, Known) /\ Compute(lane, Step(4 + 1), st, Known) # {}
  <2>1. SecurityGate("decide", st, Known) BY DEF SecurityGate
  <2>2. HasArtifact(st, "decide") BY <1>0, <1>6 DEF Resumes
  <2>3. ComputeApprove(st) # {} BY <2>2 DEF ComputeApprove, Unless
  <2>4. SecurityCompute("approve", st, Known) # {} BY <2>3, StoredOrSome DEF SecurityCompute
  <2> QED BY <1>0, <2>1, <2>4, SecurityOpened
<1> HIDE DEF shown
<1>7. Step(4) = "decide" /\ rec.art[Step(4)] = shown BY <1>0 DEF shown
<1> QED BY <1>0, <1>5, <1>6, <1>7, UneditedMirrors

\* The chain in review is the one of the decision, and nobody has signed.
LEMMA ShownChain ==
  ASSUME lane = "security", NEW rec, Showing(rec, "security", 5, facts)
  PROVE  /\ rec.art["approve"].action = EffectiveArtifact(rec, "decide").action
         /\ rec.art["approve"].signed = {}
<1> DEFINE decide == EffectiveArtifact(rec, "decide")
           shown == rec.art["approve"]
<1>1. StepsOf("security")[5] = "approve" /\ "decide" \in Prior("security", 5) BY SecurityWalk
<1>2. PICK st, C, a, v : /\ From(rec, "security", "approve", 5, facts, st, C, a)
                         /\ shown = WithField(a, "v", v)
  BY <1>1, ShownSays
<1>3. a \in ComputeApprove(st)
  BY <1>2 DEF From, Compute, SecurityCompute, StoredOr, Anew, KeptBy, ShownAgain
<1>4. EffectiveArtifact(st, "decide") = decide BY <1>1, <1>2 DEF From, Shows
<1> HIDE DEF decide, shown
<1>5. /\ {"action", "signed"} \subseteq DOMAIN Fields(a)
      /\ a.action = decide.action /\ a.signed = {}
  BY <1>3, <1>4 DEF ComputeApprove, Unless, Fields
<1>6. shown.action = a.action /\ shown.signed = a.signed BY <1>2, <1>5, StillSays
<1> QED BY <1>5, <1>6 DEF decide, shown

LEMMA SecurityApproveMirrors ==
  ASSUME lane = "security", NEW rec, Showing(rec, "security", 5, facts)
  PROVE  Mirrors(rec, 5)
<1> DEFINE shown == rec.art["approve"]
           defaults == [tier |-> "low", signers |-> {}, signed |-> {}, allApproved |-> FALSE]
           view == SecurityApproveView(shown)
           allButOne == {view.signers \ {role} : role \in view.signers \intersect {"soc-lead"}}
           sets == {{}, view.signers} \union allButOne
           drafts == {[signed |-> signed, allApproved |-> signed = view.signers] : signed \in sets}
<1>0. /\ SecuritySteps[5] = "approve" /\ SecuritySteps[6] = "contain" /\ Len(StepsOf(lane)) = 6
      /\ Step(5) = "approve" /\ StepsOf(lane)[1] = "ingest" /\ StepsOf(lane)[2] = "triage"
      /\ StepsOf(lane)[3] = "investigate" /\ StepsOf(lane)[4] = "decide"
      /\ StepsOf(lane)[5] = "approve"
  BY SecurityOpened, SecurityWalk DEF SecuritySteps
<1>1. Fields(shown) \in ApproveArtifact
  <2>1. Contract(lane, "approve", shown) BY <1>0 DEF Showing
  <2>2. Fields(shown) \in SecurityContract("approve") BY <1>0, <2>1, SecurityOpened
  <2> QED BY <2>2 DEF SecurityContract
<1>2. SurfaceOf(lane, "approve", shown) = Surface(Parsed(shown, {"action"}, defaults), drafts)
  <2>1. SurfaceOf(lane, "approve", shown) = SecuritySurface("approve", shown) BY <1>0, SecurityOpened
  <2>2. SecuritySurface("approve", shown) = Surface(view, drafts)
    BY DEF SecuritySurface, SecurityApproveSurface
  <2>3. view = Parsed(shown, {"action"}, defaults) BY DEF SecurityApproveView
  <2> QED BY <2>1, <2>2, <2>3
<1>3. DOMAIN Fields(shown) = {"action", "tier", "signers", "signed", "allApproved"}
  BY <1>1 DEF ApproveArtifact
<1>4. /\ {"action"} \union DOMAIN defaults \subseteq DOMAIN shown
      /\ "hidden" \notin {"action"} \union DOMAIN defaults
  BY <1>3 DEF Fields
<1>5. view.signers = shown.signers
  <2>1. view = Parsed(shown, {"action"}, defaults) BY DEF SecurityApproveView
  <2>2. "signers" \in DOMAIN shown /\ {"action"} \subseteq DOMAIN shown BY <1>4
  <2> HIDE DEF shown, view
  <2>3. view = [x \in {"action"} \union DOMAIN defaults |->
                  IF x \in DOMAIN shown THEN shown[x] ELSE defaults[x]]
    BY <2>1, <2>2 DEF Parsed
  <2>4. "signers" \in DOMAIN defaults OBVIOUS
  <2> QED BY <2>2, <2>3, <2>4
<1> HIDE DEF view, shown
<1>6. ASSUME NEW signed \in sets PROVE signed \subseteq view.signers OBVIOUS
<1> HIDE DEF sets
<1>7. ASSUME NEW draft \in {NoEdits} \union drafts, draft # NoEdits
      PROVE  /\ DOMAIN draft = {"signed", "allApproved"} /\ draft["signed"] \subseteq shown.signers
             /\ draft["allApproved"] = (draft["signed"] = shown.signers)
  <2>1. PICK signed \in sets : draft = [signed |-> signed, allApproved |-> signed = view.signers] BY <1>7
  <2>2. /\ DOMAIN draft = {"signed", "allApproved"} /\ draft["signed"] = signed
        /\ draft["allApproved"] = (signed = view.signers)
    BY <2>1
  <2> QED BY <1>5, <1>6, <2>1, <2>2
<1> HIDE DEF drafts, defaults
<1>8. Pictured(lane, "approve", shown) /\ SurfaceOf(lane, "approve", shown).drafts = drafts
  BY <1>2, <1>4, SurfaceIsSaid
<1>9. ASSUME NEW draft \in {NoEdits} \union drafts, NEW e, e = Merged(draft, shown),
             draft = NoEdits => e = shown, LetThrough("approve", e), NEW st, Resumes(st, rec, lane, 5, draft),
             EffectiveArtifact(st, "approve") = e, HasArtifact(st, "approve")
      PROVE  /\ Contract(lane, Step(5), e) /\ LaneGate(lane, Step(5), st, Known)
             /\ Compute(lane, Step(5 + 1), st, Known) # {}
  <2>1. e.signed = e.signers
    <3>1. ~SecurityBlocked("approve", e) BY <1>0, <1>9, SecurityOpened
    <3> QED BY <3>1 DEF SecurityBlocked, SecurityApproveBlocked
  <2>2. draft # NoEdits
    <3>1. shown.signed = {} BY ShownChain DEF shown
    <3>2. shown.signers # {} BY <1>1 DEF ApproveArtifact, Fields
    <3> QED BY <1>9, <2>1, <3>1, <3>2
  <2>3. /\ DOMAIN draft = {"signed", "allApproved"} /\ draft["signed"] \subseteq shown.signers
        /\ draft["allApproved"] = (draft["signed"] = shown.signers)
    BY <1>7, <2>2
  <2>4. /\ e["signed"] = draft["signed"] /\ e["allApproved"] = draft["allApproved"]
        /\ e["action"] = shown["action"] /\ e["tier"] = shown["tier"] /\ e["signers"] = shown["signers"]
    <3>1. {"action", "tier", "signers"} \subseteq DOMAIN shown BY <1>3 DEF Fields
    <3> QED BY <1>9, <2>3, <3>1, DraftWins
  <2>5. e["allApproved"] = TRUE
    <3>1. draft["signed"] = shown.signers BY <2>1, <2>4
    <3> QED BY <2>3, <2>4, <3>1
  <2>6. Fields(e) \in ApproveArtifact
    <3>1. DOMAIN Fields(e) = {"action", "tier", "signers", "signed", "allApproved"}
      BY <1>3, <1>9, <2>3, DraftOverlaid
    <3>2. Fields(e) = [action |-> e["action"], tier |-> e["tier"], signers |-> e["signers"],
                       signed |-> e["signed"], allApproved |-> e["allApproved"]]
      BY <3>1 DEF Fields
    <3>3. /\ shown["action"] \in DecideActions /\ shown["tier"] \in Severities
          /\ shown["signers"] \in (SUBSET SignerRoles) \ {{}}
      BY <1>1 DEF ApproveArtifact, Fields
    <3>4. e["signed"] \in SUBSET SignerRoles BY <2>3, <2>4, <3>3
    <3>5. e["allApproved"] \in BOOLEAN BY <2>5
    <3> QED BY <2>4, <3>2, <3>3, <3>4, <3>5 DEF ApproveArtifact
  <2>7. SecurityGate("approve", st, Known)
    <3>1. /\ HasArtifact(st, "decide")
          /\ EffectiveArtifact(st, "decide") = EffectiveArtifact(rec, "decide")
      BY <1>0, <1>9, Behind, 4 \in 1..(5 - 1)
    <3>2. shown.action = EffectiveArtifact(rec, "decide").action BY ShownChain DEF shown
    <3>3. AssertApproved(st) BY <1>9, <2>1, <2>4, <2>5, <3>1, <3>2 DEF AssertApproved
    <3> QED BY <3>3 DEF SecurityGate
  <2>8. ComputeContainPreview(st) # {}
    <3>1. HasArtifact(st, "decide") BY <1>0, <1>9, Behind, 4 \in 1..(5 - 1)
    <3> QED BY <3>1 DEF ComputeContainPreview, Unless
  <2>9. SecurityCompute("contain", st, Known) # {} BY <2>8, StoredOrSome DEF SecurityCompute
  <2>10. Fields(e) \in SecurityContract("approve") BY <2>6 DEF SecurityContract
  <2> QED BY <1>0, <2>7, <2>9, <2>10, SecurityOpened
<1>10. Step(5) = "approve" /\ shown = rec.art[Step(5)] BY <1>0 DEF shown
<1>11. Showing(rec, lane, 5, facts) /\ Len(StepsOf(lane)) = 6 BY <1>0
<1>12. GoesOn(rec, 5, shown, drafts) BY <1>9, <1>10, <1>11 DEF GoesOn
<1> QED BY <1>8, <1>10, <1>11, <1>12, GoingOnMirrors

LEMMA SecurityContainMirrors ==
  ASSUME lane = "security", NEW rec, Showing(rec, "security", 6, facts)
  PROVE  Mirrors(rec, 6)
<1> DEFINE shown == rec.art["contain"]
           defaults == NoDefaults
<1>0. /\ SecuritySteps[6] = "contain" /\ Len(StepsOf(lane)) = 6 /\ Step(6) = "contain"
      /\ StepsOf(lane)[1] = "ingest" /\ StepsOf(lane)[2] = "triage"
      /\ StepsOf(lane)[3] = "investigate" /\ StepsOf(lane)[4] = "decide"
      /\ StepsOf(lane)[5] = "approve" /\ StepsOf(lane)[6] = "contain"
  BY SecurityOpened, SecurityWalk DEF SecuritySteps
<1>1. Fields(shown) \in ContainPreview
  <2>1. Contract(lane, "contain", shown) BY <1>0 DEF Showing
  <2>2. Fields(shown) \in SecurityContract("contain") BY <1>0, <2>1, SecurityOpened
  <2> QED BY <2>2 DEF SecurityContract
<1>2. SurfaceOf(lane, "contain", shown) = ReadOnly(Parsed(shown, {"action", "outcome"}, defaults))
  <2>1. SurfaceOf(lane, "contain", shown) = SecuritySurface("contain", shown) BY <1>0, SecurityOpened
  <2> QED BY <2>1 DEF SecuritySurface, SecurityContainView
<1>3. DOMAIN Fields(shown) = {"action", "outcome"}
  BY <1>1 DEF ContainPreview
<1>4. /\ {"action", "outcome"} \union DOMAIN defaults \subseteq DOMAIN shown
      /\ "hidden" \notin {"action", "outcome"} \union DOMAIN defaults
  <2>1. DOMAIN defaults = {} BY DEF NoDefaults
  <2>2. DOMAIN Fields(shown) \subseteq DOMAIN shown BY DEF Fields
  <2> HIDE DEF shown, defaults
  <2> QED BY <1>3, <2>1, <2>2
<1> HIDE DEF defaults
<1>5. Pictured(lane, "contain", shown) /\ SurfaceOf(lane, "contain", shown).drafts = {}
  BY <1>2, <1>4, ReadOnlyIsSaid
<1>6. ASSUME NEW st, Resumes(st, rec, lane, 6, NoEdits)
      PROVE  LaneGate(lane, Step(6), st, Known)
  <2>1. /\ StepsOf("security")[5] = "approve" /\ "decide" \in Prior("security", 5 + 1)
        /\ "approve" \in Prior("security", 5 + 1)
    BY SecurityWalk
  <2>2. Approved(rec, "security", 5, facts) BY DEF Showing
  <2>3. PICK tt, D : Shows(tt, rec, "security", 5 + 1) /\ LaneGate("security", "approve", tt, Looked(facts, D))
    BY <2>1, <2>2, Gated, 5 \in 1..5
  <2>4. \A u \in {"decide", "approve"} : /\ EffectiveArtifact(tt, u) = EffectiveArtifact(rec, u)
                                        /\ HasArtifact(tt, u) = HasArtifact(rec, u)
    BY <2>1, <2>3 DEF Shows
  <2>5. \A u \in {"decide", "approve"} : /\ EffectiveArtifact(st, u) = EffectiveArtifact(rec, u)
                                        /\ HasArtifact(st, u) = HasArtifact(rec, u)
    BY <2>1, <1>6 DEF Resumes, Shows
  <2>6. AssertApproved(tt) BY <2>3 DEF LaneGate, SecurityGate
  <2>7. AssertApproved(st) BY <2>4, <2>5, <2>6 DEF AssertApproved
  <2>8. SecurityGate("contain", st, Known) BY <2>7 DEF SecurityGate
  <2> QED BY <1>0, <2>8, SecurityOpened
<1> HIDE DEF shown
<1>7. Step(6) = "contain" /\ rec.art[Step(6)] = shown BY <1>0 DEF shown
<1> QED BY <1>0, <1>5, <1>6, <1>7, UneditedMirrors

LEMMA SecurityMirrors ==
  ASSUME lane = "security", NEW rec, NEW i \in 1..Len(StepsOf(lane)), Showing(rec, lane, i, facts),
         rec.art["ingest"].v # 0 /\ rec.art["ingest"].seenBefore => SeenBefore(Known)
  PROVE  Mirrors(rec, i)
<1>1. i \in 1..6 /\ StepsOf(lane)[1] = "ingest" BY SecurityWalk
<1>2. i = 1 => rec.art["ingest"].v # 0 BY <1>1 DEF Showing
<1> QED BY <1>1, <1>2, SecurityIngestMirrors, SecurityTriageMirrors, SecurityInvestigateMirrors,
           SecurityDecideMirrors, SecurityApproveMirrors, SecurityContainMirrors

-----------------------------------------------------------------------------
(* The plans of files *)

\* What is planned is a file of the others, or one of them with other content.
Redrafted(file, files) == \E k \in 1..Len(files) :
  file = files[k] \/ \E content \in {"edited", "broken"} : file = [files[k] EXCEPT !.content = content]

\* A draft of a plan rewrites its files or leaves some out.
LEMMA PlanDraftsKeep ==
  ASSUME NEW files, Len(files) \in Nat, NEW plan \in PlanDrafts(files)
  PROVE  Len(plan) \in 0..Len(files) /\ \A n \in 1..Len(plan) : Redrafted(plan[n], files)
<1> DEFINE L == Len(files)
           first == files[1].path
           last == files[L].path
           Rewrite(n, content) == IF files[n].path = first THEN [files[n] EXCEPT !.content = content]
                                  ELSE files[n]
           Rewritten(content) == [n \in 1..L |-> Rewrite(n, content)]
           S == {file \in FilesOf(files) : file.path # last}
           kept == Selected(files, S)
<1>1. plan = Rewritten("edited") \/ plan = Rewritten("broken") \/ plan = kept BY DEF PlanDrafts
<1>2. ASSUME NEW content \in {"edited", "broken"}, plan = Rewritten(content)
      PROVE  /\ Len(plan) = L
             /\ \A n \in 1..L : plan[n] = files[n] \/ plan[n] = [files[n] EXCEPT !.content = content]
  <2> HIDE DEF L
  <2>1. Len(plan) = L BY <1>2 DEF L
  <2>2. \A n \in 1..L : plan[n] = Rewrite(n, content) BY <1>2
  <2> QED BY <2>1, <2>2
<1>3. ASSUME plan = kept
      PROVE  /\ Len(plan) \in 0..L /\ \A n \in 1..Len(plan) : \E k \in 1..L : plan[n] = files[k]
  <2> HIDE DEF S
  <2>1. /\ Len(kept) \in 0..L
        /\ \A n \in 1..Len(kept) : \E i \in 1..L : files[i] \in S /\ kept[n] = files[i]
    BY SelectedIsKept
  <2> HIDE DEF kept, L
  <2> QED BY <1>3, <2>1
<1>4. CASE plan = kept BY <1>3, <1>4 DEF Redrafted
<1>5. ASSUME NEW content \in {"edited", "broken"}, plan = Rewritten(content)
      PROVE  Len(plan) \in 0..Len(files) /\ \A n \in 1..Len(plan) : Redrafted(plan[n], files)
  BY <1>2, <1>5 DEF Redrafted
<1> HIDE DEF Rewritten, kept
<1> QED BY <1>1, <1>4, <1>5

\* What is left in nothing is nothing.
LEMMA NoPlanOfNothing ==
  ASSUME NEW files, Len(files) \in Nat, PatchFilesInPlan(files) # <<>>
  PROVE  Len(files) # 0
<1> DEFINE S == {file \in FilesOf(files) : file.included}
<1>1. PatchFilesInPlan(files) = Selected(files, S) BY DEF PatchFilesInPlan
<1> HIDE DEF S
<1>2. /\ Len(Selected(files, S)) \in 0..Len(files)
      /\ Len(Selected(files, S)) = 0 => Selected(files, S) = <<>>
  BY SelectedIsKept
<1> QED BY <1>1, <1>2

\* What is drafted of a plan, and leaves something in, is no longer than it.
LEMMA DraftedFilesStay ==
  ASSUME NEW files, Len(files) \in 1..3, NEW plan \in PlanDrafts(files), PatchFilesInPlan(plan) # <<>>
  PROVE  Len(plan) \in 1..3 /\ \A n \in 1..Len(plan) : Redrafted(plan[n], files)
<1>1. Len(files) \in Nat /\ Len(files) <= 3
  <2>1. ASSUME NEW l \in 1..3 PROVE l \in Nat /\ l <= 3 OBVIOUS
  <2> QED BY <2>1
<1>2. Len(plan) \in 0..Len(files) /\ \A n \in 1..Len(plan) : Redrafted(plan[n], files)
  BY <1>1, PlanDraftsKeep
<1>3. Len(plan) # 0
  <2>1. Len(plan) \in Nat BY <1>1, <1>2
  <2> QED BY <2>1, NoPlanOfNothing
<1>4. ASSUME NEW l \in Nat, NEW m \in 0..l, l <= 3, m # 0 PROVE m \in 1..3 BY <1>4
<1> QED BY <1>1, <1>2, <1>3, <1>4

-----------------------------------------------------------------------------
(* Features *)

LEMMA FeaturesOpened ==
  ASSUME lane = "features", NEW i \in 1..4, NEW a, NEW st
  PROVE  /\ Step(i) = FeaturesSteps[i] /\ Len(StepsOf(lane)) = 4
         /\ SurfaceOf(lane, Step(i), a) = FeaturesSurface(FeaturesSteps[i], a)
         /\ Contract(lane, Step(i), a) <=> FeaturesContract(FeaturesSteps[i], a)
         /\ LetThrough(Step(i), a) => ~FeaturesBlocked(FeaturesSteps[i], a)
         /\ LaneGate(lane, Step(i), st, Known) <=> FeaturesGate(FeaturesSteps[i], st)
         /\ i < 4 => Compute(lane, Step(i + 1), st, Known) = FeaturesCompute(FeaturesSteps[i + 1], st, Known)
<1>1. Step(i) = FeaturesSteps[i] /\ Len(StepsOf(lane)) = 4 BY FeaturesWalk DEF Step
<1>2. i < 4 => Step(i + 1) = FeaturesSteps[i + 1] BY FeaturesWalk DEF Step
<1>3. SurfaceOf(lane, Step(i), a) = FeaturesSurface(FeaturesSteps[i], a) BY <1>1 DEF SurfaceOf
<1>4. Contract(lane, Step(i), a) <=> FeaturesContract(FeaturesSteps[i], a)
  BY <1>1 DEF Contract
<1>5. LetThrough(Step(i), a) => ~FeaturesBlocked(FeaturesSteps[i], a)
  BY <1>1 DEF LetThrough, Blocked
<1>6. LaneGate(lane, Step(i), st, Known) <=> FeaturesGate(FeaturesSteps[i], st) BY <1>1 DEF LaneGate
<1>7. i < 4 => Compute(lane, Step(i + 1), st, Known) = FeaturesCompute(FeaturesSteps[i + 1], st, Known)
  BY <1>2 DEF Compute
<1> QED BY <1>1, <1>3, <1>4, <1>5, <1>6, <1>7

LEMMA FeatureSelectionMirrors ==
  ASSUME lane = "features", facts \in FeaturesFacts, NEW rec, Showing(rec, "features", 1, facts)
  PROVE  Mirrors(rec, 1)
<1> DEFINE shown == rec.art["feature-selection"]
           defaults == [criteria |-> {}, included |-> {}, maxChangedFiles |-> DefaultChangedFiles]
           drafts == {[ticket |-> "other"], [maxChangedFiles |-> MaxChangedFiles],
                      [included |-> shown.criteria \ {"ac1"}]}
           all == {"ticket", "criteria", "included", "maxChangedFiles"}
<1>0. /\ FeaturesSteps[1] = "feature-selection" /\ FeaturesSteps[2] = "scope-design"
      /\ Len(StepsOf(lane)) = 4 /\ Step(1) = "feature-selection"
      /\ StepsOf(lane)[1] = "feature-selection"
  BY FeaturesOpened, FeaturesWalk DEF FeaturesSteps
<1>1. FeatureSelectionValid(shown)
  <2>1. Contract(lane, "feature-selection", shown) BY <1>0 DEF Showing
  <2>2. FeaturesContract("feature-selection", shown) BY <1>0, <2>1, FeaturesOpened
  <2> QED BY <2>2 DEF FeaturesContract
<1>2. all \subseteq DOMAIN shown
  <2>1. PICK st, C, a, v : a \in ComputeFeatureSelection(st, Looked(facts, C)) /\ shown = WithField(a, "v", v)
    BY <1>0, ShownSays DEF From, Compute, FeaturesCompute
  <2>2. all \subseteq DOMAIN Fields(a) BY <2>1, FeatureSelectionConforms
  <2> QED BY <2>1, <2>2 DEF WithField, Fields
<1>3. SurfaceOf(lane, "feature-selection", shown) = Surface(Parsed(shown, {"ticket"}, defaults), drafts)
  <2>1. SurfaceOf(lane, "feature-selection", shown) = FeaturesSurface("feature-selection", shown)
    BY <1>0, FeaturesOpened
  <2> QED BY <2>1 DEF FeaturesSurface, FeatureSelectionSurface, FeatureSelectionView
<1>4. /\ {"ticket"} \union DOMAIN defaults \subseteq DOMAIN shown
      /\ "hidden" \notin {"ticket"} \union DOMAIN defaults
  BY <1>2
<1> HIDE DEF shown
<1>5. ASSUME NEW draft \in {NoEdits} \union drafts, draft # NoEdits
      PROVE  \/ DOMAIN draft = {"ticket"} /\ draft["ticket"] = "other"
             \/ DOMAIN draft = {"maxChangedFiles"} /\ draft["maxChangedFiles"] = MaxChangedFiles
             \/ DOMAIN draft = {"included"} /\ draft["included"] = shown.criteria \ {"ac1"}
  BY <1>5
<1> HIDE DEF drafts, defaults
<1>6. Pictured(lane, "feature-selection", shown) /\ SurfaceOf(lane, "feature-selection", shown).drafts = drafts
  BY <1>3, <1>4, SurfaceIsSaid
<1>7. ASSUME NEW draft \in {NoEdits} \union drafts, NEW e, e = Merged(draft, shown),
             draft = NoEdits => e = shown, NEW st, HasArtifact(st, "feature-selection")
      PROVE  /\ Contract(lane, Step(1), e) /\ LaneGate(lane, Step(1), st, Known)
             /\ Compute(lane, Step(1 + 1), st, Known) # {}
  <2>1. FeatureSelectionValid(e)
    <3>1. CASE draft = NoEdits BY <1>1, <1>7, <3>1
    <3>2. CASE DOMAIN draft = {"ticket"} /\ draft["ticket"] = "other"
      <4>1. /\ e["ticket"] = "other" /\ e["criteria"] = shown["criteria"]
            /\ e["included"] = shown["included"] /\ e["maxChangedFiles"] = shown["maxChangedFiles"]
        BY <1>2, <1>7, <3>2, DraftWins
      <4> QED BY <1>1, <4>1 DEF FeatureSelectionValid, FeatureTickets
    <3>3. CASE DOMAIN draft = {"maxChangedFiles"} /\ draft["maxChangedFiles"] = MaxChangedFiles
      <4>1. /\ e["ticket"] = shown["ticket"] /\ e["criteria"] = shown["criteria"]
            /\ e["included"] = shown["included"] /\ e["maxChangedFiles"] = MaxChangedFiles
        BY <1>2, <1>7, <3>3, DraftWins
      <4>2. MaxChangedFiles \in 1..MaxChangedFiles BY DEF MaxChangedFiles
      <4> QED BY <1>1, <4>1, <4>2 DEF FeatureSelectionValid
    <3>4. CASE DOMAIN draft = {"included"} /\ draft["included"] = shown.criteria \ {"ac1"}
      <4>1. /\ e["ticket"] = shown["ticket"] /\ e["criteria"] = shown["criteria"]
            /\ e["included"] = shown.criteria \ {"ac1"} /\ e["maxChangedFiles"] = shown["maxChangedFiles"]
        BY <1>2, <1>7, <3>4, DraftWins
      <4> QED BY <1>1, <4>1 DEF FeatureSelectionValid
    <3> QED BY <1>5, <1>7, <3>1, <3>2, <3>3, <3>4
  <2>2. FeaturesGate("feature-selection", st) BY DEF FeaturesGate
  <2>3. ComputeScopeDesign(st) # {}
    <3> DEFINE answers == ContractOutput(FeaturePlannerAnswers, (SUBSET FeatureAreas) \ {{}})
               Designed(areas) == [ticket |-> EffectiveArtifact(st, "feature-selection").ticket,
                                   areas |-> areas, from |-> DerivedFrom(st, {"feature-selection"})]
    <3>1. ComputeScopeDesign(st) =
            Unless(~HasArtifact(st, "feature-selection"), {Designed(areas) : areas \in answers})
      BY DEF ComputeScopeDesign
    <3>2. {"ui", "tests"} \in answers BY DEF ContractOutput, FeaturePlannerAnswers, FeatureAreas
    <3> HIDE DEF answers, Designed
    <3> QED BY <1>7, <3>1, <3>2 DEF Unless
  <2>4. FeaturesCompute("scope-design", st, Known) # {} BY <2>3 DEF FeaturesCompute
  <2>5. FeaturesContract("feature-selection", e) BY <2>1 DEF FeaturesContract
  <2> QED BY <1>0, <2>2, <2>4, <2>5, FeaturesOpened
<1>8. Step(1) = "feature-selection" /\ shown = rec.art[Step(1)] BY <1>0 DEF shown
<1>9. Showing(rec, lane, 1, facts) /\ Len(StepsOf(lane)) = 4 BY <1>0
<1>10. GoesOn(rec, 1, shown, drafts) BY <1>7, <1>8, <1>9 DEF GoesOn
<1> QED BY <1>6, <1>8, <1>9, <1>10, GoingOnMirrors

\* The engineer has an answer within what the planner enables.
LEMMA SomethingIsWritten ==
  ASSUME NEW st, HasArtifact(st, "feature-selection"), HasArtifact(st, "scope-design"),
         EffectiveArtifact(st, "feature-selection").included # {},
         EffectiveArtifact(st, "scope-design").areas = {"ui", "tests"}
  PROVE  ComputeImplementation(st) # {}
<1> DEFINE selection == EffectiveArtifact(st, "feature-selection")
           scope == EffectiveArtifact(st, "scope-design")
           Within(answer) == {file \in FilesOf(answer.files) : file.area \in scope.areas}
           Enabled(answer) == Selected(answer.files, Within(answer))
           Writable(answer) == Enabled(answer) # <<>> /\ \A p \in PathsOf(Enabled(answer)) : AllowsPath(p)
           Coverage(files) == [c \in selection.included |-> EvidenceFor(c, files)]
           Implementation(verdict, files) ==
             [ticket |-> scope.ticket, areas |-> scope.areas, verdict |-> verdict, files |-> files,
              coverage |-> Coverage(files), passed |-> Validates(files),
              from |-> DerivedFrom(st, {"feature-selection", "scope-design"})]
           missing == ~HasArtifact(st, "feature-selection") \/ ~HasArtifact(st, "scope-design")
           bad == selection.included = {} \/ scope.areas = {}
           answers == {x \in FeatureEngineerAnswers : Writable(x)}
           broken == [path |-> "app", area |-> "ui", criteria |-> {"ac1"}, content |-> "broken",
                      included |-> TRUE]
           files == <<broken>>
           answer == [verdict |-> "needs_attention", files |-> files]
           S == Within(answer)
<1>1. ComputeImplementation(st) =
        IF missing THEN {}
        ELSE Unless(bad, {Implementation(x.verdict, FirstOf(Enabled(x), selection.maxChangedFiles))
                            : x \in answers})
  BY DEF ComputeImplementation
<1>2. ~missing /\ ~bad OBVIOUS
<1>3. answer \in FeatureEngineerAnswers
  <2> HIDE DEF Within, Enabled, Writable, Coverage, Implementation, missing, bad, answers, S
  <2> QED BY DEF FeatureEngineerAnswers
<1> HIDE DEF Within, Enabled, Writable, Coverage, Implementation, missing, bad, answers, S
<1>4. Len(files) = 1 /\ files[1] = broken OBVIOUS
<1>5. answer.files = files OBVIOUS
<1>6. broken.path = "app" /\ broken.area = "ui" OBVIOUS
<1> HIDE DEF broken, files
<1>7. files[1] \in S
  <2>1. files[1] \in FilesOf(files) BY <1>4 DEF FilesOf
  <2> QED BY <1>4, <1>5, <1>6, <2>1 DEF S, Within
<1>8. Enabled(answer) = Selected(files, S) BY <1>5 DEF Enabled, S
<1> HIDE DEF answer, selection, scope
<1>12. Len(files) \in Nat /\ 1 \in 1..Len(files) BY <1>4
<1>9. Selected(files, S) # <<>> BY <1>7, <1>12, SelectedIsThere
<1>13. \A n \in 1..Len(Selected(files, S)) :
          \E k \in 1..Len(files) : files[k] \in S /\ Selected(files, S)[n] = files[k]
  BY <1>12, SelectedIsKept
<1>10. ASSUME NEW p \in PathsOf(Selected(files, S)) PROVE AllowsPath(p)
  <2>1. PICK n \in 1..Len(Selected(files, S)) : p = Selected(files, S)[n].path
    BY <1>10 DEF PathsOf, FilesOf
  <2>2. PICK k \in 1..Len(files) : Selected(files, S)[n] = files[k] BY <1>13
  <2>3. k = 1 BY <1>4
  <2>4. p = "app" BY <1>4, <1>6, <2>1, <2>2, <2>3
  <2> QED BY <2>4 DEF AllowsPath, AllowPaths, DenyPaths
<1>11. answer \in answers BY <1>3, <1>8, <1>9, <1>10 DEF answers, Writable
<1> QED BY <1>1, <1>2, <1>11 DEF Unless

LEMMA ScopeDesignMirrors ==
  ASSUME lane = "features", NEW rec, Showing(rec, "features", 2, facts)
  PROVE  Mirrors(rec, 2)
<1> DEFINE shown == rec.art["scope-design"]
           defaults == [areas |-> {}]
           drafts == {[areas |-> {}]}
<1>0. /\ FeaturesSteps[2] = "scope-design" /\ FeaturesSteps[3] = "implementation"
      /\ Len(StepsOf(lane)) = 4 /\ Step(2) = "scope-design"
      /\ StepsOf(lane)[1] = "feature-selection" /\ StepsOf(lane)[2] = "scope-design"
  BY FeaturesOpened, FeaturesWalk DEF FeaturesSteps
<1>1. ScopeDesignValid(shown)
  <2>1. Contract(lane, "scope-design", shown) BY <1>0 DEF Showing
  <2>2. FeaturesContract("scope-design", shown) BY <1>0, <2>1, FeaturesOpened
  <2> QED BY <2>2 DEF FeaturesContract
<1>2. {"ticket", "areas"} \subseteq DOMAIN shown /\ shown.areas = {"ui", "tests"}
  <2>1. PICK st, C, a, v : a \in ComputeScopeDesign(st) /\ shown = WithField(a, "v", v)
    BY <1>0, ShownSays DEF From, Compute, FeaturesCompute
  <2> DEFINE ticket == EffectiveArtifact(st, "feature-selection").ticket
             from == DerivedFrom(st, {"feature-selection"})
  <2>2. PICK areas \in ContractOutput(FeaturePlannerAnswers, (SUBSET FeatureAreas) \ {{}}) :
          a = [ticket |-> ticket, areas |-> areas, from |-> from]
    BY <2>1 DEF ComputeScopeDesign, Unless
  <2>3. areas = {"ui", "tests"} BY <2>2 DEF ContractOutput, FeaturePlannerAnswers
  <2> HIDE DEF ticket, from, shown
  <2>4. {"ticket", "areas"} \subseteq DOMAIN Fields(a) BY <2>2 DEF Fields
  <2>5. a.areas = areas BY <2>2
  <2>6. {"ticket", "areas"} \subseteq DOMAIN shown BY <2>1, <2>4 DEF Fields, WithField
  <2>7. shown.areas = a.areas BY <2>1, <2>4, StillSays
  <2> QED BY <2>3, <2>5, <2>6, <2>7
<1>3. SurfaceOf(lane, "scope-design", shown) = Surface(Parsed(shown, {"ticket"}, defaults), drafts)
  <2>1. SurfaceOf(lane, "scope-design", shown) = FeaturesSurface("scope-design", shown)
    BY <1>0, FeaturesOpened
  <2> QED BY <2>1 DEF FeaturesSurface, ScopeDesignSurface, ScopeDesignView
<1>4. /\ {"ticket"} \union DOMAIN defaults \subseteq DOMAIN shown
      /\ "hidden" \notin {"ticket"} \union DOMAIN defaults
  BY <1>2
<1> HIDE DEF shown
<1>5. ASSUME NEW draft \in {NoEdits} \union drafts, draft # NoEdits
      PROVE  DOMAIN draft = {"areas"} /\ draft["areas"] = {}
  BY <1>5
<1> HIDE DEF drafts, defaults
<1>6. Pictured(lane, "scope-design", shown) /\ SurfaceOf(lane, "scope-design", shown).drafts = drafts
  BY <1>3, <1>4, SurfaceIsSaid
<1>7. ASSUME NEW draft \in {NoEdits} \union drafts, NEW e, e = Merged(draft, shown),
             draft = NoEdits => e = shown, LetBy(rec, 2), LetThrough("scope-design", e),
             NEW st, Resumes(st, rec, lane, 2, draft),
             EffectiveArtifact(st, "scope-design") = e, HasArtifact(st, "scope-design")
      PROVE  /\ Contract(lane, Step(2), e) /\ LaneGate(lane, Step(2), st, Known)
             /\ Compute(lane, Step(2 + 1), st, Known) # {}
  <2>1. e = shown
    <3>1. CASE draft = NoEdits BY <1>7, <3>1
    <3>2. CASE draft # NoEdits
      <4>1. DOMAIN draft = {"areas"} /\ draft["areas"] = {} BY <1>5, <3>2
      <4>2. e["areas"] = {} BY <1>7, <4>1, DraftWins
      <4>3. ~FeaturesBlocked("scope-design", e) BY <1>0, <1>7, FeaturesOpened
      <4>4. e.areas # {} BY <4>3 DEF FeaturesBlocked
      <4> QED BY <4>2, <4>4
    <3> QED BY <3>1, <3>2
  <2>2. FeaturesGate("scope-design", st) BY DEF FeaturesGate
  <2>3. /\ HasArtifact(st, "feature-selection")
        /\ EffectiveArtifact(st, "feature-selection") = EffectiveArtifact(rec, "feature-selection")
    BY <1>0, <1>7, Behind, 1 \in 1..(2 - 1)
  <2>4. EffectiveArtifact(rec, "feature-selection").included # {}
    <3>1. Step(1) = "feature-selection" BY <1>0 DEF Step
    <3>2. LetThrough("feature-selection", EffectiveArtifact(rec, "feature-selection"))
      BY <1>7, <3>1, 1 \in 1..(2 - 1) DEF LetBy
    <3>3. ~FeaturesBlocked("feature-selection", EffectiveArtifact(rec, "feature-selection"))
      BY <3>2 DEF LetThrough, Blocked
    <3> QED BY <3>3 DEF FeaturesBlocked
  <2>5. ComputeImplementation(st) # {} BY <1>2, <1>7, <2>1, <2>3, <2>4, SomethingIsWritten
  <2>6. FeaturesCompute("implementation", st, Known) # {} BY <2>5 DEF FeaturesCompute
  <2>7. FeaturesContract("scope-design", e) BY <1>1, <2>1 DEF FeaturesContract
  <2> QED BY <1>0, <2>2, <2>6, <2>7, FeaturesOpened
<1>8. Step(2) = "scope-design" /\ shown = rec.art[Step(2)] BY <1>0 DEF shown
<1>9. Showing(rec, lane, 2, facts) /\ Len(StepsOf(lane)) = 4 BY <1>0
<1>10. GoesOn(rec, 2, shown, drafts) BY <1>7, <1>8, <1>9 DEF GoesOn
<1> QED BY <1>6, <1>8, <1>9, <1>10, GoingOnMirrors

\* A plan drafted of the files in review is one of the files an engineer may name.
LEMMA DraftedFilesConform ==
  ASSUME NEW files, Len(files) \in 1..MaxChangedFiles, FilesOf(files) \subseteq FeatureFile,
         NEW plan \in PlanDrafts(files), PatchFilesInPlan(plan) # <<>>
  PROVE  Len(plan) \in 1..MaxChangedFiles /\ FilesOf(plan) \subseteq FeatureFile
<1>1. MaxChangedFiles = 3 BY DEF MaxChangedFiles
<1>2. Len(plan) \in 1..3 /\ \A n \in 1..Len(plan) : Redrafted(plan[n], files)
  BY <1>1, DraftedFilesStay
<1>3. ASSUME NEW file \in FeatureFile, NEW content \in {"edited", "broken"}
      PROVE  [file EXCEPT !.content = content] \in FeatureFile
  BY DEF FeatureFile
<1>4. ASSUME NEW n \in 1..Len(plan) PROVE plan[n] \in FeatureFile
  <2>1. PICK k \in 1..Len(files) :
           plan[n] = files[k] \/ \E content \in {"edited", "broken"} :
                                   plan[n] = [files[k] EXCEPT !.content = content]
    BY <1>2 DEF Redrafted
  <2>2. files[k] \in FeatureFile BY DEF FilesOf
  <2> QED BY <1>3, <2>1, <2>2
<1>5. FilesOf(plan) \subseteq FeatureFile BY <1>4 DEF FilesOf
<1> QED BY <1>1, <1>2, <1>5

LEMMA ImplementationMirrors ==
  ASSUME lane = "features", NEW rec, Showing(rec, "features", 3, facts)
  PROVE  Mirrors(rec, 3)
<1> DEFINE shown == rec.art["implementation"]
           defaults == [files |-> <<>>, coverage |-> << >>, passed |-> FALSE]
           plans == PlanDrafts(shown.files)
           drafts == {[files |-> files] : files \in plans}
           all == {"ticket", "areas", "verdict", "files", "coverage", "passed"}
<1>0. /\ FeaturesSteps[3] = "implementation" /\ FeaturesSteps[4] = "complete"
      /\ Len(StepsOf(lane)) = 4 /\ Step(3) = "implementation"
      /\ StepsOf(lane)[1] = "feature-selection" /\ StepsOf(lane)[2] = "scope-design"
      /\ StepsOf(lane)[3] = "implementation"
  BY FeaturesOpened, FeaturesWalk DEF FeaturesSteps
<1>1. FeatureImplementationValid(shown)
  <2>1. Contract(lane, "implementation", shown) BY <1>0 DEF Showing
  <2>2. FeaturesContract("implementation", shown) BY <1>0, <2>1, FeaturesOpened
  <2> QED BY <2>2 DEF FeaturesContract
<1>2. all \subseteq DOMAIN shown
  <2>1. PICK st, C, a, v : /\ From(rec, "features", "implementation", 3, facts, st, C, a)
                           /\ shown = WithField(a, "v", v)
    BY <1>0, ShownSays
  <2>2. a \in ComputeImplementation(st) BY <2>1 DEF From, Compute, FeaturesCompute
  <2>3. /\ EffectiveArtifact(st, "feature-selection") = EffectiveArtifact(rec, "feature-selection")
        /\ EffectiveArtifact(st, "scope-design") = EffectiveArtifact(rec, "scope-design")
    BY <2>1, FeaturesWalk DEF From, Shows
  <2>4. Approved(rec, "features", 2, facts) BY DEF Showing
  <2>5. FeatureSelectionValid(EffectiveArtifact(rec, "feature-selection"))
    BY <2>4, 1 \in 1..2, FeaturesWalk, Contracted DEF Contract, FeaturesContract
  <2>6. ScopeDesignValid(EffectiveArtifact(rec, "scope-design"))
    BY <2>4, 2 \in 1..2, FeaturesWalk, Contracted DEF Contract, FeaturesContract
  <2>7. all \subseteq DOMAIN Fields(a) BY <2>2, <2>3, <2>5, <2>6, ImplementationConforms
  <2> QED BY <2>1, <2>7 DEF WithField, Fields
<1>3. SurfaceOf(lane, "implementation", shown) = Surface(Parsed(shown, {"verdict"}, defaults), drafts)
  <2>1. SurfaceOf(lane, "implementation", shown) = FeaturesSurface("implementation", shown)
    BY <1>0, FeaturesOpened
  <2> QED BY <2>1 DEF FeaturesSurface, FeatureImplementationSurface, FeatureImplementationView
<1>4. /\ {"verdict"} \union DOMAIN defaults \subseteq DOMAIN shown
      /\ "hidden" \notin {"verdict"} \union DOMAIN defaults
  BY <1>2
<1> HIDE DEF shown, plans
<1>5. ASSUME NEW draft \in {NoEdits} \union drafts, draft # NoEdits
      PROVE  DOMAIN draft = {"files"} /\ draft["files"] \in plans
  BY <1>5
<1> HIDE DEF drafts, defaults
<1>6. Pictured(lane, "implementation", shown) /\ SurfaceOf(lane, "implementation", shown).drafts = drafts
  BY <1>3, <1>4, SurfaceIsSaid
<1>7. ASSUME NEW draft \in {NoEdits} \union drafts, NEW e, e = Merged(draft, shown),
             draft = NoEdits => e = shown, LetThrough("implementation", e),
             NEW st, Resumes(st, rec, lane, 3, draft),
             EffectiveArtifact(st, "implementation") = e, HasArtifact(st, "implementation")
      PROVE  /\ Contract(lane, Step(3), e) /\ LaneGate(lane, Step(3), st, Known)
             /\ Compute(lane, Step(3 + 1), st, Known) # {}
  <2>1. ~EditViolations(FeaturePatch(e)) BY <1>7 DEF LetThrough, KnownDeadEnd, DeadPatch
  <2>2. FeatureImplementationValid(e)
    <3>1. CASE draft = NoEdits BY <1>1, <1>7, <3>1
    <3>2. CASE draft # NoEdits
      <4>1. DOMAIN draft = {"files"} /\ draft["files"] \in plans BY <1>5, <3>2
      <4>2. e["files"] \in PlanDrafts(shown.files) BY <1>7, <4>1, DraftWins DEF plans
      <4>3. PatchFilesInPlan(e["files"]) # <<>> BY <2>1 DEF EditViolations, FeaturePatch
      <4>4. Len(shown.files) \in 1..MaxChangedFiles /\ FilesOf(shown.files) \subseteq FeatureFile
        BY <1>1 DEF FeatureImplementationValid
      <4>5. Len(e["files"]) \in 1..MaxChangedFiles /\ FilesOf(e["files"]) \subseteq FeatureFile
        BY <4>2, <4>3, <4>4, DraftedFilesConform
      <4>6. /\ e["ticket"] = shown["ticket"] /\ e["verdict"] = shown["verdict"]
            /\ e["passed"] = shown["passed"] /\ e["areas"] = shown["areas"]
            /\ e["coverage"] = shown["coverage"]
        BY <1>2, <1>7, <4>1, DraftWins
      <4> QED BY <1>1, <4>5, <4>6 DEF FeatureImplementationValid
    <3> QED BY <3>1, <3>2
  <2>3. FeaturesGate("implementation", st) BY <1>7, <2>1 DEF FeaturesGate
  <2>4. HasArtifact(st, "feature-selection") BY <1>0, <1>7, Behind, 1 \in 1..(3 - 1)
  <2>5. ComputeCompletion(st) # {} BY <1>7, <2>4 DEF ComputeCompletion
  <2>6. FeaturesCompute("complete", st, Known) # {} BY <2>5 DEF FeaturesCompute
  <2>7. FeaturesContract("implementation", e) BY <2>2 DEF FeaturesContract
  <2> QED BY <1>0, <2>3, <2>6, <2>7, FeaturesOpened
<1>8. Step(3) = "implementation" /\ shown = rec.art[Step(3)] BY <1>0 DEF shown
<1>9. Showing(rec, lane, 3, facts) /\ Len(StepsOf(lane)) = 4 BY <1>0
<1>10. GoesOn(rec, 3, shown, drafts) BY <1>7, <1>8, <1>9 DEF GoesOn
<1> QED BY <1>6, <1>8, <1>9, <1>10, GoingOnMirrors

LEMMA FeatureCompleteMirrors ==
  ASSUME lane = "features", NEW rec, Showing(rec, "features", 4, facts)
  PROVE  Mirrors(rec, 4)
<1> DEFINE shown == rec.art["complete"]
           defaults == [paths |-> <<>>, coverage |-> << >>, passed |-> FALSE]
<1>0. /\ FeaturesSteps[4] = "complete" /\ Len(StepsOf(lane)) = 4 /\ Step(4) = "complete"
      /\ StepsOf(lane)[1] = "feature-selection" /\ StepsOf(lane)[2] = "scope-design"
      /\ StepsOf(lane)[3] = "implementation" /\ StepsOf(lane)[4] = "complete"
  BY FeaturesOpened, FeaturesWalk DEF FeaturesSteps
<1>1. {"branch", "paths", "coverage", "passed"} \subseteq DOMAIN shown
  <2>1. PICK st, C, a, v : a \in ComputeCompletion(st) /\ shown = WithField(a, "v", v)
    BY <1>0, ShownSays DEF From, Compute, FeaturesCompute
  <2>2. {"branch", "paths", "coverage", "passed"} \subseteq DOMAIN a BY <2>1 DEF ComputeCompletion
  <2> QED BY <2>1, <2>2 DEF WithField
<1>2. SurfaceOf(lane, "complete", shown) = ReadOnly(Parsed(shown, {"branch"}, defaults))
  <2>1. SurfaceOf(lane, "complete", shown) = FeaturesSurface("complete", shown) BY <1>0, FeaturesOpened
  <2> QED BY <2>1 DEF FeaturesSurface, FeatureCompleteSurface, FeatureCompletionView
<1>3. /\ {"branch"} \union DOMAIN defaults \subseteq DOMAIN shown
      /\ "hidden" \notin {"branch"} \union DOMAIN defaults
  BY <1>1
<1> HIDE DEF defaults
<1>4. Pictured(lane, "complete", shown) /\ SurfaceOf(lane, "complete", shown).drafts = {}
  BY <1>2, <1>3, ReadOnlyIsSaid
<1>5. ASSUME NEW st, LetBy(rec, 4), Resumes(st, rec, lane, 4, NoEdits)
      PROVE  LaneGate(lane, Step(4), st, Known)
  <2>1. /\ HasArtifact(st, "implementation")
        /\ EffectiveArtifact(st, "implementation") = EffectiveArtifact(rec, "implementation")
    BY <1>0, <1>5, Behind, 3 \in 1..(4 - 1)
  <2>2. Preflights(FeaturePatch(EffectiveArtifact(rec, "implementation")))
    <3>1. LetThrough(Step(3), EffectiveArtifact(rec, Step(3))) BY <1>5, 3 \in 1..(4 - 1) DEF LetBy
    <3>2. Step(3) = "implementation" BY <1>0 DEF Step
    <3> QED BY <3>1, <3>2 DEF LetThrough, KnownDeadEnd, DeadPatch
  <2>3. FeaturesGate("complete", st) BY <2>1, <2>2 DEF FeaturesGate
  <2> QED BY <1>0, <2>3, FeaturesOpened
<1> HIDE DEF shown
<1>6. Step(4) = "complete" /\ rec.art[Step(4)] = shown BY <1>0 DEF shown
<1> QED BY <1>0, <1>4, <1>5, <1>6, UneditedMirrors

LEMMA FeaturesMirror ==
  ASSUME lane = "features", facts \in FactsOf(lane), NEW rec, NEW i \in 1..Len(StepsOf(lane)),
         Showing(rec, lane, i, facts)
  PROVE  Mirrors(rec, i)
<1>1. i \in 1..4 /\ facts \in FeaturesFacts BY FeaturesWalk DEF FactsOf
<1> QED BY <1>1, FeatureSelectionMirrors, ScopeDesignMirrors, ImplementationMirrors, FeatureCompleteMirrors

-----------------------------------------------------------------------------
(* Issues *)

LEMMA IssuesOpened ==
  ASSUME lane = "issues", NEW i \in 1..4, NEW a, NEW st
  PROVE  /\ Step(i) = IssuesSteps[i] /\ Len(StepsOf(lane)) = 4
         /\ SurfaceOf(lane, Step(i), a) = IssuesSurface(IssuesSteps[i], a)
         /\ Contract(lane, Step(i), a) <=> IssuesContract(IssuesSteps[i], a)
         /\ LaneGate(lane, Step(i), st, Known) <=> IssuesGate(IssuesSteps[i], st)
         /\ i < 4 => Compute(lane, Step(i + 1), st, Known) = IssuesCompute(IssuesSteps[i + 1], st, Known)
<1>1. Step(i) = IssuesSteps[i] /\ Len(StepsOf(lane)) = 4 BY IssuesWalk DEF Step
<1>2. i < 4 => Step(i + 1) = IssuesSteps[i + 1] BY IssuesWalk DEF Step
<1>3. SurfaceOf(lane, Step(i), a) = IssuesSurface(IssuesSteps[i], a) BY <1>1 DEF SurfaceOf
<1>4. Contract(lane, Step(i), a) <=> IssuesContract(IssuesSteps[i], a)
  BY <1>1 DEF Contract
<1>5. LaneGate(lane, Step(i), st, Known) <=> IssuesGate(IssuesSteps[i], st) BY <1>1 DEF LaneGate
<1>6. i < 4 => Compute(lane, Step(i + 1), st, Known) = IssuesCompute(IssuesSteps[i + 1], st, Known)
  BY <1>2 DEF Compute
<1> QED BY <1>1, <1>3, <1>4, <1>5, <1>6

\* What can be taken of the first is the first.
LEMMA FirstIsFirst ==
  ASSUME NEW seq, Len(seq) \in Nat \ {0}, NEW m \in Nat \ {0}
  PROVE  Len(FirstOf(seq, m)) \in Nat \ {0} /\ FirstOf(seq, m)[1] = seq[1]
<1> DEFINE t == IF Len(seq) < m THEN Len(seq) ELSE m
           first == SubSeq(seq, 1, t)
<1>1. FirstOf(seq, m) = first BY DEF FirstOf
<1>2. t \in Nat \ {0} OBVIOUS
<1> HIDE DEF t
<1>3. first = [n \in 1..t |-> seq[n]] BY <1>2
<1>4. Len(first) = t /\ first[1] = seq[1] BY <1>2, <1>3
<1> HIDE DEF first
<1> QED BY <1>1, <1>2, <1>4

\* The application is among what the analyst is shown.
LEMMA AppIsShown == "app" \in InspectFiles
<1> DEFINE listed == ListFiles(4 * AnalysisFileLimit)
           Source == {path \in Listable : Analysable(path)}
           shown == Selected(listed, Source)
           inspected == FirstOf(shown, AnalysisFileLimit)
<1>1. Len(Tree) \in Nat \ {0} /\ Tree[1] = "app" BY DEF Tree
<1>2. "app" \in Listable BY DEF Listable, AllowPaths, DenyPaths, Vendored, AllowsPath
<1>3. "app" \in Source BY <1>2 DEF Analysable
<1>4. AnalysisFileLimit = 3 /\ 4 * AnalysisFileLimit = 12 BY DEF AnalysisFileLimit
<1>5. Len(listed) \in Nat \ {0} /\ listed[1] = "app"
  <2> DEFINE kept == Selected(Tree, Listable)
  <2>1. Len(kept) \in Nat \ {0} /\ kept[1] = "app" BY <1>1, <1>2, SelectedKeepsFirst
  <2>2. listed = FirstOf(kept, 12) BY <1>4 DEF ListFiles
  <2> HIDE DEF kept, listed
  <2>3. 12 \in Nat \ {0} OBVIOUS
  <2> QED BY <2>1, <2>2, <2>3, FirstIsFirst
<1> HIDE DEF listed, Source
<1>6. Len(shown) \in Nat \ {0} /\ shown[1] = "app" BY <1>3, <1>5, SelectedKeepsFirst
<1> HIDE DEF shown
<1>7. Len(inspected) \in Nat \ {0} /\ inspected[1] = "app"
  <2>1. 3 \in Nat \ {0} OBVIOUS
  <2> QED BY <1>4, <1>6, <2>1, FirstIsFirst
<1>8. InspectFiles = {inspected[i] : i \in 1..Len(inspected)}
  BY DEF InspectFiles, inspected, shown, Source, listed
<1> HIDE DEF inspected
<1>9. 1 \in 1..Len(inspected) BY <1>7
<1> QED BY <1>7, <1>8, <1>9

\* An analyst may cite what it was shown.
LEMMA SomethingIsCited ==
  ASSUME NEW st, HasArtifact(st, "issue-selection")
  PROVE  ComputeAnalysis(st) # {}
<1> DEFINE selection == EffectiveArtifact(st, "issue-selection")
           Visible(cited) == {x \in FilesOf(cited) : x.path \in InspectFiles}
           Inspected(cited) == Selected(cited, Visible(cited))
           Analysis(cited) == [ticket |-> selection.ticket,
                               affected |-> FirstOf(Inspected(cited), selection.maxChangedFiles),
                               from |-> DerivedFrom(st, {"issue-selection"})]
           answers == {x \in IssueAnalystAnswers : Inspected(x) # <<>>}
           two == <<"secret", "app">>
           cited == [i \in 1..Len(two) |-> [path |-> two[i], described |-> TRUE, ordered |-> TRUE]]
           S == Visible(cited)
<1>1. ComputeAnalysis(st) =
        Unless(~HasArtifact(st, "issue-selection"), {Analysis(x) : x \in answers})
  BY DEF ComputeAnalysis
<1> HIDE DEF Analysis, Inspected, answers, S
<1>2. cited \in IssueAnalystAnswers BY DEF IssueAnalystAnswers
<1>3. Len(cited) = 2 /\ cited[2].path = "app"
  <2>1. Len(two) = 2 /\ two[2] = "app" OBVIOUS
  <2> HIDE DEF two
  <2> QED BY <2>1
<1> HIDE DEF cited
<1>4. Len(cited) \in Nat /\ 2 \in 1..Len(cited) BY <1>3
<1>5. cited[2] \in S BY <1>3, <1>4, AppIsShown DEF S, FilesOf
<1>6. Selected(cited, S) # <<>> BY <1>4, <1>5, SelectedIsThere
<1>7. cited \in answers BY <1>2, <1>6 DEF answers, Inspected, S
<1> QED BY <1>1, <1>7 DEF Unless

\* The engineer has an answer the policy takes.
LEMMA SomethingIsFixed ==
  ASSUME NEW st, HasArtifact(st, "issue-selection"), HasArtifact(st, "analysis")
  PROVE  ComputeFix(st) # {}
<1> DEFINE selection == EffectiveArtifact(st, "issue-selection")
           test == selection.test
           ticket == selection.ticket
           Regression(answer) == IF test THEN answer.test ELSE <<>>
           Taken(answer) == /\ test => answer.test # <<>>
                            /\ \A p \in PathsOf(answer.files \o Regression(answer)) : AllowsPath(p)
           missing == ~HasArtifact(st, "issue-selection") \/ ~HasArtifact(st, "analysis")
           from == DerivedFrom(st, {"issue-selection", "analysis"})
           Passed(answer) == Validates(answer.files)
           Fixed(answer) == [ticket |-> ticket, files |-> answer.files, test |-> Regression(answer),
                             passed |-> Passed(answer), from |-> from]
           answers == {x \in IssueEngineerAnswers : Taken(x)}
           app == [path |-> "app", content |-> "good", included |-> TRUE]
           unit == [path |-> "test", content |-> "good", included |-> TRUE]
           answer == [files |-> <<app>>, test |-> <<unit>>]
           files == <<app>>
           regression == Regression(answer)
           written == files \o regression
<1>1. ComputeFix(st) = IF missing THEN {} ELSE {Fixed(x) : x \in answers}
  BY DEF ComputeFix
<1>2. ~missing OBVIOUS
<1> HIDE DEF Fixed, Taken, answers, missing, Regression, test
<1>3. answer \in IssueEngineerAnswers BY DEF IssueEngineerAnswers
<1>4. app.path = "app" /\ unit.path = "test" OBVIOUS
<1>5. answer.files = <<app>> /\ answer.test = <<unit>> OBVIOUS
<1> HIDE DEF app, unit, answer
<1>6. answer.test # <<>> BY <1>5
<1>7. regression \in {<<>>, <<unit>>} BY <1>5 DEF Regression
<1>8. ASSUME NEW p \in PathsOf(written) PROVE AllowsPath(p)
  <2>1. PICK k \in 1..Len(written) : p = written[k].path BY DEF PathsOf, FilesOf
  <2> HIDE DEF regression
  <2>2. files \in {<<>>, <<app>>} OBVIOUS
  <2> HIDE DEF files
  <2>3. written[k] \in {app, unit} BY <1>7, <2>2, JoinedHolds
  <2>4. p \in {"app", "test"} BY <1>4, <2>1, <2>3
  <2> QED BY <2>4 DEF AllowsPath, AllowPaths, DenyPaths
<1>9. Taken(answer)
  <2>1. written = answer.files \o Regression(answer) BY <1>5
  <2> HIDE DEF written
  <2> QED BY <1>6, <1>8, <2>1 DEF Taken
<1>10. answer \in answers BY <1>3, <1>9 DEF answers
<1> QED BY <1>1, <1>2, <1>10

LEMMA IssueSelectionMirrors ==
  ASSUME lane = "issues", NEW rec, Showing(rec, "issues", 1, facts)
  PROVE  Mirrors(rec, 1)
<1> DEFINE shown == rec.art["issue-selection"]
           defaults == [test |-> TRUE, maxChangedFiles |-> DefaultChangedFiles]
           drafts == {[test |-> FALSE]}
           all == {"ticket", "test", "maxChangedFiles"}
<1>0. /\ IssuesSteps[1] = "issue-selection" /\ IssuesSteps[2] = "analysis"
      /\ Len(StepsOf(lane)) = 4 /\ Step(1) = "issue-selection"
      /\ StepsOf(lane)[1] = "issue-selection"
  BY IssuesOpened, IssuesWalk DEF IssuesSteps
<1>1. IssueSelectionValid(shown)
  <2>1. Contract(lane, "issue-selection", shown) BY <1>0 DEF Showing
  <2>2. IssuesContract("issue-selection", shown) BY <1>0, <2>1, IssuesOpened
  <2> QED BY <2>2 DEF IssuesContract
<1>2. all \subseteq DOMAIN shown
  <2>1. PICK st, C, a, v : a \in ComputeIssueSelection(st, Looked(facts, C)) /\ shown = WithField(a, "v", v)
    BY <1>0, ShownSays DEF From, Compute, IssuesCompute
  <2>2. all \subseteq DOMAIN Fields(a) BY <2>1, IssueSelectionConforms
  <2> QED BY <2>1, <2>2 DEF WithField, Fields
<1>3. SurfaceOf(lane, "issue-selection", shown) = Surface(Parsed(shown, {"ticket"}, defaults), drafts)
  <2>1. SurfaceOf(lane, "issue-selection", shown) = IssuesSurface("issue-selection", shown)
    BY <1>0, IssuesOpened
  <2> QED BY <2>1 DEF IssuesSurface, IssueSelectionSurface, IssueSelectionView
<1>4. /\ {"ticket"} \union DOMAIN defaults \subseteq DOMAIN shown
      /\ "hidden" \notin {"ticket"} \union DOMAIN defaults
  BY <1>2
<1> HIDE DEF shown
<1>5. ASSUME NEW draft \in {NoEdits} \union drafts, draft # NoEdits
      PROVE  DOMAIN draft = {"test"} /\ draft["test"] = FALSE
  BY <1>5
<1> HIDE DEF drafts, defaults
<1>6. Pictured(lane, "issue-selection", shown) /\ SurfaceOf(lane, "issue-selection", shown).drafts = drafts
  BY <1>3, <1>4, SurfaceIsSaid
<1>7. ASSUME NEW draft \in {NoEdits} \union drafts, NEW e, e = Merged(draft, shown),
             draft = NoEdits => e = shown, NEW st, HasArtifact(st, "issue-selection")
      PROVE  /\ Contract(lane, Step(1), e) /\ LaneGate(lane, Step(1), st, Known)
             /\ Compute(lane, Step(1 + 1), st, Known) # {}
  <2>1. IssueSelectionValid(e)
    <3>1. CASE draft = NoEdits BY <1>1, <1>7, <3>1
    <3>2. CASE draft # NoEdits
      <4>1. DOMAIN draft = {"test"} /\ draft["test"] = FALSE BY <1>5, <3>2
      <4>2. /\ e["ticket"] = shown["ticket"] /\ e["test"] = FALSE
            /\ e["maxChangedFiles"] = shown["maxChangedFiles"]
        BY <1>2, <1>7, <4>1, DraftWins
      <4> QED BY <1>1, <4>2 DEF IssueSelectionValid
    <3> QED BY <3>1, <3>2
  <2>2. IssuesGate("issue-selection", st) BY DEF IssuesGate
  <2>3. ComputeAnalysis(st) # {} BY <1>7, SomethingIsCited
  <2>4. IssuesCompute("analysis", st, Known) # {} BY <2>3 DEF IssuesCompute
  <2>5. IssuesContract("issue-selection", e) BY <2>1 DEF IssuesContract
  <2> QED BY <1>0, <2>2, <2>4, <2>5, IssuesOpened
<1>8. Step(1) = "issue-selection" /\ shown = rec.art[Step(1)] BY <1>0 DEF shown
<1>9. Showing(rec, lane, 1, facts) /\ Len(StepsOf(lane)) = 4 BY <1>0
<1>10. GoesOn(rec, 1, shown, drafts) BY <1>7, <1>8, <1>9 DEF GoesOn
<1> QED BY <1>6, <1>8, <1>9, <1>10, GoingOnMirrors

LEMMA AnalysisMirrors ==
  ASSUME lane = "issues", NEW rec, Showing(rec, "issues", 2, facts)
  PROVE  Mirrors(rec, 2)
<1> DEFINE shown == rec.art["analysis"]
           defaults == [affected |-> <<>>]
           drafts == {[affected |-> [shown.affected EXCEPT ![i].ordered = FALSE]] : i \in 1..Len(shown.affected)}
                       \union {[affected |-> Dropped(shown.affected, i)] : i \in 1..Len(shown.affected)}
<1>0. /\ IssuesSteps[2] = "analysis" /\ IssuesSteps[3] = "implementation"
      /\ Len(StepsOf(lane)) = 4 /\ Step(2) = "analysis" /\ StepsOf(lane)[1] = "issue-selection"
      /\ StepsOf(lane)[2] = "analysis"
  BY IssuesOpened, IssuesWalk DEF IssuesSteps
<1>2. "affected" \in DOMAIN shown
  <2>1. PICK st, C, a, v : /\ From(rec, "issues", "analysis", 2, facts, st, C, a)
                           /\ shown = WithField(a, "v", v)
    BY <1>0, ShownSays
  <2>2. a \in ComputeAnalysis(st) BY <2>1 DEF From, Compute, IssuesCompute
  <2>3. EffectiveArtifact(st, "issue-selection") = EffectiveArtifact(rec, "issue-selection")
    BY <1>0, <2>1, 1 \in 1..(2 - 1) DEF From, Shows, Prior
  <2>4. Approved(rec, "issues", 1, facts) BY DEF Showing
  <2>5. IssueSelectionValid(EffectiveArtifact(rec, "issue-selection"))
    BY <2>4, 1 \in 1..1, IssuesWalk, Contracted DEF Contract, IssuesContract
  <2>6. "affected" \in DOMAIN Fields(a) BY <2>2, <2>3, <2>5, AnalysisConforms
  <2> QED BY <2>1, <2>6 DEF WithField, Fields
<1>3. SurfaceOf(lane, "analysis", shown) = Surface(Parsed(shown, {}, defaults), drafts)
  <2>1. SurfaceOf(lane, "analysis", shown) = IssuesSurface("analysis", shown)
    BY <1>0, IssuesOpened
  <2> QED BY <2>1 DEF IssuesSurface, IssueAnalysisSurface, IssueAnalysisView
<1>4. /\ {} \union DOMAIN defaults \subseteq DOMAIN shown
      /\ "hidden" \notin {} \union DOMAIN defaults
  BY <1>2
<1> HIDE DEF shown, drafts, defaults
<1>6. Pictured(lane, "analysis", shown) /\ SurfaceOf(lane, "analysis", shown).drafts = drafts
  BY <1>3, <1>4, SurfaceIsSaid
<1>7. ASSUME NEW draft, NEW e, LetThrough("analysis", e),
             NEW st, Resumes(st, rec, lane, 2, draft), HasArtifact(st, "analysis")
      PROVE  /\ Contract(lane, Step(2), e) /\ LaneGate(lane, Step(2), st, Known)
             /\ Compute(lane, Step(2 + 1), st, Known) # {}
  <2>1. IssueAnalysisValid(e) BY <1>7 DEF LetThrough, KnownDeadEnd
  <2>2. IssuesGate("analysis", st) BY DEF IssuesGate
  <2>3. HasArtifact(st, "issue-selection") BY <1>0, <1>7, Behind, 1 \in 1..(2 - 1)
  <2>4. ComputeFix(st) # {} BY <1>7, <2>3, SomethingIsFixed
  <2>5. IssuesCompute("implementation", st, Known) # {} BY <2>4 DEF IssuesCompute
  <2>6. IssuesContract("analysis", e) BY <2>1 DEF IssuesContract
  <2> QED BY <1>0, <2>2, <2>5, <2>6, IssuesOpened
<1>8. Step(2) = "analysis" /\ shown = rec.art[Step(2)] BY <1>0 DEF shown
<1>9. Showing(rec, lane, 2, facts) /\ Len(StepsOf(lane)) = 4 BY <1>0
<1>10. GoesOn(rec, 2, shown, drafts) BY <1>7, <1>8, <1>9 DEF GoesOn
<1> QED BY <1>6, <1>8, <1>9, <1>10, GoingOnMirrors

LEMMA IssueFixMirrors ==
  ASSUME lane = "issues", NEW rec, Showing(rec, "issues", 3, facts)
  PROVE  Mirrors(rec, 3)
<1> DEFINE shown == rec.art["implementation"]
           defaults == [files |-> <<>>, test |-> <<>>, passed |-> FALSE]
           plans == PlanDrafts(shown.files)
           Rewritten(i, content) == [shown.test[i] EXCEPT !.content = content]
           tests == {[test |-> <<Rewritten(i, content)>>] : i \in 1..Len(shown.test), content \in {"broken"}}
           drafts == {[files |-> files] : files \in plans} \union tests
           all == {"ticket", "files", "test", "passed"}
<1>0. /\ IssuesSteps[3] = "implementation" /\ IssuesSteps[4] = "complete"
      /\ Len(StepsOf(lane)) = 4 /\ Step(3) = "implementation"
      /\ StepsOf(lane)[1] = "issue-selection" /\ StepsOf(lane)[2] = "analysis"
      /\ StepsOf(lane)[3] = "implementation"
  BY IssuesOpened, IssuesWalk DEF IssuesSteps
<1>1. IssueImplementationValid(shown)
  <2>1. Contract(lane, "implementation", shown) BY <1>0 DEF Showing
  <2>2. IssuesContract("implementation", shown) BY <1>0, <2>1, IssuesOpened
  <2> QED BY <2>2 DEF IssuesContract
<1>2. all \subseteq DOMAIN shown
  <2>1. PICK st, C, a, v : /\ From(rec, "issues", "implementation", 3, facts, st, C, a)
                           /\ shown = WithField(a, "v", v)
    BY <1>0, ShownSays
  <2>2. a \in ComputeFix(st) BY <2>1 DEF From, Compute, IssuesCompute
  <2>3. EffectiveArtifact(st, "issue-selection") = EffectiveArtifact(rec, "issue-selection")
    BY <2>1, IssuesWalk DEF From, Shows
  <2>4. Approved(rec, "issues", 2, facts) BY DEF Showing
  <2>5. IssueSelectionValid(EffectiveArtifact(rec, "issue-selection"))
    BY <2>4, 1 \in 1..2, IssuesWalk, Contracted DEF Contract, IssuesContract
  <2>6. all \subseteq DOMAIN Fields(a) BY <2>2, <2>3, <2>5, FixConforms
  <2> QED BY <2>1, <2>6 DEF WithField, Fields
<1>3. SurfaceOf(lane, "implementation", shown) = Surface(Parsed(shown, {}, defaults), drafts)
  <2>1. SurfaceOf(lane, "implementation", shown) = IssuesSurface("implementation", shown)
    BY <1>0, IssuesOpened
  <2> QED BY <2>1 DEF IssuesSurface, IssueImplementationSurface, IssueImplementationView
<1>4. /\ {} \union DOMAIN defaults \subseteq DOMAIN shown
      /\ "hidden" \notin {} \union DOMAIN defaults
  BY <1>2
<1> HIDE DEF shown, plans
<1>5. ASSUME NEW draft \in {NoEdits} \union drafts, draft # NoEdits
      PROVE  \/ DOMAIN draft = {"files"} /\ draft["files"] \in plans
             \/ DOMAIN draft = {"test"} /\ Len(draft["test"]) = 1
  <2>1. CASE draft \in tests
    <3> HIDE DEF Rewritten
    <3>1. PICK i \in 1..Len(shown.test), content \in {"broken"} : draft = [test |-> <<Rewritten(i, content)>>]
      BY <2>1
    <3>2. DOMAIN draft = {"test"} /\ draft["test"] = <<Rewritten(i, content)>> BY <3>1
    <3> QED BY <3>2
  <2>2. CASE draft \notin tests
    <3> HIDE DEF tests
    <3> QED BY <1>5, <2>2
  <2> QED BY <2>1, <2>2
<1> HIDE DEF drafts, defaults
<1>6. Pictured(lane, "implementation", shown) /\ SurfaceOf(lane, "implementation", shown).drafts = drafts
  BY <1>3, <1>4, SurfaceIsSaid
<1>7. ASSUME NEW draft \in {NoEdits} \union drafts, NEW e, e = Merged(draft, shown),
             draft = NoEdits => e = shown, LetThrough("implementation", e),
             NEW st, Resumes(st, rec, lane, 3, draft),
             EffectiveArtifact(st, "implementation") = e, HasArtifact(st, "implementation")
      PROVE  /\ Contract(lane, Step(3), e) /\ LaneGate(lane, Step(3), st, Known)
             /\ Compute(lane, Step(3 + 1), st, Known) # {}
  <2>1. PatchFilesInPlan(e.files) # <<>> /\ ~EditViolations(FixPatch(e))
    BY <1>7 DEF LetThrough, KnownDeadEnd, DeadPatch
  <2>2. IssueImplementationValid(e)
    <3>1. CASE draft = NoEdits BY <1>1, <1>7, <3>1
    <3>2. CASE DOMAIN draft = {"files"} /\ draft["files"] \in plans
      <4>1. e["files"] \in PlanDrafts(shown.files) BY <1>7, <3>2, DraftWins DEF plans
      <4>2. PatchFilesInPlan(e["files"]) # <<>> BY <2>1
      <4>3. Len(shown.files) \in 1..3 BY <1>1 DEF IssueImplementationValid, MaxChangedFiles
      <4>4. Len(e["files"]) \in 1..3 BY <4>1, <4>2, <4>3, DraftedFilesStay
      <4>5. /\ e["ticket"] = shown["ticket"] /\ e["test"] = shown["test"]
            /\ e["passed"] = shown["passed"]
        BY <1>2, <1>7, <3>2, DraftWins
      <4> QED BY <1>1, <4>4, <4>5 DEF IssueImplementationValid, MaxChangedFiles
    <3>3. CASE DOMAIN draft = {"test"} /\ Len(draft["test"]) = 1
      <4>1. /\ e["ticket"] = shown["ticket"] /\ e["files"] = shown["files"]
            /\ e["passed"] = shown["passed"] /\ e["test"] = draft["test"]
        BY <1>2, <1>7, <3>3, DraftWins
      <4>2. Len(e["test"]) \in 0..1 BY <3>3, <4>1
      <4> QED BY <1>1, <4>1, <4>2 DEF IssueImplementationValid
    <3> QED BY <1>5, <1>7, <3>1, <3>2, <3>3
  <2>3. IssuesGate("implementation", st) BY <1>7, <2>1 DEF IssuesGate, FixEditGate
  <2>4. HasArtifact(st, "issue-selection") BY <1>0, <1>7, Behind, 1 \in 1..(3 - 1)
  <2>5. ComputeFixCompletion(st) # {} BY <1>7, <2>4 DEF ComputeFixCompletion
  <2>6. IssuesCompute("complete", st, Known) # {} BY <2>5 DEF IssuesCompute
  <2>7. IssuesContract("implementation", e) BY <2>2 DEF IssuesContract
  <2> QED BY <1>0, <2>3, <2>6, <2>7, IssuesOpened
<1>8. Step(3) = "implementation" /\ shown = rec.art[Step(3)] BY <1>0 DEF shown
<1>9. Showing(rec, lane, 3, facts) /\ Len(StepsOf(lane)) = 4 BY <1>0
<1>10. GoesOn(rec, 3, shown, drafts) BY <1>7, <1>8, <1>9 DEF GoesOn
<1> QED BY <1>6, <1>8, <1>9, <1>10, GoingOnMirrors

LEMMA IssueCompleteMirrors ==
  ASSUME lane = "issues", NEW rec, Showing(rec, "issues", 4, facts)
  PROVE  Mirrors(rec, 4)
<1> DEFINE shown == rec.art["complete"]
           defaults == [paths |-> <<>>, test |-> FALSE, passed |-> FALSE]
<1>0. /\ IssuesSteps[4] = "complete" /\ Len(StepsOf(lane)) = 4 /\ Step(4) = "complete"
      /\ StepsOf(lane)[1] = "issue-selection" /\ StepsOf(lane)[2] = "analysis"
      /\ StepsOf(lane)[3] = "implementation" /\ StepsOf(lane)[4] = "complete"
  BY IssuesOpened, IssuesWalk DEF IssuesSteps
<1>1. {"branch", "paths", "test", "passed"} \subseteq DOMAIN shown
  <2>1. PICK st, C, a, v : a \in ComputeFixCompletion(st) /\ shown = WithField(a, "v", v)
    BY <1>0, ShownSays DEF From, Compute, IssuesCompute
  <2>2. {"branch", "paths", "test", "passed"} \subseteq DOMAIN a BY <2>1 DEF ComputeFixCompletion
  <2> QED BY <2>1, <2>2 DEF WithField
<1>2. SurfaceOf(lane, "complete", shown) = ReadOnly(Parsed(shown, {"branch"}, defaults))
  <2>1. SurfaceOf(lane, "complete", shown) = IssuesSurface("complete", shown) BY <1>0, IssuesOpened
  <2> QED BY <2>1 DEF IssuesSurface, IssueCompleteSurface, IssueCompletionView
<1>3. /\ {"branch"} \union DOMAIN defaults \subseteq DOMAIN shown
      /\ "hidden" \notin {"branch"} \union DOMAIN defaults
  BY <1>1
<1> HIDE DEF defaults
<1>4. Pictured(lane, "complete", shown) /\ SurfaceOf(lane, "complete", shown).drafts = {}
  BY <1>2, <1>3, ReadOnlyIsSaid
<1>5. ASSUME NEW st, LetBy(rec, 4), Resumes(st, rec, lane, 4, NoEdits)
      PROVE  LaneGate(lane, Step(4), st, Known)
  <2>1. /\ HasArtifact(st, "implementation")
        /\ EffectiveArtifact(st, "implementation") = EffectiveArtifact(rec, "implementation")
    BY <1>0, <1>5, Behind, 3 \in 1..(4 - 1)
  <2>2. HasArtifact(st, "analysis") BY <1>0, <1>5, Behind, 2 \in 1..(4 - 1)
  <2>3. Preflights(FixPatch(EffectiveArtifact(rec, "implementation")))
    <3>1. LetThrough(Step(3), EffectiveArtifact(rec, Step(3))) BY <1>5, 3 \in 1..(4 - 1) DEF LetBy
    <3>2. Step(3) = "implementation" BY <1>0 DEF Step
    <3> QED BY <3>1, <3>2 DEF LetThrough, KnownDeadEnd, DeadPatch
  <2>4. IssuesGate("complete", st) BY <2>1, <2>2, <2>3 DEF IssuesGate
  <2> QED BY <1>0, <2>4, IssuesOpened
<1> HIDE DEF shown
<1>6. Step(4) = "complete" /\ rec.art[Step(4)] = shown BY <1>0 DEF shown
<1> QED BY <1>0, <1>4, <1>5, <1>6, UneditedMirrors

LEMMA IssuesMirror ==
  ASSUME lane = "issues", NEW rec, NEW i \in 1..Len(StepsOf(lane)),
         Showing(rec, lane, i, facts)
  PROVE  Mirrors(rec, i)
<1>1. i \in 1..4 BY IssuesWalk
<1> QED BY <1>1, IssueSelectionMirrors, AnalysisMirrors, IssueFixMirrors, IssueCompleteMirrors

-----------------------------------------------------------------------------
(* Dependencies *)

LEMMA DependenciesOpened ==
  ASSUME lane = "dependencies", NEW i \in 1..5, NEW a, NEW st
  PROVE  /\ Step(i) = DependenciesSteps[i] /\ Len(StepsOf(lane)) = 5
         /\ SurfaceOf(lane, Step(i), a) = DependenciesSurface(DependenciesSteps[i], a)
         /\ Contract(lane, Step(i), a) <=> DependenciesContract(DependenciesSteps[i], a)
         /\ LetThrough(Step(i), a) => ~DependenciesBlocked(DependenciesSteps[i], a)
         /\ LaneGate(lane, Step(i), st, Known) <=> DependenciesGate(DependenciesSteps[i], st)
         /\ i < 5 => Compute(lane, Step(i + 1), st, Known) = DependenciesCompute(DependenciesSteps[i + 1], st, Known)
<1>1. Step(i) = DependenciesSteps[i] /\ Len(StepsOf(lane)) = 5 BY DependenciesWalk DEF Step
<1>2. i < 5 => Step(i + 1) = DependenciesSteps[i + 1] BY DependenciesWalk DEF Step
<1>3. SurfaceOf(lane, Step(i), a) = DependenciesSurface(DependenciesSteps[i], a) BY <1>1 DEF SurfaceOf
<1>4. Contract(lane, Step(i), a) <=> DependenciesContract(DependenciesSteps[i], a)
  BY <1>1 DEF Contract
<1>5. LetThrough(Step(i), a) => ~DependenciesBlocked(DependenciesSteps[i], a)
  BY <1>1 DEF LetThrough, Blocked
<1>6. LaneGate(lane, Step(i), st, Known) <=> DependenciesGate(DependenciesSteps[i], st) BY <1>1 DEF LaneGate
<1>7. i < 5 => Compute(lane, Step(i + 1), st, Known) = DependenciesCompute(DependenciesSteps[i + 1], st, Known)
  BY <1>2 DEF Compute
<1> QED BY <1>1, <1>3, <1>4, <1>5, <1>6, <1>7

LEMMA ScanMirrors ==
  ASSUME lane = "dependencies", facts \in DependenciesFacts, NEW rec, Showing(rec, "dependencies", 1, facts)
  PROVE  Mirrors(rec, 1)
<1> DEFINE shown == rec.art["scan"]
           defaults == [packages |-> {}]
<1>0. /\ DependenciesSteps[1] = "scan" /\ DependenciesSteps[2] = "group"
      /\ Len(StepsOf(lane)) = 5 /\ Step(1) = "scan" /\ StepsOf(lane)[1] = "scan"
  BY DependenciesOpened, DependenciesWalk DEF DependenciesSteps
<1>2. "packages" \in DOMAIN shown
  <2>1. PICK st, C, a, v : a \in ComputeScan(st, Looked(facts, C)) /\ shown = WithField(a, "v", v)
    BY <1>0, ShownSays DEF From, Compute, DependenciesCompute
  <2>2. {"packages"} \subseteq DOMAIN Fields(a) BY <2>1, ScanConforms
  <2> QED BY <2>1, <2>2 DEF WithField, Fields
<1>3. SurfaceOf(lane, "scan", shown) = ReadOnly(Parsed(shown, {}, defaults))
  <2>1. SurfaceOf(lane, "scan", shown) = DependenciesSurface("scan", shown) BY <1>0, DependenciesOpened
  <2> QED BY <2>1 DEF DependenciesSurface, ScanSurface, ScanView
<1>4. {} \union DOMAIN defaults \subseteq DOMAIN shown /\ "hidden" \notin {} \union DOMAIN defaults
  BY <1>2
<1> HIDE DEF defaults
<1>5. Pictured(lane, "scan", shown) /\ SurfaceOf(lane, "scan", shown).drafts = {}
  BY <1>3, <1>4, ReadOnlyIsSaid
<1>6. ASSUME NEW st, Resumes(st, rec, lane, 1, NoEdits), LetThrough("scan", shown),
             EffectiveArtifact(st, "scan") = shown
      PROVE  LaneGate(lane, Step(1), st, Known) /\ Compute(lane, Step(1 + 1), st, Known) # {}
  <2>1. HasArtifact(st, "scan") BY <1>0, <1>6 DEF Resumes
  <2>2. shown.packages # {} BY <1>6 DEF LetThrough, CaseEndsHere
  <2> HIDE DEF shown
  <2>3. ComputeGroup(st) # {} BY <1>6, <2>1, <2>2 DEF ComputeGroup, Unless
  <2>4. DependenciesCompute("group", st, Known) # {} BY <2>3 DEF DependenciesCompute
  <2>5. DependenciesGate("scan", st) BY DEF DependenciesGate
  <2> QED BY <1>0, <2>4, <2>5, DependenciesOpened
<1> HIDE DEF shown
<1>7. Step(1) = "scan" /\ rec.art[Step(1)] = shown BY <1>0 DEF shown
<1> QED BY <1>0, <1>5, <1>6, <1>7, UneditedMirrors

\* What the console read and hands back is not pinned.
LEMMA ReadIsUnpinned ==
  ASSUME NEW drafts, NEW draft \in {NoEdits} \union AsRead(drafts), NEW a, NEW e, e = Merged(draft, a),
         draft # NoEdits
  PROVE  e["pinned"] = FALSE
<1>1. PICK x \in drafts : draft = WithField(x, "pinned", FALSE) BY DEF AsRead
<1>2. "pinned" \in DOMAIN draft /\ draft["pinned"] = FALSE BY <1>1 DEF WithField
<1> QED BY <1>2, DraftWins

LEMMA GroupMirrors ==
  ASSUME lane = "dependencies", NEW rec, Showing(rec, "dependencies", 2, facts)
  PROVE  Mirrors(rec, 2)
<1> DEFINE shown == rec.art["group"]
           defaults == [rows |-> << >>]
           drafts == AsRead(GroupDrafts(shown))
<1>0. /\ DependenciesSteps[2] = "group" /\ DependenciesSteps[3] = "apply"
      /\ Len(StepsOf(lane)) = 5 /\ Step(2) = "group" /\ StepsOf(lane)[1] = "scan"
      /\ StepsOf(lane)[2] = "group"
  BY DependenciesOpened, DependenciesWalk DEF DependenciesSteps
<1>1. GroupValid(shown)
  <2>1. Contract(lane, "group", shown) BY <1>0 DEF Showing
  <2>2. DependenciesContract("group", shown) BY <1>0, <2>1, DependenciesOpened
  <2> QED BY <2>2 DEF DependenciesContract
<1>2. "rows" \in DOMAIN shown
  <2>1. PICK st, C, a, v : a \in ComputeGroup(st) /\ shown = WithField(a, "v", v)
    BY <1>0, ShownSays DEF From, Compute, DependenciesCompute
  <2>2. {"rows", "pinned"} \subseteq DOMAIN Fields(a) BY <2>1, GroupConforms
  <2> QED BY <2>1, <2>2 DEF WithField, Fields
<1>3. SurfaceOf(lane, "group", shown) = Surface(Parsed(shown, {}, defaults), drafts)
  <2>1. SurfaceOf(lane, "group", shown) = DependenciesSurface("group", shown) BY <1>0, DependenciesOpened
  <2> QED BY <2>1 DEF DependenciesSurface, GroupSurface, GroupView
<1>4. {} \union DOMAIN defaults \subseteq DOMAIN shown /\ "hidden" \notin {} \union DOMAIN defaults
  BY <1>2
<1> HIDE DEF shown, defaults, drafts
<1>5. Pictured(lane, "group", shown) /\ SurfaceOf(lane, "group", shown).drafts = drafts
  BY <1>3, <1>4, SurfaceIsSaid
<1>6. ASSUME NEW draft \in {NoEdits} \union drafts, NEW e, e = Merged(draft, shown),
             draft = NoEdits => e = shown, LetThrough("group", e), NEW st,
             EffectiveArtifact(st, "group") = e, HasArtifact(st, "group")
      PROVE  /\ Contract(lane, Step(2), e) /\ LaneGate(lane, Step(2), st, Known)
             /\ Compute(lane, Step(2 + 1), st, Known) # {}
  <2>1. e = shown
    <3>1. e.pinned BY <1>6 DEF LetThrough, KnownDeadEnd
    <3>2. CASE draft = NoEdits BY <1>6, <3>2
    <3>3. CASE draft # NoEdits
      <4>1. draft \in {NoEdits} \union AsRead(GroupDrafts(shown)) BY <1>6 DEF drafts
      <4>2. e["pinned"] = FALSE BY <1>6, <3>3, <4>1, ReadIsUnpinned
      <4> QED BY <3>1, <4>2
    <3> QED BY <3>2, <3>3
  <2>2. AssertExcludeReasons(e)
    <3>1. ~DependenciesBlocked("group", e) BY <1>0, <1>6, DependenciesOpened
    <3> QED BY <3>1 DEF DependenciesBlocked
  <2>3. KeptIn(e) # {} BY <1>6 DEF LetThrough, KnownDeadEnd
  <2>4. ComputeApply(st) # {} BY <1>6, <2>2, <2>3 DEF ComputeApply, Unless
  <2>5. DependenciesCompute("apply", st, Known) # {} BY <2>4 DEF DependenciesCompute
  <2>6. DependenciesGate("group", st) BY DEF DependenciesGate
  <2>7. DependenciesContract("group", e) BY <1>1, <2>1 DEF DependenciesContract
  <2> QED BY <1>0, <2>5, <2>6, <2>7, DependenciesOpened
<1>7. Step(2) = "group" /\ shown = rec.art[Step(2)] BY <1>0 DEF shown
<1>8. Showing(rec, lane, 2, facts) /\ Len(StepsOf(lane)) = 5 BY <1>0
<1>9. GoesOn(rec, 2, shown, drafts) BY <1>6, <1>7, <1>8 DEF GoesOn
<1> QED BY <1>5, <1>7, <1>8, <1>9, GoingOnMirrors

LEMMA ApplyMirrors ==
  ASSUME lane = "dependencies", NEW rec, Showing(rec, "dependencies", 3, facts)
  PROVE  Mirrors(rec, 3)
<1> DEFINE shown == rec.art["apply"]
           defaults == [rows |-> << >>, accepted |-> {}]
           drafts == AsRead(ApplyDrafts(shown))
<1>0. /\ DependenciesSteps[3] = "apply" /\ DependenciesSteps[4] = "validate"
      /\ Len(StepsOf(lane)) = 5 /\ Step(3) = "apply" /\ StepsOf(lane)[1] = "scan"
      /\ StepsOf(lane)[2] = "group" /\ StepsOf(lane)[3] = "apply"
  BY DependenciesOpened, DependenciesWalk DEF DependenciesSteps
<1>1. ApplyValid(shown)
  <2>1. Contract(lane, "apply", shown) BY <1>0 DEF Showing
  <2>2. DependenciesContract("apply", shown) BY <1>0, <2>1, DependenciesOpened
  <2> QED BY <2>2 DEF DependenciesContract
<1>2. {"rows", "accepted"} \subseteq DOMAIN shown
  <2>1. PICK st, C, a, v : a \in ComputeApply(st) /\ shown = WithField(a, "v", v)
    BY <1>0, ShownSays DEF From, Compute, DependenciesCompute
  <2>2. {"rows", "accepted"} \subseteq DOMAIN a BY <2>1 DEF ComputeApply, Unless
  <2> QED BY <2>1, <2>2 DEF WithField
<1>3. SurfaceOf(lane, "apply", shown) = Surface(Parsed(shown, {}, defaults), drafts)
  <2>1. SurfaceOf(lane, "apply", shown) = DependenciesSurface("apply", shown) BY <1>0, DependenciesOpened
  <2> QED BY <2>1 DEF DependenciesSurface, ApplySurface, ApplyView
<1>4. {} \union DOMAIN defaults \subseteq DOMAIN shown /\ "hidden" \notin {} \union DOMAIN defaults
  BY <1>2
<1> HIDE DEF shown, defaults, drafts
<1>5. Pictured(lane, "apply", shown) /\ SurfaceOf(lane, "apply", shown).drafts = drafts
  BY <1>3, <1>4, SurfaceIsSaid
<1>6. ASSUME NEW draft \in {NoEdits} \union drafts, NEW e, e = Merged(draft, shown),
             draft = NoEdits => e = shown, LetThrough("apply", e), NEW st,
             EffectiveArtifact(st, "apply") = e, HasArtifact(st, "apply")
      PROVE  /\ Contract(lane, Step(3), e) /\ LaneGate(lane, Step(3), st, Known)
             /\ Compute(lane, Step(3 + 1), st, Known) # {}
  <2>1. e = shown
    <3>1. e.pinned BY <1>6 DEF LetThrough, KnownDeadEnd
    <3>2. CASE draft = NoEdits BY <1>6, <3>2
    <3>3. CASE draft # NoEdits
      <4>1. draft \in {NoEdits} \union AsRead(ApplyDrafts(shown)) BY <1>6 DEF drafts
      <4>2. e["pinned"] = FALSE BY <1>6, <3>3, <4>1, ReadIsUnpinned
      <4> QED BY <3>1, <4>2
    <3> QED BY <3>2, <3>3
  <2>2. ComputeValidate(st) # {}
    <3> DEFINE apply == EffectiveArtifact(st, "apply")
               Status(g, failing) ==
                 IF g \notin LeftOn(apply) THEN "skipped" ELSE IF g \in failing THEN "failed" ELSE "green"
               Said(failing) ==
                 [status |-> [g \in GroupsOf(apply.rows) |-> Status(g, failing)],
                  skipped |-> GroupsOf(apply.rows) \ LeftOn(apply),
                  from |-> DerivedFrom(st, {"apply"})]
               sets == SUBSET LeftOn(apply)
    <3>1. ComputeValidate(st) = {Said(failing) : failing \in sets} BY <1>6 DEF ComputeValidate
    <3>2. {} \in sets OBVIOUS
    <3> HIDE DEF Said, sets
    <3> QED BY <3>1, <3>2
  <2>3. DependenciesCompute("validate", st, Known) # {} BY <2>2 DEF DependenciesCompute
  <2>4. DependenciesGate("apply", st) BY DEF DependenciesGate
  <2>5. DependenciesContract("apply", e) BY <1>1, <2>1 DEF DependenciesContract
  <2> QED BY <1>0, <2>3, <2>4, <2>5, DependenciesOpened
<1>7. Step(3) = "apply" /\ shown = rec.art[Step(3)] BY <1>0 DEF shown
<1>8. Showing(rec, lane, 3, facts) /\ Len(StepsOf(lane)) = 5 BY <1>0
<1>9. GoesOn(rec, 3, shown, drafts) BY <1>6, <1>7, <1>8 DEF GoesOn
<1> QED BY <1>5, <1>7, <1>8, <1>9, GoingOnMirrors

\* A group of the apply has a status; one with none left on is skipped.
Tallies(a, apply) ==
  /\ DOMAIN a.status = GroupsOf(apply.rows) /\ a.skipped \subseteq DOMAIN a.status
  /\ \A g \in DOMAIN a.status :
       /\ a.status[g] \in {"green", "failed", "skipped"}
       /\ g \notin LeftOn(apply) => g \in a.skipped
       /\ a.status[g] = "skipped" => g \in a.skipped

LEMMA ValidateTallies ==
  ASSUME NEW st, NEW a \in ComputeValidate(st)
  PROVE  Tallies(a, EffectiveArtifact(st, "apply")) /\ {"status", "skipped"} \subseteq DOMAIN Fields(a)
<1> DEFINE apply == EffectiveArtifact(st, "apply")
           left == LeftOn(apply)
           groups == GroupsOf(apply.rows)
           Status(g, failing) ==
             IF g \notin left THEN "skipped" ELSE IF g \in failing THEN "failed" ELSE "green"
           from == DerivedFrom(st, {"apply"})
<1>1. PICK failing \in SUBSET left :
        a = [status |-> [g \in groups |-> Status(g, failing)], skipped |-> groups \ left, from |-> from]
  BY DEF ComputeValidate
<1>2. \A g : /\ Status(g, failing) \in {"green", "failed", "skipped"}
             /\ Status(g, failing) = "skipped" => g \notin left
  OBVIOUS
<1> HIDE DEF groups, left, Status, from
<1> DEFINE status == [g \in groups |-> Status(g, failing)]
           skipped == groups \ left
<1>3. DOMAIN status = groups /\ \A g \in groups : status[g] = Status(g, failing) OBVIOUS
<1>4. \A g \in groups : g \notin left => g \in skipped OBVIOUS
<1>5. skipped \subseteq groups OBVIOUS
<1>6. a = [status |-> status, skipped |-> skipped, from |-> from] BY <1>1
<1> HIDE DEF status, skipped
<1>7. a.status = status /\ a.skipped = skipped /\ {"status", "skipped"} \subseteq DOMAIN Fields(a)
  BY <1>6 DEF Fields
<1>8. Tallies(a, apply)
  <2> HIDE DEF apply
  <2> QED BY <1>2, <1>3, <1>4, <1>5, <1>7 DEF Tallies, groups, left
<1> QED BY <1>7, <1>8 DEF apply

LEMMA ValidateMirrors ==
  ASSUME lane = "dependencies", NEW rec, Showing(rec, "dependencies", 4, facts)
  PROVE  Mirrors(rec, 4)
<1> DEFINE shown == rec.art["validate"]
           defaults == [status |-> << >>, skipped |-> {}]
           Failed == {g \in DOMAIN shown.status : shown.status[g] = "failed"}
           sets == SUBSET Failed
           drafts == {[skipped |-> shown.skipped \union more] : more \in sets}
           apply == EffectiveArtifact(rec, "apply")
<1>0. /\ DependenciesSteps[4] = "validate" /\ DependenciesSteps[5] = "merge"
      /\ Len(StepsOf(lane)) = 5 /\ Step(4) = "validate" /\ StepsOf(lane)[1] = "scan"
      /\ StepsOf(lane)[2] = "group" /\ StepsOf(lane)[3] = "apply"
      /\ StepsOf(lane)[4] = "validate"
  BY DependenciesOpened, DependenciesWalk DEF DependenciesSteps
<1>1. ValidateValid(shown)
  <2>1. Contract(lane, "validate", shown) BY <1>0 DEF Showing
  <2>2. DependenciesContract("validate", shown) BY <1>0, <2>1, DependenciesOpened
  <2> QED BY <2>2 DEF DependenciesContract
<1>2. {"status", "skipped"} \subseteq DOMAIN shown /\ Tallies(shown, apply)
  <2>1. PICK st, C, a, v : /\ From(rec, "dependencies", "validate", 4, facts, st, C, a)
                          /\ shown = WithField(a, "v", v)
    BY <1>0, ShownSays
  <2>2. a \in ComputeValidate(st) BY <2>1 DEF From, Compute, DependenciesCompute
  <2>3. EffectiveArtifact(st, "apply") = apply BY <2>1, DependenciesWalk DEF From, Shows
  <2> HIDE DEF shown, apply
  <2>4. Tallies(a, apply) /\ {"status", "skipped"} \subseteq DOMAIN Fields(a)
    BY <2>2, <2>3, ValidateTallies
  <2>5. shown.status = a.status /\ shown.skipped = a.skipped /\ {"status", "skipped"} \subseteq DOMAIN shown
    BY <2>1, <2>4, StillSays DEF WithField
  <2> QED BY <2>4, <2>5 DEF Tallies
<1>3. SurfaceOf(lane, "validate", shown) = Surface(Parsed(shown, {}, defaults), drafts)
  <2>1. SurfaceOf(lane, "validate", shown) = DependenciesSurface("validate", shown) BY <1>0, DependenciesOpened
  <2> QED BY <2>1 DEF DependenciesSurface, ValidateSurface, ValidateView
<1>4. {} \union DOMAIN defaults \subseteq DOMAIN shown /\ "hidden" \notin {} \union DOMAIN defaults
  BY <1>2
<1> HIDE DEF shown, sets
<1>5. ASSUME NEW draft \in {NoEdits} \union drafts, draft # NoEdits
      PROVE  \E more \in sets : DOMAIN draft = {"skipped"} /\ draft["skipped"] = shown.skipped \union more
  <2>1. PICK more \in sets : draft = [skipped |-> shown.skipped \union more] BY <1>5
  <2> DEFINE skipped == shown.skipped \union more
  <2>2. draft = [skipped |-> skipped] BY <2>1
  <2> HIDE DEF skipped
  <2>3. DOMAIN draft = {"skipped"} /\ draft["skipped"] = skipped BY <2>2
  <2> QED BY <2>3 DEF skipped
<1> HIDE DEF drafts, defaults, apply
<1>6. Pictured(lane, "validate", shown) /\ SurfaceOf(lane, "validate", shown).drafts = drafts
  BY <1>3, <1>4, SurfaceIsSaid
<1>7. ASSUME NEW draft \in {NoEdits} \union drafts, NEW e, e = Merged(draft, shown),
             draft = NoEdits => e = shown, LetThrough("validate", e), NEW st,
             Resumes(st, rec, lane, 4, draft),
             EffectiveArtifact(st, "validate") = e, HasArtifact(st, "validate")
      PROVE  /\ Contract(lane, Step(4), e) /\ LaneGate(lane, Step(4), st, Known)
             /\ Compute(lane, Step(4 + 1), st, Known) # {}
  <2>1. /\ e.status = shown.status
        /\ shown.skipped \subseteq e.skipped /\ e.skipped \subseteq DOMAIN shown.status
    <3>1. CASE draft = NoEdits BY <1>2, <1>7, <3>1 DEF Tallies
    <3>2. CASE draft # NoEdits
      <4>1. PICK more \in sets : DOMAIN draft = {"skipped"} /\ draft["skipped"] = shown.skipped \union more
        BY <1>5, <3>2
      <4>2. more \subseteq DOMAIN shown.status BY DEF sets
      <4>3. e["status"] = shown["status"] /\ e["skipped"] = draft["skipped"]
        BY <1>2, <1>7, <4>1, DraftWins
      <4> QED BY <1>2, <4>1, <4>2, <4>3 DEF Tallies
    <3> QED BY <3>1, <3>2
  <2>2. ValidateValid(e) BY <1>1, <2>1 DEF ValidateValid
  <2>3. Tallies(e, apply) BY <1>2, <2>1 DEF Tallies
  <2>4. \A g \in DOMAIN e.status \ e.skipped : e.status[g] = "green"
    <3>1. ~DependenciesBlocked("validate", e) BY <1>0, <1>7, DependenciesOpened
    <3>2. \A g \in DOMAIN e.status \ e.skipped : e.status[g] # "failed" BY <3>1 DEF DependenciesBlocked
    <3> QED BY <2>3, <3>2 DEF Tallies
  <2>5. LeftOn(apply) \ e.skipped # {}
    <3>1. e.skipped # DOMAIN e.status BY <1>7 DEF LetThrough, KnownDeadEnd
    <3>2. PICK g \in DOMAIN e.status : g \notin e.skipped BY <2>3, <3>1 DEF Tallies
    <3>3. g \in LeftOn(apply) BY <2>3, <3>2 DEF Tallies
    <3> QED BY <3>2, <3>3
  <2>6. ComputeMerge(st) # {}
    <3> DEFINE planned == LeftOn(apply) \ e.skipped
               red == \E g \in DOMAIN e.status \ e.skipped : e.status[g] # "green"
               Preview(packages) == [packages |-> packages, cveFixes |-> packages \intersect Vulnerable]
               said == [previews |-> [g \in planned |-> Preview(IncludedIn(apply, g))],
                        from |-> DerivedFrom(st, {"apply", "validate"})]
               missing == ~HasArtifact(st, "apply") \/ ~HasArtifact(st, "validate")
    <3>1. HasArtifact(st, "apply") /\ EffectiveArtifact(st, "apply") = apply
      BY <1>0, <1>7, Behind, 3 \in 1..(4 - 1) DEF apply
    <3>2. ~missing BY <1>7, <3>1
    <3>3. ComputeMerge(st) = IF missing THEN {} ELSE Unless(planned = {} \/ red, {said})
      BY <1>7, <3>1 DEF ComputeMerge
    <3>4. ~red /\ planned # {} BY <2>4, <2>5
    <3> HIDE DEF planned, red, said, missing
    <3> QED BY <3>2, <3>3, <3>4 DEF Unless
  <2>7. DependenciesCompute("merge", st, Known) # {} BY <2>6 DEF DependenciesCompute
  <2>8. DependenciesGate("validate", st) BY DEF DependenciesGate
  <2>9. DependenciesContract("validate", e) BY <2>2 DEF DependenciesContract
  <2> QED BY <1>0, <2>7, <2>8, <2>9, DependenciesOpened
<1>8. Step(4) = "validate" /\ shown = rec.art[Step(4)] BY <1>0 DEF shown
<1>9. Showing(rec, lane, 4, facts) /\ Len(StepsOf(lane)) = 5 BY <1>0
<1>10. GoesOn(rec, 4, shown, drafts) BY <1>7, <1>8, <1>9 DEF GoesOn
<1> QED BY <1>6, <1>8, <1>9, <1>10, GoingOnMirrors

LEMMA MergeMirrors ==
  ASSUME lane = "dependencies", NEW rec, Showing(rec, "dependencies", 5, facts)
  PROVE  Mirrors(rec, 5)
<1> DEFINE shown == rec.art["merge"]
           defaults == [previews |-> << >>]
           apply == EffectiveArtifact(rec, "apply")
<1>0. /\ DependenciesSteps[5] = "merge" /\ Len(StepsOf(lane)) = 5 /\ Step(5) = "merge"
      /\ StepsOf(lane)[1] = "scan" /\ StepsOf(lane)[2] = "group" /\ StepsOf(lane)[3] = "apply"
      /\ StepsOf(lane)[4] = "validate" /\ StepsOf(lane)[5] = "merge"
  BY DependenciesOpened, DependenciesWalk DEF DependenciesSteps
<1>2. "previews" \in DOMAIN shown /\ DOMAIN shown.previews \subseteq GroupsOf(apply.rows)
  <2>1. PICK st, C, a, v : /\ From(rec, "dependencies", "merge", 5, facts, st, C, a)
                          /\ shown = WithField(a, "v", v)
    BY <1>0, ShownSays
  <2>2. a \in ComputeMerge(st) BY <2>1 DEF From, Compute, DependenciesCompute
  <2>3. EffectiveArtifact(st, "apply") = apply BY <2>1, DependenciesWalk DEF From, Shows
  <2> HIDE DEF shown, apply
  <2> DEFINE validate == EffectiveArtifact(st, "validate")
             planned == LeftOn(apply) \ validate.skipped
             Preview(packages) == [packages |-> packages, cveFixes |-> packages \intersect Vulnerable]
             previews == [g \in planned |-> Preview(IncludedIn(apply, g))]
             marks == DerivedFrom(st, {"apply", "validate"})
             said == [previews |-> previews, from |-> marks]
             red == \E g \in DOMAIN validate.status \ validate.skipped : validate.status[g] # "green"
             missing == ~HasArtifact(st, "apply") \/ ~HasArtifact(st, "validate")
  <2>4. ComputeMerge(st) = IF missing THEN {} ELSE Unless(planned = {} \/ red, {said})
    BY <2>3 DEF ComputeMerge
  <2>5. planned \subseteq GroupsOf(apply.rows) BY DEF LeftOn
  <2> HIDE DEF planned, Preview, marks, red, missing
  <2>6. DOMAIN previews = planned OBVIOUS
  <2> HIDE DEF previews
  <2>7. "previews" \in DOMAIN Fields(said) /\ said.previews = previews BY DEF Fields
  <2> HIDE DEF said
  <2>8. a = said BY <2>2, <2>4 DEF Unless
  <2>9. "previews" \in DOMAIN shown /\ shown.previews = previews
    BY <2>1, <2>7, <2>8, StillSays DEF WithField
  <2> QED BY <2>5, <2>6, <2>9
<1>3. SurfaceOf(lane, "merge", shown) = ReadOnly(Parsed(shown, {}, defaults))
  <2>1. SurfaceOf(lane, "merge", shown) = DependenciesSurface("merge", shown) BY <1>0, DependenciesOpened
  <2> QED BY <2>1 DEF DependenciesSurface, MergeSurface, MergeView
<1>4. {} \union DOMAIN defaults \subseteq DOMAIN shown /\ "hidden" \notin {} \union DOMAIN defaults
  BY <1>2
<1> HIDE DEF defaults
<1>5. Pictured(lane, "merge", shown) /\ SurfaceOf(lane, "merge", shown).drafts = {}
  BY <1>3, <1>4, ReadOnlyIsSaid
<1>6. ASSUME NEW st, Resumes(st, rec, lane, 5, NoEdits), EffectiveArtifact(st, "merge") = shown
      PROVE  LaneGate(lane, Step(5), st, Known)
  <2>1. /\ HasArtifact(st, "apply") /\ HasArtifact(st, "validate")
        /\ EffectiveArtifact(st, "apply") = apply
    BY <1>0, <1>6, Behind, 3 \in 1..(5 - 1), 4 \in 1..(5 - 1) DEF apply
  <2> HIDE DEF shown, apply
  <2>2. DependenciesGate("merge", st) BY <1>2, <1>6, <2>1 DEF DependenciesGate
  <2> QED BY <1>0, <2>2, DependenciesOpened
<1> HIDE DEF shown
<1>7. Step(5) = "merge" /\ rec.art[Step(5)] = shown BY <1>0 DEF shown
<1> QED BY <1>0, <1>5, <1>6, <1>7, UneditedMirrors

LEMMA DependenciesMirror ==
  ASSUME lane = "dependencies", facts \in FactsOf(lane), NEW rec, NEW i \in 1..Len(StepsOf(lane)),
         Showing(rec, lane, i, facts)
  PROVE  Mirrors(rec, i)
<1>1. i \in 1..5 /\ facts \in DependenciesFacts BY DependenciesWalk DEF FactsOf
<1> QED BY <1>1, ScanMirrors, GroupMirrors, ApplyMirrors, ValidateMirrors, MergeMirrors

-----------------------------------------------------------------------------
(* Accessibility *)

LEMMA AccessibilityOpened ==
  ASSUME lane = "accessibility", NEW i \in 1..4, NEW a, NEW st
  PROVE  /\ Step(i) = AccessibilitySteps[i] /\ Len(StepsOf(lane)) = 4
         /\ SurfaceOf(lane, Step(i), a) = AccessibilitySurface(AccessibilitySteps[i], a)
         /\ Contract(lane, Step(i), a) <=> AccessibilityContract(AccessibilitySteps[i], a)
         /\ LetThrough(Step(i), a) => ~AccessibilityBlocked(AccessibilitySteps[i], a)
         /\ LaneGate(lane, Step(i), st, Known) <=> AccessibilityGate(AccessibilitySteps[i], st)
         /\ i < 4 => Compute(lane, Step(i + 1), st, Known) = AccessibilityCompute(AccessibilitySteps[i + 1], st, Known)
<1>1. Step(i) = AccessibilitySteps[i] /\ Len(StepsOf(lane)) = 4 BY AccessibilityWalk DEF Step
<1>2. i < 4 => Step(i + 1) = AccessibilitySteps[i + 1] BY AccessibilityWalk DEF Step
<1>3. SurfaceOf(lane, Step(i), a) = AccessibilitySurface(AccessibilitySteps[i], a) BY <1>1 DEF SurfaceOf
<1>4. Contract(lane, Step(i), a) <=> AccessibilityContract(AccessibilitySteps[i], a)
  BY <1>1 DEF Contract
<1>5. LetThrough(Step(i), a) => ~AccessibilityBlocked(AccessibilitySteps[i], a)
  BY <1>1 DEF LetThrough, Blocked
<1>6. LaneGate(lane, Step(i), st, Known) <=> AccessibilityGate(AccessibilitySteps[i], st) BY <1>1 DEF LaneGate
<1>7. i < 4 => Compute(lane, Step(i + 1), st, Known) = AccessibilityCompute(AccessibilitySteps[i + 1], st, Known)
  BY <1>2 DEF Compute
<1> QED BY <1>1, <1>3, <1>4, <1>5, <1>6, <1>7

LEMMA CrawlMirrors ==
  ASSUME lane = "accessibility", NEW rec, Showing(rec, "accessibility", 1, facts)
  PROVE  Mirrors(rec, 1)
<1> DEFINE shown == rec.art["crawl"]
           defaults == [routes |-> {}, selected |-> {}]
           routes == shown.selected
           drafts == {[selected |-> routes \ {"home"}], [selected |-> routes \ {"shop"}], [selected |-> {}]}
<1>0. /\ AccessibilitySteps[1] = "crawl" /\ AccessibilitySteps[2] = "violations"
      /\ Len(StepsOf(lane)) = 4 /\ Step(1) = "crawl" /\ StepsOf(lane)[1] = "crawl"
  BY AccessibilityOpened, AccessibilityWalk DEF AccessibilitySteps
<1>1. CrawlValid(shown)
  <2>1. Contract(lane, "crawl", shown) BY <1>0 DEF Showing
  <2>2. AccessibilityContract("crawl", shown) BY <1>0, <2>1, AccessibilityOpened
  <2> QED BY <2>2 DEF AccessibilityContract
<1>2. {"routes", "selected"} \subseteq DOMAIN shown
  <2>1. PICK st, C, a, v : a \in ComputeCrawl(st, Looked(facts, C)) /\ shown = WithField(a, "v", v)
    BY <1>0, ShownSays DEF From, Compute, AccessibilityCompute
  <2>2. {"routes", "selected"} \subseteq DOMAIN Fields(a) BY <2>1, CrawlConforms
  <2> QED BY <2>1, <2>2 DEF WithField, Fields
<1>3. SurfaceOf(lane, "crawl", shown) = Surface(Parsed(shown, {}, defaults), drafts)
  <2>1. SurfaceOf(lane, "crawl", shown) = AccessibilitySurface("crawl", shown) BY <1>0, AccessibilityOpened
  <2> QED BY <2>1 DEF AccessibilitySurface, CrawlSurface, CrawlView
<1>4. {} \union DOMAIN defaults \subseteq DOMAIN shown /\ "hidden" \notin {} \union DOMAIN defaults
  BY <1>2
<1>5. ASSUME NEW draft \in {NoEdits} \union drafts, draft # NoEdits
      PROVE  DOMAIN draft = {"selected"} /\ draft["selected"] \subseteq routes
  BY <1>5
<1> HIDE DEF shown, drafts, defaults, routes
<1>6. Pictured(lane, "crawl", shown) /\ SurfaceOf(lane, "crawl", shown).drafts = drafts
  BY <1>3, <1>4, SurfaceIsSaid
<1>7. ASSUME NEW draft \in {NoEdits} \union drafts, NEW e, e = Merged(draft, shown),
             draft = NoEdits => e = shown, LetThrough("crawl", e), NEW st,
             EffectiveArtifact(st, "crawl") = e, HasArtifact(st, "crawl")
      PROVE  /\ Contract(lane, Step(1), e) /\ LaneGate(lane, Step(1), st, Known)
             /\ Compute(lane, Step(1 + 1), st, Known) # {}
  <2>1. e.selected # {}
    <3>1. ~AccessibilityBlocked("crawl", e) BY <1>0, <1>7, AccessibilityOpened
    <3> QED BY <3>1 DEF AccessibilityBlocked
  <2>2. CrawlValid(e)
    <3>1. CASE draft = NoEdits BY <1>1, <1>7, <3>1
    <3>2. CASE draft # NoEdits
      <4>1. DOMAIN draft = {"selected"} /\ draft["selected"] \subseteq routes BY <1>5, <3>2
      <4>2. e["routes"] = shown["routes"] /\ e["selected"] = draft["selected"]
        BY <1>2, <1>7, <4>1, DraftWins
      <4> QED BY <1>1, <4>1, <4>2 DEF CrawlValid, routes
    <3> QED BY <3>1, <3>2
  <2>3. AccessibilityGate("crawl", st) BY <1>7, <2>1 DEF AccessibilityGate
  <2>4. ComputeViolations(st, Known) # {} BY <1>7, <2>1 DEF ComputeViolations, Unless
  <2>5. AccessibilityCompute("violations", st, Known) # {} BY <2>4 DEF AccessibilityCompute
  <2>6. AccessibilityContract("crawl", e) BY <2>2 DEF AccessibilityContract
  <2> QED BY <1>0, <2>3, <2>5, <2>6, AccessibilityOpened
<1>8. Step(1) = "crawl" /\ shown = rec.art[Step(1)] BY <1>0 DEF shown
<1>9. Showing(rec, lane, 1, facts) /\ Len(StepsOf(lane)) = 4 BY <1>0
<1>10. GoesOn(rec, 1, shown, drafts) BY <1>7, <1>8, <1>9 DEF GoesOn
<1> QED BY <1>6, <1>8, <1>9, <1>10, GoingOnMirrors

LEMMA ViolationsMirror ==
  ASSUME lane = "accessibility", NEW rec, Showing(rec, "accessibility", 2, facts)
  PROVE  Mirrors(rec, 2)
<1> DEFINE shown == rec.art["violations"]
           defaults == [violations |-> {}]
<1>0. /\ AccessibilitySteps[2] = "violations" /\ AccessibilitySteps[3] = "fix"
      /\ Len(StepsOf(lane)) = 4 /\ Step(2) = "violations" /\ StepsOf(lane)[1] = "crawl"
      /\ StepsOf(lane)[2] = "violations"
  BY AccessibilityOpened, AccessibilityWalk DEF AccessibilitySteps
<1>1. "violations" \in DOMAIN shown
  <2>1. PICK st, C, a, v : a \in ComputeViolations(st, Looked(facts, C)) /\ shown = WithField(a, "v", v)
    BY <1>0, ShownSays DEF From, Compute, AccessibilityCompute
  <2>2. {"violations"} \subseteq DOMAIN Fields(a) BY <2>1, ViolationsConform
  <2> QED BY <2>1, <2>2 DEF WithField, Fields
<1>2. SurfaceOf(lane, "violations", shown) = ReadOnly(Parsed(shown, {}, defaults))
  <2>1. SurfaceOf(lane, "violations", shown) = AccessibilitySurface("violations", shown)
    BY <1>0, AccessibilityOpened
  <2> QED BY <2>1 DEF AccessibilitySurface, ViolationsSurface, ViolationsView
<1>3. {} \union DOMAIN defaults \subseteq DOMAIN shown /\ "hidden" \notin {} \union DOMAIN defaults
  BY <1>1
<1> HIDE DEF defaults
<1>4. Pictured(lane, "violations", shown) /\ SurfaceOf(lane, "violations", shown).drafts = {}
  BY <1>2, <1>3, ReadOnlyIsSaid
<1>5. ASSUME NEW st, Resumes(st, rec, lane, 2, NoEdits), LetThrough("violations", shown),
             EffectiveArtifact(st, "violations") = shown
      PROVE  LaneGate(lane, Step(2), st, Known) /\ Compute(lane, Step(2 + 1), st, Known) # {}
  <2> DEFINE found == shown.violations
             routes == EffectiveArtifact(st, "crawl").selected
             components == {ComponentOf(route) : route \in routes \intersect {RouteOf(v) : v \in found}}
             read == {path \in components : AllowsPath(path)}
             Reported(drafts) == \A draft \in FilesOf(drafts) : draft.violation \in found
             missing == ~HasArtifact(st, "crawl") \/ ~HasArtifact(st, "violations")
             none == components # {} /\ read = {}
             marks == DerivedFrom(st, {"crawl", "violations"})
             answers == {x \in FixerAnswers : Reported(x)}
             Fixed(drafts) == [fixes |-> FixesOf(drafts, read), from |-> marks]
  <2>1. AccessibilityGate("violations", st) BY DEF AccessibilityGate
  <2>2. ~missing
    <3>1. HasArtifact(st, "crawl") BY <1>0, <1>5, Behind, 1 \in 1..(2 - 1)
    <3>2. HasArtifact(st, "violations") BY <1>0, <1>5 DEF Resumes
    <3> QED BY <3>1, <3>2
  <2>3. \A v \in found : RouteOf(v) \in routes
    <3>1. PICK st0, C, a, v0 : /\ From(rec, "accessibility", "violations", 2, facts, st0, C, a)
                              /\ shown = WithField(a, "v", v0)
      BY <1>0, ShownSays
    <3> DEFINE routes0 == EffectiveArtifact(st0, "crawl").selected
    <3>2. a \in ComputeViolations(st0, Looked(facts, C)) BY <3>1 DEF From, Compute, AccessibilityCompute
    <3>3. a.violations = AuditOf(routes0, Looked(facts, C)) BY <3>2 DEF ComputeViolations, Unless
    <3>4. found = a.violations
      <4>1. {"violations"} \subseteq DOMAIN Fields(a) BY <3>2, ViolationsConform
      <4> QED BY <3>1, <4>1, StillSays
    <3>5. \A v \in found : RouteOf(v) \in routes0 BY <3>3, <3>4 DEF AuditOf
    <3>6. "crawl" \in Prior(lane, 2) BY <1>0 DEF Prior
    <3>7. EffectiveArtifact(st, "crawl") = EffectiveArtifact(st0, "crawl")
      BY <1>0, <1>5, <3>1, <3>6 DEF Resumes, From, Shows
    <3> QED BY <3>5, <3>7
  <2>4. ~none
    <3>1. \/ found = {} \/ \E v \in found : AllowsPath(ComponentOf(RouteOf(v)))
      BY <1>5 DEF LetThrough, KnownDeadEnd
    <3>2. CASE found = {} BY <3>2
    <3>3. CASE \E v \in found : AllowsPath(ComponentOf(RouteOf(v)))
      <4>1. PICK v \in found : AllowsPath(ComponentOf(RouteOf(v))) BY <3>3
      <4>2. ComponentOf(RouteOf(v)) \in components BY <2>3, <4>1
      <4>3. ComponentOf(RouteOf(v)) \in read BY <4>1, <4>2
      <4> QED BY <4>3
    <3> QED BY <3>1, <3>2, <3>3
  <2>5. <<>> \in answers
    <3>1. <<>> \in FixerAnswers BY DEF FixerAnswers
    <3>2. FilesOf(<<>>) = {} BY DEF FilesOf
    <3> QED BY <3>1, <3>2
  <2>6. ComputeFixes(st) = IF missing THEN {} ELSE Unless(none, {Fixed(drafts) : drafts \in answers})
    BY <1>5 DEF ComputeFixes
  <2> HIDE DEF missing, none, answers, Fixed
  <2>7. ComputeFixes(st) # {} BY <2>2, <2>4, <2>5, <2>6 DEF Unless
  <2>8. AccessibilityCompute("fix", st, Known) # {} BY <2>7 DEF AccessibilityCompute
  <2> QED BY <1>0, <2>1, <2>8, AccessibilityOpened
<1> HIDE DEF shown
<1>6. Step(2) = "violations" /\ rec.art[Step(2)] = shown BY <1>0 DEF shown
<1> QED BY <1>0, <1>4, <1>5, <1>6, UneditedMirrors

\* The fixes in review are listed one by one.
LEMMA ShownFixesAreRegular ==
  ASSUME NEW st, NEW a \in ComputeFixes(st)
  PROVE  Regular(a.fixes)
<1> DEFINE violations == EffectiveArtifact(st, "violations").violations
           routes == EffectiveArtifact(st, "crawl").selected
           components == {ComponentOf(route) : route \in routes \intersect {RouteOf(v) : v \in violations}}
           read == {path \in components : AllowsPath(path)}
           Reported(drafts) == \A draft \in FilesOf(drafts) : draft.violation \in violations
           missing == ~HasArtifact(st, "crawl") \/ ~HasArtifact(st, "violations")
           none == components # {} /\ read = {}
           marks == DerivedFrom(st, {"crawl", "violations"})
           answers == {x \in FixerAnswers : Reported(x)}
           Fixed(drafts) == [fixes |-> FixesOf(drafts, read), from |-> marks]
<1>1. ComputeFixes(st) = IF missing THEN {} ELSE Unless(none, {Fixed(drafts) : drafts \in answers})
  BY DEF ComputeFixes
<1>2. answers \subseteq FixerAnswers OBVIOUS
<1>3. \A drafts : Fixed(drafts).fixes = FixesOf(drafts, read) OBVIOUS
<1> HIDE DEF missing, none, answers, Fixed, read
<1>4. PICK drafts \in answers : a = Fixed(drafts) BY <1>1 DEF Unless
<1> QED BY <1>2, <1>3, <1>4, FixesAreRegular

\* Switching a fix off leaves what it fixes.
LEMMA SwitchedOffIsValid ==
  ASSUME NEW a, FixValid(a), Regular(a.fixes), NEW j \in 1..Len(a.fixes),
         NEW e, e["fixes"] = [a.fixes EXCEPT ![j].applied = FALSE]
  PROVE  FixValid(e)
<1> DEFINE fixes == a.fixes
           x == [fixes[j] EXCEPT !.applied = FALSE]
           off == [fixes EXCEPT ![j] = x]
<1>1. e["fixes"] = off OBVIOUS
<1>2. "applied" \in DOMAIN fixes[j] BY DEF Regular
<1>3. x.violation = fixes[j].violation /\ x.manual = fixes[j].manual /\ x.files = fixes[j].files
  OBVIOUS
<1>4. x.applied = FALSE BY <1>2
<1> HIDE DEF x
<1>5. DOMAIN off = 1..Len(fixes) /\ \A n \in 1..Len(fixes) : off[n] = IF n = j THEN x ELSE fixes[n]
  BY DEF Regular
<1> HIDE DEF off
<1>6. Len(off) = Len(fixes) BY <1>5 DEF Regular
<1>7. ASSUME NEW fix \in FilesOf(off)
      PROVE  /\ fix.violation \in ViolationIdentity /\ fix.manual \in BOOLEAN /\ fix.applied \in BOOLEAN
             /\ FilesOf(fix.files) \subseteq FixFile
  <2>1. PICK n \in 1..Len(fixes) : fix = off[n] BY <1>6 DEF FilesOf
  <2>2. fixes[n] \in FilesOf(fixes) /\ fixes[j] \in FilesOf(fixes) BY DEF FilesOf
  <2> HIDE DEF fixes
  <2>3. /\ \A k \in {n, j} : /\ fixes[k].violation \in ViolationIdentity /\ fixes[k].manual \in BOOLEAN
                           /\ fixes[k].applied \in BOOLEAN /\ FilesOf(fixes[k].files) \subseteq FixFile
    BY <2>2 DEF FixValid, fixes
  <2>4. CASE n = j
    <3>1. fix = x BY <1>5, <2>1, <2>4
    <3> QED BY <1>3, <1>4, <2>3, <3>1
  <2>5. CASE n # j
    <3>1. fix = fixes[n] BY <1>5, <2>1, <2>5
    <3> QED BY <2>3, <3>1
  <2> QED BY <2>4, <2>5
<1> QED BY <1>1, <1>7 DEF FixValid

LEMMA AccessibilityFixMirrors ==
  ASSUME lane = "accessibility", NEW rec, Showing(rec, "accessibility", 3, facts)
  PROVE  Mirrors(rec, 3)
<1> DEFINE shown == rec.art["fix"]
           defaults == [fixes |-> <<>>]
           Off(j) == [shown.fixes EXCEPT ![j].applied = FALSE]
           movable == {j \in 1..Len(shown.fixes) : ~shown.fixes[j].manual}
           drafts == {[fixes |-> Off(j)] : j \in movable}
<1>0. /\ AccessibilitySteps[3] = "fix" /\ AccessibilitySteps[4] = "re-scan"
      /\ Len(StepsOf(lane)) = 4 /\ Step(3) = "fix" /\ StepsOf(lane)[1] = "crawl"
      /\ StepsOf(lane)[2] = "violations" /\ StepsOf(lane)[3] = "fix"
  BY AccessibilityOpened, AccessibilityWalk DEF AccessibilitySteps
<1>1. FixValid(shown)
  <2>1. Contract(lane, "fix", shown) BY <1>0 DEF Showing
  <2>2. AccessibilityContract("fix", shown) BY <1>0, <2>1, AccessibilityOpened
  <2> QED BY <2>2 DEF AccessibilityContract
<1>2. "fixes" \in DOMAIN shown /\ Regular(shown.fixes)
  <2>1. PICK st, C, a, v : a \in ComputeFixes(st) /\ shown = WithField(a, "v", v)
    BY <1>0, ShownSays DEF From, Compute, AccessibilityCompute
  <2>2. {"fixes"} \subseteq DOMAIN Fields(a) /\ Regular(a.fixes)
    BY <2>1, FixesConform, ShownFixesAreRegular
  <2> HIDE DEF shown
  <2>3. "fixes" \in DOMAIN shown /\ shown.fixes = a.fixes BY <2>1, <2>2, StillSays DEF WithField
  <2> QED BY <2>2, <2>3
<1>3. SurfaceOf(lane, "fix", shown) = Surface(Parsed(shown, {}, defaults), drafts)
  <2>1. SurfaceOf(lane, "fix", shown) = AccessibilitySurface("fix", shown) BY <1>0, AccessibilityOpened
  <2> QED BY <2>1 DEF AccessibilitySurface, FixSurface, FixView
<1>4. {} \union DOMAIN defaults \subseteq DOMAIN shown /\ "hidden" \notin {} \union DOMAIN defaults
  BY <1>2
<1> HIDE DEF Off, shown
<1>5. ASSUME NEW draft \in {NoEdits} \union drafts, draft # NoEdits
      PROVE  \E j \in 1..Len(shown.fixes) : DOMAIN draft = {"fixes"} /\ draft["fixes"] = Off(j)
  BY <1>5
<1> HIDE DEF drafts, defaults
<1>6. Pictured(lane, "fix", shown) /\ SurfaceOf(lane, "fix", shown).drafts = drafts
  BY <1>3, <1>4, SurfaceIsSaid
<1>7. ASSUME NEW draft \in {NoEdits} \union drafts, NEW e, e = Merged(draft, shown),
             draft = NoEdits => e = shown, LetThrough("fix", e), NEW st, Resumes(st, rec, lane, 3, draft),
             EffectiveArtifact(st, "fix") = e, HasArtifact(st, "fix")
      PROVE  /\ Contract(lane, Step(3), e) /\ LaneGate(lane, Step(3), st, Known)
             /\ Compute(lane, Step(3 + 1), st, Known) # {}
  <2>1. AppliedIn(e.fixes) # <<>> BY <1>7 DEF LetThrough, KnownDeadEnd
  <2>2. FixValid(e)
    <3>1. CASE draft = NoEdits BY <1>1, <1>7, <3>1
    <3>2. CASE draft # NoEdits
      <4>1. PICK j \in 1..Len(shown.fixes) : DOMAIN draft = {"fixes"} /\ draft["fixes"] = Off(j)
        BY <1>5, <3>2
      <4>2. e["fixes"] = Off(j) BY <1>7, <4>1, DraftWins
      <4> QED BY <1>1, <1>2, <4>2, SwitchedOffIsValid DEF Off
    <3> QED BY <3>1, <3>2
  <2>3. AccessibilityGate("fix", st) BY DEF AccessibilityGate
  <2>4. ComputeRescan(st, Known) # {}
    <3>1. HasArtifact(st, "crawl") /\ HasArtifact(st, "violations")
      BY <1>0, <1>7, Behind, 1 \in 1..(3 - 1), 2 \in 1..(3 - 1)
    <3> QED BY <1>7, <2>1, <3>1 DEF ComputeRescan, Unless
  <2>5. AccessibilityCompute("re-scan", st, Known) # {} BY <2>4 DEF AccessibilityCompute
  <2>6. AccessibilityContract("fix", e) BY <2>2 DEF AccessibilityContract
  <2> QED BY <1>0, <2>3, <2>5, <2>6, AccessibilityOpened
<1>8. Step(3) = "fix" /\ shown = rec.art[Step(3)] BY <1>0 DEF shown
<1>9. Showing(rec, lane, 3, facts) /\ Len(StepsOf(lane)) = 4 BY <1>0
<1>10. GoesOn(rec, 3, shown, drafts) BY <1>7, <1>8, <1>9 DEF GoesOn
<1> QED BY <1>6, <1>8, <1>9, <1>10, GoingOnMirrors

\* Where fixes are applied there is a patch of them.
LEMMA AppliedMakesPatch ==
  ASSUME NEW fixes, Regular(fixes), AppliedIn(fixes) # <<>>
  PROVE  PatchOfFixes(fixes) # <<>>
<1> DEFINE S == {fix \in FilesOf(fixes) : fix.applied /\ ~fix.manual /\ fix.files # <<>>}
           applied == Selected(fixes, S)
           patch == [i \in 1..Len(applied) |-> applied[i].files[1]]
<1>1. PatchOfFixes(fixes) = patch /\ AppliedIn(fixes) = applied BY DEF PatchOfFixes, AppliedIn
<1> HIDE DEF S
<1>2. Len(applied) \in 0..Len(fixes) /\ Len(applied) # 0
  BY <1>1, SelectedIsKept DEF Regular
<1> HIDE DEF applied
<1>3. Len(patch) = Len(applied) /\ Len(<<>>) = 0 BY <1>2 DEF Regular
<1> QED BY <1>1, <1>2, <1>3

LEMMA RescanSays ==
  ASSUME NEW st, NEW known, NEW a \in ComputeRescan(st, known)
  PROVE  /\ {"remaining", "resolved", "introduced", "waivers", "branch"} \subseteq DOMAIN Fields(a)
         /\ a.waivers = {}
<1> DEFINE before == EffectiveArtifact(st, "violations").violations
           applied == AppliedIn(EffectiveArtifact(st, "fix").fixes)
           audit == AuditOf(EffectiveArtifact(st, "crawl").selected, known)
           after == audit \ {fix.violation : fix \in FilesOf(applied)}
           from == DerivedFrom(st, {"crawl", "violations", "fix"})
           Compared(remaining) ==
             [remaining |-> remaining, resolved |-> before \ remaining, introduced |-> remaining \ before,
              waivers |-> {}, branch |-> AccessibilityBranch, from |-> from]
           missing == \E u \in {"crawl", "violations", "fix"} : ~HasArtifact(st, u)
<1>1. ComputeRescan(st, known) =
        IF missing THEN {} ELSE Unless(applied = <<>>, {Compared(after), Compared(after \union {"trap"})})
  BY DEF ComputeRescan
<1> HIDE DEF before, from, AccessibilityBranch
<1>2. ASSUME NEW remaining
      PROVE  LET x == Compared(remaining) IN
             /\ DOMAIN x = {"remaining", "resolved", "introduced", "waivers", "branch", "from"}
             /\ x.waivers = {}
  OBVIOUS
<1> HIDE DEF missing, Compared, after, applied
<1>3. PICK remaining : a = Compared(remaining) BY <1>1 DEF Unless
<1> QED BY <1>2, <1>3 DEF Fields

LEMMA ReScanMirrors ==
  ASSUME lane = "accessibility", NEW rec, Showing(rec, "accessibility", 4, facts)
  PROVE  Mirrors(rec, 4)
<1> DEFINE shown == rec.art["re-scan"]
           defaults == [remaining |-> {}, resolved |-> {}, introduced |-> {}, waivers |-> {},
                        branch |-> "none"]
           remaining == shown.remaining
           choices == {{v} : v \in remaining} \union {Criticals(remaining)}
           drafts == {[waivers |-> {WaiverOf(v) : v \in waived}] : waived \in choices}
<1>0. /\ AccessibilitySteps[4] = "re-scan" /\ Len(StepsOf(lane)) = 4 /\ Step(4) = "re-scan"
      /\ StepsOf(lane)[1] = "crawl" /\ StepsOf(lane)[2] = "violations"
      /\ StepsOf(lane)[3] = "fix" /\ StepsOf(lane)[4] = "re-scan"
  BY AccessibilityOpened, AccessibilityWalk DEF AccessibilitySteps
<1>1. ReScanValid(shown)
  <2>1. Contract(lane, "re-scan", shown) BY <1>0 DEF Showing
  <2>2. AccessibilityContract("re-scan", shown) BY <1>0, <2>1, AccessibilityOpened
  <2> QED BY <2>2 DEF AccessibilityContract
<1>2. /\ {"remaining", "resolved", "introduced", "waivers", "branch"} \subseteq DOMAIN shown
      /\ shown.waivers = {}
  <2>1. PICK st, C, a, v : a \in ComputeRescan(st, Looked(facts, C)) /\ shown = WithField(a, "v", v)
    BY <1>0, ShownSays DEF From, Compute, AccessibilityCompute
  <2>2. {"remaining", "resolved", "introduced", "waivers", "branch"} \subseteq DOMAIN Fields(a)
        /\ a.waivers = {}
    BY <2>1, RescanSays
  <2> HIDE DEF shown
  <2> QED BY <2>1, <2>2, StillSays DEF WithField, Fields
<1>3. SurfaceOf(lane, "re-scan", shown) = Surface(Parsed(shown, {}, defaults), drafts)
  <2>1. SurfaceOf(lane, "re-scan", shown) = AccessibilitySurface("re-scan", shown)
    BY <1>0, AccessibilityOpened
  <2> QED BY <2>1 DEF AccessibilitySurface, ReScanSurface, ReScanView
<1>4. {} \union DOMAIN defaults \subseteq DOMAIN shown /\ "hidden" \notin {} \union DOMAIN defaults
  BY <1>2
<1>5. \A waived \in choices : waived \subseteq remaining BY DEF Criticals
<1> HIDE DEF choices, shown
<1>6. ASSUME NEW draft \in {NoEdits} \union drafts, draft # NoEdits
      PROVE  /\ DOMAIN draft = {"waivers"}
             /\ \A w \in draft["waivers"] : \E v \in remaining : w = WaiverOf(v)
  <2>1. PICK waived \in choices : draft = [waivers |-> {WaiverOf(v) : v \in waived}] BY <1>6
  <2>2. draft["waivers"] = {WaiverOf(v) : v \in waived} BY <2>1
  <2> QED BY <1>5, <2>1, <2>2
<1> HIDE DEF drafts, defaults
<1>7. Pictured(lane, "re-scan", shown) /\ SurfaceOf(lane, "re-scan", shown).drafts = drafts
  BY <1>3, <1>4, SurfaceIsSaid
<1>8. ASSUME NEW draft \in {NoEdits} \union drafts, NEW e, e = Merged(draft, shown),
             draft = NoEdits => e = shown, LetBy(rec, 4), LetThrough("re-scan", e), NEW st,
             Resumes(st, rec, lane, 4, draft),
             EffectiveArtifact(st, "re-scan") = e
      PROVE  Contract(lane, Step(4), e) /\ LaneGate(lane, Step(4), st, Known)
  <2> DEFINE fixes == EffectiveArtifact(st, "fix").fixes
  <2>1. /\ e["remaining"] = remaining
        /\ \A w \in e["waivers"] : \E v \in remaining : w = WaiverOf(v)
    <3>1. CASE draft = NoEdits BY <1>2, <1>8, <3>1
    <3>2. CASE draft # NoEdits
      <4>1. e["remaining"] = shown["remaining"] /\ e["waivers"] = draft["waivers"]
        BY <1>2, <1>6, <1>8, <3>2, DraftWins
      <4> QED BY <1>6, <3>2, <4>1
    <3> QED BY <3>1, <3>2
  <2>2. \A v : WaiverOf(v).violation = v /\ WaiverOf(v).future BY DEF WaiverOf
  <2>3. \A v \in ViolationIdentity : WaiverOf(v) \in WaiverInput BY DEF WaiverOf, WaiverInput
  <2>4. ReScanValid(e) BY <1>1, <2>1, <2>3 DEF ReScanValid
  <2>5. ApplyWaivers(st)
    <3>1. st.art["re-scan"] = shown BY <1>0, <1>8 DEF Resumes, shown
    <3>2. ~AccessibilityRescanBlocked(e)
      <4>1. ~AccessibilityBlocked("re-scan", e) BY <1>0, <1>8, AccessibilityOpened
      <4> QED BY <4>1 DEF AccessibilityBlocked
    <3>3. \A w \in e.waivers : w.violation \in remaining /\ w.future BY <2>1, <2>2
    <3>4. GateFor(remaining, e.waivers)
      BY <2>1, <3>2 DEF AccessibilityRescanBlocked, GateFor
    <3> QED BY <1>8, <3>1, <3>3, <3>4 DEF ApplyWaivers
  <2>6. HasArtifact(st, "fix") /\ EffectiveArtifact(st, "fix") = EffectiveArtifact(rec, "fix")
    BY <1>0, <1>8, Behind, 3 \in 1..(4 - 1)
  <2>7. AppliedIn(fixes) # <<>> /\ Preflights(PatchOfFixes(fixes))
    <3>1. LetThrough(Step(3), EffectiveArtifact(rec, Step(3))) BY <1>8, 3 \in 1..(4 - 1) DEF LetBy
    <3>2. Step(3) = "fix" BY <1>0 DEF Step
    <3> QED BY <2>6, <3>1, <3>2 DEF LetThrough, KnownDeadEnd
  <2>8. Regular(fixes)
    <3>1. Approved(rec, "accessibility", 3, facts) BY DEF Showing
    <3> QED BY <2>6, <3>1, ApprovedFixesAreRegular, 3 \in 3..4
  <2>9. PatchOfFixes(fixes) # <<>> BY <2>7, <2>8, AppliedMakesPatch
  <2>10. AccessibilityGate("re-scan", st) BY <2>5, <2>6, <2>7, <2>9 DEF AccessibilityGate
  <2>11. AccessibilityContract("re-scan", e) BY <2>4 DEF AccessibilityContract
  <2> QED BY <1>0, <2>10, <2>11, AccessibilityOpened
<1>9. Step(4) = "re-scan" /\ shown = rec.art[Step(4)] BY <1>0 DEF shown
<1>10. Showing(rec, lane, 4, facts) /\ Len(StepsOf(lane)) = 4 BY <1>0
<1>11. GoesOn(rec, 4, shown, drafts) BY <1>8, <1>9, <1>10 DEF GoesOn
<1> QED BY <1>7, <1>9, <1>10, <1>11, GoingOnMirrors

LEMMA AccessibilityMirrors ==
  ASSUME lane = "accessibility", NEW rec, NEW i \in 1..Len(StepsOf(lane)), Showing(rec, lane, i, facts)
  PROVE  Mirrors(rec, i)
<1>1. i \in 1..4 BY AccessibilityWalk
<1> QED BY <1>1, CrawlMirrors, ViolationsMirror, AccessibilityFixMirrors, ReScanMirrors

-----------------------------------------------------------------------------
(* Vendors *)

LEMMA VendorsOpened ==
  ASSUME lane = "vendors", NEW i \in 1..5, NEW a, NEW st
  PROVE  /\ Step(i) = VendorsSteps[i] /\ Len(StepsOf(lane)) = 5
         /\ SurfaceOf(lane, Step(i), a) = VendorsSurface(VendorsSteps[i], a)
         /\ Contract(lane, Step(i), a) <=> Fields(a) \in VendorsContract(VendorsSteps[i])
         /\ LetThrough(Step(i), a) => ~VendorsBlocked(VendorsSteps[i], a) /\ "customFields" \notin DOMAIN a
         /\ LaneGate(lane, Step(i), st, Known) <=> VendorsGate(VendorsSteps[i], st)
         /\ i < 5 => Compute(lane, Step(i + 1), st, Known) = VendorsCompute(VendorsSteps[i + 1], st, Known)
<1>1. Step(i) = VendorsSteps[i] /\ Len(StepsOf(lane)) = 5 BY VendorsWalk DEF Step
<1>2. i < 5 => Step(i + 1) = VendorsSteps[i + 1] BY VendorsWalk DEF Step
<1>3. SurfaceOf(lane, Step(i), a) = VendorsSurface(VendorsSteps[i], a) BY <1>1 DEF SurfaceOf
<1>4. Contract(lane, Step(i), a) <=> Fields(a) \in VendorsContract(VendorsSteps[i])
  BY <1>1 DEF Contract, Conforms
<1>5. LetThrough(Step(i), a) => ~VendorsBlocked(VendorsSteps[i], a) /\ "customFields" \notin DOMAIN a
  BY <1>1 DEF LetThrough, Blocked, KnownDeadEnd
<1>6. LaneGate(lane, Step(i), st, Known) <=> VendorsGate(VendorsSteps[i], st) BY <1>1 DEF LaneGate
<1>7. i < 5 => Compute(lane, Step(i + 1), st, Known) = VendorsCompute(VendorsSteps[i + 1], st, Known)
  BY <1>2 DEF Compute
<1> QED BY <1>1, <1>3, <1>4, <1>5, <1>6, <1>7

\* The documents handed in are counted as they are.
VendorDraft(waived, reason) ==
  LET documents == [d \in VendorDocuments |->
        IF d \in waived THEN [status |-> "waived", evidenced |-> reason]
        ELSE [status |-> "received", evidenced |-> TRUE]]
  IN [documents |-> documents, totals |-> CollectTotals(documents)]

LEMMA VendorDraftConforms ==
  ASSUME NEW a, Fields(a) \in CollectArtifact, NEW waived, NEW reason \in BOOLEAN
  PROVE  Fields(Merged(VendorDraft(waived, reason), a)) \in CollectArtifact
<1> DEFINE documents == [d \in VendorDocuments |->
                           IF d \in waived THEN [status |-> "waived", evidenced |-> reason]
                           ELSE [status |-> "received", evidenced |-> TRUE]]
           totals == CollectTotals(documents)
           draft == [documents |-> documents, totals |-> totals]
           e == Merged(draft, a)
<1>1. documents \in [VendorDocuments -> DocumentEntry] BY DEF DocumentEntry
<1>2. DOMAIN documents = VendorDocuments OBVIOUS
<1>3. VendorDraft(waived, reason) = draft BY DEF VendorDraft
<1> HIDE DEF documents
<1>4. totals \in [received : 0..4, waived : 0..4, outstanding : 0..4] BY <1>2, TotalsAreBounded
<1> HIDE DEF totals
<1>5. DOMAIN Fields(a) = {"documents", "totals"} BY DEF CollectArtifact
<1>6. /\ DOMAIN Fields(e) = {"documents", "totals"}
      /\ Fields(e)["documents"] = documents /\ Fields(e)["totals"] = totals
  BY <1>5, DraftOverlaid
<1> HIDE DEF e, draft
<1>7. Fields(e) = [documents |-> documents, totals |-> totals]
  BY <1>6 DEF Fields
<1> QED BY <1>1, <1>3, <1>4, <1>7 DEF CollectArtifact, e

LEMMA VendorCollectMirrors ==
  ASSUME lane = "vendors", NEW rec, Showing(rec, lane, 1, facts)
  PROVE  Mirrors(rec, 1)
<1> DEFINE shown == rec.art["collect"]
           drafts == {VendorDraft({}, TRUE), VendorDraft({"insurance"}, TRUE),
                      VendorDraft({"insurance"}, FALSE), VendorDraft(VendorDocuments, TRUE)}
                        \union {DeclaredFields(VendorDraft({}, TRUE))}
           defaults == [documents |-> << >>, totals |-> CollectTotals(shown.documents)]
<1>0. /\ VendorsSteps[1] = "collect" /\ VendorsSteps[2] = "verify" /\ Step(1) = "collect"
      /\ StepsOf(lane)[1] = "collect"
  BY VendorsOpened, VendorsWalk DEF VendorsSteps
<1>1. Fields(shown) \in CollectArtifact /\ Merged(NoEdits, shown) = shown
  <2>1. Contract(lane, "collect", shown) /\ Merged(NoEdits, shown) = shown
    BY <1>0, ShownSays DEF Showing
  <2>2. Fields(shown) \in VendorsContract("collect") BY <1>0, <2>1, VendorsOpened
  <2> QED BY <2>1, <2>2 DEF VendorsContract
<1>2. SurfaceOf(lane, "collect", shown) = Surface(Parsed(shown, {}, defaults), drafts)
  <2>1. SurfaceOf(lane, "collect", shown) = VendorsSurface("collect", shown) BY <1>0, VendorsOpened
  <2> QED BY <2>1 DEF VendorsSurface, VendorCollectSurface, VendorCollectView, VendorDraft
<1>3. DOMAIN Fields(shown) = {"documents", "totals"} BY <1>1 DEF CollectArtifact
<1>4. {} \union DOMAIN defaults \subseteq DOMAIN shown /\ "hidden" \notin {} \union DOMAIN defaults
  BY <1>3 DEF Fields
<1> HIDE DEF shown, drafts, defaults
<1>5. Pictured(lane, "collect", shown) /\ SurfaceOf(lane, "collect", shown).drafts = drafts
  BY <1>2, <1>4, SurfaceIsSaid
<1>6. ASSUME NEW draft \in {NoEdits} \union drafts, LetThrough("collect", Merged(draft, shown)),
             NEW st, Resumes(st, rec, lane, 1, draft)
      PROVE  Goes(1, st, Merged(draft, shown))
  <2> DEFINE e == Merged(draft, shown)
  <2>1. ~VendorCollectBlocked(e) /\ "customFields" \notin DOMAIN e
    <3>1. ~VendorsBlocked("collect", e) /\ "customFields" \notin DOMAIN e
      BY <1>0, <1>6, VendorsOpened
    <3> QED BY <3>1 DEF VendorsBlocked
  <2>2. Fields(e) \in CollectArtifact
    <3>1. CASE draft = NoEdits BY <1>1, <3>1
    <3>2. CASE draft = DeclaredFields(VendorDraft({}, TRUE))
      <4>1. "customFields" \in DOMAIN draft BY <3>2 DEF DeclaredFields, WithField
      <4> QED BY <2>1, <4>1, Overlaid
    <3>3. CASE draft \in {VendorDraft({}, TRUE), VendorDraft({"insurance"}, TRUE),
                          VendorDraft({"insurance"}, FALSE), VendorDraft(VendorDocuments, TRUE)}
      BY <1>1, <3>3, VendorDraftConforms
    <3> QED BY <3>1, <3>2, <3>3 DEF drafts
  <2>3. EffectiveArtifact(st, "collect") = e /\ HasArtifact(st, "collect")
    BY <1>0, <1>6 DEF Resumes, shown
  <2> HIDE DEF e
  <2>4. VendorsGate("collect", st)
    <3>1. DOMAIN e.documents = VendorDocuments BY <2>2 DEF CollectArtifact, Fields
    <3> QED BY <2>1, <2>3, <3>1 DEF VendorsGate, CollectGate, VendorCollectBlocked
  <2>5. VendorsCompute("verify", st, Known) # {}
    BY <2>3 DEF VendorsCompute, ComputeVerify, Unless
  <2>6. Fields(e) \in VendorsContract("collect") BY <2>2 DEF VendorsContract
  <2>7. /\ Contract(lane, Step(1), e) /\ LaneGate(lane, Step(1), st, Known)
        /\ Compute(lane, Step(1 + 1), st, Known) = VendorsCompute("verify", st, Known)
    BY <1>0, <2>4, <2>6, VendorsOpened
  <2> QED BY <2>5, <2>7 DEF Goes, e
<1> QED BY <1>0, <1>5, <1>6 DEF Mirrors, shown

LEMMA VendorVerifyMirrors ==
  ASSUME lane = "vendors", NEW rec, Showing(rec, "vendors", 2, facts)
  PROVE  Mirrors(rec, 2)
<1> DEFINE shown == rec.art["verify"]
           defaults == [checks |-> << >>, candidates |-> {}, manualReview |-> {}, resolutions |-> {}]
           view == VendorVerifyView(shown)
           drafts == {[resolutions |-> noted] :
                        noted \in SUBSET {c \in DOMAIN view.checks : view.checks[c] = "fail"}}
<1>0. /\ VendorsSteps[1] = "collect" /\ VendorsSteps[2] = "verify" /\ VendorsSteps[3] = "risk-score"
      /\ Step(2) = "verify" /\ StepsOf(lane)[1] = "collect" /\ StepsOf(lane)[2] = "verify"
  BY VendorsOpened, VendorsWalk DEF VendorsSteps
<1>1. Fields(shown) \in VerifyArtifact /\ Merged(NoEdits, shown) = shown
  <2>1. Contract(lane, "verify", shown) /\ Merged(NoEdits, shown) = shown
    BY <1>0, ShownSays DEF Showing
  <2>2. Fields(shown) \in VendorsContract("verify") BY <1>0, <2>1, VendorsOpened
  <2> QED BY <2>1, <2>2 DEF VendorsContract
<1>2. SurfaceOf(lane, "verify", shown) = Surface(Parsed(shown, {}, defaults), drafts)
  <2>1. SurfaceOf(lane, "verify", shown) = VendorsSurface("verify", shown) BY <1>0, VendorsOpened
  <2> QED BY <2>1 DEF VendorsSurface, VendorVerifySurface, VendorVerifyView
<1>3. DOMAIN Fields(shown) = {"checks", "candidates", "manualReview", "resolutions"}
  BY <1>1 DEF VerifyArtifact
<1>4. {} \union DOMAIN defaults \subseteq DOMAIN shown /\ "hidden" \notin {} \union DOMAIN defaults
  BY <1>3 DEF Fields
<1>5. view.checks = shown.checks /\ DOMAIN shown.checks = VendorCheckIds
  BY <1>1, <1>3, <1>4 DEF VendorVerifyView, Parsed, VerifyArtifact, Fields
<1> HIDE DEF shown, drafts, defaults
<1>6. Pictured(lane, "verify", shown) /\ SurfaceOf(lane, "verify", shown).drafts = drafts
  BY <1>2, <1>4, SurfaceIsSaid
<1>7. ASSUME NEW draft \in {NoEdits} \union drafts, LetThrough("verify", Merged(draft, shown)),
             NEW st, Resumes(st, rec, lane, 2, draft)
      PROVE  Goes(2, st, Merged(draft, shown))
  <2> DEFINE e == Merged(draft, shown)
  <2>1. Unresolved(e) = {}
    <3>1. ~VendorsBlocked("verify", e) BY <1>0, <1>7, VendorsOpened
    <3> QED BY <3>1 DEF VendorsBlocked, VendorVerifyBlocked
  <2>2. Fields(e) \in VerifyArtifact
    <3>1. CASE draft = NoEdits BY <1>1, <3>1
    <3>2. CASE draft # NoEdits
      <4>1. PICK noted \in SUBSET VendorCheckIds : draft = [resolutions |-> noted]
        BY <1>5, <1>7, <3>2 DEF drafts
      <4> HIDE DEF e
      <4>2. /\ DOMAIN Fields(e) = DOMAIN Fields(shown) /\ Fields(e).resolutions = noted
            /\ \A x \in {"checks", "candidates", "manualReview"} : Fields(e)[x] = Fields(shown)[x]
        BY <1>3, <4>1, DraftOverlaid DEF e
      <4>3. Fields(e) = [Fields(shown) EXCEPT !.resolutions = noted] BY <1>3, <4>2 DEF Fields
      <4> QED BY <1>1, <4>1, <4>3 DEF VerifyArtifact
    <3> QED BY <3>1, <3>2
  <2>3. EffectiveArtifact(st, "verify") = e /\ HasArtifact(st, "verify")
    BY <1>0, <1>7 DEF Resumes, shown
  <2>4. HasArtifact(st, "collect") BY <1>0, <1>7, Behind
  <2> HIDE DEF e
  <2>5. VendorsGate("verify", st) BY <2>1, <2>3 DEF VendorsGate, VerifyGate
  <2>6. VendorsCompute("risk-score", st, Known) # {}
    BY <2>3, <2>4 DEF VendorsCompute, ComputeRisk, Unless
  <2>7. Fields(e) \in VendorsContract("verify") BY <2>2 DEF VendorsContract
  <2>8. /\ Contract(lane, Step(2), e) /\ LaneGate(lane, Step(2), st, Known)
        /\ Compute(lane, Step(2 + 1), st, Known) = VendorsCompute("risk-score", st, Known)
    BY <1>0, <2>5, <2>7, VendorsOpened
  <2> QED BY <2>6, <2>8 DEF Goes, e
<1> QED BY <1>0, <1>6, <1>7 DEF Mirrors, shown

LEMMA VendorRiskMirrors ==
  ASSUME lane = "vendors", NEW rec, Showing(rec, "vendors", 3, facts)
  PROVE  Mirrors(rec, 3)
<1> DEFINE shown == rec.art["risk-score"]
           defaults == [score |-> 0, requiredSigners |-> {}]
<1>0. /\ VendorsSteps[3] = "risk-score" /\ VendorsSteps[4] = "approve"
      /\ Step(3) = "risk-score" /\ StepsOf(lane)[3] = "risk-score" /\ Len(StepsOf(lane)) = 5
  BY VendorsOpened, VendorsWalk DEF VendorsSteps
<1>1. Fields(shown) \in RiskArtifact
  <2>1. Contract(lane, "risk-score", shown) BY <1>0 DEF Showing
  <2>2. Fields(shown) \in VendorsContract("risk-score") BY <1>0, <2>1, VendorsOpened
  <2> QED BY <2>2 DEF VendorsContract
<1>2. SurfaceOf(lane, "risk-score", shown) = ReadOnly(Parsed(shown, {"tier"}, defaults))
  <2>1. SurfaceOf(lane, "risk-score", shown) = VendorsSurface("risk-score", shown)
    BY <1>0, VendorsOpened
  <2> QED BY <2>1 DEF VendorsSurface, VendorRiskSurface, VendorRiskView
<1>3. DOMAIN Fields(shown) = {"score", "tier", "requiredSigners"} BY <1>1 DEF RiskArtifact
<1>4. /\ {"tier"} \union DOMAIN defaults \subseteq DOMAIN shown
      /\ "hidden" \notin {"tier"} \union DOMAIN defaults
  BY <1>3 DEF Fields
<1> HIDE DEF defaults
<1>5. Pictured(lane, "risk-score", shown) /\ SurfaceOf(lane, "risk-score", shown).drafts = {}
  BY <1>2, <1>4, ReadOnlyIsSaid
<1>6. ASSUME NEW st, Resumes(st, rec, lane, 3, NoEdits)
      PROVE  LaneGate(lane, Step(3), st, Known) /\ Compute(lane, Step(3 + 1), st, Known) # {}
  <2>1. HasArtifact(st, "risk-score") BY <1>0, <1>6 DEF Resumes
  <2>2. VendorsGate("risk-score", st) BY DEF VendorsGate
  <2>3. ComputeChain(st) # {} BY <2>1 DEF ComputeChain, Unless
  <2>4. VendorsCompute("approve", st, Known) # {} BY <2>3, StoredOrSome DEF VendorsCompute
  <2> QED BY <1>0, <2>2, <2>4, VendorsOpened
<1> HIDE DEF shown
<1>7. Step(3) = "risk-score" /\ rec.art[Step(3)] = shown BY <1>0 DEF shown
<1> QED BY <1>5, <1>6, <1>7, UneditedMirrors

LEMMA VendorApproveMirrors ==
  ASSUME lane = "vendors", NEW rec, Showing(rec, "vendors", 4, facts)
  PROVE  Mirrors(rec, 4)
<1> DEFINE shown == rec.art["approve"]
           defaults == [tier |-> "low", chain |-> << >>, allApproved |-> FALSE]
           view == VendorApproveView(shown)
           Signed(approvers) ==
             [chain |-> [role \in DOMAIN view.chain |->
                           IF role \in approvers THEN "approved" ELSE "pending"],
              allApproved |-> approvers = DOMAIN view.chain]
           drafts == {Signed({}), Signed({"procurement-lead"}), Signed(DOMAIN view.chain)}
<1>0. /\ VendorsSteps[1] = "collect" /\ VendorsSteps[4] = "approve" /\ VendorsSteps[5] = "create"
      /\ Step(4) = "approve" /\ StepsOf(lane)[1] = "collect" /\ StepsOf(lane)[4] = "approve"
  BY VendorsOpened, VendorsWalk DEF VendorsSteps
<1>1. Fields(shown) \in ChainArtifact /\ Merged(NoEdits, shown) = shown
  <2>1. Contract(lane, "approve", shown) /\ Merged(NoEdits, shown) = shown
    BY <1>0, ShownSays DEF Showing
  <2>2. Fields(shown) \in VendorsContract("approve") BY <1>0, <2>1, VendorsOpened
  <2> QED BY <2>1, <2>2 DEF VendorsContract
<1>2. SurfaceOf(lane, "approve", shown) = Surface(Parsed(shown, {}, defaults), drafts)
  <2>1. SurfaceOf(lane, "approve", shown) = VendorsSurface("approve", shown) BY <1>0, VendorsOpened
  <2> QED BY <2>1 DEF VendorsSurface, VendorApproveSurface, VendorApproveView
<1>3. DOMAIN Fields(shown) = {"tier", "chain", "allApproved"} BY <1>1 DEF ChainArtifact
<1>4. {} \union DOMAIN defaults \subseteq DOMAIN shown /\ "hidden" \notin {} \union DOMAIN defaults
  BY <1>3 DEF Fields
<1>5. view.chain = Fields(shown).chain
  BY <1>3, <1>4 DEF VendorApproveView, Parsed, Fields
<1>6. DOMAIN view.chain \in (SUBSET VendorSigners) \ {{}}
  BY <1>1, <1>5 DEF ChainArtifact, Chains
<1> HIDE DEF shown, defaults, view
<1>7. Pictured(lane, "approve", shown) /\ SurfaceOf(lane, "approve", shown).drafts = drafts
  BY <1>2, <1>4, SurfaceIsSaid
<1>8. ASSUME NEW draft \in {NoEdits} \union drafts, LetThrough("approve", Merged(draft, shown)),
             NEW st, Resumes(st, rec, lane, 4, draft)
      PROVE  Goes(4, st, Merged(draft, shown))
  <2> DEFINE e == Merged(draft, shown)
  <2>1. Approvers(e.chain) = DOMAIN e.chain
    <3>1. ~VendorsBlocked("approve", e) BY <1>0, <1>8, VendorsOpened
    <3> QED BY <3>1 DEF VendorsBlocked, VendorApproveBlocked
  <2>2. Fields(e) \in ChainArtifact
    <3>1. CASE draft = NoEdits BY <1>1, <3>1
    <3>2. CASE draft # NoEdits
      <4> HIDE DEF Signed
      <4>1. PICK approvers : draft = Signed(approvers) BY <1>8, <3>2
      <4> DEFINE chain == [role \in DOMAIN view.chain |->
                             IF role \in approvers THEN "approved" ELSE "pending"]
                 all == approvers = DOMAIN view.chain
      <4>2. draft = [chain |-> chain, allApproved |-> all] BY <4>1 DEF Signed
      <4>3. chain \in Chains(VendorSigners)
        <5>1. chain \in [DOMAIN view.chain -> SignerStates] BY DEF SignerStates
        <5> HIDE DEF chain
        <5> QED BY <1>6, <5>1 DEF Chains
      <4>4. all \in BOOLEAN OBVIOUS
      <4> HIDE DEF e, chain, all
      <4>5. /\ DOMAIN Fields(e) = DOMAIN Fields(shown) /\ Fields(e)["chain"] = chain
            /\ Fields(e)["allApproved"] = all /\ Fields(e)["tier"] = Fields(shown)["tier"]
        BY <1>3, <4>2, DraftOverlaid DEF e
      <4>6. Fields(e) = [Fields(shown) EXCEPT !.chain = chain, !.allApproved = all]
        BY <1>3, <4>5 DEF Fields
      <4> QED BY <1>1, <4>3, <4>4, <4>6 DEF ChainArtifact
    <3> QED BY <3>1, <3>2
  <2>3. EffectiveArtifact(st, "approve") = e /\ HasArtifact(st, "approve")
    BY <1>0, <1>8 DEF Resumes, shown
  <2>4. HasArtifact(st, "collect") BY <1>0, <1>8, Behind
  <2> HIDE DEF e
  <2>5. VendorsGate("approve", st) BY <2>1, <2>3 DEF VendorsGate, AssertChainApproved
  <2>6. ComputeRecord(st, Known) # {} BY <2>3, <2>4 DEF ComputeRecord, Unless
  <2>7. VendorsCompute("create", st, Known) # {} BY <2>6, StoredOrSome DEF VendorsCompute
  <2>8. Fields(e) \in VendorsContract("approve") BY <2>2 DEF VendorsContract
  <2>9. /\ Contract(lane, Step(4), e) /\ LaneGate(lane, Step(4), st, Known)
        /\ Compute(lane, Step(4 + 1), st, Known) = VendorsCompute("create", st, Known)
    BY <1>0, <2>5, <2>8, VendorsOpened
  <2> QED BY <2>7, <2>9 DEF Goes, e
<1> QED BY <1>0, <1>7, <1>8 DEF Mirrors, shown

LEMMA VendorCreateMirrors ==
  ASSUME lane = "vendors", NEW rec, Showing(rec, "vendors", 5, facts)
  PROVE  Mirrors(rec, 5)
<1> DEFINE shown == rec.art["create"]
           defaults == [existing |-> FALSE, welcomePacket |-> TRUE]
           drafts == [welcomePacket : BOOLEAN]
<1>0. /\ VendorsSteps[4] = "approve" /\ VendorsSteps[5] = "create" /\ Len(StepsOf(lane)) = 5
      /\ Step(5) = "create" /\ StepsOf(lane)[4] = "approve" /\ StepsOf(lane)[5] = "create"
  BY VendorsOpened, VendorsWalk DEF VendorsSteps
<1>1. Fields(shown) \in CreateArtifact /\ Merged(NoEdits, shown) = shown
  <2>1. Contract(lane, "create", shown) /\ Merged(NoEdits, shown) = shown
    BY <1>0, ShownSays DEF Showing
  <2>2. Fields(shown) \in VendorsContract("create") BY <1>0, <2>1, VendorsOpened
  <2> QED BY <2>1, <2>2 DEF VendorsContract
<1>2. SurfaceOf(lane, "create", shown) = Surface(Parsed(shown, {}, defaults), drafts)
  <2>1. SurfaceOf(lane, "create", shown) = VendorsSurface("create", shown) BY <1>0, VendorsOpened
  <2> QED BY <2>1 DEF VendorsSurface, VendorCreateSurface, VendorCreateView
<1>3. DOMAIN Fields(shown) = {"existing", "welcomePacket"} BY <1>1 DEF CreateArtifact
<1>4. {} \union DOMAIN defaults \subseteq DOMAIN shown /\ "hidden" \notin {} \union DOMAIN defaults
  BY <1>3 DEF Fields
<1> HIDE DEF shown, defaults, drafts
<1>5. Pictured(lane, "create", shown) /\ SurfaceOf(lane, "create", shown).drafts = drafts
  BY <1>2, <1>4, SurfaceIsSaid
<1>6. ASSUME NEW draft \in {NoEdits} \union drafts, NEW st, Resumes(st, rec, lane, 5, draft)
      PROVE  Goes(5, st, Merged(draft, shown))
  <2> DEFINE e == Merged(draft, shown)
  <2>1. Fields(e) \in CreateArtifact
    <3>1. CASE draft = NoEdits BY <1>1, <3>1
    <3>2. CASE draft # NoEdits
      <4>1. PICK packet \in BOOLEAN : draft = [welcomePacket |-> packet] BY <1>6, <3>2 DEF drafts
      <4> HIDE DEF e
      <4>2. /\ DOMAIN Fields(e) = DOMAIN Fields(shown) /\ Fields(e)["welcomePacket"] = packet
            /\ Fields(e)["existing"] = Fields(shown)["existing"]
        BY <1>3, <4>1, DraftOverlaid DEF e
      <4>3. Fields(e) = [Fields(shown) EXCEPT !.welcomePacket = packet] BY <1>3, <4>2 DEF Fields
      <4> QED BY <1>1, <4>1, <4>3 DEF CreateArtifact
    <3> QED BY <3>1, <3>2
  <2> HIDE DEF e
  <2>2. PICK before, C : Shows(before, rec, lane, 5) /\ LaneGate(lane, "approve", before, Looked(facts, C))
    BY <1>0, Gated DEF Showing
  <2>3. AssertChainApproved(before) BY <1>0, <2>2 DEF LaneGate, VendorsGate
  <2>4. "approve" \in Prior(lane, 5) BY <1>0 DEF Prior
  <2>5. /\ HasArtifact(st, "approve")
        /\ EffectiveArtifact(st, "approve") = EffectiveArtifact(before, "approve")
    BY <1>0, <1>6, <2>2, <2>4, Behind DEF Shows
  <2>6. VendorsGate("create", st) BY <2>3, <2>5 DEF VendorsGate, AssertChainApproved
  <2>7. Fields(e) \in VendorsContract("create") BY <2>1 DEF VendorsContract
  <2>8. Contract(lane, Step(5), e) /\ LaneGate(lane, Step(5), st, Known)
    BY <1>0, <2>6, <2>7, VendorsOpened
  <2> QED BY <1>0, <2>8 DEF Goes, e
<1> QED BY <1>0, <1>5, <1>6 DEF Mirrors, shown

LEMMA VendorsMirror ==
  ASSUME lane = "vendors", NEW rec, NEW i \in 1..Len(StepsOf(lane)), Showing(rec, lane, i, facts)
  PROVE  Mirrors(rec, i)
<1>1. i \in 1..5 BY VendorsWalk
<1> QED
  BY <1>1, VendorCollectMirrors, VendorVerifyMirrors, VendorRiskMirrors, VendorApproveMirrors,
     VendorCreateMirrors

-----------------------------------------------------------------------------
(* Onboarding *)

LEMMA OnboardingOpened ==
  ASSUME lane = "onboarding", NEW i \in 1..5, NEW a, NEW st
  PROVE  /\ Step(i) = OnboardingSteps[i] /\ Len(StepsOf(lane)) = 5
         /\ SurfaceOf(lane, Step(i), a) = OnboardingSurface(OnboardingSteps[i], a)
         /\ Contract(lane, Step(i), a) <=> Fields(a) \in OnboardingContract(OnboardingSteps[i])
         /\ LetThrough(Step(i), a) => ~OnboardingBlocked(OnboardingSteps[i], a) /\ "customFields" \notin DOMAIN a
         /\ LaneGate(lane, Step(i), st, Known) <=> OnboardingGate(OnboardingSteps[i], st)
         /\ i < 5 => Compute(lane, Step(i + 1), st, Known) = OnboardingCompute(OnboardingSteps[i + 1], st, Known)
<1>1. Step(i) = OnboardingSteps[i] /\ Len(StepsOf(lane)) = 5 BY OnboardingWalk DEF Step
<1>2. i < 5 => Step(i + 1) = OnboardingSteps[i + 1] BY OnboardingWalk DEF Step
<1>3. SurfaceOf(lane, Step(i), a) = OnboardingSurface(OnboardingSteps[i], a) BY <1>1 DEF SurfaceOf
<1>4. Contract(lane, Step(i), a) <=> Fields(a) \in OnboardingContract(OnboardingSteps[i])
  BY <1>1 DEF Contract, Conforms
<1>5. LetThrough(Step(i), a) => ~OnboardingBlocked(OnboardingSteps[i], a) /\ "customFields" \notin DOMAIN a
  BY <1>1 DEF LetThrough, Blocked, KnownDeadEnd
<1>6. LaneGate(lane, Step(i), st, Known) <=> OnboardingGate(OnboardingSteps[i], st) BY <1>1 DEF LaneGate
<1>7. i < 5 => Compute(lane, Step(i + 1), st, Known) = OnboardingCompute(OnboardingSteps[i + 1], st, Known)
  BY <1>2 DEF Compute
<1> QED BY <1>1, <1>3, <1>4, <1>5, <1>6, <1>7

\* The documents dropped on their rows or waived are counted as they are.
HireDraft(a, received, waived, reason) ==
  LET documents == [d \in HireDocuments |->
        IF d \in waived THEN [status |-> "waived", evidenced |-> reason]
        ELSE IF d \in received THEN [status |-> "received", evidenced |-> TRUE]
        ELSE a.documents[d]]
  IN [documents |-> documents, totals |-> HireTotals(documents)]

LEMMA HireDraftConforms ==
  ASSUME NEW a, Fields(a) \in HireCollectArtifact, NEW received, NEW waived, NEW reason \in BOOLEAN
  PROVE  Fields(Merged(HireDraft(a, received, waived, reason), a)) \in HireCollectArtifact
<1> DEFINE documents == [d \in HireDocuments |->
                           IF d \in waived THEN [status |-> "waived", evidenced |-> reason]
                           ELSE IF d \in received THEN [status |-> "received", evidenced |-> TRUE]
                           ELSE a.documents[d]]
           totals == HireTotals(documents)
           draft == [documents |-> documents, totals |-> totals]
           e == Merged(draft, a)
<1>1. DOMAIN Fields(a) = {"access", "documents", "totals"} BY DEF HireCollectArtifact
<1>2. a.documents \in [HireDocuments -> HireDocumentEntry] BY <1>1 DEF HireCollectArtifact, Fields
<1>3. documents \in [HireDocuments -> HireDocumentEntry] BY <1>2 DEF HireDocumentEntry
<1>4. HireDraft(a, received, waived, reason) = draft BY DEF HireDraft
<1> HIDE DEF documents
<1>5. totals \in [received : 0..6, waived : 0..6, outstanding : 0..6] BY HireTotalsAreBounded
<1> HIDE DEF totals
<1>6. /\ DOMAIN Fields(e) = {"access", "documents", "totals"}
      /\ Fields(e)["documents"] = documents /\ Fields(e)["totals"] = totals
      /\ Fields(e)["access"] = Fields(a)["access"]
  BY <1>1, DraftOverlaid
<1> HIDE DEF e, draft
<1>7. Fields(e) = [Fields(a) EXCEPT !.documents = documents, !.totals = totals]
  BY <1>1, <1>6 DEF Fields
<1> QED BY <1>3, <1>4, <1>5, <1>7 DEF HireCollectArtifact, e

LEMMA HireCollectMirrors ==
  ASSUME lane = "onboarding", NEW rec, Showing(rec, "onboarding", 1, facts)
  PROVE  Mirrors(rec, 1)
<1> DEFINE shown == rec.art["collect"]
           Settle(received, waived, reason) == HireDraft(shown, received, waived, reason)
           all == Settle(HireRequired, {}, TRUE)
           filled == WithField(all, "customFields", TRUE)
           drafts == {all, filled, Settle({}, HireRequired \ {"id-verification"}, TRUE),
                      Settle({"id-verification"}, HireRequired \ {"id-verification"}, TRUE),
                      Settle(HireRequired, {"emergency-contact"}, FALSE)}
           defaults == [documents |-> << >>, totals |-> HireTotals(shown.documents)]
<1>0. /\ OnboardingSteps[1] = "collect" /\ OnboardingSteps[2] = "verify" /\ Step(1) = "collect"
      /\ StepsOf(lane)[1] = "collect"
  BY OnboardingOpened, OnboardingWalk DEF OnboardingSteps
<1>1. Fields(shown) \in HireCollectArtifact /\ Merged(NoEdits, shown) = shown
  <2>1. Contract(lane, "collect", shown) /\ Merged(NoEdits, shown) = shown
    BY <1>0, ShownSays DEF Showing
  <2>2. Fields(shown) \in OnboardingContract("collect") BY <1>0, <2>1, OnboardingOpened
  <2> QED BY <2>1, <2>2 DEF OnboardingContract
<1>2. SurfaceOf(lane, "collect", shown) = Surface(Parsed(shown, {"access"}, defaults), drafts)
  <2>1. SurfaceOf(lane, "collect", shown) = OnboardingSurface("collect", shown)
    BY <1>0, OnboardingOpened
  <2> QED BY <2>1 DEF OnboardingSurface, HireCollectSurface, HireCollectView, HireDraft
<1>3. DOMAIN Fields(shown) = {"access", "documents", "totals"} BY <1>1 DEF HireCollectArtifact
<1>4. /\ {"access"} \union DOMAIN defaults \subseteq DOMAIN shown
      /\ "hidden" \notin {"access"} \union DOMAIN defaults
  BY <1>3 DEF Fields
<1> HIDE DEF shown, drafts, defaults
<1>5. Pictured(lane, "collect", shown) /\ SurfaceOf(lane, "collect", shown).drafts = drafts
  BY <1>2, <1>4, SurfaceIsSaid
<1>6. ASSUME NEW draft \in {NoEdits} \union drafts, LetThrough("collect", Merged(draft, shown)),
             NEW st, Resumes(st, rec, lane, 1, draft)
      PROVE  Goes(1, st, Merged(draft, shown))
  <2> DEFINE e == Merged(draft, shown)
  <2>1. ~OnboardingCollectBlocked(e) /\ "customFields" \notin DOMAIN e
    <3>1. ~OnboardingBlocked("collect", e) /\ "customFields" \notin DOMAIN e
      BY <1>0, <1>6, OnboardingOpened
    <3> QED BY <3>1 DEF OnboardingBlocked
  <2>2. Fields(e) \in HireCollectArtifact
    <3>1. CASE draft = NoEdits BY <1>1, <3>1
    <3>2. CASE draft = filled
      <4>1. "customFields" \in DOMAIN draft BY <3>2 DEF WithField
      <4> QED BY <2>1, <4>1, Overlaid
    <3>3. CASE draft \in drafts \ {filled}
      BY <1>1, <3>3, HireDraftConforms DEF drafts
    <3> QED BY <1>6, <3>1, <3>2, <3>3
  <2>3. EffectiveArtifact(st, "collect") = e /\ HasArtifact(st, "collect")
    BY <1>0, <1>6 DEF Resumes, shown
  <2> HIDE DEF e
  <2>4. OnboardingGate("collect", st)
    <3>1. DOMAIN e.documents = HireDocuments BY <2>2 DEF HireCollectArtifact, Fields
    <3> QED BY <2>1, <2>3, <3>1 DEF OnboardingGate, HireCollectGate, OnboardingCollectBlocked
  <2>5. OnboardingCompute("verify", st, Known) # {}
    BY <2>3 DEF OnboardingCompute, ComputeHireVerify, Unless
  <2>6. Fields(e) \in OnboardingContract("collect") BY <2>2 DEF OnboardingContract
  <2>7. /\ Contract(lane, Step(1), e) /\ LaneGate(lane, Step(1), st, Known)
        /\ Compute(lane, Step(1 + 1), st, Known) = OnboardingCompute("verify", st, Known)
    BY <1>0, <2>4, <2>6, OnboardingOpened
  <2> QED BY <2>5, <2>7 DEF Goes, e
<1> QED BY <1>0, <1>5, <1>6 DEF Mirrors, shown

LEMMA HireVerifyMirrors ==
  ASSUME lane = "onboarding", NEW rec, Showing(rec, "onboarding", 2, facts)
  PROVE  Mirrors(rec, 2)
<1> DEFINE shown == rec.art["verify"]
           defaults == [checks |-> << >>, candidates |-> {}, manualReview |-> {}, resolutions |-> {}]
           view == HireVerifyView(shown)
           drafts == {[resolutions |-> noted] :
                        noted \in SUBSET {c \in DOMAIN view.checks : view.checks[c] = "fail"}}
<1>0. /\ OnboardingSteps[1] = "collect" /\ OnboardingSteps[2] = "verify" /\ OnboardingSteps[3] = "risk-score"
      /\ Step(2) = "verify" /\ StepsOf(lane)[1] = "collect" /\ StepsOf(lane)[2] = "verify"
  BY OnboardingOpened, OnboardingWalk DEF OnboardingSteps
<1>1. Fields(shown) \in HireVerifyArtifact /\ Merged(NoEdits, shown) = shown
  <2>1. Contract(lane, "verify", shown) /\ Merged(NoEdits, shown) = shown
    BY <1>0, ShownSays DEF Showing
  <2>2. Fields(shown) \in OnboardingContract("verify") BY <1>0, <2>1, OnboardingOpened
  <2> QED BY <2>1, <2>2 DEF OnboardingContract
<1>2. SurfaceOf(lane, "verify", shown) = Surface(Parsed(shown, {}, defaults), drafts)
  <2>1. SurfaceOf(lane, "verify", shown) = OnboardingSurface("verify", shown) BY <1>0, OnboardingOpened
  <2> QED BY <2>1 DEF OnboardingSurface, HireVerifySurface, HireVerifyView
<1>3. DOMAIN Fields(shown) = {"checks", "candidates", "manualReview", "resolutions"}
  BY <1>1 DEF HireVerifyArtifact
<1>4. {} \union DOMAIN defaults \subseteq DOMAIN shown /\ "hidden" \notin {} \union DOMAIN defaults
  BY <1>3 DEF Fields
<1>5. view.checks = shown.checks /\ DOMAIN shown.checks = HireCheckIds
  BY <1>1, <1>3, <1>4 DEF HireVerifyView, Parsed, HireVerifyArtifact, Fields
<1> HIDE DEF shown, drafts, defaults
<1>6. Pictured(lane, "verify", shown) /\ SurfaceOf(lane, "verify", shown).drafts = drafts
  BY <1>2, <1>4, SurfaceIsSaid
<1>7. ASSUME NEW draft \in {NoEdits} \union drafts, LetThrough("verify", Merged(draft, shown)),
             NEW st, Resumes(st, rec, lane, 2, draft)
      PROVE  Goes(2, st, Merged(draft, shown))
  <2> DEFINE e == Merged(draft, shown)
  <2>1. HireUnresolved(e) = {}
    <3>1. ~OnboardingBlocked("verify", e) BY <1>0, <1>7, OnboardingOpened
    <3> QED BY <3>1 DEF OnboardingBlocked, OnboardingVerifyBlocked
  <2>2. Fields(e) \in HireVerifyArtifact
    <3>1. CASE draft = NoEdits BY <1>1, <3>1
    <3>2. CASE draft # NoEdits
      <4>1. PICK noted \in SUBSET HireCheckIds : draft = [resolutions |-> noted]
        BY <1>5, <1>7, <3>2 DEF drafts
      <4> HIDE DEF e
      <4>2. /\ DOMAIN Fields(e) = DOMAIN Fields(shown) /\ Fields(e).resolutions = noted
            /\ \A x \in {"checks", "candidates", "manualReview"} : Fields(e)[x] = Fields(shown)[x]
        BY <1>3, <4>1, DraftOverlaid DEF e
      <4>3. Fields(e) = [Fields(shown) EXCEPT !.resolutions = noted] BY <1>3, <4>2 DEF Fields
      <4> QED BY <1>1, <4>1, <4>3 DEF HireVerifyArtifact
    <3> QED BY <3>1, <3>2
  <2>3. EffectiveArtifact(st, "verify") = e /\ HasArtifact(st, "verify")
    BY <1>0, <1>7 DEF Resumes, shown
  <2>4. HasArtifact(st, "collect") BY <1>0, <1>7, Behind
  <2> HIDE DEF e
  <2>5. OnboardingGate("verify", st) BY <2>1, <2>3 DEF OnboardingGate, HireVerifyGate
  <2>6. OnboardingCompute("risk-score", st, Known) # {}
    BY <2>3, <2>4 DEF OnboardingCompute, ComputeHireRisk, Unless
  <2>7. Fields(e) \in OnboardingContract("verify") BY <2>2 DEF OnboardingContract
  <2>8. /\ Contract(lane, Step(2), e) /\ LaneGate(lane, Step(2), st, Known)
        /\ Compute(lane, Step(2 + 1), st, Known) = OnboardingCompute("risk-score", st, Known)
    BY <1>0, <2>5, <2>7, OnboardingOpened
  <2> QED BY <2>6, <2>8 DEF Goes, e
<1> QED BY <1>0, <1>6, <1>7 DEF Mirrors, shown

LEMMA HireRiskMirrors ==
  ASSUME lane = "onboarding", NEW rec, Showing(rec, "onboarding", 3, facts)
  PROVE  Mirrors(rec, 3)
<1> DEFINE shown == rec.art["risk-score"]
           defaults == [score |-> 0, requiredSigners |-> {}]
<1>0. /\ OnboardingSteps[3] = "risk-score" /\ OnboardingSteps[4] = "approve"
      /\ Step(3) = "risk-score" /\ StepsOf(lane)[3] = "risk-score" /\ Len(StepsOf(lane)) = 5
  BY OnboardingOpened, OnboardingWalk DEF OnboardingSteps
<1>1. Fields(shown) \in HireRiskArtifact
  <2>1. Contract(lane, "risk-score", shown) BY <1>0 DEF Showing
  <2>2. Fields(shown) \in OnboardingContract("risk-score") BY <1>0, <2>1, OnboardingOpened
  <2> QED BY <2>2 DEF OnboardingContract
<1>2. SurfaceOf(lane, "risk-score", shown) = ReadOnly(Parsed(shown, {"tier"}, defaults))
  <2>1. SurfaceOf(lane, "risk-score", shown) = OnboardingSurface("risk-score", shown)
    BY <1>0, OnboardingOpened
  <2> QED BY <2>1 DEF OnboardingSurface, HireRiskSurface, HireRiskView
<1>3. DOMAIN Fields(shown) = {"score", "tier", "requiredSigners"} BY <1>1 DEF HireRiskArtifact
<1>4. /\ {"tier"} \union DOMAIN defaults \subseteq DOMAIN shown
      /\ "hidden" \notin {"tier"} \union DOMAIN defaults
  BY <1>3 DEF Fields
<1> HIDE DEF defaults
<1>5. Pictured(lane, "risk-score", shown) /\ SurfaceOf(lane, "risk-score", shown).drafts = {}
  BY <1>2, <1>4, ReadOnlyIsSaid
<1>6. ASSUME NEW st, Resumes(st, rec, lane, 3, NoEdits)
      PROVE  LaneGate(lane, Step(3), st, Known) /\ Compute(lane, Step(3 + 1), st, Known) # {}
  <2>1. HasArtifact(st, "risk-score") BY <1>0, <1>6 DEF Resumes
  <2>2. OnboardingGate("risk-score", st) BY DEF OnboardingGate
  <2>3. ComputeHireChain(st) # {} BY <2>1 DEF ComputeHireChain, Unless
  <2>4. OnboardingCompute("approve", st, Known) # {} BY <2>3, StoredOrSome DEF OnboardingCompute
  <2> QED BY <1>0, <2>2, <2>4, OnboardingOpened
<1> HIDE DEF shown
<1>7. Step(3) = "risk-score" /\ rec.art[Step(3)] = shown BY <1>0 DEF shown
<1> QED BY <1>5, <1>6, <1>7, UneditedMirrors

LEMMA HireApproveMirrors ==
  ASSUME lane = "onboarding", NEW rec, Showing(rec, "onboarding", 4, facts)
  PROVE  Mirrors(rec, 4)
<1> DEFINE shown == rec.art["approve"]
           defaults == [tier |-> "low", chain |-> << >>, allApproved |-> FALSE]
           view == HireApproveView(shown)
           Signed(approvers) ==
             [chain |-> [role \in DOMAIN view.chain |->
                           IF role \in approvers THEN "approved" ELSE "pending"],
              allApproved |-> approvers = DOMAIN view.chain]
           drafts == {Signed({}), Signed({"people-partner"}), Signed(DOMAIN view.chain)}
<1>0. /\ OnboardingSteps[1] = "collect" /\ OnboardingSteps[4] = "approve" /\ OnboardingSteps[5] = "provision"
      /\ Step(4) = "approve" /\ StepsOf(lane)[1] = "collect" /\ StepsOf(lane)[4] = "approve"
  BY OnboardingOpened, OnboardingWalk DEF OnboardingSteps
<1>1. Fields(shown) \in HireChainArtifact /\ Merged(NoEdits, shown) = shown
  <2>1. Contract(lane, "approve", shown) /\ Merged(NoEdits, shown) = shown
    BY <1>0, ShownSays DEF Showing
  <2>2. Fields(shown) \in OnboardingContract("approve") BY <1>0, <2>1, OnboardingOpened
  <2> QED BY <2>1, <2>2 DEF OnboardingContract
<1>2. SurfaceOf(lane, "approve", shown) = Surface(Parsed(shown, {}, defaults), drafts)
  <2>1. SurfaceOf(lane, "approve", shown) = OnboardingSurface("approve", shown) BY <1>0, OnboardingOpened
  <2> QED BY <2>1 DEF OnboardingSurface, HireApproveSurface, HireApproveView
<1>3. DOMAIN Fields(shown) = {"tier", "chain", "allApproved"} BY <1>1 DEF HireChainArtifact
<1>4. {} \union DOMAIN defaults \subseteq DOMAIN shown /\ "hidden" \notin {} \union DOMAIN defaults
  BY <1>3 DEF Fields
<1>5. view.chain = Fields(shown).chain
  BY <1>3, <1>4 DEF HireApproveView, Parsed, Fields
<1>6. DOMAIN view.chain \in (SUBSET HireRoles) \ {{}}
  BY <1>1, <1>5 DEF HireChainArtifact
<1> HIDE DEF shown, defaults, view
<1>7. Pictured(lane, "approve", shown) /\ SurfaceOf(lane, "approve", shown).drafts = drafts
  BY <1>2, <1>4, SurfaceIsSaid
<1>8. ASSUME NEW draft \in {NoEdits} \union drafts, LetThrough("approve", Merged(draft, shown)),
             NEW st, Resumes(st, rec, lane, 4, draft)
      PROVE  Goes(4, st, Merged(draft, shown))
  <2> DEFINE e == Merged(draft, shown)
  <2>1. HireApprovers(e.chain) = DOMAIN e.chain
    <3>1. ~OnboardingBlocked("approve", e) BY <1>0, <1>8, OnboardingOpened
    <3> QED BY <3>1 DEF OnboardingBlocked, OnboardingApproveBlocked
  <2>2. Fields(e) \in HireChainArtifact
    <3>1. CASE draft = NoEdits BY <1>1, <3>1
    <3>2. CASE draft # NoEdits
      <4> HIDE DEF Signed
      <4>1. PICK approvers : draft = Signed(approvers) BY <1>8, <3>2
      <4> DEFINE chain == [role \in DOMAIN view.chain |->
                             IF role \in approvers THEN "approved" ELSE "pending"]
                 all == approvers = DOMAIN view.chain
      <4>2. draft = [chain |-> chain, allApproved |-> all] BY <4>1 DEF Signed
      <4>3. chain \in UNION {[some -> {"pending", "approved", "rejected"}] : some \in (SUBSET HireRoles) \ {{}}}
        <5>1. chain \in [DOMAIN view.chain -> {"pending", "approved", "rejected"}] OBVIOUS
        <5> HIDE DEF chain
        <5> QED BY <1>6, <5>1
      <4>4. all \in BOOLEAN OBVIOUS
      <4> HIDE DEF e, chain, all
      <4>5. /\ DOMAIN Fields(e) = DOMAIN Fields(shown) /\ Fields(e)["chain"] = chain
            /\ Fields(e)["allApproved"] = all /\ Fields(e)["tier"] = Fields(shown)["tier"]
        BY <1>3, <4>2, DraftOverlaid DEF e
      <4>6. Fields(e) = [Fields(shown) EXCEPT !.chain = chain, !.allApproved = all]
        BY <1>3, <4>5 DEF Fields
      <4> QED BY <1>1, <4>3, <4>4, <4>6 DEF HireChainArtifact
    <3> QED BY <3>1, <3>2
  <2>3. EffectiveArtifact(st, "approve") = e /\ HasArtifact(st, "approve")
    BY <1>0, <1>8 DEF Resumes, shown
  <2>4. HasArtifact(st, "collect") BY <1>0, <1>8, Behind
  <2> HIDE DEF e
  <2>5. OnboardingGate("approve", st) BY <2>1, <2>3 DEF OnboardingGate, AssertHireApproved
  <2>6. ComputeProvision(st, Known) # {} BY <2>3, <2>4 DEF ComputeProvision, Unless
  <2>7. OnboardingCompute("provision", st, Known) # {} BY <2>6, StoredOrSome DEF OnboardingCompute
  <2>8. Fields(e) \in OnboardingContract("approve") BY <2>2 DEF OnboardingContract
  <2>9. /\ Contract(lane, Step(4), e) /\ LaneGate(lane, Step(4), st, Known)
        /\ Compute(lane, Step(4 + 1), st, Known) = OnboardingCompute("provision", st, Known)
    BY <1>0, <2>5, <2>8, OnboardingOpened
  <2> QED BY <2>7, <2>9 DEF Goes, e
<1> QED BY <1>0, <1>7, <1>8 DEF Mirrors, shown

LEMMA ProvisionMirrors ==
  ASSUME lane = "onboarding", NEW rec, Showing(rec, "onboarding", 5, facts)
  PROVE  Mirrors(rec, 5)
<1> DEFINE shown == rec.art["provision"]
           defaults == [accounts |-> {}, existing |-> FALSE]
<1>0. /\ OnboardingSteps[4] = "approve" /\ OnboardingSteps[5] = "provision" /\ Len(StepsOf(lane)) = 5
      /\ Step(5) = "provision" /\ StepsOf(lane)[4] = "approve" /\ StepsOf(lane)[5] = "provision"
  BY OnboardingOpened, OnboardingWalk DEF OnboardingSteps
<1>1. Fields(shown) \in ProvisionArtifact
  <2>1. Contract(lane, "provision", shown) BY <1>0 DEF Showing
  <2>2. Fields(shown) \in OnboardingContract("provision") BY <1>0, <2>1, OnboardingOpened
  <2> QED BY <2>2 DEF OnboardingContract
<1>2. SurfaceOf(lane, "provision", shown) = ReadOnly(Parsed(shown, {"access"}, defaults))
  <2>1. SurfaceOf(lane, "provision", shown) = OnboardingSurface("provision", shown)
    BY <1>0, OnboardingOpened
  <2> QED BY <2>1 DEF OnboardingSurface, HireProvisionSurface, HireProvisionView
<1>3. DOMAIN Fields(shown) = {"access", "accounts", "existing"} BY <1>1 DEF ProvisionArtifact
<1>4. /\ {"access"} \union DOMAIN defaults \subseteq DOMAIN shown
      /\ "hidden" \notin {"access"} \union DOMAIN defaults
  BY <1>3 DEF Fields
<1> HIDE DEF defaults
<1>5. Pictured(lane, "provision", shown) /\ SurfaceOf(lane, "provision", shown).drafts = {}
  BY <1>2, <1>4, ReadOnlyIsSaid
<1>6. ASSUME NEW st, Resumes(st, rec, lane, 5, NoEdits) PROVE LaneGate(lane, Step(5), st, Known)
  <2>1. PICK before, C : Shows(before, rec, lane, 5) /\ LaneGate(lane, "approve", before, Looked(facts, C))
    BY <1>0, Gated DEF Showing
  <2>2. AssertHireApproved(before) BY <1>0, <2>1 DEF LaneGate, OnboardingGate
  <2>3. "approve" \in Prior(lane, 5) BY <1>0 DEF Prior
  <2>4. /\ HasArtifact(st, "approve")
        /\ EffectiveArtifact(st, "approve") = EffectiveArtifact(before, "approve")
    BY <1>0, <1>6, <2>1, <2>3, Behind DEF Shows
  <2>5. OnboardingGate("provision", st) BY <2>2, <2>4 DEF OnboardingGate, AssertHireApproved
  <2> QED BY <1>0, <2>5, OnboardingOpened
<1> HIDE DEF shown
<1>7. Step(5) = "provision" /\ rec.art[Step(5)] = shown BY <1>0 DEF shown
<1> QED BY <1>0, <1>5, <1>6, <1>7, UneditedMirrors

LEMMA OnboardingMirrors ==
  ASSUME lane = "onboarding", NEW rec, NEW i \in 1..Len(StepsOf(lane)), Showing(rec, lane, i, facts)
  PROVE  Mirrors(rec, i)
<1>1. i \in 1..5 BY OnboardingWalk
<1> QED
  BY <1>1, HireCollectMirrors, HireVerifyMirrors, HireRiskMirrors, HireApproveMirrors, ProvisionMirrors

-----------------------------------------------------------------------------
(* Offboarding *)

LEMMA OffboardingOpened ==
  ASSUME lane = "offboarding", NEW i \in 1..5, NEW a, NEW st
  PROVE  /\ Step(i) = OffboardingSteps[i] /\ Len(StepsOf(lane)) = 5
         /\ SurfaceOf(lane, Step(i), a) = OffboardingSurface(OffboardingSteps[i], a)
         /\ Contract(lane, Step(i), a) <=> Fields(a) \in OffboardingContract(OffboardingSteps[i], a)
         /\ LetThrough(Step(i), a) => ~OffboardingBlocked(OffboardingSteps[i], a)
         /\ LaneGate(lane, Step(i), st, Known) <=> OffboardingGate(OffboardingSteps[i], st)
         /\ i < 5 => Compute(lane, Step(i + 1), st, Known) = OffboardingCompute(OffboardingSteps[i + 1], st, Known)
<1>1. Step(i) = OffboardingSteps[i] /\ Len(StepsOf(lane)) = 5 BY OffboardingWalk DEF Step
<1>2. i < 5 => Step(i + 1) = OffboardingSteps[i + 1] BY OffboardingWalk DEF Step
<1>3. SurfaceOf(lane, Step(i), a) = OffboardingSurface(OffboardingSteps[i], a) BY <1>1 DEF SurfaceOf
<1>4. Contract(lane, Step(i), a) <=> Fields(a) \in OffboardingContract(OffboardingSteps[i], a)
  BY <1>1 DEF Contract, Conforms
<1>5. LetThrough(Step(i), a) => ~OffboardingBlocked(OffboardingSteps[i], a)
  BY <1>1 DEF LetThrough, Blocked
<1>6. LaneGate(lane, Step(i), st, Known) <=> OffboardingGate(OffboardingSteps[i], st) BY <1>1 DEF LaneGate
<1>7. i < 5 => Compute(lane, Step(i + 1), st, Known) = OffboardingCompute(OffboardingSteps[i + 1], st, Known)
  BY <1>2 DEF Compute
<1> QED BY <1>1, <1>3, <1>4, <1>5, <1>6, <1>7

LEMMA OffboardingIntakeMirrors ==
  ASSUME lane = "offboarding", NEW rec, Showing(rec, "offboarding", 1, facts)
  PROVE  Mirrors(rec, 1)
<1> DEFINE shown == rec.art["intake"]
           defaults == [access |-> "low", systems |-> {}]
<1>0. /\ OffboardingSteps[1] = "intake" /\ OffboardingSteps[2] = "access-audit"
      /\ Len(StepsOf(lane)) = 5 /\ Step(1) = "intake" /\ StepsOf(lane)[1] = "intake"
  BY OffboardingOpened, OffboardingWalk DEF OffboardingSteps
<1>1. Fields(shown) \in LeaverArtifact
  <2>1. Contract(lane, "intake", shown) BY <1>0 DEF Showing
  <2>2. Fields(shown) \in OffboardingContract("intake", shown) BY <1>0, <2>1, OffboardingOpened
  <2> QED BY <2>2 DEF OffboardingContract
<1>2. SurfaceOf(lane, "intake", shown) = ReadOnly(Parsed(shown, {}, defaults))
  <2>1. SurfaceOf(lane, "intake", shown) = OffboardingSurface("intake", shown) BY <1>0, OffboardingOpened
  <2> QED BY <2>1 DEF OffboardingSurface, OffboardingIntakeSurface, OffboardingIntakeView
<1>3. DOMAIN Fields(shown) = {"access", "systems"}
  BY <1>1 DEF LeaverArtifact
<1>4. /\ {} \union DOMAIN defaults \subseteq DOMAIN shown
      /\ "hidden" \notin {} \union DOMAIN defaults
  BY <1>3 DEF Fields
<1> HIDE DEF defaults
<1>5. Pictured(lane, "intake", shown) /\ SurfaceOf(lane, "intake", shown).drafts = {}
  BY <1>2, <1>4, ReadOnlyIsSaid
<1>6. ASSUME NEW st, Resumes(st, rec, lane, 1, NoEdits)
      PROVE  LaneGate(lane, Step(1), st, Known) /\ Compute(lane, Step(1 + 1), st, Known) # {}
  <2>1. HasArtifact(st, "intake") BY <1>0, <1>6 DEF Resumes
  <2>2. OffboardingGate("intake", st) BY DEF OffboardingGate
  <2>3. ComputeAudit(st) # {} BY <2>1 DEF ComputeAudit, Unless
  <2>4. OffboardingCompute("access-audit", st, Known) # {} BY <2>3 DEF OffboardingCompute
  <2> QED BY <1>0, <2>2, <2>4, OffboardingOpened
<1> HIDE DEF shown
<1>7. Step(1) = "intake" /\ rec.art[Step(1)] = shown BY <1>0 DEF shown
<1> QED BY <1>0, <1>5, <1>6, <1>7, UneditedMirrors

LEMMA OffboardingAuditMirrors ==
  ASSUME lane = "offboarding", NEW rec, Showing(rec, "offboarding", 2, facts)
  PROVE  Mirrors(rec, 2)
<1> DEFINE shown == rec.art["access-audit"]
           defaults == [access |-> "low", entries |-> << >>, risks |-> << >>]
<1>0. /\ OffboardingSteps[2] = "access-audit" /\ OffboardingSteps[3] = "approve"
      /\ Len(StepsOf(lane)) = 5 /\ Step(2) = "access-audit" /\ StepsOf(lane)[1] = "intake"
      /\ StepsOf(lane)[2] = "access-audit"
  BY OffboardingOpened, OffboardingWalk DEF OffboardingSteps
<1>1. Fields(shown) \in AuditArtifact(shown)
  <2>1. Contract(lane, "access-audit", shown) BY <1>0 DEF Showing
  <2>2. Fields(shown) \in OffboardingContract("access-audit", shown) BY <1>0, <2>1, OffboardingOpened
  <2> QED BY <2>2 DEF OffboardingContract
<1>2. SurfaceOf(lane, "access-audit", shown) = ReadOnly(Parsed(shown, {}, defaults))
  <2>1. SurfaceOf(lane, "access-audit", shown) = OffboardingSurface("access-audit", shown) BY <1>0, OffboardingOpened
  <2> QED BY <2>1 DEF OffboardingSurface, OffboardingAuditSurface, OffboardingAuditView
<1>3. DOMAIN Fields(shown) = {"access", "entries", "risks"}
  BY <1>1 DEF AuditArtifact
<1>4. /\ {} \union DOMAIN defaults \subseteq DOMAIN shown
      /\ "hidden" \notin {} \union DOMAIN defaults
  BY <1>3 DEF Fields
<1> HIDE DEF defaults
<1>5. Pictured(lane, "access-audit", shown) /\ SurfaceOf(lane, "access-audit", shown).drafts = {}
  BY <1>2, <1>4, ReadOnlyIsSaid
<1>6. ASSUME NEW st, Resumes(st, rec, lane, 2, NoEdits)
      PROVE  LaneGate(lane, Step(2), st, Known) /\ Compute(lane, Step(2 + 1), st, Known) # {}
  <2>1. HasArtifact(st, "access-audit") BY <1>0, <1>6 DEF Resumes
  <2>2. OffboardingGate("access-audit", st) BY DEF OffboardingGate
  <2>3. ComputeRevocationItems(st) # {} BY <2>1 DEF ComputeRevocationItems, Unless
  <2>4. OffboardingCompute("approve", st, Known) # {} BY <2>3, StoredOrSome DEF OffboardingCompute
  <2> QED BY <1>0, <2>2, <2>4, OffboardingOpened
<1> HIDE DEF shown
<1>7. Step(2) = "access-audit" /\ rec.art[Step(2)] = shown BY <1>0 DEF shown
<1> QED BY <1>0, <1>5, <1>6, <1>7, UneditedMirrors

LEMMA OffboardingApproveMirrors ==
  ASSUME lane = "offboarding", NEW rec, Showing(rec, "offboarding", 3, facts)
  PROVE  Mirrors(rec, 3)
<1> DEFINE shown == rec.art["approve"]
           defaults == [items |-> << >>, explicitRequired |-> 0, allApproved |-> FALSE]
           view == OffboardingApproveView(shown)
           Items(approved, named) ==
             [system \in DOMAIN view.items |->
                [view.items[system] EXCEPT !.approved = system \in approved,
                                           !.signed = named /\ view.items[system].explicit]]
           Whole(approved) == approved = DOMAIN view.items
           choices == SUBSET DOMAIN view.items
           drafts == {[items |-> Items(approved, named), allApproved |-> Whole(approved)]
                        : approved \in choices, named \in BOOLEAN}
<1>0. /\ OffboardingSteps[3] = "approve" /\ OffboardingSteps[4] = "revoke"
      /\ Len(StepsOf(lane)) = 5 /\ Step(3) = "approve" /\ StepsOf(lane)[1] = "intake"
      /\ StepsOf(lane)[2] = "access-audit" /\ StepsOf(lane)[3] = "approve"
  BY OffboardingOpened, OffboardingWalk DEF OffboardingSteps
<1>1. Fields(shown) \in RevocationApproval(shown) /\ Merged(NoEdits, shown) = shown
  <2>1. Contract(lane, "approve", shown) /\ Merged(NoEdits, shown) = shown
    BY <1>0, ShownSays DEF Showing
  <2>2. Fields(shown) \in OffboardingContract("approve", shown) BY <1>0, <2>1, OffboardingOpened
  <2> QED BY <2>1, <2>2 DEF OffboardingContract
<1>2. SurfaceOf(lane, "approve", shown) = Surface(Parsed(shown, {}, defaults), drafts)
  <2>1. SurfaceOf(lane, "approve", shown) = OffboardingSurface("approve", shown)
    BY <1>0, OffboardingOpened
  <2>2. OffboardingApproveSurface(shown) = Surface(view, drafts) BY DEF OffboardingApproveSurface
  <2>3. view = Parsed(shown, {}, defaults) BY DEF OffboardingApproveView
  <2> HIDE DEF drafts, view, defaults
  <2> QED BY <2>1, <2>2, <2>3 DEF OffboardingSurface
<1>3. DOMAIN Fields(shown) = {"items", "explicitRequired", "allApproved"}
  BY <1>1 DEF RevocationApproval
<1>4. {} \union DOMAIN defaults \subseteq DOMAIN shown /\ "hidden" \notin {} \union DOMAIN defaults
  BY <1>3 DEF Fields
<1>5. view.items = shown.items BY <1>4 DEF OffboardingApproveView, Parsed
<1>6. /\ DOMAIN view.items \subseteq AllSystems
      /\ view.items \in [DOMAIN view.items -> ApproveItem]
  <2> HIDE DEF shown, defaults, view
  <2>1. shown.items \in PerSystem(shown.items, ApproveItem)
    BY <1>1 DEF RevocationApproval, Fields
  <2> DEFINE items == view.items
  <2>2. items \in [DOMAIN items \intersect AllSystems -> ApproveItem]
    BY <1>5, <2>1 DEF PerSystem
  <2> HIDE DEF items
  <2>3. DOMAIN items \intersect AllSystems = DOMAIN items BY <2>2
  <2> QED BY <2>2, <2>3 DEF items
<1> HIDE DEF shown, drafts, defaults, view
<1>7. Pictured(lane, "approve", shown) /\ SurfaceOf(lane, "approve", shown).drafts = drafts
  BY <1>2, <1>4, SurfaceIsSaid
<1>8. ASSUME NEW draft \in {NoEdits} \union drafts, LetThrough("approve", Merged(draft, shown)),
             NEW st, Resumes(st, rec, lane, 3, draft)
      PROVE  Goes(3, st, Merged(draft, shown))
  <2> DEFINE e == Merged(draft, shown)
  <2>1. \A system \in DOMAIN e.items : SignedOff(e.items[system])
    <3>1. ~OffboardingBlocked("approve", e) BY <1>0, <1>8, OffboardingOpened
    <3> QED BY <3>1 DEF OffboardingBlocked, OffboardingApproveBlocked
  <2>2. Fields(e) \in RevocationApproval(e)
    <3>1. CASE draft = NoEdits BY <1>1, <3>1
    <3>2. CASE draft # NoEdits
      <4> HIDE DEF Items, Whole, choices
      <4>1. PICK approved \in choices, named \in BOOLEAN :
              draft = [items |-> Items(approved, named), allApproved |-> Whole(approved)]
        BY <1>8, <3>2 DEF drafts
      <4> DEFINE items == Items(approved, named)
                 all == Whole(approved)
      <4>2. DOMAIN items = DOMAIN view.items BY DEF Items
      <4>3. ASSUME NEW system \in DOMAIN view.items PROVE items[system] \in ApproveItem
        <5> DEFINE item == view.items[system]
                   yes == system \in approved
                   signed == named /\ item.explicit
        <5>1. item \in ApproveItem BY <1>6
        <5>2. items[system] = [item EXCEPT !.approved = yes, !.signed = signed]
          BY DEF Items
        <5>3. yes \in BOOLEAN /\ signed \in BOOLEAN OBVIOUS
        <5> HIDE DEF item, yes, signed, items
        <5> QED BY <5>1, <5>2, <5>3 DEF ApproveItem
      <4>4. items \in [DOMAIN items \intersect AllSystems -> ApproveItem]
        <5>1. items = [system \in DOMAIN view.items |-> items[system]] BY DEF Items
        <5>2. DOMAIN items \intersect AllSystems = DOMAIN view.items BY <1>6, <4>2
        <5> HIDE DEF items
        <5> QED BY <4>3, <5>1, <5>2
      <4>5. all \in BOOLEAN BY DEF Whole
      <4> HIDE DEF items, all, e
      <4>6. /\ DOMAIN Fields(e) = DOMAIN Fields(shown) /\ Fields(e)["items"] = items
            /\ Fields(e)["allApproved"] = all
            /\ Fields(e)["explicitRequired"] = Fields(shown)["explicitRequired"]
        BY <1>3, <4>1, DraftOverlaid DEF e, items, all
      <4>7. Fields(e) = [Fields(shown) EXCEPT !.items = items, !.allApproved = all]
        BY <1>3, <4>6 DEF Fields
      <4>8. e.items = items BY <1>3, <4>6, FieldIs
      <4> QED BY <1>1, <4>4, <4>5, <4>7, <4>8 DEF RevocationApproval, PerSystem
    <3> QED BY <3>1, <3>2
  <2>3. EffectiveArtifact(st, "approve") = e /\ HasArtifact(st, "approve")
    BY <1>0, <1>8 DEF Resumes, shown
  <2>4. HasArtifact(st, "access-audit") BY <1>0, <1>8, Behind
  <2> HIDE DEF e
  <2>5. OffboardingGate("approve", st)
    BY <2>1, <2>3 DEF OffboardingGate, AssertRevocationsApproved
  <2>6. ComputeRevokePlan(st) # {} BY <2>4 DEF ComputeRevokePlan, Unless
  <2>7. OffboardingCompute("revoke", st, Known) # {} BY <2>6, StoredOrSome DEF OffboardingCompute
  <2>8. Fields(e) \in OffboardingContract("approve", e) BY <2>2 DEF OffboardingContract
  <2>9. /\ Contract(lane, Step(3), e) /\ LaneGate(lane, Step(3), st, Known)
        /\ Compute(lane, Step(3 + 1), st, Known) = OffboardingCompute("revoke", st, Known)
    BY <1>0, <2>5, <2>8, OffboardingOpened
  <2> QED BY <2>7, <2>9 DEF Goes, e
<1> QED BY <1>0, <1>7, <1>8 DEF Mirrors, shown

LEMMA OffboardingRevokeMirrors ==
  ASSUME lane = "offboarding", NEW rec, Showing(rec, "offboarding", 4, facts)
  PROVE  Mirrors(rec, 4)
<1> DEFINE shown == rec.art["revoke"]
           defaults == [actions |-> << >>]
<1>0. /\ OffboardingSteps[4] = "revoke" /\ OffboardingSteps[5] = "attest"
      /\ Len(StepsOf(lane)) = 5 /\ Step(4) = "revoke" /\ StepsOf(lane)[1] = "intake"
      /\ StepsOf(lane)[2] = "access-audit" /\ StepsOf(lane)[3] = "approve"
      /\ StepsOf(lane)[4] = "revoke"
  BY OffboardingOpened, OffboardingWalk DEF OffboardingSteps
<1>1. Fields(shown) \in RevokePlan(shown)
  <2>1. Contract(lane, "revoke", shown) BY <1>0 DEF Showing
  <2>2. Fields(shown) \in OffboardingContract("revoke", shown) BY <1>0, <2>1, OffboardingOpened
  <2> QED BY <2>2 DEF OffboardingContract
<1>2. SurfaceOf(lane, "revoke", shown) = ReadOnly(Parsed(shown, {}, defaults))
  <2>1. SurfaceOf(lane, "revoke", shown) = OffboardingSurface("revoke", shown) BY <1>0, OffboardingOpened
  <2> QED BY <2>1 DEF OffboardingSurface, OffboardingRevokeSurface, OffboardingRevokeView
<1>3. DOMAIN Fields(shown) = {"actions"}
  BY <1>1 DEF RevokePlan
<1>4. /\ {} \union DOMAIN defaults \subseteq DOMAIN shown
      /\ "hidden" \notin {} \union DOMAIN defaults
  BY <1>3 DEF Fields
<1> HIDE DEF defaults
<1>5. Pictured(lane, "revoke", shown) /\ SurfaceOf(lane, "revoke", shown).drafts = {}
  BY <1>2, <1>4, ReadOnlyIsSaid
<1>6. ASSUME NEW st, Resumes(st, rec, lane, 4, NoEdits)
      PROVE  LaneGate(lane, Step(4), st, Known) /\ Compute(lane, Step(4 + 1), st, Known) # {}
  <2>1. PICK before, C : Shows(before, rec, lane, 4) /\ LaneGate(lane, "approve", before, Looked(facts, C))
    BY <1>0, Gated DEF Showing
  <2>2. AssertRevocationsApproved(before) BY <2>1 DEF LaneGate, OffboardingGate
  <2>3. "approve" \in Prior(lane, 4) BY <1>0 DEF Prior
  <2>4. /\ HasArtifact(st, "approve") /\ HasArtifact(st, "intake")
        /\ EffectiveArtifact(st, "approve") = EffectiveArtifact(before, "approve")
    BY <1>0, <1>6, <2>1, <2>3, Behind DEF Shows
  <2>5. OffboardingGate("revoke", st)
    BY <2>2, <2>4 DEF OffboardingGate, AssertRevocationsApproved
  <2>6. ComputeAttest(st, Known) # {} BY <2>4 DEF ComputeAttest, Unless
  <2>7. OffboardingCompute("attest", st, Known) # {} BY <2>6, StoredOrSome DEF OffboardingCompute
  <2> QED BY <1>0, <2>5, <2>7, OffboardingOpened
<1> HIDE DEF shown
<1>7. Step(4) = "revoke" /\ rec.art[Step(4)] = shown BY <1>0 DEF shown
<1> QED BY <1>0, <1>5, <1>6, <1>7, UneditedMirrors

LEMMA OffboardingAttestMirrors ==
  ASSUME lane = "offboarding", NEW rec, Showing(rec, "offboarding", 5, facts)
  PROVE  Mirrors(rec, 5)
<1> DEFINE shown == rec.art["attest"]
           defaults == [finalPay |-> << >>, equipment |-> << >>, revoked |-> {}, failed |-> {},
                        acknowledgements |-> << >>, existing |-> FALSE]
           view == OffboardingAttestView(shown)
           Notes(written) == [system \in view.failed |-> system \in written]
           choices == SUBSET view.failed
           drafts == {[acknowledgements |-> Notes(written)] : written \in choices}
<1>0. /\ OffboardingSteps[5] = "attest" /\ Len(StepsOf(lane)) = 5 /\ Step(5) = "attest"
      /\ StepsOf(lane)[1] = "intake" /\ StepsOf(lane)[2] = "access-audit"
      /\ StepsOf(lane)[3] = "approve" /\ StepsOf(lane)[4] = "revoke"
      /\ StepsOf(lane)[5] = "attest"
  BY OffboardingOpened, OffboardingWalk DEF OffboardingSteps
<1>1. Fields(shown) \in AttestArtifact(shown) /\ Merged(NoEdits, shown) = shown
  <2>1. Contract(lane, "attest", shown) /\ Merged(NoEdits, shown) = shown
    BY <1>0, ShownSays DEF Showing
  <2>2. Fields(shown) \in OffboardingContract("attest", shown) BY <1>0, <2>1, OffboardingOpened
  <2> QED BY <2>1, <2>2 DEF OffboardingContract
<1>2. SurfaceOf(lane, "attest", shown) = Surface(Parsed(shown, {}, defaults), drafts)
  <2>1. SurfaceOf(lane, "attest", shown) = OffboardingSurface("attest", shown)
    BY <1>0, OffboardingOpened
  <2>2. OffboardingAttestSurface(shown) = Surface(view, drafts) BY DEF OffboardingAttestSurface
  <2>3. view = Parsed(shown, {}, defaults) BY DEF OffboardingAttestView
  <2> HIDE DEF drafts, view, defaults
  <2> QED BY <2>1, <2>2, <2>3 DEF OffboardingSurface
<1>3. DOMAIN Fields(shown) = {"finalPay", "equipment", "revoked", "failed", "acknowledgements", "existing"}
  BY <1>1 DEF AttestArtifact
<1>4. {} \union DOMAIN defaults \subseteq DOMAIN shown /\ "hidden" \notin {} \union DOMAIN defaults
  BY <1>3 DEF Fields
<1>5. view.failed = Fields(shown)["failed"]
  <2>1. view.failed = shown.failed BY <1>4 DEF OffboardingAttestView, Parsed
  <2> HIDE DEF shown, view
  <2> QED BY <1>3, <2>1, FieldIs
<1>6. view.failed \subseteq AllSystems
  <2> HIDE DEF shown, view
  <2> QED BY <1>1, <1>5 DEF AttestArtifact
<1> HIDE DEF shown, drafts, defaults, view
<1>7. Pictured(lane, "attest", shown) /\ SurfaceOf(lane, "attest", shown).drafts = drafts
  BY <1>2, <1>4, SurfaceIsSaid
<1>8. ASSUME NEW draft \in {NoEdits} \union drafts, LetThrough("attest", Merged(draft, shown)),
             NEW st, Resumes(st, rec, lane, 5, draft)
      PROVE  Goes(5, st, Merged(draft, shown))
  <2> DEFINE e == Merged(draft, shown)
  <2>1. \A system \in e.failed :
          system \in DOMAIN e.acknowledgements /\ e.acknowledgements[system]
    <3>1. ~OffboardingBlocked("attest", e) BY <1>0, <1>8, OffboardingOpened
    <3> QED BY <3>1 DEF OffboardingBlocked, OffboardingAttestBlocked
  <2>2. Fields(e) \in AttestArtifact(e)
    <3>1. CASE draft = NoEdits BY <1>1, <3>1
    <3>2. CASE draft # NoEdits
      <4> HIDE DEF Notes, choices, e
      <4>1. PICK written \in choices : draft = [acknowledgements |-> Notes(written)]
        BY <1>8, <3>2 DEF drafts
      <4> DEFINE notes == Notes(written)
      <4>2. /\ DOMAIN Fields(e) = DOMAIN Fields(shown) /\ Fields(e)["acknowledgements"] = notes
            /\ \A x \in {"finalPay", "equipment", "revoked", "failed", "existing"} :
                 Fields(e)[x] = Fields(shown)[x]
        BY <1>3, <4>1, DraftOverlaid DEF e
      <4>3. e.failed = view.failed /\ e.acknowledgements = notes BY <1>3, <1>5, <4>2, FieldIs
      <4>4. notes \in PerSystem(notes, {TRUE})
        <5>1. DOMAIN notes = view.failed /\ notes = [system \in view.failed |-> notes[system]]
          BY DEF Notes
        <5>2. ASSUME NEW system \in view.failed PROVE notes[system] = TRUE
          <6>1. notes[system] = (system \in written) BY DEF Notes
          <6>2. notes[system] BY <2>1, <4>3
          <6>3. system \in written BY <6>1, <6>2
          <6> QED BY <6>1, <6>3
        <5>3. DOMAIN notes \intersect AllSystems = view.failed BY <1>6, <5>1
        <5> HIDE DEF notes
        <5> QED BY <5>1, <5>2, <5>3 DEF PerSystem
      <4> HIDE DEF notes
      <4>5. Fields(e) = [Fields(shown) EXCEPT !.acknowledgements = notes] BY <1>3, <4>2 DEF Fields
      <4> QED BY <1>1, <4>3, <4>4, <4>5 DEF AttestArtifact
    <3> QED BY <3>1, <3>2
  <2>3. EffectiveArtifact(st, "attest") = e /\ HasArtifact(st, "attest")
    BY <1>0, <1>8 DEF Resumes, shown
  <2> HIDE DEF e
  <2>4. OffboardingGate("attest", st)
    BY <2>1, <2>3 DEF OffboardingGate, AssertFailuresAcknowledged
  <2>5. Fields(e) \in OffboardingContract("attest", e) BY <2>2 DEF OffboardingContract
  <2>6. Contract(lane, Step(5), e) /\ LaneGate(lane, Step(5), st, Known)
    BY <1>0, <2>4, <2>5, OffboardingOpened
  <2> QED BY <1>0, <2>6 DEF Goes, e
<1> QED BY <1>0, <1>7, <1>8 DEF Mirrors, shown

LEMMA OffboardingMirrors ==
  ASSUME lane = "offboarding", NEW rec, NEW i \in 1..Len(StepsOf(lane)), Showing(rec, lane, i, facts)
  PROVE  Mirrors(rec, i)
<1>1. i \in 1..5 BY OffboardingWalk
<1> QED
  BY <1>1, OffboardingIntakeMirrors, OffboardingAuditMirrors, OffboardingApproveMirrors,
     OffboardingRevokeMirrors, OffboardingAttestMirrors

-----------------------------------------------------------------------------
(* Screening *)

LEMMA ScreeningOpened ==
  ASSUME lane = "screening", NEW i \in 1..4, NEW a, NEW st
  PROVE  /\ Step(i) = ScreeningSteps[i] /\ Len(StepsOf(lane)) = 4
         /\ SurfaceOf(lane, Step(i), a) = ScreeningSurface(ScreeningSteps[i], a)
         /\ Contract(lane, Step(i), a) <=> Fields(a) \in ScreeningContract(ScreeningSteps[i], a)
         /\ LetThrough(Step(i), a) => ~ScreeningBlocked(ScreeningSteps[i], a)
         /\ LaneGate(lane, Step(i), st, Known) <=> ScreeningGate(ScreeningSteps[i], st)
         /\ i < 4 => Compute(lane, Step(i + 1), st, Known) = ScreeningCompute(ScreeningSteps[i + 1], st, Known)
<1>1. Step(i) = ScreeningSteps[i] /\ Len(StepsOf(lane)) = 4 BY ScreeningWalk DEF Step
<1>2. i < 4 => Step(i + 1) = ScreeningSteps[i + 1] BY ScreeningWalk DEF Step
<1>3. SurfaceOf(lane, Step(i), a) = ScreeningSurface(ScreeningSteps[i], a) BY <1>1 DEF SurfaceOf
<1>4. Contract(lane, Step(i), a) <=> Fields(a) \in ScreeningContract(ScreeningSteps[i], a)
  BY <1>1 DEF Contract, Conforms
<1>5. LetThrough(Step(i), a) => ~ScreeningBlocked(ScreeningSteps[i], a)
  BY <1>1 DEF LetThrough, Blocked
<1>6. LaneGate(lane, Step(i), st, Known) <=> ScreeningGate(ScreeningSteps[i], st) BY <1>1 DEF LaneGate
<1>7. i < 4 => Compute(lane, Step(i + 1), st, Known) = ScreeningCompute(ScreeningSteps[i + 1], st, Known)
  BY <1>2 DEF Compute
<1> QED BY <1>1, <1>3, <1>4, <1>5, <1>6, <1>7

LEMMA ScreeningRequisitionMirrors ==
  ASSUME lane = "screening", NEW rec, Showing(rec, "screening", 1, facts)
  PROVE  Mirrors(rec, 1)
<1> DEFINE shown == rec.art["requisition"]
           defaults == [criteria |-> << >>, candidates |-> {}, interviewers |-> 0]
<1>0. /\ ScreeningSteps[1] = "requisition" /\ ScreeningSteps[2] = "screen" /\ Len(StepsOf(lane)) = 4
      /\ Step(1) = "requisition" /\ StepsOf(lane)[1] = "requisition"
  BY ScreeningOpened, ScreeningWalk DEF ScreeningSteps
<1>1. Fields(shown) \in RequisitionArtifact
  <2>1. Contract(lane, "requisition", shown) BY <1>0 DEF Showing
  <2>2. Fields(shown) \in ScreeningContract("requisition", shown) BY <1>0, <2>1, ScreeningOpened
  <2> QED BY <2>2 DEF ScreeningContract
<1>2. SurfaceOf(lane, "requisition", shown) = ReadOnly(Parsed(shown, {}, defaults))
  <2>1. SurfaceOf(lane, "requisition", shown) = ScreeningSurface("requisition", shown)
    BY <1>0, ScreeningOpened
  <2> QED BY <2>1 DEF ScreeningSurface, ScreeningRequisitionSurface, ScreeningRequisitionView
<1>3. DOMAIN Fields(shown) = {"criteria", "candidates", "interviewers"}
  BY <1>1 DEF RequisitionArtifact
<1>4. {} \union DOMAIN defaults \subseteq DOMAIN shown /\ "hidden" \notin {} \union DOMAIN defaults
  BY <1>3 DEF Fields
<1> HIDE DEF defaults
<1>5. Pictured(lane, "requisition", shown) /\ SurfaceOf(lane, "requisition", shown).drafts = {}
  BY <1>2, <1>4, ReadOnlyIsSaid
<1>6. ASSUME NEW st, Resumes(st, rec, lane, 1, NoEdits)
      PROVE  LaneGate(lane, Step(1), st, Known) /\ Compute(lane, Step(1 + 1), st, Known) # {}
  <2>1. HasArtifact(st, "requisition") BY <1>0, <1>6 DEF Resumes
  <2>2. ScreeningGate("requisition", st) BY DEF ScreeningGate
  <2>3. ComputeScreen(st, Known) # {} BY <2>1 DEF ComputeScreen, Unless, GuardrailAnswers
  <2>4. ScreeningCompute("screen", st, Known) # {} BY <2>3 DEF ScreeningCompute
  <2> QED BY <1>0, <2>2, <2>4, ScreeningOpened
<1> HIDE DEF shown
<1>7. Step(1) = "requisition" /\ rec.art[Step(1)] = shown BY <1>0 DEF shown
<1> QED BY <1>0, <1>5, <1>6, <1>7, UneditedMirrors

LEMMA ScreeningScreenMirrors ==
  ASSUME lane = "screening", NEW rec, Showing(rec, "screening", 2, facts)
  PROVE  Mirrors(rec, 2)
<1> DEFINE shown == rec.art["screen"]
           defaults == [candidates |-> << >>, totalFlags |-> 0]
<1>0. /\ ScreeningSteps[2] = "screen" /\ ScreeningSteps[3] = "shortlist" /\ Len(StepsOf(lane)) = 4
      /\ Step(2) = "screen" /\ StepsOf(lane)[2] = "screen"
  BY ScreeningOpened, ScreeningWalk DEF ScreeningSteps
<1>1. Fields(shown) \in ScreenArtifact(shown)
  <2>1. Contract(lane, "screen", shown) BY <1>0 DEF Showing
  <2>2. Fields(shown) \in ScreeningContract("screen", shown) BY <1>0, <2>1, ScreeningOpened
  <2> QED BY <2>2 DEF ScreeningContract
<1>2. SurfaceOf(lane, "screen", shown) = ReadOnly(Parsed(shown, {}, defaults))
  <2>1. SurfaceOf(lane, "screen", shown) = ScreeningSurface("screen", shown)
    BY <1>0, ScreeningOpened
  <2> QED BY <2>1 DEF ScreeningSurface, ScreeningScreenSurface, ScreeningScreenView
<1>3. DOMAIN Fields(shown) = {"candidates", "totalFlags"}
  BY <1>1 DEF ScreenArtifact
<1>4. {} \union DOMAIN defaults \subseteq DOMAIN shown /\ "hidden" \notin {} \union DOMAIN defaults
  BY <1>3 DEF Fields
<1> HIDE DEF defaults
<1>5. Pictured(lane, "screen", shown) /\ SurfaceOf(lane, "screen", shown).drafts = {}
  BY <1>2, <1>4, ReadOnlyIsSaid
<1>6. ASSUME NEW st, Resumes(st, rec, lane, 2, NoEdits)
      PROVE  LaneGate(lane, Step(2), st, Known) /\ Compute(lane, Step(2 + 1), st, Known) # {}
  <2>1. HasArtifact(st, "screen") BY <1>0, <1>6 DEF Resumes
  <2>2. ScreeningGate("screen", st) BY DEF ScreeningGate
  <2>3. ComputeShortlist(st) # {} BY <2>1 DEF ComputeShortlist, Unless
  <2>4. ScreeningCompute("shortlist", st, Known) # {} BY <2>3, StoredOrSome DEF ScreeningCompute
  <2> QED BY <1>0, <2>2, <2>4, ScreeningOpened
<1> HIDE DEF shown
<1>7. Step(2) = "screen" /\ rec.art[Step(2)] = shown BY <1>0 DEF shown
<1> QED BY <1>0, <1>5, <1>6, <1>7, UneditedMirrors

\* The candidates of a shortlist are counted as they are decided.
LEMMA CountedConforms ==
  ASSUME NEW a, Fields(a) \in ShortlistArtifact(a), NEW entries,
         DOMAIN entries \subseteq Pipeline, entries \in [DOMAIN entries -> ShortlistLine]
  PROVE  LET e == Merged(Counted(entries), a) IN Fields(e) \in ShortlistArtifact(e)
<1> DEFINE included == Cardinality(Included(entries))
           excluded == Cardinality(DOMAIN entries) - included
           draft == [entries |-> entries, included |-> included, excluded |-> excluded]
           e == Merged(draft, a)
<1>1. Counted(entries) = draft BY DEF Counted
<1>2. included \in 0..20 /\ excluded \in 0..20
  <2> DEFINE D == DOMAIN entries
             I == Included(entries)
  <2>1. D \in SUBSET Pipeline /\ I \in SUBSET D BY DEF Included
  <2> HIDE DEF D, I
  <2>2. IsFiniteSet(D) /\ Cardinality(D) \in 0..4 BY <2>1, CandidatesAreFew
  <2>3. IsFiniteSet(I) /\ Cardinality(I) <= Cardinality(D) BY <2>1, <2>2, FS_Subset
  <2>4. Cardinality(I) \in Nat BY <2>3, FS_CardinalityType
  <2> QED BY <2>2, <2>3, <2>4 DEF D, I
<1> HIDE DEF included, excluded
<1>3. DOMAIN Fields(a) = {"entries", "included", "excluded"} BY DEF ShortlistArtifact
<1>4. /\ DOMAIN Fields(e) = {"entries", "included", "excluded"}
      /\ Fields(e)["entries"] = entries /\ Fields(e)["included"] = included
      /\ Fields(e)["excluded"] = excluded
  BY <1>3, DraftOverlaid
<1> HIDE DEF e, draft
<1>5. Fields(e) = [entries |-> entries, included |-> included, excluded |-> excluded]
  BY <1>4 DEF Fields
<1>6. e.entries = entries BY <1>4, FieldIs
<1>7. entries \in PerCandidate(entries, ShortlistLine)
  <2>1. DOMAIN entries \intersect Pipeline = DOMAIN entries OBVIOUS
  <2> QED BY <2>1 DEF PerCandidate
<1> QED BY <1>1, <1>2, <1>5, <1>6, <1>7 DEF ShortlistArtifact, e

LEMMA ScreeningShortlistMirrors ==
  ASSUME lane = "screening", NEW rec, Showing(rec, "screening", 3, facts)
  PROVE  Mirrors(rec, 3)
<1> DEFINE shown == rec.art["shortlist"]
           defaults == [entries |-> << >>, included |-> 0, excluded |-> 0]
           view == ScreeningShortlistView(shown)
           Entries(included, cleared) ==
             [c \in DOMAIN view.entries |->
                [view.entries[c] EXCEPT !.decision = IF c \in included THEN "include" ELSE "exclude",
                                        !.reasoned = @ /\ (cleared => c \in included)]]
           choices == SUBSET DOMAIN view.entries
           drafts == {Counted(Entries(included, cleared))
                        : included \in choices, cleared \in BOOLEAN}
<1>0. /\ ScreeningSteps[3] = "shortlist" /\ ScreeningSteps[4] = "schedule" /\ Len(StepsOf(lane)) = 4
      /\ Step(3) = "shortlist" /\ StepsOf(lane)[3] = "shortlist" /\ StepsOf(lane)[1] = "requisition"
  BY ScreeningOpened, ScreeningWalk DEF ScreeningSteps
<1>1. Fields(shown) \in ShortlistArtifact(shown) /\ Merged(NoEdits, shown) = shown
  <2>1. Contract(lane, "shortlist", shown) /\ Merged(NoEdits, shown) = shown
    BY <1>0, ShownSays DEF Showing
  <2>2. Fields(shown) \in ScreeningContract("shortlist", shown) BY <1>0, <2>1, ScreeningOpened
  <2> QED BY <2>1, <2>2 DEF ScreeningContract
<1>2. SurfaceOf(lane, "shortlist", shown) = Surface(Parsed(shown, {}, defaults), drafts)
  <2>1. SurfaceOf(lane, "shortlist", shown) = ScreeningSurface("shortlist", shown)
    BY <1>0, ScreeningOpened
  <2>2. ScreeningShortlistSurface(shown) = Surface(view, drafts) BY DEF ScreeningShortlistSurface
  <2>3. view = Parsed(shown, {}, defaults) BY DEF ScreeningShortlistView
  <2> HIDE DEF drafts, view, defaults
  <2> QED BY <2>1, <2>2, <2>3 DEF ScreeningSurface
<1>3. DOMAIN Fields(shown) = {"entries", "included", "excluded"} BY <1>1 DEF ShortlistArtifact
<1>4. {} \union DOMAIN defaults \subseteq DOMAIN shown /\ "hidden" \notin {} \union DOMAIN defaults
  BY <1>3 DEF Fields
<1>5. view.entries = shown.entries BY <1>4 DEF ScreeningShortlistView, Parsed
<1>6. /\ DOMAIN view.entries \subseteq Pipeline
      /\ view.entries \in [DOMAIN view.entries -> ShortlistLine]
  <2> HIDE DEF shown, defaults, view
  <2>1. shown.entries \in PerCandidate(shown.entries, ShortlistLine)
    BY <1>1 DEF ShortlistArtifact, Fields
  <2> DEFINE entries == view.entries
  <2>2. entries \in [DOMAIN entries \intersect Pipeline -> ShortlistLine]
    BY <1>5, <2>1 DEF PerCandidate
  <2> HIDE DEF entries
  <2>3. DOMAIN entries \intersect Pipeline = DOMAIN entries BY <2>2
  <2> QED BY <2>2, <2>3 DEF entries
<1> HIDE DEF shown, drafts, defaults, view
<1>7. Pictured(lane, "shortlist", shown) /\ SurfaceOf(lane, "shortlist", shown).drafts = drafts
  BY <1>2, <1>4, SurfaceIsSaid
<1>8. ASSUME NEW draft \in {NoEdits} \union drafts, LetThrough("shortlist", Merged(draft, shown)),
             NEW st, Resumes(st, rec, lane, 3, draft)
      PROVE  Goes(3, st, Merged(draft, shown))
  <2> DEFINE e == Merged(draft, shown)
  <2>1. Included(e.entries) # {} /\ Unreasoned(e.entries) = {}
    <3>1. ~ScreeningBlocked("shortlist", e) BY <1>0, <1>8, ScreeningOpened
    <3> QED BY <3>1 DEF ScreeningBlocked, ScreeningShortlistBlocked
  <2>2. Fields(e) \in ShortlistArtifact(e)
    <3>1. CASE draft = NoEdits BY <1>1, <3>1
    <3>2. CASE draft # NoEdits
      <4> HIDE DEF Entries, choices
      <4>1. PICK included \in choices, cleared \in BOOLEAN :
              draft = Counted(Entries(included, cleared))
        BY <1>8, <3>2 DEF drafts
      <4> USE DEF Entries
      <4> DEFINE entries == Entries(included, cleared)
      <4>2. DOMAIN entries = DOMAIN view.entries OBVIOUS
      <4>3. ASSUME NEW c \in DOMAIN view.entries PROVE entries[c] \in ShortlistLine
        <5> DEFINE line == view.entries[c]
                   decision == IF c \in included THEN "include" ELSE "exclude"
                   reasoned == line.reasoned /\ (cleared => c \in included)
        <5>1. line \in ShortlistLine BY <1>6
        <5>2. entries[c] = [line EXCEPT !.decision = decision, !.reasoned = reasoned]
          BY <5>1 DEF ShortlistLine
        <5>3. decision \in {"include", "exclude"} /\ reasoned \in BOOLEAN OBVIOUS
        <5> HIDE DEF line, decision, reasoned, entries
        <5> QED BY <5>1, <5>2, <5>3 DEF ShortlistLine
      <4>4. entries \in [DOMAIN entries -> ShortlistLine]
        <5>1. entries = [c \in DOMAIN view.entries |-> entries[c]] OBVIOUS
        <5> HIDE DEF entries
        <5> QED BY <4>2, <4>3, <5>1
      <4> HIDE DEF entries
      <4> QED BY <1>1, <1>6, <4>1, <4>2, <4>4, CountedConforms DEF entries
    <3> QED BY <3>1, <3>2
  <2>3. EffectiveArtifact(st, "shortlist") = e /\ HasArtifact(st, "shortlist")
    BY <1>0, <1>8 DEF Resumes, shown
  <2>4. HasArtifact(st, "requisition") BY <1>0, <1>8, Behind
  <2> HIDE DEF e
  <2>5. ScreeningGate("shortlist", st) BY <2>1, <2>3 DEF ScreeningGate, AssertShortlistReady
  <2>6. ComputeSchedulePlan(st) # {} BY <2>1, <2>3, <2>4 DEF ComputeSchedulePlan, Unless
  <2>7. ScreeningCompute("schedule", st, Known) # {} BY <2>6, StoredOrSome DEF ScreeningCompute
  <2>8. Fields(e) \in ScreeningContract("shortlist", e) BY <2>2 DEF ScreeningContract
  <2>9. /\ Contract(lane, Step(3), e) /\ LaneGate(lane, Step(3), st, Known)
        /\ Compute(lane, Step(3 + 1), st, Known) = ScreeningCompute("schedule", st, Known)
    BY <1>0, <2>5, <2>8, ScreeningOpened
  <2> QED BY <2>7, <2>9 DEF Goes, e
<1> QED BY <1>0, <1>7, <1>8 DEF Mirrors, shown

LEMMA ScreeningScheduleMirrors ==
  ASSUME lane = "screening", NEW rec, Showing(rec, "screening", 4, facts)
  PROVE  Mirrors(rec, 4)
<1> DEFINE shown == rec.art["schedule"]
           defaults == [invites |-> << >>]
<1>0. /\ ScreeningSteps[3] = "shortlist" /\ ScreeningSteps[4] = "schedule" /\ Len(StepsOf(lane)) = 4
      /\ Step(4) = "schedule" /\ StepsOf(lane)[3] = "shortlist" /\ StepsOf(lane)[4] = "schedule"
  BY ScreeningOpened, ScreeningWalk DEF ScreeningSteps
<1>1. Fields(shown) \in ScheduleArtifact(shown)
  <2>1. Contract(lane, "schedule", shown) BY <1>0 DEF Showing
  <2>2. Fields(shown) \in ScreeningContract("schedule", shown) BY <1>0, <2>1, ScreeningOpened
  <2> QED BY <2>2 DEF ScreeningContract
<1>2. SurfaceOf(lane, "schedule", shown) = ReadOnly(Parsed(shown, {}, defaults))
  <2>1. SurfaceOf(lane, "schedule", shown) = ScreeningSurface("schedule", shown)
    BY <1>0, ScreeningOpened
  <2> QED BY <2>1 DEF ScreeningSurface, ScreeningScheduleSurface, ScreeningScheduleView
<1>3. DOMAIN Fields(shown) = {"invites"} BY <1>1 DEF ScheduleArtifact
<1>4. {} \union DOMAIN defaults \subseteq DOMAIN shown /\ "hidden" \notin {} \union DOMAIN defaults
  BY <1>3 DEF Fields
<1> HIDE DEF defaults
<1>5. Pictured(lane, "schedule", shown) /\ SurfaceOf(lane, "schedule", shown).drafts = {}
  BY <1>2, <1>4, ReadOnlyIsSaid
<1>6. ASSUME NEW st, Resumes(st, rec, lane, 4, NoEdits)
      PROVE  LaneGate(lane, Step(4), st, Known)
  <2>1. PICK before, C : /\ Shows(before, rec, lane, 4)
                         /\ LaneGate(lane, "shortlist", before, Looked(facts, C))
    BY <1>0, Gated DEF Showing
  <2>2. AssertShortlistReady(before) BY <2>1 DEF LaneGate, ScreeningGate
  <2>3. "shortlist" \in Prior(lane, 4) BY <1>0 DEF Prior
  <2>4. /\ HasArtifact(st, "shortlist")
        /\ EffectiveArtifact(st, "shortlist") = EffectiveArtifact(before, "shortlist")
    BY <1>0, <1>6, <2>1, <2>3, Behind DEF Shows
  <2>5. ScreeningGate("schedule", st) BY <2>2, <2>4 DEF ScreeningGate, AssertShortlistReady
  <2> QED BY <1>0, <2>5, ScreeningOpened
<1> HIDE DEF shown
<1>7. Step(4) = "schedule" /\ rec.art[Step(4)] = shown BY <1>0 DEF shown
<1> QED BY <1>0, <1>5, <1>6, <1>7, UneditedMirrors

LEMMA ScreeningMirrors ==
  ASSUME lane = "screening", NEW rec, NEW i \in 1..Len(StepsOf(lane)), Showing(rec, lane, i, facts)
  PROVE  Mirrors(rec, i)
<1>1. i \in 1..4 BY ScreeningWalk
<1> QED
  BY <1>1, ScreeningRequisitionMirrors, ScreeningScreenMirrors, ScreeningShortlistMirrors,
     ScreeningScheduleMirrors

-----------------------------------------------------------------------------
(* Leave *)

LEMMA LeaveOpened ==
  ASSUME lane = "leave", NEW i \in 1..4, NEW a, NEW st
  PROVE  /\ Step(i) = LeaveSteps[i] /\ Len(StepsOf(lane)) = 4
         /\ SurfaceOf(lane, Step(i), a) = LeaveSurface(LeaveSteps[i], a)
         /\ Contract(lane, Step(i), a) <=> Fields(a) \in LeaveContract(LeaveSteps[i])
         /\ LaneGate(lane, Step(i), st, Known) <=> LeaveGate(LeaveSteps[i], st)
         /\ i < 4 => Compute(lane, Step(i + 1), st, Known) = LeaveCompute(LeaveSteps[i + 1], st, Known)
<1>1. Step(i) = LeaveSteps[i] /\ Len(StepsOf(lane)) = 4 BY LeaveWalk DEF Step
<1>2. i < 4 => Step(i + 1) = LeaveSteps[i + 1] BY LeaveWalk DEF Step
<1>3. SurfaceOf(lane, Step(i), a) = LeaveSurface(LeaveSteps[i], a) BY <1>1 DEF SurfaceOf
<1>4. Contract(lane, Step(i), a) <=> Fields(a) \in LeaveContract(LeaveSteps[i])
  BY <1>1 DEF Contract, Conforms
<1>5. LaneGate(lane, Step(i), st, Known) <=> LeaveGate(LeaveSteps[i], st) BY <1>1 DEF LaneGate
<1>6. i < 4 => Compute(lane, Step(i + 1), st, Known) = LeaveCompute(LeaveSteps[i + 1], st, Known)
  BY <1>2 DEF Compute
<1> QED BY <1>1, <1>3, <1>4, <1>5, <1>6

LEMMA LeaveIntakeMirrors ==
  ASSUME lane = "leave", facts \in LeaveFacts, NEW rec, Showing(rec, lane, 1, facts)
  PROVE  Mirrors(rec, 1)
<1> DEFINE shown == rec.art["intake"]
           defaults == [balanceDays |-> 0]
<1>0. /\ LeaveSteps[1] = "intake" /\ LeaveSteps[2] = "policy-check" /\ Len(StepsOf(lane)) = 4
      /\ Step(1) = "intake" /\ StepsOf(lane)[1] = "intake"
  BY LeaveOpened, LeaveWalk DEF LeaveSteps
<1>1. PICK st, C, a, v : a \in ComputeLeaveIntake(st, Looked(facts, C)) /\ shown = WithField(a, "v", v)
  BY <1>0, ShownSays DEF From, Compute, LeaveCompute
<1>2. /\ DOMAIN a = {"range", "balanceDays", "from"} /\ a.range = facts.range
      /\ {"range", "balanceDays"} \subseteq DOMAIN Fields(a)
  <2>1. a.range = Looked(facts, C).range /\ DOMAIN a = {"range", "balanceDays", "from"}
    BY <1>1 DEF ComputeLeaveIntake, Unless
  <2>2. Looked(facts, C).range = facts.range
    <3>1. "range" \in DOMAIN facts BY DEF LeaveFacts
    <3> QED BY <3>1, LookedUp
  <2> QED BY <2>1, <2>2 DEF Fields
<1>3. DOMAIN shown = {"range", "balanceDays", "from", "v"} /\ shown.range = facts.range
  BY <1>1, <1>2, StillSays DEF WithField
<1>4. SurfaceOf(lane, "intake", shown) = ReadOnly(Parsed(shown, {"range"}, defaults))
  <2>1. SurfaceOf(lane, "intake", shown) = LeaveSurface("intake", shown) BY <1>0, LeaveOpened
  <2> QED BY <2>1 DEF LeaveSurface, LeaveIntakeSurface, LeaveIntakeView
<1>5. {"range"} \union DOMAIN defaults \subseteq DOMAIN shown /\ "hidden" \notin {"range"} \union DOMAIN defaults
  BY <1>3
<1> HIDE DEF shown, defaults
<1>6. Pictured(lane, "intake", shown) /\ SurfaceOf(lane, "intake", shown).drafts = {}
  BY <1>4, <1>5, ReadOnlyIsSaid
<1>7. ASSUME NEW st2, LetThrough("intake", shown), Resumes(st2, rec, lane, 1, NoEdits),
             EffectiveArtifact(st2, "intake") = shown
      PROVE  LaneGate(lane, Step(1), st2, Known) /\ Compute(lane, Step(1 + 1), st2, Known) # {}
  <2>1. HasArtifact(st2, "intake") BY <1>0, <1>7 DEF Resumes
  <2>2. LeaveGate("intake", st2) BY DEF LeaveGate
  <2>3. ~RangeThrows(facts.range) /\ ~(WorkingDaysBetween(facts.range) < 1)
    BY <1>7 DEF LetThrough, CaseEndsHere
  <2>4. ComputePolicy(st2, Known) # {} BY <1>3, <1>7, <2>1, <2>3 DEF ComputePolicy, Unless
  <2>5. LeaveCompute("policy-check", st2, Known) # {} BY <2>4 DEF LeaveCompute
  <2> QED BY <1>0, <2>2, <2>5, LeaveOpened
<1>8. Step(1) = "intake" /\ rec.art[Step(1)] = shown BY <1>0 DEF shown
<1> QED BY <1>0, <1>6, <1>7, <1>8, UneditedMirrors

LEMMA LeavePolicyMirrors ==
  ASSUME lane = "leave", NEW rec, Showing(rec, "leave", 2, facts)
  PROVE  Mirrors(rec, 2)
<1> DEFINE shown == rec.art["policy-check"]
           defaults == [workingDays |-> 0, balanceBefore |-> 0, balanceAfter |-> 0,
                        checks |-> << >>, overlaps |-> {}, verdict |-> "ok"]
<1>0. /\ LeaveSteps[2] = "policy-check" /\ LeaveSteps[3] = "approve" /\ Len(StepsOf(lane)) = 4
      /\ Step(2) = "policy-check" /\ StepsOf(lane)[2] = "policy-check"
  BY LeaveOpened, LeaveWalk DEF LeaveSteps
<1>1. Fields(shown) \in LeavePolicyArtifact
  <2>1. Contract(lane, "policy-check", shown) BY <1>0 DEF Showing
  <2>2. Fields(shown) \in LeaveContract("policy-check") BY <1>0, <2>1, LeaveOpened
  <2> QED BY <2>2 DEF LeaveContract
<1>2. SurfaceOf(lane, "policy-check", shown) = ReadOnly(Parsed(shown, {"range"}, defaults))
  <2>1. SurfaceOf(lane, "policy-check", shown) = LeaveSurface("policy-check", shown)
    BY <1>0, LeaveOpened
  <2> QED BY <2>1 DEF LeaveSurface, LeavePolicySurface, LeavePolicyView
<1>3. DOMAIN Fields(shown) = {"range", "workingDays", "balanceBefore", "balanceAfter", "checks",
                              "overlaps", "verdict"}
  BY <1>1 DEF LeavePolicyArtifact
<1>4. /\ {"range"} \union DOMAIN defaults \subseteq DOMAIN shown
      /\ "hidden" \notin {"range"} \union DOMAIN defaults
  BY <1>3 DEF Fields
<1> HIDE DEF defaults
<1>5. Pictured(lane, "policy-check", shown) /\ SurfaceOf(lane, "policy-check", shown).drafts = {}
  BY <1>2, <1>4, ReadOnlyIsSaid
<1>6. ASSUME NEW st, Resumes(st, rec, lane, 2, NoEdits)
      PROVE  LaneGate(lane, Step(2), st, Known) /\ Compute(lane, Step(2 + 1), st, Known) # {}
  <2>1. HasArtifact(st, "policy-check") BY <1>0, <1>6 DEF Resumes
  <2>2. LeaveGate("policy-check", st) BY <2>1 DEF LeaveGate
  <2>3. ComputeLeaveApprove(st, Known) # {} BY <2>1 DEF ComputeLeaveApprove, Unless
  <2>4. LeaveCompute("approve", st, Known) # {} BY <2>3, StoredOrSome DEF LeaveCompute
  <2> QED BY <1>0, <2>2, <2>4, LeaveOpened
<1> HIDE DEF shown
<1>7. Step(2) = "policy-check" /\ rec.art[Step(2)] = shown BY <1>0 DEF shown
<1> QED BY <1>5, <1>6, <1>7, UneditedMirrors

LEMMA LeaveApproveMirrors ==
  ASSUME lane = "leave", NEW rec, Showing(rec, "leave", 3, facts)
  PROVE  Mirrors(rec, 3)
<1> DEFINE shown == rec.art["approve"]
           defaults == [approverRole |-> "", workingDays |-> 0, exception |-> FALSE,
                        state |-> "pending"]
<1>0. /\ LeaveSteps[3] = "approve" /\ LeaveSteps[4] = "apply" /\ Len(StepsOf(lane)) = 4
      /\ Step(3) = "approve" /\ StepsOf(lane)[2] = "policy-check" /\ StepsOf(lane)[3] = "approve"
  BY LeaveOpened, LeaveWalk DEF LeaveSteps
<1>1. Fields(shown) \in LeaveApproval
  <2>1. Contract(lane, "approve", shown) BY <1>0 DEF Showing
  <2>2. Fields(shown) \in LeaveContract("approve") BY <1>0, <2>1, LeaveOpened
  <2> QED BY <2>2 DEF LeaveContract
<1>2. SurfaceOf(lane, "approve", shown) = ReadOnly(Parsed(shown, {}, defaults))
  <2>1. SurfaceOf(lane, "approve", shown) = LeaveSurface("approve", shown) BY <1>0, LeaveOpened
  <2> QED BY <2>1 DEF LeaveSurface, LeaveApproveSurface, LeaveApproveView
<1>3. DOMAIN Fields(shown) = {"approverRole", "workingDays", "exception", "state"}
  BY <1>1 DEF LeaveApproval
<1>4. {} \union DOMAIN defaults \subseteq DOMAIN shown /\ "hidden" \notin {} \union DOMAIN defaults
  BY <1>3 DEF Fields
<1> HIDE DEF defaults
<1>5. Pictured(lane, "approve", shown) /\ SurfaceOf(lane, "approve", shown).drafts = {}
  BY <1>2, <1>4, ReadOnlyIsSaid
<1>6. ASSUME NEW st, Resumes(st, rec, lane, 3, NoEdits)
      PROVE  LaneGate(lane, Step(3), st, Known) /\ Compute(lane, Step(3 + 1), st, Known) # {}
  <2>1. HasArtifact(st, "approve") /\ HasArtifact(st, "policy-check")
    BY <1>0, <1>6, Behind DEF Resumes
  <2>2. LeaveGate("approve", st) BY <2>1 DEF LeaveGate
  <2>3. ComputeLeaveApply(st, Known) # {} BY <2>1 DEF ComputeLeaveApply, Unless
  <2>4. LeaveCompute("apply", st, Known) # {} BY <2>3, StoredOrSome DEF LeaveCompute
  <2> QED BY <1>0, <2>2, <2>4, LeaveOpened
<1> HIDE DEF shown
<1>7. Step(3) = "approve" /\ rec.art[Step(3)] = shown BY <1>0 DEF shown
<1> QED BY <1>5, <1>6, <1>7, UneditedMirrors

LEMMA LeaveApplyMirrors ==
  ASSUME lane = "leave", NEW rec, Showing(rec, "leave", 4, facts)
  PROVE  Mirrors(rec, 4)
<1> DEFINE shown == rec.art["apply"]
           defaults == [existing |-> FALSE]
<1>0. /\ LeaveSteps[4] = "apply" /\ Len(StepsOf(lane)) = 4
      /\ Step(4) = "apply" /\ StepsOf(lane)[4] = "apply"
  BY LeaveOpened, LeaveWalk DEF LeaveSteps
<1>1. Fields(shown) \in ApplyArtifact
  <2>1. Contract(lane, "apply", shown) BY <1>0 DEF Showing
  <2>2. Fields(shown) \in LeaveContract("apply") BY <1>0, <2>1, LeaveOpened
  <2> QED BY <2>2 DEF LeaveContract
<1>2. SurfaceOf(lane, "apply", shown) = ReadOnly(Parsed(shown, {"request"}, defaults))
  <2>1. SurfaceOf(lane, "apply", shown) = LeaveSurface("apply", shown) BY <1>0, LeaveOpened
  <2> QED BY <2>1 DEF LeaveSurface, LeaveApplySurface, LeaveApplyView
<1>3. DOMAIN Fields(shown) = {"request", "existing"} BY <1>1 DEF ApplyArtifact
<1>4. /\ {"request"} \union DOMAIN defaults \subseteq DOMAIN shown
      /\ "hidden" \notin {"request"} \union DOMAIN defaults
  BY <1>3 DEF Fields
<1> HIDE DEF defaults
<1>5. Pictured(lane, "apply", shown) /\ SurfaceOf(lane, "apply", shown).drafts = {}
  BY <1>2, <1>4, ReadOnlyIsSaid
<1>6. ASSUME NEW st PROVE LaneGate(lane, Step(4), st, Known) /\ 4 = Len(StepsOf(lane))
  BY <1>0, LeaveOpened DEF LeaveGate
<1> HIDE DEF shown
<1>7. Step(4) = "apply" /\ rec.art[Step(4)] = shown BY <1>0 DEF shown
<1> QED BY <1>5, <1>6, <1>7, UneditedMirrors

LEMMA LeaveMirrors ==
  ASSUME lane = "leave", facts \in FactsOf(lane), NEW rec, NEW i \in 1..Len(StepsOf(lane)),
         Showing(rec, lane, i, facts)
  PROVE  Mirrors(rec, i)
<1>1. i \in 1..4 /\ facts \in LeaveFacts BY LeaveWalk DEF FactsOf
<1> QED BY <1>1, LeaveIntakeMirrors, LeavePolicyMirrors, LeaveApproveMirrors, LeaveApplyMirrors

-----------------------------------------------------------------------------
(* HR help *)

LEMMA HrHelpOpened ==
  ASSUME lane = "hr-help", NEW i \in 1..5, NEW a, NEW st
  PROVE  /\ Step(i) = HrHelpSteps[i] /\ Len(StepsOf(lane)) = 5
         /\ SurfaceOf(lane, Step(i), a) = HrHelpSurface(HrHelpSteps[i], a)
         /\ Contract(lane, Step(i), a) <=> Fields(a) \in HrHelpContract(HrHelpSteps[i], a)
         /\ LetThrough(Step(i), a) => ~HrHelpBlocked(HrHelpSteps[i], a)
         /\ LaneGate(lane, Step(i), st, Known) <=> HrHelpGate(HrHelpSteps[i], st)
         /\ i < 5 => Compute(lane, Step(i + 1), st, Known) = HrHelpCompute(HrHelpSteps[i + 1], st, Known)
<1>1. Step(i) = HrHelpSteps[i] /\ Len(StepsOf(lane)) = 5 BY HrHelpWalk DEF Step
<1>2. i < 5 => Step(i + 1) = HrHelpSteps[i + 1] BY HrHelpWalk DEF Step
<1>3. SurfaceOf(lane, Step(i), a) = HrHelpSurface(HrHelpSteps[i], a) BY <1>1 DEF SurfaceOf
<1>4. Contract(lane, Step(i), a) <=> Fields(a) \in HrHelpContract(HrHelpSteps[i], a)
  BY <1>1 DEF Contract, Conforms
<1>5. LetThrough(Step(i), a) => ~HrHelpBlocked(HrHelpSteps[i], a)
  BY <1>1 DEF LetThrough, Blocked
<1>6. LaneGate(lane, Step(i), st, Known) <=> HrHelpGate(HrHelpSteps[i], st) BY <1>1 DEF LaneGate
<1>7. i < 5 => Compute(lane, Step(i + 1), st, Known) = HrHelpCompute(HrHelpSteps[i + 1], st, Known)
  BY <1>2 DEF Compute
<1> QED BY <1>1, <1>3, <1>4, <1>5, <1>6, <1>7

\* Only one passage is reviewed and not too long ago.
LEMMA FreshIsCarryover ==
  ASSUME NEW found \in SUBSET PolicyPassages, Answerable(found)
  PROVE  "carryover" \in found
<1>1. PICK p \in found : ~IsStale(p) BY DEF Answerable
<1>2. p \in {"carryover", "accrual", "travel"} BY DEF PolicyPassages, PolicyCorpus
<1>3. IsStale("accrual") BY DEF IsStale, PolicyCorpus, StaleDays, NeverReviewed
<1>4. IsStale("travel") BY DEF IsStale, PolicyCorpus
<1> QED BY <1>1, <1>2, <1>3, <1>4

LEMMA RetrievedArePassages ==
  ASSUME NEW service \in {"down", "empty", "up"}, NEW terms, NEW found \in HttpRetrieve(service, terms)
  PROVE  found \in SUBSET PolicyPassages
<1>1. ASSUME found \in CorpusRetrieve(terms) PROVE found \in SUBSET PolicyPassages
  BY <1>1 DEF CorpusRetrieve
<1>2. found \in CorpusRetrieve(terms) \/ found = {} BY DEF HttpRetrieve
<1> QED BY <1>1, <1>2

\* What is retrieved and answers the question can be cited.
LEMMA RetrievedIsCitable ==
  ASSUME NEW st, NEW f \in HrHelpFacts, NEW C, NEW a \in ComputeRetrieve(st, Looked(f, C))
  PROVE  "passages" \in DOMAIN Fields(a) /\ "carryover" \in DOMAIN a.passages
<1> DEFINE known == Looked(f, C)
           terms == EffectiveArtifact(st, "intake").terms
           Passages(found) == [p \in found |-> [score |-> PassageScore(p, terms), stale |-> IsStale(p)]]
           Stale(found) == Cardinality({p \in found : IsStale(p)})
           from == DerivedFrom(st, {"intake"})
           service == known.service
<1>1. PICK found \in HttpRetrieve(service, terms) :
        /\ Answerable(found)
        /\ a = [terms |-> terms, passages |-> Passages(found), staleCount |-> Stale(found), from |-> from]
  BY DEF ComputeRetrieve, Unless
<1>2. service \in {"down", "empty", "up"}
  <2>1. "service" \in DOMAIN f /\ f.service \in {"down", "empty", "up"} BY DEF HrHelpFacts
  <2> QED BY <2>1, LookedUp
<1>3. DOMAIN Passages(found) = found OBVIOUS
<1> HIDE DEF terms, Passages, Stale, from, service
<1>4. "carryover" \in found BY <1>1, <1>2, RetrievedArePassages, FreshIsCarryover
<1>5. a.passages = Passages(found) /\ "passages" \in DOMAIN Fields(a) BY <1>1 DEF Fields
<1> QED BY <1>3, <1>4, <1>5

\* The drafter has an answer to give.
LEMMA DraftIsThere ==
  ASSUME NEW st, HasArtifact(st, "retrieve"),
         "carryover" \in DOMAIN EffectiveArtifact(st, "retrieve").passages
  PROVE  ComputeHrDraft(st) # {}
<1> DEFINE retrieve == EffectiveArtifact(st, "retrieve")
           output == [citations |-> {"carryover"}, marked |-> {"carryover"}]
           guardrail == [allowed |-> TRUE, flags |-> {}]
           from == DerivedFrom(st, {"retrieve"})
           Drafted(x, y) == [answer |-> "drafted", citations |-> x.citations, flags |-> y.flags,
                             allowed |-> y.allowed, totalFlags |-> Cardinality(y.flags), from |-> from]
           cited == CitedDrafts(retrieve)
           guarded == ContractOutput(HelpGuardrailAnswers, GuardrailOutput)
           all == {Drafted(x, y) : x \in cited, y \in guarded}
<1>1. output \in cited
  <2>1. output \in DrafterAnswers BY DEF DrafterAnswers
  <2>2. output \in DraftModelOutput
    <3>1. {"carryover"} \in (SUBSET PolicyPassages) \ {{}} BY DEF PolicyPassages, PolicyCorpus
    <3> QED BY <3>1 DEF DraftModelOutput
  <2> HIDE DEF retrieve
  <2>3. output.citations \subseteq DOMAIN retrieve.passages BY DEF retrieve
  <2> QED BY <2>1, <2>2, <2>3 DEF CitedDrafts, ContractOutput
<1>2. guardrail \in guarded
  <2>1. guardrail \in HelpGuardrailAnswers BY DEF HelpGuardrailAnswers
  <2>2. guardrail \in GuardrailOutput BY DEF GuardrailOutput
  <2> QED BY <2>1, <2>2 DEF ContractOutput
<1>3. ComputeHrDraft(st) = all BY DEF ComputeHrDraft, Unless
<1> HIDE DEF output, guardrail, Drafted, cited, guarded
<1>4. \E drafted : drafted \in all BY <1>1, <1>2
<1> HIDE DEF all
<1> QED BY <1>3, <1>4

LEMMA HrIntakeMirrors ==
  ASSUME lane = "hr-help", facts \in HrHelpFacts, NEW rec, Showing(rec, "hr-help", 1, facts)
  PROVE  Mirrors(rec, 1)
<1> DEFINE shown == rec.art["intake"]
           defaults == [terms |-> {}]
<1>0. /\ HrHelpSteps[1] = "intake" /\ HrHelpSteps[2] = "retrieve" /\ Len(StepsOf(lane)) = 5
      /\ Step(1) = "intake" /\ StepsOf(lane)[1] = "intake"
  BY HrHelpOpened, HrHelpWalk DEF HrHelpSteps
<1>1. PICK st, C, a, v : a \in ComputeHrIntake(st, Looked(facts, C)) /\ shown = WithField(a, "v", v)
  BY <1>0, ShownSays DEF From, Compute, HrHelpCompute
<1>2. "terms" \in DOMAIN Fields(a) /\ a.terms = facts.terms
  <2>1. "terms" \in DOMAIN Fields(a) /\ a.terms = Looked(facts, C).terms
    BY <1>1 DEF ComputeHrIntake, Fields
  <2>2. Looked(facts, C).terms = facts.terms
    <3>1. "terms" \in DOMAIN facts BY DEF HrHelpFacts
    <3> QED BY <3>1, LookedUp
  <2> QED BY <2>1, <2>2
<1>3. "terms" \in DOMAIN shown /\ shown.terms = facts.terms
  BY <1>1, <1>2, StillSays DEF WithField
<1>4. SurfaceOf(lane, "intake", shown) = ReadOnly(Parsed(shown, {}, defaults))
  <2>1. SurfaceOf(lane, "intake", shown) = HrHelpSurface("intake", shown) BY <1>0, HrHelpOpened
  <2> QED BY <2>1 DEF HrHelpSurface, HrHelpIntakeSurface, HrHelpIntakeView
<1>5. {} \union DOMAIN defaults \subseteq DOMAIN shown /\ "hidden" \notin {} \union DOMAIN defaults
  BY <1>3
<1> HIDE DEF shown, defaults
<1>6. Pictured(lane, "intake", shown) /\ SurfaceOf(lane, "intake", shown).drafts = {}
  BY <1>4, <1>5, ReadOnlyIsSaid
<1>7. ASSUME NEW st2, LetThrough("intake", shown), Resumes(st2, rec, lane, 1, NoEdits),
             EffectiveArtifact(st2, "intake") = shown
      PROVE  LaneGate(lane, Step(1), st2, Known) /\ Compute(lane, Step(1 + 1), st2, Known) # {}
  <2>1. HasArtifact(st2, "intake") BY <1>0, <1>7 DEF Resumes
  <2>2. HrHelpGate("intake", st2) BY DEF HrHelpGate
  <2>3. PICK found \in HttpRetrieve(facts.service, facts.terms) : Answerable(found)
    BY <1>7 DEF LetThrough, CaseEndsHere
  <2>4. Known.service = facts.service
    <3>1. "service" \in DOMAIN facts BY DEF HrHelpFacts
    <3> QED BY <3>1, KnownIsLooked, LookedUp
  <2> DEFINE terms == EffectiveArtifact(st2, "intake").terms
             FoundPassage(tried) ==
               [terms |-> terms,
                passages |-> [p \in tried |-> [score |-> PassageScore(p, terms), stale |-> IsStale(p)]],
                staleCount |-> Cardinality({p \in tried : IsStale(p)}),
                from |-> DerivedFrom(st2, {"intake"})]
             answers == {tried \in HttpRetrieve(Known.service, terms) : Answerable(tried)}
  <2>5. ComputeRetrieve(st2, Known) = {FoundPassage(tried) : tried \in answers}
    BY <2>1 DEF ComputeRetrieve, Unless
  <2>6. found \in answers BY <1>3, <1>7, <2>3, <2>4
  <2> HIDE DEF FoundPassage, answers
  <2>7. ComputeRetrieve(st2, Known) # {} BY <2>5, <2>6
  <2>8. HrHelpCompute("retrieve", st2, Known) # {} BY <2>7 DEF HrHelpCompute
  <2> QED BY <1>0, <2>2, <2>8, HrHelpOpened
<1>8. Step(1) = "intake" /\ rec.art[Step(1)] = shown BY <1>0 DEF shown
<1> QED BY <1>0, <1>6, <1>7, <1>8, UneditedMirrors

LEMMA HrRetrieveMirrors ==
  ASSUME lane = "hr-help", facts \in HrHelpFacts, NEW rec, Showing(rec, "hr-help", 2, facts)
  PROVE  Mirrors(rec, 2)
<1> DEFINE shown == rec.art["retrieve"]
           defaults == [terms |-> {}, passages |-> << >>, staleCount |-> 0]
<1>0. /\ HrHelpSteps[2] = "retrieve" /\ HrHelpSteps[3] = "draft" /\ Len(StepsOf(lane)) = 5
      /\ Step(2) = "retrieve" /\ StepsOf(lane)[1] = "intake" /\ StepsOf(lane)[2] = "retrieve"
  BY HrHelpOpened, HrHelpWalk DEF HrHelpSteps
<1>1. Fields(shown) \in RetrieveArtifact(shown)
  <2>1. Contract(lane, "retrieve", shown) BY <1>0 DEF Showing
  <2>2. Fields(shown) \in HrHelpContract("retrieve", shown) BY <1>0, <2>1, HrHelpOpened
  <2> QED BY <2>2 DEF HrHelpContract
<1>2. SurfaceOf(lane, "retrieve", shown) = ReadOnly(Parsed(shown, {}, defaults))
  <2>1. SurfaceOf(lane, "retrieve", shown) = HrHelpSurface("retrieve", shown) BY <1>0, HrHelpOpened
  <2> QED BY <2>1 DEF HrHelpSurface, HrHelpRetrieveSurface, HrHelpRetrieveView
<1>3. DOMAIN Fields(shown) = {"terms", "passages", "staleCount"}
  BY <1>1 DEF RetrieveArtifact
<1>4. /\ {} \union DOMAIN defaults \subseteq DOMAIN shown
      /\ "hidden" \notin {} \union DOMAIN defaults
  BY <1>3 DEF Fields
<1> HIDE DEF defaults
<1>5. Pictured(lane, "retrieve", shown) /\ SurfaceOf(lane, "retrieve", shown).drafts = {}
  BY <1>2, <1>4, ReadOnlyIsSaid
<1>6. ASSUME NEW st, Resumes(st, rec, lane, 2, NoEdits), EffectiveArtifact(st, "retrieve") = shown
      PROVE  LaneGate(lane, Step(2), st, Known) /\ Compute(lane, Step(2 + 1), st, Known) # {}
  <2>1. HasArtifact(st, "retrieve") BY <1>0, <1>6 DEF Resumes
  <2>2. HrHelpGate("retrieve", st) BY <2>1 DEF HrHelpGate
  <2>3. EffectiveArtifact(st, "retrieve") = shown BY <1>6
  <2>4. "carryover" \in DOMAIN shown.passages
    <3>1. PICK st1, C, a, v : /\ a \in ComputeRetrieve(st1, Looked(facts, C))
                              /\ shown = WithField(a, "v", v)
      BY <1>0, ShownSays DEF From, Compute, HrHelpCompute
    <3> HIDE DEF shown
    <3>2. "passages" \in DOMAIN Fields(a) /\ "carryover" \in DOMAIN a.passages
      BY <3>1, RetrievedIsCitable
    <3>3. shown.passages = a.passages BY <3>1, <3>2, StillSays
    <3> QED BY <3>2, <3>3
  <2>5. ComputeHrDraft(st) # {} BY <2>1, <2>3, <2>4, DraftIsThere
  <2>6. HrHelpCompute("draft", st, Known) # {} BY <2>5 DEF HrHelpCompute
  <2> QED BY <1>0, <2>2, <2>6, HrHelpOpened
<1> HIDE DEF shown
<1>7. Step(2) = "retrieve" /\ rec.art[Step(2)] = shown BY <1>0 DEF shown
<1> QED BY <1>0, <1>5, <1>6, <1>7, UneditedMirrors

LEMMA HrDraftMirrors ==
  ASSUME lane = "hr-help", NEW rec, Showing(rec, "hr-help", 3, facts)
  PROVE  Mirrors(rec, 3)
<1> DEFINE shown == rec.art["draft"]
           defaults == [answer |-> "", citations |-> {}, flags |-> {}, allowed |-> FALSE,
                        totalFlags |-> 0]
           view == HrHelpDraftView(shown)
           drafts == {[answer |-> answer] : answer \in {view.answer, "rewritten", "blank"}}
<1>0. /\ HrHelpSteps[3] = "draft" /\ HrHelpSteps[4] = "approve" /\ Len(StepsOf(lane)) = 5
      /\ Step(3) = "draft" /\ StepsOf(lane)[1] = "intake" /\ StepsOf(lane)[2] = "retrieve"
      /\ StepsOf(lane)[3] = "draft"
  BY HrHelpOpened, HrHelpWalk DEF HrHelpSteps
<1>1. Fields(shown) \in DraftArtifact /\ Merged(NoEdits, shown) = shown
  <2>1. Contract(lane, "draft", shown) /\ Merged(NoEdits, shown) = shown
    BY <1>0, ShownSays DEF Showing
  <2>2. Fields(shown) \in HrHelpContract("draft", shown) BY <1>0, <2>1, HrHelpOpened
  <2> QED BY <2>1, <2>2 DEF HrHelpContract
<1>2. SurfaceOf(lane, "draft", shown) = Surface(Parsed(shown, {}, defaults), drafts)
  <2>1. SurfaceOf(lane, "draft", shown) = HrHelpSurface("draft", shown) BY <1>0, HrHelpOpened
  <2> QED BY <2>1 DEF HrHelpSurface, HrHelpDraftSurface, HrHelpDraftView
<1>3. DOMAIN Fields(shown) = {"answer", "citations", "flags", "allowed", "totalFlags"}
  BY <1>1 DEF DraftArtifact
<1>4. {} \union DOMAIN defaults \subseteq DOMAIN shown /\ "hidden" \notin {} \union DOMAIN defaults
  BY <1>3 DEF Fields
<1>5. view.answer = Fields(shown)["answer"] /\ Fields(shown)["answer"] \in {"drafted", "rewritten"}
  <2>1. view.answer = shown.answer BY <1>4 DEF HrHelpDraftView, Parsed
  <2> HIDE DEF shown, view
  <2>2. shown.answer = Fields(shown)["answer"] BY <1>3, FieldIs
  <2> QED BY <1>1, <2>1, <2>2 DEF DraftArtifact
<1> HIDE DEF shown, drafts, defaults, view
<1>6. Pictured(lane, "draft", shown) /\ SurfaceOf(lane, "draft", shown).drafts = drafts
  BY <1>2, <1>4, SurfaceIsSaid
<1>7. ASSUME NEW draft \in {NoEdits} \union drafts, LetThrough("draft", Merged(draft, shown)),
             NEW st, Resumes(st, rec, lane, 3, draft)
      PROVE  Goes(3, st, Merged(draft, shown))
  <2> DEFINE e == Merged(draft, shown)
  <2>1. e.answer # "blank"
    <3>1. ~HrHelpBlocked("draft", e) BY <1>0, <1>7, HrHelpOpened
    <3> QED BY <3>1 DEF HrHelpBlocked
  <2>2. Fields(e) \in DraftArtifact
    <3>1. CASE draft = NoEdits BY <1>1, <3>1
    <3>2. CASE draft # NoEdits
      <4>1. PICK answer \in {view.answer, "rewritten", "blank"} : draft = [answer |-> answer]
        BY <1>7, <3>2 DEF drafts
      <4> HIDE DEF e
      <4>2. /\ DOMAIN Fields(e) = DOMAIN Fields(shown) /\ Fields(e)["answer"] = answer
            /\ \A x \in {"citations", "flags", "allowed", "totalFlags"} : Fields(e)[x] = Fields(shown)[x]
        BY <1>3, <4>1, DraftOverlaid DEF e
      <4>3. answer \in {"drafted", "rewritten"}
        <5>1. e.answer = answer BY <1>3, <4>2, FieldIs
        <5> QED BY <1>5, <2>1, <5>1
      <4>4. Fields(e) = [Fields(shown) EXCEPT !.answer = answer] BY <1>3, <4>2 DEF Fields
      <4> QED BY <1>1, <4>3, <4>4 DEF DraftArtifact
    <3> QED BY <3>1, <3>2
  <2>3. EffectiveArtifact(st, "draft") = e /\ HasArtifact(st, "draft")
    BY <1>0, <1>7 DEF Resumes, shown
  <2> HIDE DEF e
  <2>4. HrHelpGate("draft", st) BY <2>3 DEF HrHelpGate
  <2>5. ComputeHrApprove(st) # {} BY <2>3 DEF ComputeHrApprove, Unless
  <2>6. HrHelpCompute("approve", st, Known) # {} BY <2>5, StoredOrSome DEF HrHelpCompute
  <2>7. Fields(e) \in HrHelpContract("draft", e) BY <2>2 DEF HrHelpContract
  <2>8. /\ Contract(lane, Step(3), e) /\ LaneGate(lane, Step(3), st, Known)
        /\ Compute(lane, Step(3 + 1), st, Known) = HrHelpCompute("approve", st, Known)
    BY <1>0, <2>4, <2>7, HrHelpOpened
  <2> QED BY <2>6, <2>8 DEF Goes, e
<1> QED BY <1>0, <1>6, <1>7 DEF Mirrors, shown

LEMMA HrApproveMirrors ==
  ASSUME lane = "hr-help", NEW rec, Showing(rec, "hr-help", 4, facts)
  PROVE  Mirrors(rec, 4)
<1> DEFINE shown == rec.art["approve"]
           defaults == [state |-> "pending", signOff |-> FALSE]
<1>0. /\ HrHelpSteps[4] = "approve" /\ HrHelpSteps[5] = "send" /\ Len(StepsOf(lane)) = 5
      /\ Step(4) = "approve" /\ StepsOf(lane)[1] = "intake" /\ StepsOf(lane)[2] = "retrieve"
      /\ StepsOf(lane)[3] = "draft" /\ StepsOf(lane)[4] = "approve"
  BY HrHelpOpened, HrHelpWalk DEF HrHelpSteps
<1>1. Fields(shown) \in HelpApproval
  <2>1. Contract(lane, "approve", shown) BY <1>0 DEF Showing
  <2>2. Fields(shown) \in HrHelpContract("approve", shown) BY <1>0, <2>1, HrHelpOpened
  <2> QED BY <2>2 DEF HrHelpContract
<1>2. SurfaceOf(lane, "approve", shown) = ReadOnly(Parsed(shown, {}, defaults))
  <2>1. SurfaceOf(lane, "approve", shown) = HrHelpSurface("approve", shown) BY <1>0, HrHelpOpened
  <2> QED BY <2>1 DEF HrHelpSurface, HrHelpApproveSurface, HrHelpApproveView
<1>3. DOMAIN Fields(shown) = {"state", "signOff"}
  BY <1>1 DEF HelpApproval
<1>4. /\ {} \union DOMAIN defaults \subseteq DOMAIN shown
      /\ "hidden" \notin {} \union DOMAIN defaults
  BY <1>3 DEF Fields
<1> HIDE DEF defaults
<1>5. Pictured(lane, "approve", shown) /\ SurfaceOf(lane, "approve", shown).drafts = {}
  BY <1>2, <1>4, ReadOnlyIsSaid
<1>6. ASSUME NEW st, Resumes(st, rec, lane, 4, NoEdits)
      PROVE  LaneGate(lane, Step(4), st, Known) /\ Compute(lane, Step(4 + 1), st, Known) # {}
  <2>1. HasArtifact(st, "approve") /\ HasArtifact(st, "draft") BY <1>0, <1>6, Behind DEF Resumes
  <2>2. HrHelpGate("approve", st) BY <2>1 DEF HrHelpGate
  <2>3. ComputeHrSendPlan(st, Known) # {} BY <2>1 DEF ComputeHrSendPlan, Unless
  <2>4. HrHelpCompute("send", st, Known) # {} BY <2>3, StoredOrSome DEF HrHelpCompute
  <2> QED BY <1>0, <2>2, <2>4, HrHelpOpened
<1> HIDE DEF shown
<1>7. Step(4) = "approve" /\ rec.art[Step(4)] = shown BY <1>0 DEF shown
<1> QED BY <1>0, <1>5, <1>6, <1>7, UneditedMirrors

LEMMA HrSendMirrors ==
  ASSUME lane = "hr-help", NEW rec, Showing(rec, "hr-help", 5, facts)
  PROVE  Mirrors(rec, 5)
<1> DEFINE shown == rec.art["send"]
           defaults == [existing |-> FALSE]
<1>0. /\ HrHelpSteps[5] = "send" /\ Len(StepsOf(lane)) = 5 /\ Step(5) = "send"
      /\ StepsOf(lane)[1] = "intake" /\ StepsOf(lane)[2] = "retrieve"
      /\ StepsOf(lane)[3] = "draft" /\ StepsOf(lane)[4] = "approve" /\ StepsOf(lane)[5] = "send"
  BY HrHelpOpened, HrHelpWalk DEF HrHelpSteps
<1>1. Fields(shown) \in SendArtifact
  <2>1. Contract(lane, "send", shown) BY <1>0 DEF Showing
  <2>2. Fields(shown) \in HrHelpContract("send", shown) BY <1>0, <2>1, HrHelpOpened
  <2> QED BY <2>2 DEF HrHelpContract
<1>2. SurfaceOf(lane, "send", shown) = ReadOnly(Parsed(shown, {"citationCount"}, defaults))
  <2>1. SurfaceOf(lane, "send", shown) = HrHelpSurface("send", shown) BY <1>0, HrHelpOpened
  <2> QED BY <2>1 DEF HrHelpSurface, HrHelpSendSurface, HrHelpSendView
<1>3. DOMAIN Fields(shown) = {"citationCount", "existing"}
  BY <1>1 DEF SendArtifact
<1>4. /\ {"citationCount"} \union DOMAIN defaults \subseteq DOMAIN shown
      /\ "hidden" \notin {"citationCount"} \union DOMAIN defaults
  BY <1>3 DEF Fields
<1> HIDE DEF defaults
<1>5. Pictured(lane, "send", shown) /\ SurfaceOf(lane, "send", shown).drafts = {}
  BY <1>2, <1>4, ReadOnlyIsSaid
<1>6. ASSUME NEW st, Resumes(st, rec, lane, 5, NoEdits)
      PROVE  LaneGate(lane, Step(5), st, Known)
  <2>1. HasArtifact(st, "draft") BY <1>0, <1>6, Behind
  <2>2. HrHelpGate("send", st) BY <2>1 DEF HrHelpGate
  <2> QED BY <1>0, <2>2, HrHelpOpened
<1> HIDE DEF shown
<1>7. Step(5) = "send" /\ rec.art[Step(5)] = shown BY <1>0 DEF shown
<1> QED BY <1>0, <1>5, <1>6, <1>7, UneditedMirrors

LEMMA HrHelpMirrors ==
  ASSUME lane = "hr-help", facts \in FactsOf(lane), NEW rec, NEW i \in 1..Len(StepsOf(lane)),
         Showing(rec, lane, i, facts)
  PROVE  Mirrors(rec, i)
<1>1. i \in 1..5 /\ facts \in HrHelpFacts BY HrHelpWalk DEF FactsOf
<1> QED
  BY <1>1, HrIntakeMirrors, HrRetrieveMirrors, HrDraftMirrors, HrApproveMirrors, HrSendMirrors

-----------------------------------------------------------------------------
(* Review *)

LEMMA ReviewOpened ==
  ASSUME lane = "review", NEW i \in 1..4, NEW a, NEW st
  PROVE  /\ Step(i) = ReviewSteps[i] /\ Len(StepsOf(lane)) = 4
         /\ SurfaceOf(lane, Step(i), a) = ReviewSurface(ReviewSteps[i], a)
         /\ Contract(lane, Step(i), a) <=> ReviewContract(ReviewSteps[i], a)
         /\ LetThrough(Step(i), a) => ~ReviewBlocked(ReviewSteps[i], a)
         /\ LaneGate(lane, Step(i), st, Known) <=> ReviewGate(ReviewSteps[i], st)
         /\ i < 4 => Compute(lane, Step(i + 1), st, Known) = ReviewCompute(ReviewSteps[i + 1], st, Known)
<1>1. Step(i) = ReviewSteps[i] /\ Len(StepsOf(lane)) = 4 BY ReviewWalk DEF Step
<1>2. i < 4 => Step(i + 1) = ReviewSteps[i + 1] BY ReviewWalk DEF Step
<1>3. SurfaceOf(lane, Step(i), a) = ReviewSurface(ReviewSteps[i], a) BY <1>1 DEF SurfaceOf
<1>4. Contract(lane, Step(i), a) <=> ReviewContract(ReviewSteps[i], a)
  BY <1>1 DEF Contract
<1>5. LetThrough(Step(i), a) => ~ReviewBlocked(ReviewSteps[i], a)
  BY <1>1 DEF LetThrough, Blocked
<1>6. LaneGate(lane, Step(i), st, Known) <=> ReviewGate(ReviewSteps[i], st) BY <1>1 DEF LaneGate
<1>7. i < 4 => Compute(lane, Step(i + 1), st, Known) = ReviewCompute(ReviewSteps[i + 1], st, Known)
  BY <1>2 DEF Compute
<1> QED BY <1>1, <1>3, <1>4, <1>5, <1>6, <1>7

LEMMA ReviewIsWritten ==
  ASSUME lane = "review", NEW s \in {"ai-review", "complete"}, NEW a, LetThrough(s, a)
  PROVE  a.summary # "empty"
BY DEF LetThrough, KnownDeadEnd

LEMMA SelectPrMirrors ==
  ASSUME lane = "review", facts \in ReviewFacts, NEW rec, Showing(rec, "review", 1, facts)
  PROVE  Mirrors(rec, 1)
<1> DEFINE shown == rec.art["select-pr"]
           defaults == [candidates |-> <<>>, selected |-> "none"]
           last == shown.candidates[Len(shown.candidates)]
           drafts == {[selected |-> last]}
<1>0. /\ ReviewSteps[1] = "select-pr" /\ ReviewSteps[2] = "review-options"
      /\ Len(StepsOf(lane)) = 4 /\ Step(1) = "select-pr" /\ StepsOf(lane)[1] = "select-pr"
  BY ReviewOpened, ReviewWalk DEF ReviewSteps
<1>1. PICK st, C, a, v : a \in ComputeSelectPr(st, Looked(facts, C)) /\ shown = WithField(a, "v", v)
  BY <1>0, ShownSays DEF From, Compute, ReviewCompute
<1>2. SelectPrValid(shown)
  <2>1. Contract(lane, "select-pr", shown) BY <1>0 DEF Showing
  <2> QED BY <1>0, <2>1, ReviewOpened DEF ReviewContract
<1>3. {"candidates", "selected"} \subseteq DOMAIN shown /\ last \in PullRequestCandidate
  <2> DEFINE candidates == SubSeq(<<"pr1", "own">>, 1, CandidateLimit)
  <2>1. {"candidates", "selected"} \subseteq DOMAIN Fields(a) BY <1>1, SelectPrConforms
  <2>2. a.candidates = candidates BY <1>1 DEF ComputeSelectPr, Unless
  <2>3. Len(candidates) = 2
    <3>1. candidates = SubSeq(<<"pr1", "own">>, 1, 2) BY DEF CandidateLimit
    <3>2. <<"pr1", "own">> \in Seq({"pr1", "own"}) /\ Len(<<"pr1", "own">>) = 2 OBVIOUS
    <3> QED BY <3>1, <3>2, BothOfTwo
  <2> HIDE DEF shown, candidates
  <2>4. shown.candidates = candidates /\ {"candidates", "selected"} \subseteq DOMAIN shown
    BY <1>1, <2>1, <2>2, StillSays DEF WithField
  <2>5. Len(shown.candidates) \in 1..Len(shown.candidates) BY <2>3, <2>4
  <2>6. last \in PullRequestCandidate BY <1>2, <2>5 DEF SelectPrValid
  <2> QED BY <2>4, <2>6
<1>4. SurfaceOf(lane, "select-pr", shown) = Surface(Parsed(shown, {}, defaults), drafts)
  <2>1. SurfaceOf(lane, "select-pr", shown) = ReviewSurface("select-pr", shown) BY <1>0, ReviewOpened
  <2> QED BY <2>1 DEF ReviewSurface, SelectPrSurface, SelectPrView
<1>5. {} \union DOMAIN defaults \subseteq DOMAIN shown /\ "hidden" \notin {} \union DOMAIN defaults
  BY <1>3
<1> HIDE DEF shown, drafts, defaults, last
<1>6. Pictured(lane, "select-pr", shown) /\ SurfaceOf(lane, "select-pr", shown).drafts = drafts
  BY <1>4, <1>5, SurfaceIsSaid
<1>7. ASSUME NEW draft \in {NoEdits} \union drafts, NEW e, e = Merged(draft, shown),
             draft = NoEdits => e = shown, LetThrough("select-pr", e), NEW st2,
             EffectiveArtifact(st2, "select-pr") = e, HasArtifact(st2, "select-pr")
      PROVE  /\ Contract(lane, Step(1), e) /\ LaneGate(lane, Step(1), st2, Known)
             /\ Compute(lane, Step(1 + 1), st2, Known) # {}
  <2>1. e.selected # "none"
    <3>1. ~ReviewBlocked("select-pr", e) BY <1>0, <1>7, ReviewOpened
    <3> QED BY <3>1 DEF ReviewBlocked
  <2>2. SelectPrValid(e)
    <3>1. CASE draft = NoEdits BY <1>2, <1>7, <3>1
    <3>2. CASE draft # NoEdits
      <4>1. draft = [selected |-> last] BY <1>7, <3>2 DEF drafts
      <4>2. DOMAIN draft = {"selected"} /\ draft["selected"] = last BY <4>1
      <4>3. e["candidates"] = shown["candidates"] /\ e["selected"] = last BY <1>3, <1>7, <4>2, DraftWins
      <4> QED BY <1>2, <1>3, <4>3 DEF SelectPrValid
    <3> QED BY <3>1, <3>2
  <2>3. ReviewGate("select-pr", st2) BY <1>7, <2>1 DEF ReviewGate
  <2>4. ComputeReviewOptions(st2) # {} BY <1>7, <2>1 DEF ComputeReviewOptions, Unless
  <2>5. ReviewCompute("review-options", st2, Known) # {} BY <2>4 DEF ReviewCompute
  <2>6. ReviewContract("select-pr", e) BY <2>2 DEF ReviewContract
  <2> QED BY <1>0, <2>3, <2>5, <2>6, ReviewOpened
<1>8. Step(1) = "select-pr" /\ shown = rec.art[Step(1)] BY <1>0 DEF shown
<1>9. Showing(rec, lane, 1, facts) BY <1>0
<1>10. GoesOn(rec, 1, shown, drafts) BY <1>7, <1>8 DEF GoesOn
<1> QED BY <1>6, <1>8, <1>9, <1>10, GoingOnMirrors

LEMMA ReviewOptionsMirrors ==
  ASSUME lane = "review", NEW rec, Showing(rec, "review", 2, facts)
  PROVE  Mirrors(rec, 2)
<1> DEFINE shown == rec.art["review-options"]
           defaults == [enabled |-> {}]
           drafts == {[enabled |-> {}]}
<1>0. /\ ReviewSteps[2] = "review-options" /\ ReviewSteps[3] = "ai-review"
      /\ Len(StepsOf(lane)) = 4 /\ Step(2) = "review-options" /\ StepsOf(lane)[1] = "select-pr"
      /\ StepsOf(lane)[2] = "review-options"
  BY ReviewOpened, ReviewWalk DEF ReviewSteps
<1>1. ReviewOptionsValid(shown)
  <2>1. Contract(lane, "review-options", shown) BY <1>0 DEF Showing
  <2> QED BY <1>0, <2>1, ReviewOpened DEF ReviewContract
<1>2. {"pullRequest", "enabled"} \subseteq DOMAIN shown
  <2>1. PICK st, C, a, v : a \in ComputeReviewOptions(st) /\ shown = WithField(a, "v", v)
    BY <1>0, ShownSays DEF From, Compute, ReviewCompute
  <2>2. {"pullRequest", "enabled"} \subseteq DOMAIN a BY <2>1 DEF ComputeReviewOptions, Unless
  <2> QED BY <2>1, <2>2 DEF WithField
<1>3. SurfaceOf(lane, "review-options", shown) = Surface(Parsed(shown, {}, defaults), drafts)
  <2>1. SurfaceOf(lane, "review-options", shown) = ReviewSurface("review-options", shown)
    BY <1>0, ReviewOpened
  <2> QED BY <2>1 DEF ReviewSurface, ReviewOptionsSurface, ReviewOptionsView
<1>4. {} \union DOMAIN defaults \subseteq DOMAIN shown /\ "hidden" \notin {} \union DOMAIN defaults
  BY <1>2
<1> HIDE DEF shown, drafts, defaults
<1>5. Pictured(lane, "review-options", shown) /\ SurfaceOf(lane, "review-options", shown).drafts = drafts
  BY <1>3, <1>4, SurfaceIsSaid
<1>6. ASSUME NEW draft \in {NoEdits} \union drafts, NEW e, e = Merged(draft, shown),
             draft = NoEdits => e = shown, NEW st, HasArtifact(st, "review-options")
      PROVE  /\ Contract(lane, Step(2), e) /\ LaneGate(lane, Step(2), st, Known)
             /\ Compute(lane, Step(2 + 1), st, Known) # {}
  <2>1. ReviewOptionsValid(e)
    <3>1. CASE draft = NoEdits BY <1>1, <1>6, <3>1
    <3>2. CASE draft # NoEdits
      <4>1. draft = [enabled |-> {}] BY <1>6, <3>2 DEF drafts
      <4>2. DOMAIN draft = {"enabled"} /\ draft["enabled"] = {} BY <4>1
      <4>3. e["pullRequest"] = shown["pullRequest"] /\ e["enabled"] = {} BY <1>2, <1>6, <4>2, DraftWins
      <4> QED BY <1>1, <4>3 DEF ReviewOptionsValid
    <3> QED BY <3>1, <3>2
  <2>2. ReviewGate("review-options", st) BY DEF ReviewGate
  <2>3. ComputeAiReview(st, Known) # {} BY <1>6 DEF ComputeAiReview, ReviewerAnswers
  <2>4. ReviewCompute("ai-review", st, Known) # {} BY <2>3 DEF ReviewCompute
  <2>5. ReviewContract("review-options", e) BY <2>1 DEF ReviewContract
  <2> QED BY <1>0, <2>2, <2>4, <2>5, ReviewOpened
<1>7. Step(2) = "review-options" /\ shown = rec.art[Step(2)] BY <1>0 DEF shown
<1>8. Showing(rec, lane, 2, facts) BY <1>0
<1>9. GoesOn(rec, 2, shown, drafts) BY <1>6, <1>7 DEF GoesOn
<1> QED BY <1>5, <1>7, <1>8, <1>9, GoingOnMirrors

\* What a human may make of a review whose summary stays is a review.
LEMMA ReviewedStaysValid ==
  ASSUME NEW a, {"pullRequest", "verdict", "summary", "comments"} \subseteq DOMAIN a, ReviewTextValid(a),
         NEW draft \in {NoEdits, BuildReviewEdits("approve", "given", <<>>),
                        BuildReviewEdits(a.verdict, "empty", a.comments)},
         NEW e, e = Merged(draft, a), draft = NoEdits => e = a, e.summary # "empty"
  PROVE  ReviewTextValid(e)
<1>1. ASSUME NEW verdict, NEW summary, NEW comments, draft = BuildReviewEdits(verdict, summary, comments)
      PROVE  /\ e.pullRequest = a.pullRequest /\ e.verdict = verdict /\ e.summary = summary
             /\ e.comments = comments
  <2>1. draft = [verdict |-> verdict, summary |-> summary, comments |-> comments]
    BY <1>1 DEF BuildReviewEdits
  <2>2. DOMAIN draft = {"verdict", "summary", "comments"} BY <2>1
  <2>3. draft["verdict"] = verdict /\ draft["summary"] = summary /\ draft["comments"] = comments BY <2>1
  <2>4. /\ e["pullRequest"] = a["pullRequest"] /\ e["verdict"] = verdict /\ e["summary"] = summary
        /\ e["comments"] = comments
    <3>1. "pullRequest" \in DOMAIN a \ DOMAIN draft BY <2>2
    <3> QED BY <2>2, <2>3, <3>1, DraftWins
  <2> QED BY <2>4
<1>2. CASE draft = NoEdits BY <1>2
<1>3. CASE draft = BuildReviewEdits("approve", "given", <<>>)
  <2>1. /\ e.pullRequest = a.pullRequest /\ e.verdict = "approve" /\ e.summary = "given"
        /\ e.comments = <<>>
    BY <1>1, <1>3
  <2>2. <<>> \in Seq(CommentPath) OBVIOUS
  <2> QED BY <2>1, <2>2 DEF ReviewTextValid, ReviewVerdict
<1>4. CASE draft = BuildReviewEdits(a.verdict, "empty", a.comments)
  <2>1. e.summary = "empty" BY <1>1, <1>4
  <2> QED BY <2>1
<1> QED BY <1>2, <1>3, <1>4

LEMMA AiReviewMirrors ==
  ASSUME lane = "review", NEW rec, Showing(rec, "review", 3, facts)
  PROVE  Mirrors(rec, 3)
<1> DEFINE shown == rec.art["ai-review"]
           required == {"verdict", "summary"}
           defaults == [pullRequest |-> "none", comments |-> <<>>, deltaOnly |-> FALSE]
           drafts == {BuildReviewEdits("approve", "given", <<>>),
                      BuildReviewEdits(shown.verdict, "empty", shown.comments)}
<1>0. /\ ReviewSteps[3] = "ai-review" /\ ReviewSteps[4] = "complete" /\ Len(StepsOf(lane)) = 4
      /\ Step(3) = "ai-review" /\ StepsOf(lane)[1] = "select-pr"
      /\ StepsOf(lane)[2] = "review-options" /\ StepsOf(lane)[3] = "ai-review"
  BY ReviewOpened, ReviewWalk DEF ReviewSteps
<1>1. ReviewTextValid(shown)
  <2>1. Contract(lane, "ai-review", shown) BY <1>0 DEF Showing
  <2> QED BY <1>0, <2>1, ReviewOpened DEF ReviewContract
<1>2. {"pullRequest", "verdict", "summary", "comments", "deltaOnly"} \subseteq DOMAIN shown
  <2>1. PICK st, C, a, v : a \in ComputeAiReview(st, Looked(facts, C)) /\ shown = WithField(a, "v", v)
    BY <1>0, ShownSays DEF From, Compute, ReviewCompute
  <2>2. {"pullRequest", "verdict", "summary", "comments", "deltaOnly"} \subseteq DOMAIN a
    BY <2>1 DEF ComputeAiReview
  <2> QED BY <2>1, <2>2 DEF WithField
<1>3. SurfaceOf(lane, "ai-review", shown) = Surface(Parsed(shown, required, defaults), drafts)
  <2>1. SurfaceOf(lane, "ai-review", shown) = ReviewSurface("ai-review", shown) BY <1>0, ReviewOpened
  <2> QED BY <2>1 DEF ReviewSurface, AiReviewSurface, ParseReview
<1>4. /\ required \union DOMAIN defaults \subseteq DOMAIN shown
      /\ "hidden" \notin required \union DOMAIN defaults
  BY <1>2
<1> HIDE DEF shown, drafts, defaults, required
<1>5. Pictured(lane, "ai-review", shown) /\ SurfaceOf(lane, "ai-review", shown).drafts = drafts
  BY <1>3, <1>4, SurfaceIsSaid
<1>6. ASSUME NEW draft \in {NoEdits} \union drafts, NEW e, e = Merged(draft, shown),
             draft = NoEdits => e = shown, LetThrough("ai-review", e), NEW st,
             EffectiveArtifact(st, "ai-review") = e, HasArtifact(st, "ai-review")
      PROVE  /\ Contract(lane, Step(3), e) /\ LaneGate(lane, Step(3), st, Known)
             /\ Compute(lane, Step(3 + 1), st, Known) # {}
  <2>1. ReviewTextValid(e)
    <3>1. e.summary # "empty" BY <1>6, ReviewIsWritten
    <3> QED BY <1>1, <1>2, <1>6, <3>1, ReviewedStaysValid DEF drafts
  <2>2. ReviewGate("ai-review", st) BY DEF ReviewGate
  <2>3. ReviewContract("ai-review", e) BY <2>1 DEF ReviewContract
  <2>4. ComputeReviewComplete(st) # {} BY <1>6, <2>1 DEF ComputeReviewComplete, Unless
  <2>5. ReviewCompute("complete", st, Known) # {} BY <2>4 DEF ReviewCompute
  <2> QED BY <1>0, <2>2, <2>3, <2>5, ReviewOpened
<1>7. Step(3) = "ai-review" /\ shown = rec.art[Step(3)] BY <1>0 DEF shown
<1>8. Showing(rec, lane, 3, facts) /\ Len(StepsOf(lane)) = 4 BY <1>0
<1>9. GoesOn(rec, 3, shown, drafts) BY <1>6, <1>7, <1>8 DEF GoesOn
<1> QED BY <1>5, <1>7, <1>8, <1>9, GoingOnMirrors

LEMMA ReviewCompleteMirrors ==
  ASSUME lane = "review", NEW rec, Showing(rec, "review", 4, facts)
  PROVE  Mirrors(rec, 4)
<1> DEFINE shown == rec.art["complete"]
           required == {"verdict", "summary"}
           defaults == [pullRequest |-> "none", comments |-> <<>>, deltaOnly |-> FALSE]
           drafts == {BuildReviewEdits("approve", "given", <<>>),
                      BuildReviewEdits(shown.verdict, "empty", shown.comments)}
<1>0. /\ ReviewSteps[4] = "complete" /\ Len(StepsOf(lane)) = 4 /\ Step(4) = "complete"
      /\ StepsOf(lane)[1] = "select-pr" /\ StepsOf(lane)[2] = "review-options"
      /\ StepsOf(lane)[3] = "ai-review" /\ StepsOf(lane)[4] = "complete"
  BY ReviewOpened, ReviewWalk DEF ReviewSteps
<1>1. ReviewTextValid(shown)
  <2>1. Contract(lane, "complete", shown) BY <1>0 DEF Showing
  <2> QED BY <1>0, <2>1, ReviewOpened DEF ReviewContract
<1>2. {"pullRequest", "verdict", "summary", "comments", "deltaOnly"} \subseteq DOMAIN shown
  <2>1. PICK st, C, a, v : a \in ComputeReviewComplete(st) /\ shown = WithField(a, "v", v)
    BY <1>0, ShownSays DEF From, Compute, ReviewCompute
  <2>2. {"pullRequest", "verdict", "summary", "comments", "deltaOnly"} \subseteq DOMAIN a
    BY <2>1 DEF ComputeReviewComplete, Unless, WithField
  <2> QED BY <2>1, <2>2 DEF WithField
<1>3. SurfaceOf(lane, "complete", shown) = Surface(Parsed(shown, required, defaults), drafts)
  <2>1. SurfaceOf(lane, "complete", shown) = ReviewSurface("complete", shown) BY <1>0, ReviewOpened
  <2> QED BY <2>1 DEF ReviewSurface, AiReviewSurface, ParseReview
<1>4. /\ required \union DOMAIN defaults \subseteq DOMAIN shown
      /\ "hidden" \notin required \union DOMAIN defaults
  BY <1>2
<1> HIDE DEF shown, drafts, defaults, required
<1>5. Pictured(lane, "complete", shown) /\ SurfaceOf(lane, "complete", shown).drafts = drafts
  BY <1>3, <1>4, SurfaceIsSaid
<1>6. ASSUME NEW draft \in {NoEdits} \union drafts, NEW e, e = Merged(draft, shown),
             draft = NoEdits => e = shown, LetThrough("complete", e), NEW st,
             EffectiveArtifact(st, "complete") = e, HasArtifact(st, "complete")
      PROVE  /\ Contract(lane, Step(4), e) /\ LaneGate(lane, Step(4), st, Known)
  <2>1. ReviewTextValid(e)
    <3>1. e.summary # "empty" BY <1>6, ReviewIsWritten
    <3> QED BY <1>1, <1>2, <1>6, <3>1, ReviewedStaysValid DEF drafts
  <2>2. ReviewGate("complete", st) BY DEF ReviewGate
  <2>3. ReviewContract("complete", e) BY <2>1 DEF ReviewContract
  <2> QED BY <1>0, <2>2, <2>3, ReviewOpened
<1>7. Step(4) = "complete" /\ shown = rec.art[Step(4)] BY <1>0 DEF shown
<1>8. Showing(rec, lane, 4, facts) /\ Len(StepsOf(lane)) = 4 BY <1>0
<1>9. GoesOn(rec, 4, shown, drafts) BY <1>6, <1>7, <1>8 DEF GoesOn
<1> QED BY <1>5, <1>7, <1>8, <1>9, GoingOnMirrors

LEMMA ReviewMirrors ==
  ASSUME lane = "review", facts \in FactsOf(lane), NEW rec, NEW i \in 1..Len(StepsOf(lane)),
         Showing(rec, lane, i, facts)
  PROVE  Mirrors(rec, i)
<1>1. i \in 1..4 /\ facts \in ReviewFacts BY ReviewWalk DEF FactsOf
<1> QED
  BY <1>1, SelectPrMirrors, ReviewOptionsMirrors, AiReviewMirrors, ReviewCompleteMirrors

-----------------------------------------------------------------------------
(***************************************************************************)
(* What an alert's ingestion found.                                        *)
(*                                                                         *)
(* The console ends a case that was seen before by what is looked up when  *)
(* it shows it, and the engine by what the ingested alert says.  They      *)
(* agree since a case once carried out stays so.                           *)
(***************************************************************************)

\* What rec stores of the ingestion is true of the history, then of every run's.
SeenIsKnown(rec, calls) ==
  rec.art["ingest"].v # 0 /\ rec.art["ingest"].seenBefore => \E c \in calls : c.sys = "case-history"

Remembers == lane = "security" => \A r \in Runs : SeenIsKnown(run[r], made)

LEMMA SeenIsCarried == SeenBefore(Known) <=> \E c \in made : c.sys = "case-history"
<1>1. Known.carried = {c.sys : c \in made} BY DEF Known, WithField
<1> QED BY <1>1 DEF SeenBefore

LEMMA OneRemembers ==
  ASSUME Remembers, NEW r \in Runs, NEW rec, Stores(r, rec), lane' = lane, made' = made,
         lane = "security" => SeenIsKnown(rec, made)
  PROVE  Remembers'
<1>1. ASSUME lane = "security", NEW q \in Runs PROVE SeenIsKnown(run'[q], made')
  <2>1. CASE q = r BY <1>1, <2>1 DEF Stores
  <2>2. CASE q # r BY <1>1, <2>2 DEF Stores, Remembers
  <2> QED BY <2>1, <2>2
<1>2. Remembers' <=> (lane' = "security" => \A q \in Runs : SeenIsKnown(run'[q], made'))
  BY DEF Remembers, Runs
<1> QED BY <1>1, <1>2

LEMMA AlertIsFirst == "ingest" \in StepsIn("security")
<1>1. 1 \in 1..6 OBVIOUS
<1> QED BY <1>1, SecurityWalk DEF StepsIn

\* Nothing is remembered of a run that has not come to its alert.
LEMMA NothingRemembered ==
  ASSUME NEW rec, NEW calls, rec.art = NewRun("security").art
  PROVE  SeenIsKnown(rec, calls)
<1>1. rec.art = [s \in StepsIn("security") |-> NoArtifact] BY DEF NewRun, StepsIn
<1>2. rec.art["ingest"].v = 0 BY <1>1, AlertIsFirst DEF NoArtifact
<1> QED BY <1>2 DEF SeenIsKnown

LEMMA EndPassRemembers ==
  ASSUME Inv, Remembers, NEW r \in Runs, NEW outcome, EndPass(r, outcome),
         lane' = lane, made' = made,
         outcome.status \in Ended \/ (lane = "security" => SeenIsKnown(outcome, made))
  PROVE  Remembers'
<1> DEFINE rec == IF run[r].status = "driving" THEN outcome ELSE run[r]
           over == rec.status \in Ended
           new == IF over THEN Cut(rec) ELSE rec
<1>1. run' = [run EXCEPT ![r] = new] BY DEF EndPass
<1>2. over \/ (lane = "security" => SeenIsKnown(rec, made)) BY DEF Remembers
<1> HIDE DEF rec
<1>3. over => new.art = NewRun(lane).art BY DEF Cut, NewRun
<1>4. ASSUME lane = "security" PROVE SeenIsKnown(new, made)
  <2>1. CASE over
    <3> HIDE DEF new
    <3> QED BY <1>3, <1>4, <2>1, NothingRemembered
  <2>2. CASE ~over BY <1>2, <1>4, <2>2
  <2> QED BY <2>1, <2>2
<1> HIDE DEF new
<1>5. Stores(r, new) BY <1>1 DEF Stores, Inv
<1> QED BY <1>4, <1>5, OneRemembers

LEMMA OnwardRemembers ==
  ASSUME Inv, Remembers, NEW r \in Runs, NEW st, Onward(r, st), lane' = lane, made' = made
  PROVE  Remembers'
<1>1. CASE IsLast(r)
  <2> DEFINE outcome == [WithEffects(run[r], st) EXCEPT !.status = "completed"]
  <2>1. EndPass(r, outcome) BY <1>1 DEF Onward
  <2>2. outcome.status = "completed" BY DEF Inv, Recorded, WithEffects
  <2> HIDE DEF outcome
  <2> QED BY <2>1, <2>2, EndPassRemembers DEF Ended
<1>2. CASE ~IsLast(r)
  <2>1. run' = run BY <1>2 DEF Onward
  <2> QED BY <2>1 DEF Remembers, Runs
<1> QED BY <1>1, <1>2

\* A record that keeps its artifacts keeps what they found.
LEMMA KeptRemembers ==
  ASSUME Inv, Remembers, NEW r \in Runs, NEW rec, run' = [run EXCEPT ![r] = rec],
         rec.art = run[r].art, lane' = lane, made' = made
  PROVE  Remembers'
<1>1. Stores(r, rec) BY DEF Stores, Inv
<1>2. lane = "security" => SeenIsKnown(rec, made) BY DEF Remembers, SeenIsKnown
<1> QED BY <1>1, <1>2, OneRemembers

LEMMA BackRemembers ==
  ASSUME Inv, Remembers, NEW r \in Runs, Back(r)
  PROVE  Remembers'
<1> DEFINE n == run[r].at - 1
           cut == InvalidateFrom(run[r], n)
           rec == [cut EXCEPT !.status = "driving"]
           Kept(s) == \E j \in 1..(n - 1) : s = Step(j)
<1>1. Recorded(run[r], lane) /\ run' = [run EXCEPT ![r] = rec] /\ lane' = lane /\ made' = made
  BY DEF Inv, Back
<1>2. /\ DOMAIN cut = DOMAIN run[r]
      /\ cut.art = [s \in StepSet |-> IF Kept(s) THEN run[r].art[s] ELSE NoArtifact]
  BY <1>1 DEF Recorded, InvalidateFrom
<1> HIDE DEF cut, Kept
<1>3. rec.art = cut.art BY <1>1, <1>2 DEF Recorded
<1>4. Stores(r, rec) BY <1>1 DEF Stores, Inv
<1> HIDE DEF rec
<1>5. ASSUME lane = "security" PROVE SeenIsKnown(rec, made)
  <2>1. "ingest" \in StepSet BY <1>5, AlertIsFirst DEF StepSet, StepsIn, Step
  <2>2. rec.art["ingest"] = run[r].art["ingest"] \/ rec.art["ingest"] = NoArtifact
    BY <1>2, <1>3, <2>1
  <2>3. NoArtifact.v = 0 BY DEF NoArtifact
  <2> QED BY <1>5, <2>2, <2>3 DEF Remembers, SeenIsKnown
<1> QED BY <1>1, <1>4, <1>5, OneRemembers

\* The alert is ingested with what was carried out so far.
LEMMA SuspendRemembers ==
  ASSUME Inv, AskedFor, Remembers, NEW r \in Runs, Suspend(r)
  PROVE  Remembers'
<1>1. PICK a \in Compute(lane, Here(r), eng[r].st, Known) :
        LET rec == [run[r] EXCEPT !.status = "review", !.at = eng[r].i, !.next = @ + 1,
                                  !.art[Here(r)] = WithField(a, "v", run[r].next)]
        IN EndPass(r, IF RepeatsEffects(lane) THEN WithEffects(rec, eng[r].st) ELSE rec)
  BY DEF Suspend
<1> DEFINE s == Here(r)
           new == WithField(a, "v", run[r].next)
           old == run[r]
           rec == [run[r] EXCEPT !.status = "review", !.at = eng[r].i, !.next = @ + 1, !.art[s] = new]
           outcome == IF RepeatsEffects(lane) THEN WithEffects(rec, eng[r].st) ELSE rec
<1>2. Recorded(old, lane) /\ Sent(old, eng[r], lane, facts) /\ lane' = lane /\ made' = made
  BY DEF Inv, AskedFor, Suspend
<1>3. DOMAIN old.art = StepsIn(lane) BY <1>2 DEF Sent
<1>4. DOMAIN rec = DOMAIN old /\ rec.art = [old.art EXCEPT ![s] = new] BY <1>2 DEF Recorded
<1>5. EndPass(r, outcome) BY <1>1
<1>6. outcome.art = rec.art BY <1>2, <1>4 DEF WithEffects, Recorded
<1> HIDE DEF s, new, old, rec, outcome
<1>7. ASSUME lane = "security" PROVE SeenIsKnown(outcome, made)
  <2>1. "ingest" \in DOMAIN old.art BY <1>3, <1>7, AlertIsFirst
  <2>2. CASE s = "ingest"
    <3>1. outcome.art["ingest"] = new BY <1>4, <1>6, <2>1, <2>2
    <3>2. a \in ComputeIngest(eng[r].st, Known) BY <1>7, <2>2 DEF Compute, SecurityCompute, s
    <3>3. a.seenBefore = SeenBefore(Known) BY <3>2 DEF ComputeIngest
    <3>4. "seenBefore" \in DOMAIN Fields(a) BY <3>2, IngestConforms DEF IngestArtifact
    <3>5. new.seenBefore = a.seenBefore BY <3>4, StillSays DEF new
    <3> QED BY <3>1, <3>3, <3>5, SeenIsCarried DEF SeenIsKnown
  <2>3. CASE s # "ingest"
    <3>1. outcome.art["ingest"] = old.art["ingest"] BY <1>4, <1>6, <2>1, <2>3
    <3> QED BY <1>7, <3>1 DEF Remembers, SeenIsKnown, old
  <2> QED BY <2>2, <2>3
<1> QED BY <1>2, <1>5, <1>7, EndPassRemembers

\* What was carried out stays so.
LEMMA MakeCallRemembers ==
  ASSUME Remembers, NEW r \in Runs, MakeCall(r)
  PROVE  Remembers'
<1>1. run' = run /\ lane' = lane /\ made \subseteq made' BY DEF MakeCall
<1>2. ASSUME lane = "security", NEW q \in Runs PROVE SeenIsKnown(run'[q], made')
  BY <1>1, <1>2 DEF Remembers, SeenIsKnown
<1>3. Remembers' <=> (lane' = "security" => \A q \in Runs : SeenIsKnown(run'[q], made'))
  BY DEF Remembers, Runs
<1> QED BY <1>1, <1>2, <1>3

LEMMA RemembersInit == Init => Remembers
<1> SUFFICES ASSUME Init, lane = "security", NEW r \in Runs PROVE SeenIsKnown(run[r], made)
  BY DEF Remembers
<1>1. run[r] = NewRun("security") BY DEF Init
<1> QED BY <1>1, NothingRemembered

LEMMA RemembersNext == Inv /\ AskedFor /\ Remembers /\ [Next]_vars => Remembers'
<1> SUFFICES ASSUME Inv, AskedFor, Remembers, [Next]_vars PROVE Remembers'
  OBVIOUS
<1>1. CASE UNCHANGED vars
  BY <1>1 DEF vars, Remembers, Runs
<1>2. ASSUME NEW r \in Runs,
             \/ StartRun(r) \/ Proceed(r) \/ ProceedByApi(r) \/ Regenerate(r) \/ Back(r)
             \/ Suspend(r) \/ Forward(r) \/ BeginEffect(r) \/ MakeCall(r) \/ EndEffect(r)
             \/ Throw(r) \/ Refuse(r) \/ Break(r) \/ GiveUp(r)
      PROVE  Remembers'
  <2>1. CASE StartRun(r) \/ GiveUp(r)
    <3>1. PICK status : run' = [run EXCEPT ![r].status = status]
      BY <2>1 DEF StartRun, GiveUp
    <3> DEFINE rec == [run[r] EXCEPT !.status = status]
    <3>2. run' = [run EXCEPT ![r] = rec] /\ rec.art = run[r].art /\ lane' = lane /\ made' = made
      BY <2>1, <3>1 DEF StartRun, GiveUp, Inv, Recorded
    <3> HIDE DEF rec
    <3> QED BY <3>2, KeptRemembers
  <2>2. CASE Proceed(r) \/ ProceedByApi(r) \/ Regenerate(r)
    <3>1. PICK decision : Resume(r, decision) BY <2>2 DEF Proceed, ProceedByApi, Regenerate
    <3> DEFINE rec == [run[r] EXCEPT !.status = "driving", !.dec[Step(run[r].at)] = decision]
    <3>2. run' = [run EXCEPT ![r] = rec] /\ rec.art = run[r].art /\ lane' = lane /\ made' = made
      BY <3>1 DEF Resume, Inv, Recorded
    <3> HIDE DEF rec
    <3> QED BY <3>2, KeptRemembers
  <2>3. CASE Back(r) BY <2>3, BackRemembers
  <2>4. CASE Suspend(r) BY <2>4, SuspendRemembers
  <2>5. CASE Forward(r) BY <2>5, OnwardRemembers DEF Forward
  <2>6. CASE BeginEffect(r)
    <3>1. run' = run /\ lane' = lane /\ made' = made BY <2>6 DEF BeginEffect
    <3> QED BY <3>1 DEF Remembers, Runs
  <2>7. CASE MakeCall(r) BY <2>7, MakeCallRemembers
  <2>8. CASE EndEffect(r)
    <3>1. PICK st : Onward(r, st) /\ lane' = lane /\ made' = made BY <2>8 DEF EndEffect
    <3> QED BY <3>1, OnwardRemembers
  <2>9. CASE Throw(r) \/ Refuse(r) \/ Break(r)
    <3> DEFINE outcome == [run[r] EXCEPT !.status = "failed"]
    <3>1. EndPass(r, outcome) /\ lane' = lane /\ made' = made
      BY <2>9 DEF Throw, Refuse, Break, FailPass
    <3>2. outcome.status \in Ended BY DEF Inv, Recorded, Ended
    <3> HIDE DEF outcome
    <3> QED BY <3>1, <3>2, EndPassRemembers
  <2> QED BY <1>2, <2>1, <2>2, <2>3, <2>4, <2>5, <2>6, <2>7, <2>8, <2>9
<1> QED BY <1>1, <1>2 DEF Next

\* In the security lane, while an ingested alert is stored that says it was seen
\* before, its case is in the history the console looks it up in: whatever is
\* regenerated, reopened or resumed, by any number of runs of the ticket.
THEOREM SeenAlertsAreKnown == Spec => []Remembers
<1> QED
  BY RemembersInit, RemembersNext, PassesFollowTheRecord, PassesAskForNothingElse, PTL DEF Spec

-----------------------------------------------------------------------------
(* The runs *)

\* A run in review shows what was computed from what stands.
LEMMA ReviewShows ==
  ASSUME Inv, AskedFor, Current, Lawful, Stands, NEW r \in Runs, run[r].status = "review",
         ByForms(run[r])
  PROVE  /\ run[r].at \in 1..Len(StepsOf(lane)) /\ Showing(run[r], lane, run[r].at, facts)
         /\ lane \in AllLanes /\ facts \in FactsOf(lane)
<1> DEFINE rec == run[r]
           j == run[r].at
<1>1. /\ lane \in AllLanes /\ facts \in FactsOf(lane) /\ j \in 1..Len(StepsOf(lane))
      /\ Derived(rec, lane) /\ Made(rec, lane, facts) /\ Reached(rec, lane, facts)
      /\ rec.art[StepsOf(lane)[j]].v # 0
  <2>1. Sent(run[r], eng[r], lane, facts) BY DEF AskedFor
  <2>2. Recorded(run[r], lane) BY DEF Inv
  <2>3. rec.art[StepsOf(lane)[j]].v # 0 BY <2>1 DEF Sent, Step
  <2> QED BY <2>2, <2>3 DEF Inv, AskedFor, Current, Lawful, OneLawful, Stands, Standing, Recorded
<1>6. \A u \in StepsIn(lane) : HandedIn(rec, lane, u) BY DEF ByForms, StepSet, StepsIn, Step
<1> HIDE DEF rec, j
<1>2. /\ \A k \in 1..(j - 1) : IsForward(rec.dec[StepsOf(lane)[k]])
      /\ PassedTo(rec, lane, j - 1, facts)
      /\ Computed(rec, lane, j, facts)
  BY <1>1 DEF Derived, Made, Reached
<1>3. ASSUME NEW k \in 1..(j - 1)
      PROVE  /\ IsForward(rec.dec[StepsOf(lane)[k]]) /\ Computed(rec, lane, k, facts)
             /\ HandedIn(rec, lane, StepsOf(lane)[k]) /\ PassedOn(rec, lane, k, facts)
  <2>1. k \in 1..Len(StepsOf(lane)) BY <1>1, HasSteps
  <2>2. PassedOn(rec, lane, k, facts) BY <1>2 DEF PassedTo
  <2>3. HandedIn(rec, lane, StepsOf(lane)[k]) BY <1>6, <2>1 DEF StepsIn
  <2> QED BY <1>1, <1>2, <2>1, <2>2, <2>3 DEF Made, PassedOn
<1>4. Approved(rec, lane, j - 1, facts) BY <1>3 DEF Approved
<1>5. Contract(lane, StepsOf(lane)[j], rec.art[StepsOf(lane)[j]])
  BY <1>1, <1>2, <1>4, StoredConforms
<1> QED BY <1>1, <1>2, <1>4, <1>5 DEF Showing, rec, j

\* What mirrors the flow in a record does so in its run.
LEMMA MirrorsRun ==
  ASSUME Inv, NEW r \in Runs, run[r].at \in 1..Len(StepsOf(lane)), lane \in AllLanes,
         Showing(run[r], lane, run[r].at, facts), Mirrors(run[r], run[r].at)
  PROVE  LET s == Step(run[r].at)
             shown == run[r].art[s]
             surface == SurfaceOf(lane, s, shown)
             After(draft) == [Envelope(run[r]) EXCEPT !.dec[s] = BuildProceed(shown, draft)]
         IN /\ surface.view # NoView /\ \A f \in DOMAIN surface.view : surface.view[f] = shown[f]
            /\ (\A j \in 1..(run[r].at - 1) :
                  LetThrough(Step(j), EffectiveArtifact(Envelope(run[r]), Step(j)))) =>
                 \A draft \in {NoEdits} \union surface.drafts : LetThrough(s, Merged(draft, shown)) =>
                   /\ Gate(lane, s, After(draft), Known)
                   /\ run[r].at < Len(StepsOf(lane)) =>
                        Compute(lane, Step(run[r].at + 1), After(draft), Known) # {}
<1> DEFINE rec == run[r]
           i == run[r].at
           s == Step(i)
           shown == rec.art[s]
           After(draft) == [Envelope(rec) EXCEPT !.dec[s] = BuildProceed(shown, draft)]
<1>1. Pictured(lane, s, shown) BY DEF Mirrors
<1>2. Recorded(rec, lane) BY DEF Inv
<1>3. s \in DOMAIN rec.dec /\ s = StepsOf(lane)[i] BY <1>2 DEF Recorded, StepsIn, Step
<1>4. s \notin Prior(lane, i) /\ Prior(lane, i) \subseteq DOMAIN rec.dec
  <2>1. Differ(StepsOf(lane)) BY StepsDiffer
  <2>2. Len(StepsOf(lane)) \in Nat /\ i \in 1..Len(StepsOf(lane)) BY HasSteps
  <2>3. ASSUME NEW k \in 1..(i - 1) PROVE StepsOf(lane)[k] # StepsOf(lane)[i]
    <3>1. k \in 1..Len(StepsOf(lane)) /\ k # i BY <2>2
    <3> QED BY <2>1, <2>2, <3>1 DEF Differ
  <2>4. ASSUME NEW k \in 1..(i - 1) PROVE StepsOf(lane)[k] \in DOMAIN rec.dec
    <3>1. k \in 1..Len(StepsOf(lane)) BY <2>2
    <3> QED BY <1>2, <3>1 DEF Recorded, StepsIn
  <2> QED BY <1>3, <2>3, <2>4 DEF Prior
<1> HIDE DEF rec, i, s
<1>5. ASSUME NEW draft
      PROVE  /\ After(draft).art = rec.art
             /\ After(draft).dec = [rec.dec EXCEPT ![s] = BuildProceed(shown, draft)]
  BY <1>3 DEF Envelope
<1> HIDE DEF After
<1>6. ASSUME \A j \in 1..(i - 1) : LetThrough(Step(j), EffectiveArtifact(Envelope(rec), Step(j))),
             NEW draft \in {NoEdits} \union SurfaceOf(lane, s, shown).drafts,
             LetThrough(s, Merged(draft, shown))
      PROVE  /\ Gate(lane, s, After(draft), Known)
             /\ i < Len(StepsOf(lane)) => Compute(lane, Step(i + 1), After(draft), Known) # {}
  <2> DEFINE st == After(draft)
  <2>1. LetBy(rec, i)
    <3>1. \A u : EffectiveArtifact(Envelope(rec), u) = EffectiveArtifact(rec, u)
      BY DEF EffectiveArtifact, Envelope
    <3> QED BY <1>6, <3>1 DEF LetBy
  <2>2. st.art = rec.art /\ st.dec[s] = BuildProceed(shown, draft)
    <3> HIDE DEF shown
    <3>1. st.art = rec.art /\ st.dec = [rec.dec EXCEPT ![s] = BuildProceed(shown, draft)]
      BY <1>5
    <3> QED BY <1>3, <3>1
  <2>3. \A u \in Prior(lane, i) : st.dec[u] = rec.dec[u] BY <1>4, <1>5
  <2> HIDE DEF st
  <2>4. Shows(st, rec, lane, i) BY <2>2, <2>3 DEF Shows, EffectiveArtifact, HasArtifact
  <2>5. EffectiveArtifact(st, s) = Merged(draft, shown)
    <3>1. CASE Merged(draft, shown) = shown
      BY <2>2, <3>1 DEF BuildProceed, EffectiveArtifact
    <3>2. CASE Merged(draft, shown) # shown
      BY <2>2, <3>2 DEF BuildProceed, EffectiveArtifact
    <3> QED BY <3>1, <3>2
  <2>6. HasArtifact(st, s) BY <1>3, <2>2 DEF Showing, HasArtifact, rec, i
  <2>7. Resumes(st, rec, lane, i, draft) BY <1>3, <2>2, <2>4, <2>5, <2>6 DEF Resumes
  <2>8. Goes(i, st, Merged(draft, shown))
    <3>1. Mirrors(rec, i) BY DEF rec, i
    <3> QED BY <1>6, <2>1, <2>7, <3>1 DEF Mirrors, s
  <2>9. Gate(lane, s, st, Known)
    <3>1. Filled(lane, s, st, Known) = {st} BY <2>6 DEF Filled
    <3>2. Contract(lane, s, EffectiveArtifact(st, s)) /\ LaneGate(lane, s, st, Known)
      BY <2>5, <2>8 DEF Goes, s
    <3> QED BY <3>1, <3>2 DEF Gate
  <2>10. i < Len(StepsOf(lane)) => Compute(lane, Step(i + 1), st, Known) # {}
    <3>1. ASSUME i < Len(StepsOf(lane)) PROVE i # Len(StepsOf(lane))
      <4>1. Len(StepsOf(lane)) \in Nat /\ i \in Int BY HasSteps DEF i
      <4> QED BY <3>1, <4>1
    <3> QED BY <2>8, <3>1 DEF Goes
  <2> QED BY <2>9, <2>10 DEF st
<1> QED BY <1>1, <1>6 DEF Pictured, After, s, i, rec

\* In every lane but the two whose drafts only the API takes.
LEMMA LaneMirrors ==
  ASSUME lane \in AllLanes \ {"msp", "bills"}, facts \in FactsOf(lane),
         NEW rec, NEW i \in 1..Len(StepsOf(lane)), Showing(rec, lane, i, facts),
         lane = "security" => SeenIsKnown(rec, made)
  PROVE  Mirrors(rec, i)
<1>1. CASE lane = "security"
  <2>1. rec.art["ingest"].v # 0 /\ rec.art["ingest"].seenBefore => SeenBefore(Known)
    BY <1>1, SeenIsCarried DEF SeenIsKnown
  <2> QED BY <1>1, <2>1, SecurityMirrors
<1>2. CASE lane = "features" BY <1>2, FeaturesMirror
<1>3. CASE lane = "issues" BY <1>3, IssuesMirror
<1>4. CASE lane = "dependencies" BY <1>4, DependenciesMirror
<1>5. CASE lane = "accessibility" BY <1>5, AccessibilityMirrors
<1>6. CASE lane = "vendors" BY <1>6, VendorsMirror
<1>7. CASE lane = "onboarding" BY <1>7, OnboardingMirrors
<1>8. CASE lane = "offboarding" BY <1>8, OffboardingMirrors
<1>9. CASE lane = "screening" BY <1>9, ScreeningMirrors
<1>10. CASE lane = "leave" BY <1>10, LeaveMirrors
<1>11. CASE lane = "hr-help" BY <1>11, HrHelpMirrors
<1>12. CASE lane = "review" BY <1>12, ReviewMirrors
<1> QED
  BY <1>1, <1>2, <1>3, <1>4, <1>5, <1>6, <1>7, <1>8, <1>9, <1>10, <1>11, <1>12 DEF AllLanes

\* The console shows what is stored of every artifact in review (its parsers
\* read every field they need), and a draft it lets through, after steps it let
\* through, passes the gate of its step in the engine and leaves the next step
\* something to compute, when it is none of the dead ends and its case does not
\* end there: in each of the twelve lanes whose drafts the console makes, for
\* any number of runs, changes and faults, of records edited by the forms.
THEOREM ConsoleKeepsUp == Spec => []ConsoleMirrorsFlow
<1>1. Inv /\ AskedFor /\ Current /\ Lawful /\ Stands /\ Remembers => ConsoleMirrorsFlow
  <2> SUFFICES ASSUME Inv, AskedFor, Current, Lawful, Stands, Remembers PROVE ConsoleMirrorsFlow
    OBVIOUS
  <2>1. ASSUME NEW r \in Runs, run[r].status = "review", lane \notin {"msp", "bills"},
               ByForms(run[r])
        PROVE  /\ run[r].at \in 1..Len(StepsOf(lane)) /\ Showing(run[r], lane, run[r].at, facts)
               /\ Mirrors(run[r], run[r].at) /\ lane \in AllLanes
    <3>1. /\ run[r].at \in 1..Len(StepsOf(lane)) /\ Showing(run[r], lane, run[r].at, facts)
          /\ lane \in AllLanes /\ facts \in FactsOf(lane)
      BY <2>1, ReviewShows
    <3>2. lane = "security" => SeenIsKnown(run[r], made) BY DEF Remembers
    <3> QED BY <2>1, <3>1, <3>2, LaneMirrors
  <2> QED BY <2>1, MirrorsRun DEF ConsoleMirrorsFlow
<1> QED
  BY <1>1, PassesFollowTheRecord, PassesAskForNothingElse, StoredIsDerived, EverythingIsLawful,
     WhatIsStoredWasReached, SeenAlertsAreKnown, PTL
=============================================================================

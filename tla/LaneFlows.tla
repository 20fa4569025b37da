------------------------------ MODULE LaneFlows ------------------------------
(***************************************************************************)
(* The lanes side by side: what each lane gives the run that walks it.     *)
(* known is what a step can look up: the facts of the case, and carried,   *)
(* the systems that already carried out a call for it.                     *)
(***************************************************************************)
EXTENDS SecurityFlow, MspFlow, FeaturesFlow, IssuesFlow, DependenciesFlow, AccessibilityFlow,
        VendorsFlow, OnboardingFlow, OffboardingFlow, ScreeningFlow, LeaveFlow, HrHelpFlow,
        BillsFlow, ReviewFlow

AllLanes ==
  {"security", "msp", "features", "issues", "dependencies", "accessibility", "vendors",
   "onboarding", "offboarding", "screening", "leave", "hr-help", "bills", "review"}

StepsOf(lane) ==
  CASE lane = "security" -> SecuritySteps
    [] lane = "msp" -> MspSteps
    [] lane = "features" -> FeaturesSteps
    [] lane = "issues" -> IssuesSteps
    [] lane = "dependencies" -> DependenciesSteps
    [] lane = "accessibility" -> AccessibilitySteps
    [] lane = "vendors" -> VendorsSteps
    [] lane = "onboarding" -> OnboardingSteps
    [] lane = "offboarding" -> OffboardingSteps
    [] lane = "screening" -> ScreeningSteps
    [] lane = "leave" -> LeaveSteps
    [] lane = "hr-help" -> HrHelpSteps
    [] lane = "bills" -> BillsSteps
    [] lane = "review" -> ReviewSteps

\* What a lane's input and directories say of the case, for a whole behaviour.
FactsOf(lane) ==
  CASE lane = "security" -> SecurityFacts
    [] lane = "msp" -> MspFacts
    [] lane = "features" -> FeaturesFacts
    [] lane = "issues" -> IssuesFacts
    [] lane = "dependencies" -> DependenciesFacts
    [] lane = "accessibility" -> AccessibilityFacts
    [] lane = "vendors" -> VendorsFacts
    [] lane = "onboarding" -> OnboardingFacts
    [] lane = "offboarding" -> OffboardingFacts
    [] lane = "screening" -> ScreeningFacts
    [] lane = "leave" -> LeaveFacts
    [] lane = "hr-help" -> HrHelpFacts
    [] lane = "bills" -> BillsFacts
    [] lane = "review" -> ReviewFacts

\* The artifacts a step may suspend with.
Compute(lane, s, st, known) ==
  CASE lane = "security" -> SecurityCompute(s, st, known)
    [] lane = "msp" -> MspCompute(s, st, known)
    [] lane = "features" -> FeaturesCompute(s, st, known)
    [] lane = "issues" -> IssuesCompute(s, st, known)
    [] lane = "dependencies" -> DependenciesCompute(s, st, known)
    [] lane = "accessibility" -> AccessibilityCompute(s, st, known)
    [] lane = "vendors" -> VendorsCompute(s, st, known)
    [] lane = "onboarding" -> OnboardingCompute(s, st, known)
    [] lane = "offboarding" -> OffboardingCompute(s, st, known)
    [] lane = "screening" -> ScreeningCompute(s, st, known)
    [] lane = "leave" -> LeaveCompute(s, st, known)
    [] lane = "hr-help" -> HrHelpCompute(s, st, known)
    [] lane = "bills" -> BillsCompute(s, st, known)
    [] lane = "review" -> ReviewCompute(s, st, known)

\* Whether an artifact satisfies the schema its step parses it with.
Contract(lane, s, a) ==
  CASE lane = "security" -> Conforms(a, SecurityContract(s))
    [] lane = "msp" -> MspContract(s, a)
    [] lane = "vendors" -> Conforms(a, VendorsContract(s))
    [] lane = "onboarding" -> Conforms(a, OnboardingContract(s))
    [] lane = "offboarding" -> Conforms(a, OffboardingContract(s, a))
    [] lane = "screening" -> Conforms(a, ScreeningContract(s, a))
    [] lane = "leave" -> Conforms(a, LeaveContract(s))
    [] lane = "hr-help" -> Conforms(a, HrHelpContract(s, a))
    [] lane = "bills" -> BillsContract(s, a)
    [] lane = "features" -> FeaturesContract(s, a)
    [] lane = "issues" -> IssuesContract(s, a)
    [] lane = "dependencies" -> DependenciesContract(s, a)
    [] lane = "accessibility" -> AccessibilityContract(s, a)
    [] lane = "review" -> ReviewContract(s, a)

\* `effectiveArtifact(...) ?? compute(...)`: a forwarded step without a stored
\* artifact goes on with a computed one, which it does not store.
OneOf(S) == {x \in S : x = CHOOSE y \in S : TRUE}
Filled(lane, s, st, known) ==
  IF HasArtifact(st, s) THEN {st}
  ELSE {[st EXCEPT !.art[s] = Merged(NoArtifact, a)] : a \in OneOf(Compute(lane, s, st, known))}

LaneGate(lane, s, st, known) ==
  CASE lane = "security" -> SecurityGate(s, st, known)
    [] lane = "msp" -> MspGate(s, st)
    [] lane = "features" -> FeaturesGate(s, st)
    [] lane = "issues" -> IssuesGate(s, st)
    [] lane = "dependencies" -> DependenciesGate(s, st)
    [] lane = "accessibility" -> AccessibilityGate(s, st)
    [] lane = "vendors" -> VendorsGate(s, st)
    [] lane = "onboarding" -> OnboardingGate(s, st)
    [] lane = "offboarding" -> OffboardingGate(s, st)
    [] lane = "screening" -> ScreeningGate(s, st)
    [] lane = "leave" -> LeaveGate(s, st)
    [] lane = "hr-help" -> HrHelpGate(s, st)
    [] lane = "bills" -> BillsGate(s, st)
    [] lane = "review" -> ReviewGate(s, st)

\* When the forward branch of a step does not throw.
Gate(lane, s, st, known) ==
  \E filled \in Filled(lane, s, st, known) :
    /\ Contract(lane, s, EffectiveArtifact(filled, s))
    /\ LaneGate(lane, s, filled, known)

LaneWrites(lane, s, st, known, deskDedupes) ==
  CASE lane = "security" -> SecurityWrites(s, st)
    [] lane = "msp" -> MspWrites(s, st, known, deskDedupes)
    [] lane = "features" -> FeaturesWrites(s, st)
    [] lane = "issues" -> IssuesWrites(s, st)
    [] lane = "dependencies" -> DependenciesWrites(s, st)
    [] lane = "accessibility" -> AccessibilityWrites(s, st)
    [] lane = "vendors" -> VendorsWrites(s, st)
    [] lane = "onboarding" -> OnboardingWrites(s, st)
    [] lane = "offboarding" -> OffboardingWrites(s, st, known)
    [] lane = "screening" -> ScreeningWrites(s, st, known)
    [] lane = "leave" -> LeaveWrites(s, st)
    [] lane = "hr-help" -> HrHelpWrites(s, st)
    [] lane = "bills" -> BillsWrites(s, st)
    [] lane = "review" -> ReviewWrites(s, st, known)

\* The calls the effect of a decided step makes, in order.
Writes(lane, s, st, known, deskDedupes) ==
  LaneWrites(lane, s, CHOOSE filled \in Filled(lane, s, st, known) : TRUE, known, deskDedupes)

\* Whether a decided step has an effect to record: a revocation and a round of
\* invites have one even when none of their calls gets through.
HasEffect(lane, s, calls) ==
  calls # <<>> \/ <<lane, s>> \in {<<"offboarding", "revoke">>, <<"screening", "schedule">>}

\* The action an effect is recorded for: the approved artifact of the step,
\* unless the lane identifies it otherwise.
ActionHash(lane, s, st) ==
  CASE lane = "msp" -> MspHash(s, st)
    [] OTHER -> <<s, Mark(st, s)>>

\* Lanes whose resume unions the effects of the snapshot with the envelope's.
UnionsEffects(lane) == lane \in {"msp", "bills", "offboarding", "screening", "hr-help"}

\* Wrong on purpose: no suspend payload repeats the effects.
RepeatsNothing(lane) == FALSE

\* Lanes whose suspend payload repeats the effects recorded so far.
RepeatsEffects(lane) == lane \in {"msp", "bills"}

\* What the console shows of an artifact, and what a human may hand in with
\* Proceed besides the artifact as it is.
SurfaceOf(lane, s, a) ==
  CASE lane = "security" -> SecuritySurface(s, a)
    [] lane = "msp" -> Surface(Fields(a), MspDrafts(s))
    [] lane = "features" -> FeaturesSurface(s, a)
    [] lane = "issues" -> IssuesSurface(s, a)
    [] lane = "dependencies" -> DependenciesSurface(s, a)
    [] lane = "accessibility" -> AccessibilitySurface(s, a)
    [] lane = "vendors" -> VendorsSurface(s, a)
    [] lane = "onboarding" -> OnboardingSurface(s, a)
    [] lane = "offboarding" -> OffboardingSurface(s, a)
    [] lane = "screening" -> ScreeningSurface(s, a)
    [] lane = "leave" -> LeaveSurface(s, a)
    [] lane = "hr-help" -> HrHelpSurface(s, a)
    [] lane = "bills" -> BillsSurface(s, a)
    [] lane = "review" -> ReviewSurface(s, a)

\* What a client of the API hands in besides, in the fields the forms open.
ApiDrafts(lane, s, a) ==
  CASE lane = "dependencies" -> DependenciesApiDrafts(s, a)
    [] lane = "accessibility" -> AccessibilityApiDrafts(s, a)
    [] OTHER -> {}

\* Edits of the fields that no form opens: the API takes any edits, and a flow
\* merges them under nothing but the contract of the step.
FreeEdits(lane, s, a) ==
  CASE lane = "security" -> SecurityFreeEdits(s, a)
    [] lane = "msp" -> MspFreeEdits(s, a)
    [] lane = "features" -> FeaturesFreeEdits(s, a)
    [] lane = "issues" -> IssuesFreeEdits(s, a)
    [] lane = "dependencies" -> DependenciesFreeEdits(s, a)
    [] lane = "accessibility" -> AccessibilityFreeEdits(s, a)
    [] lane = "vendors" -> VendorsFreeEdits(s, a)
    [] lane = "onboarding" -> OnboardingFreeEdits(s, a)
    [] lane = "offboarding" -> OffboardingFreeEdits(s, a)
    [] lane = "screening" -> ScreeningFreeEdits(s, a)
    [] lane = "leave" -> LeaveFreeEdits(s, a)
    [] lane = "hr-help" -> HrHelpFreeEdits(s, a)
    [] lane = "bills" -> BillsFreeEdits(s, a)
    [] lane = "review" -> ReviewFreeEdits(s, a)

\* When the console disables Proceed on a draft.
Blocked(lane, s, a) ==
  CASE lane = "security" -> SecurityBlocked(s, a)
    [] lane = "features" -> FeaturesBlocked(s, a)
    [] lane = "dependencies" -> DependenciesBlocked(s, a)
    [] lane = "accessibility" -> AccessibilityBlocked(s, a)
    [] lane = "vendors" -> VendorsBlocked(s, a)
    [] lane = "onboarding" -> OnboardingBlocked(s, a)
    [] lane = "offboarding" -> OffboardingBlocked(s, a)
    [] lane = "screening" -> ScreeningBlocked(s, a)
    [] lane = "hr-help" -> HrHelpBlocked(s, a)
    [] lane = "review" -> ReviewBlocked(s, a)
    [] OTHER -> FALSE

\* What a lane promises of a call it makes, beyond the approvals every lane
\* asks for.
PolicyHolds(lane, s, st, call, known) ==
  CASE lane = "security" -> SecurityPolicy(st, call, known)
    [] lane = "msp" -> MspPolicy(st, call)
    [] lane = "features" -> FeaturesPolicy(st, call)
    [] lane = "issues" -> IssuesPolicy(st, call)
    [] lane = "dependencies" -> DependenciesPolicy(st, call)
    [] lane = "accessibility" -> AccessibilityPolicy(st, call)
    [] lane = "vendors" -> VendorsPolicy(st)
    [] lane = "onboarding" -> OnboardingPolicy(st, call, known)
    [] lane = "offboarding" -> OffboardingPolicy(s, st, call, known)
    [] lane = "screening" -> ScreeningPolicy(st, call)
    [] lane = "leave" -> LeavePolicy(st, call)
    [] lane = "hr-help" -> HrHelpPolicy(st, call)
    [] lane = "bills" -> BillsPolicy(st, call, known)
    [] lane = "review" -> ReviewPolicy(st, call, known)
==============================================================================

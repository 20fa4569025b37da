---------------------------- MODULE FeaturesFlow ----------------------------
(***************************************************************************)
(* The features lane, src/src/mastra/agents/features/flow.ts:              *)
(* feature-selection, scope-design, implementation, complete (a draft pull *)
(* request on the branch of the ticket).                                   *)
(***************************************************************************)
EXTENDS PatchOps

FeaturesSteps == <<"feature-selection", "scope-design", "implementation", "complete">>

-----------------------------------------------------------------------------
(* The contracts *)

FeatureTickets == {"own", "other"}
AcceptanceCriteria == {"ac1", "ac2"}
FeatureAreas == {"ui", "api-data", "state-logic", "tests", "docs-flags"}
FeatureVerdicts == {"ready", "needs_attention"}
FeatureBranchFor(ticket) == <<"feat", ticket>>

\* A file of a plan, at one of the paths the engineer may name.
FeatureFile ==
  [path : {"app", "doc", "test", "migration", "secret"}, area : FeatureAreas,
   criteria : SUBSET AcceptanceCriteria, content : {"good", "edited", "broken"}, included : BOOLEAN]

FeatureSelectionValid(a) ==
  /\ a.ticket \in FeatureTickets /\ a.maxChangedFiles \in 1..MaxChangedFiles
  /\ a.criteria \in (SUBSET AcceptanceCriteria) \ {{}} /\ a.included \subseteq a.criteria
ScopeDesignValid(a) == a.ticket \in FeatureTickets /\ a.areas \subseteq FeatureAreas
FeatureImplementationValid(a) ==
  /\ a.ticket \in FeatureTickets /\ a.verdict \in FeatureVerdicts /\ a.passed \in BOOLEAN
  /\ a.areas \subseteq FeatureAreas /\ DOMAIN a.coverage # {}
  /\ Len(a.files) \in 1..MaxChangedFiles /\ FilesOf(a.files) \subseteq FeatureFile
FeatureCompletionValid(a) ==
  /\ a.ticket \in FeatureTickets /\ a.passed \in BOOLEAN
  /\ Len(a.paths) \in 1..MaxChangedFiles /\ DOMAIN a.coverage # {}

FeaturesContract(s, a) ==
  CASE s = "feature-selection" -> FeatureSelectionValid(a)
    [] s = "scope-design" -> ScopeDesignValid(a)
    [] s = "implementation" -> FeatureImplementationValid(a)
    [] s = "complete" -> FeatureCompletionValid(a)

-----------------------------------------------------------------------------
(* The steps *)

\* The input: the acceptance criteria of the ticket, if it has some, and
\* whether the repository it names is allowed.
FeaturesFacts ==
  LET Input(criteria, listed) == [criteria |-> criteria, listed |-> listed]
  IN {Input({"ac1", "ac2"}, TRUE), Input({}, FALSE)}

\* A ticket without criteria has them drafted; when the drafter fails, its
\* description is the only one.
CriteriaFor(known) == IF known.criteria # {} THEN {known.criteria} ELSE {{"ac1"}, {"ac1", "ac2"}}

ComputeFeatureSelection(st, known) ==
  Unless(~known.listed,
    {[ticket |-> "own", criteria |-> criteria, included |-> criteria,
      maxChangedFiles |-> DefaultChangedFiles, from |-> DerivedFrom(st, {})]
     : criteria \in CriteriaFor(known)})

FeaturePlannerAnswers == {{"ui", "tests"}, {}}

ComputeScopeDesign(st) ==
  Unless(~HasArtifact(st, "feature-selection"),
    {[ticket |-> EffectiveArtifact(st, "feature-selection").ticket, areas |-> areas,
      from |-> DerivedFrom(st, {"feature-selection"})]
     : areas \in ContractOutput(FeaturePlannerAnswers, (SUBSET FeatureAreas) \ {{}})})

\* The engineer leaves a file broken, works in an area that is off and goes over
\* the limit to a destructive path, or goes outside the policy.
FeatureEngineerAnswers ==
  LET File(path, area, criteria, content) ==
        [path |-> path, area |-> area, criteria |-> criteria, content |-> content, included |-> TRUE]
      Answer(verdict, files) == [verdict |-> verdict, files |-> files]
      App(content) == File("app", "ui", {"ac1"}, content)
      Test == File("test", "tests", {"ac2"}, "good")
  IN {Answer("needs_attention", <<App("broken")>>),
      Answer("ready", <<App("good"), File("doc", "docs-flags", {"ac1"}, "good"), Test,
                        File("migration", "ui", {"ac2"}, "good")>>),
      Answer("ready", <<App("good"), File("secret", "ui", {}, "good")>>)}

\* The path of the first file that lists a criterion.
EvidenceFor(criterion, files) ==
  LET matching == SelectSeq(files, LAMBDA file : criterion \in file.criteria)
  IN IF matching = <<>> THEN "none" ELSE matching[1].path

(***************************************************************************)
(* What is in an enabled area is taken, up to the limit.  A proposal that  *)
(* goes outside the path policy in one, or has no file in any, throws; one *)
(* that fails validation is asked for once more, and the second answer     *)
(* stands, passed or not.                                                  *)
(***************************************************************************)
ComputeImplementation(st) ==
  LET selection == EffectiveArtifact(st, "feature-selection")
      scope == EffectiveArtifact(st, "scope-design")
      Enabled(answer) ==
        Selected(answer.files, {file \in FilesOf(answer.files) : file.area \in scope.areas})
      Writable(answer) == Enabled(answer) # <<>> /\ \A p \in PathsOf(Enabled(answer)) : AllowsPath(p)
      Implementation(verdict, files) ==
        [ticket |-> scope.ticket, areas |-> scope.areas, verdict |-> verdict, files |-> files,
         coverage |-> [c \in selection.included |-> EvidenceFor(c, files)],
         passed |-> Validates(files),
         from |-> DerivedFrom(st, {"feature-selection", "scope-design"})]
      missing == ~HasArtifact(st, "feature-selection") \/ ~HasArtifact(st, "scope-design")
  IN IF missing THEN {}
     ELSE Unless(selection.included = {} \/ scope.areas = {},
            {Implementation(answer.verdict, FirstOf(Enabled(answer), selection.maxChangedFiles))
               : answer \in {x \in FeatureEngineerAnswers : Writable(x)}})

FeaturePatch(implementation) == PatchFilesInPlan(implementation.files)

ComputeCompletion(st) ==
  LET implementation == EffectiveArtifact(st, "implementation")
      kept == FeaturePatch(implementation)
  IN IF ~HasArtifact(st, "feature-selection") \/ ~HasArtifact(st, "implementation") THEN {}
     ELSE {[ticket |-> implementation.ticket, passed |-> implementation.passed,
            branch |-> FeatureBranchFor(implementation.ticket),
            paths |-> [i \in 1..Len(kept) |-> kept[i].path], coverage |-> implementation.coverage,
            from |-> DerivedFrom(st, {"feature-selection", "implementation"})]}

FeaturesCompute(s, st, known) ==
  CASE s = "feature-selection" -> ComputeFeatureSelection(st, known)
    [] s = "scope-design" -> ComputeScopeDesign(st)
    [] s = "implementation" -> ComputeImplementation(st)
    [] s = "complete" -> ComputeCompletion(st)

\* Bytes a human edited are validated again; the computed ones are not.  The
\* writer's gate is passed when everything is approved.
FeaturesGate(s, st) ==
  LET plan == FeaturePatch(EffectiveArtifact(st, "implementation")) IN
  CASE s = "implementation" -> st.dec[s].action = "edit" => ~EditViolations(plan)
    [] s = "complete" -> HasArtifact(st, "implementation") /\ Preflights(plan)
    [] OTHER -> TRUE

\* The files left in the approved implementation, on the branch the approved
\* completion names, with a body that is the completion's.
DraftPullRequest(st) ==
  LET completion == EffectiveArtifact(st, "complete")
      files == FeaturePatch(EffectiveArtifact(st, "implementation"))
  IN ApplyPatch(completion.branch, files, [files |-> files, body |-> Fields(completion)])

FeaturesWrites(s, st) == IF s = "complete" THEN DraftPullRequest(st) ELSE <<>>

\* What is pushed is what the completion lists, in the areas and within the
\* limit a human set, for the ticket the human picked; unless the completion
\* says that its validation failed, it passes.
FeaturesPolicy(st, call) ==
  LET selection == EffectiveArtifact(st, "feature-selection")
      files == call.what.files
  IN /\ call.key[1] = FeatureBranchFor(selection.ticket)
     /\ Len(files) <= selection.maxChangedFiles
     /\ \A file \in FilesOf(files) : file.area \in EffectiveArtifact(st, "scope-design").areas
     /\ call.what.body.paths = [i \in 1..Len(files) |-> files[i].path]
     /\ call.what.body.passed => Validates(files)

-----------------------------------------------------------------------------
(* The console's side *)

\* What the parsers read.
FeatureSelectionView(a) ==
  Parsed(a, {"ticket"}, [criteria |-> {}, included |-> {}, maxChangedFiles |-> DefaultChangedFiles])
ScopeDesignView(a) == Parsed(a, {"ticket"}, [areas |-> {}])
FeatureImplementationView(a) ==
  Parsed(a, {"verdict"}, [files |-> <<>>, coverage |-> << >>, passed |-> FALSE])
FeatureCompletionView(a) == Parsed(a, {"branch"}, [paths |-> <<>>, coverage |-> << >>, passed |-> FALSE])

\* Another ticket of the candidates, a criterion less, another limit.
FeatureSelectionSurface(a) ==
  Surface(FeatureSelectionView(a),
    {[ticket |-> "other"], [maxChangedFiles |-> MaxChangedFiles], [included |-> a.criteria \ {"ac1"}]})
ScopeDesignSurface(a) ==
  Surface(ScopeDesignView(a),
    {[areas |-> {}]})
FeatureImplementationSurface(a) ==
  Surface(FeatureImplementationView(a), {[files |-> files] : files \in PlanDrafts(a.files)})
FeatureCompleteSurface(a) == ReadOnly(FeatureCompletionView(a))

FeaturesSurface(s, a) ==
  CASE s = "feature-selection" -> FeatureSelectionSurface(a)
    [] s = "scope-design" -> ScopeDesignSurface(a)
    [] s = "implementation" -> FeatureImplementationSurface(a)
    [] s = "complete" -> FeatureCompleteSurface(a)

FeaturesBlocked(s, a) ==
  CASE s = "feature-selection" -> a.included = {}
    [] s = "scope-design" -> a.areas = {}
    [] OTHER -> FALSE

\* Edits no form of the console opens, which the API takes.
FeaturesFreeEdits(s, a) ==
  CASE s = "scope-design" -> {[ticket |-> "other"]}
    [] s = "implementation" -> {[passed |-> ~a.passed]}
    [] s = "complete" -> {[passed |-> ~a.passed], [branch |-> FeatureBranchFor("other")], [paths |-> <<"doc">>]}
    [] OTHER -> {}
==============================================================================

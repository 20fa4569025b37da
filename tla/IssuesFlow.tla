----------------------------- MODULE IssuesFlow -----------------------------
(***************************************************************************)
(* The issues lane, src/src/mastra/agents/issues/flow.ts: issue-selection, *)
(* analysis, implementation, complete (a draft pull request on the fix     *)
(* branch of the ticket).                                                  *)
(***************************************************************************)
EXTENDS PatchOps

IssuesSteps == <<"issue-selection", "analysis", "implementation", "complete">>

-----------------------------------------------------------------------------
(* The contracts *)

IssueTickets == {"own", "other"}
IssueBranchFor(ticket) == <<"fix", ticket>>

\* Each cited file has its change described and its lines in order.
IssueAffectedFile(f) == f.described /\ f.ordered

\* The regression test is a sequence of no file or one.
IssueSelectionValid(a) ==
  a.ticket \in IssueTickets /\ a.test \in BOOLEAN /\ a.maxChangedFiles \in 1..MaxChangedFiles
IssueAnalysisValid(a) ==
  /\ a.ticket \in IssueTickets /\ Len(a.affected) \in 1..MaxChangedFiles
  /\ \A f \in FilesOf(a.affected) : IssueAffectedFile(f)
IssueImplementationValid(a) ==
  /\ a.ticket \in IssueTickets /\ a.passed \in BOOLEAN
  /\ Len(a.files) \in 1..MaxChangedFiles /\ Len(a.test) \in 0..1
IssueCompletionValid(a) ==
  /\ a.ticket \in IssueTickets /\ a.passed \in BOOLEAN /\ a.test \in BOOLEAN
  /\ Len(a.paths) \in 1..(MaxChangedFiles + 1)

IssuesContract(s, a) ==
  CASE s = "issue-selection" -> IssueSelectionValid(a)
    [] s = "analysis" -> IssueAnalysisValid(a)
    [] s = "implementation" -> IssueImplementationValid(a)
    [] s = "complete" -> IssueCompletionValid(a)

-----------------------------------------------------------------------------
(* The steps *)

\* Whether the repository the input names is allowed.
IssuesFacts == [listed : BOOLEAN]

\* The ticket of the run, a regression test required.
ComputeIssueSelection(st, known) ==
  Unless(~known.listed,
    {[ticket |-> "own", test |-> TRUE, maxChangedFiles |-> DefaultChangedFiles,
      from |-> DerivedFrom(st, {})]})

\* The analyst cites a file it was shown next to one it was not, or only that.
IssueAnalystAnswers ==
  LET Cites(paths) ==
        [i \in 1..Len(paths) |-> [path |-> paths[i], described |-> TRUE, ordered |-> TRUE]]
  IN {Cites(<<"secret", "app">>), Cites(<<"secret">>)}

\* An analysis that cites no inspected file throws.
ComputeAnalysis(st) ==
  LET selection == EffectiveArtifact(st, "issue-selection")
      Inspected(cited) == Selected(cited, {f \in FilesOf(cited) : f.path \in InspectFiles})
  IN Unless(~HasArtifact(st, "issue-selection"),
       {[ticket |-> selection.ticket,
         affected |-> FirstOf(Inspected(cited), selection.maxChangedFiles),
         from |-> DerivedFrom(st, {"issue-selection"})]
        : cited \in {x \in IssueAnalystAnswers : Inspected(x) # <<>>}})

\* The engineer fixes one file or two, with a test or without, leaves the file
\* or the test broken, or goes outside the policy.
IssueEngineerAnswers ==
  LET File(path, content) == [path |-> path, content |-> content, included |-> TRUE]
      Answer(files, test) == [files |-> files, test |-> test]
      App(content) == File("app", content)
      Test(content) == <<File("test", content)>>
  IN {Answer(<<App("good")>>, Test("good")), Answer(<<App("broken")>>, Test("good")),
      Answer(<<App("good")>>, Test("broken")), Answer(<<App("good"), File("api", "good")>>, Test("good")),
      Answer(<<App("good")>>, <<>>), Answer(<<File("secret", "good")>>, Test("good"))}

(***************************************************************************)
(* A required regression test that is not written, or a path the policy    *)
(* denies, throws.  A patch that fails validation is asked for once more   *)
(* and the second answer stands.  The test is kept apart from the patch    *)
(* and is not among what is validated.                                     *)
(***************************************************************************)
ComputeFix(st) ==
  LET selection == EffectiveArtifact(st, "issue-selection")
      Regression(answer) == IF selection.test THEN answer.test ELSE <<>>
      Taken(answer) ==
        /\ selection.test => answer.test # <<>>
        /\ \A p \in PathsOf(answer.files \o Regression(answer)) : AllowsPath(p)
      missing == ~HasArtifact(st, "issue-selection") \/ ~HasArtifact(st, "analysis")
  IN IF missing THEN {}
     ELSE {[ticket |-> selection.ticket, files |-> answer.files, test |-> Regression(answer),
            passed |-> Validates(answer.files),
            from |-> DerivedFrom(st, {"issue-selection", "analysis"})]
           : answer \in {x \in IssueEngineerAnswers : Taken(x)}}

FixPatch(implementation) == PatchFilesInPlan(implementation.files) \o implementation.test

ComputeFixCompletion(st) ==
  LET selection == EffectiveArtifact(st, "issue-selection")
      implementation == EffectiveArtifact(st, "implementation")
      patch == FixPatch(implementation)
  IN IF ~HasArtifact(st, "issue-selection") \/ ~HasArtifact(st, "implementation") THEN {}
     ELSE {[ticket |-> selection.ticket, branch |-> IssueBranchFor(selection.ticket),
            paths |-> [i \in 1..Len(patch) |-> patch[i].path], test |-> implementation.test # <<>>,
            passed |-> implementation.passed,
            from |-> DerivedFrom(st, {"issue-selection", "implementation"})]}

IssuesCompute(s, st, known) ==
  CASE s = "issue-selection" -> ComputeIssueSelection(st, known)
    [] s = "analysis" -> ComputeAnalysis(st)
    [] s = "implementation" -> ComputeFix(st)
    [] s = "complete" -> ComputeFixCompletion(st)

\* Bytes a human edited are validated again, the test's too; the computed ones
\* are not.
FixEditGate(st) ==
  LET implementation == EffectiveArtifact(st, "implementation") IN
  st.dec["implementation"].action = "edit" =>
    PatchFilesInPlan(implementation.files) # <<>> /\ ~EditViolations(FixPatch(implementation))

IssuesGate(s, st) ==
  CASE s = "implementation" -> FixEditGate(st)
    [] s = "complete" ->
         /\ HasArtifact(st, "implementation") /\ HasArtifact(st, "analysis")
         /\ Preflights(FixPatch(EffectiveArtifact(st, "implementation")))
    [] OTHER -> TRUE

FixPullRequest(st) ==
  LET completion == EffectiveArtifact(st, "complete")
      implementation == EffectiveArtifact(st, "implementation")
  IN ApplyPatch(completion.branch, FixPatch(implementation),
       [files |-> PatchFilesInPlan(implementation.files), test |-> implementation.test,
        body |-> Fields(completion)])

IssuesWrites(s, st) == IF s = "complete" THEN FixPullRequest(st) ELSE <<>>

\* What is pushed is what the completion lists, for the ticket the human
\* picked, with the test the selection asks for; unless the completion says
\* that its validation failed, the fix passes.
IssuesPolicy(st, call) ==
  LET selection == EffectiveArtifact(st, "issue-selection")
      pushed == call.what.files \o call.what.test
  IN /\ call.key[1] = IssueBranchFor(selection.ticket)
     /\ selection.test => call.what.test # <<>> /\ call.what.body.test
     /\ call.what.body.paths = [i \in 1..Len(pushed) |-> pushed[i].path]
     /\ call.what.body.passed => Validates(call.what.files)

-----------------------------------------------------------------------------
(* The console's side *)

\* What the parsers read.
IssueSelectionView(a) ==
  Parsed(a, {"ticket"}, [test |-> TRUE, maxChangedFiles |-> DefaultChangedFiles])
IssueAnalysisView(a) == Parsed(a, {}, [affected |-> <<>>])
IssueImplementationView(a) == Parsed(a, {}, [files |-> <<>>, test |-> <<>>, passed |-> FALSE])
IssueCompletionView(a) == Parsed(a, {"branch"}, [paths |-> <<>>, test |-> FALSE, passed |-> FALSE])

\* No test: the other choices are those of the features lane.
IssueSelectionSurface(a) ==
  Surface(IssueSelectionView(a), {[test |-> FALSE]})

\* Lines that cross, or a description cleared, which drops its row.
IssueAnalysisSurface(a) ==
  Surface(IssueAnalysisView(a),
    {[affected |-> [a.affected EXCEPT ![i].ordered = FALSE]] : i \in 1..Len(a.affected)}
      \union {[affected |-> Dropped(a.affected, i)] : i \in 1..Len(a.affected)})

\* The plan of files, and the test rewritten badly.
IssueImplementationSurface(a) ==
  Surface(IssueImplementationView(a),
    {[files |-> files] : files \in PlanDrafts(a.files)}
      \union {[test |-> <<[a.test[i] EXCEPT !.content = content]>>]
                : i \in 1..Len(a.test), content \in {"broken"}})
IssueCompleteSurface(a) == ReadOnly(IssueCompletionView(a))

IssuesSurface(s, a) ==
  CASE s = "issue-selection" -> IssueSelectionSurface(a)
    [] s = "analysis" -> IssueAnalysisSurface(a)
    [] s = "implementation" -> IssueImplementationSurface(a)
    [] s = "complete" -> IssueCompleteSurface(a)

\* Edits no form of the console opens, which the API takes.
IssuesFreeEdits(s, a) ==
  CASE s = "issue-selection" -> {[ticket |-> "other"]}
    [] s = "implementation" -> {[passed |-> ~a.passed], [test |-> <<>>]}
    [] s = "complete" -> {[passed |-> ~a.passed], [branch |-> IssueBranchFor("other")], [paths |-> <<"doc">>]}
    [] OTHER -> {}
==============================================================================

--------------------------- MODULE DependenciesFlow ---------------------------
(***************************************************************************)
(* The dependencies lane, src/src/mastra/agents/dependencies/flow.ts:      *)
(* scan, group, apply, validate, merge (one draft pull request per group). *)
(***************************************************************************)
EXTENDS PatchOps

DependenciesSteps == <<"scan", "group", "apply", "validate", "merge">>

-----------------------------------------------------------------------------
(* The contracts *)

\* The groups in their order, without the patch batch.
DependencyGroups == <<"minor", "major">>
JumpKind == {"minor", "major"}

\* A major release of one package, a minor one of another that closes a CVE.
BumpPackages == {"core", "lib"}
JumpFor(package) == IF package = "core" THEN "major" ELSE "minor"
Vulnerable == {"lib"}

DependencyBranch(group) == <<"deps", group>>

\* rows is what each package's row says; pinned is whether the rows, and the
\* files of an apply, still carry the fields only the flow fills in: what the
\* registry resolved, its integrity, the status of the file.
GroupRow == [group : JumpKind, excluded : BOOLEAN, reasoned : BOOLEAN]
ApplyRow == [group : JumpKind, included : BOOLEAN]
GroupsOf(rows) == {rows[p].group : p \in DOMAIN rows}

ScanValid(a) == a.packages \subseteq BumpPackages
GroupValid(a) == a.pinned /\ \A p \in DOMAIN a.rows : a.rows[p] \in GroupRow
ApplyValid(a) == a.pinned /\ DOMAIN a.rows # {} /\ \A p \in DOMAIN a.rows : a.rows[p] \in ApplyRow
ValidateValid(a) ==
  /\ DOMAIN a.status \subseteq JumpKind /\ DOMAIN a.status # {} /\ a.skipped \subseteq JumpKind
  /\ \A g \in DOMAIN a.status : a.status[g] \in {"green", "failed", "skipped"}
MergeValid(a) ==
  DOMAIN a.previews # {} /\ \A g \in DOMAIN a.previews : g \in JumpKind /\ a.previews[g].packages # {}

DependenciesContract(s, a) ==
  CASE s = "scan" -> ScanValid(a)
    [] s = "group" -> GroupValid(a)
    [] s = "apply" -> ApplyValid(a)
    [] s = "validate" -> ValidateValid(a)
    [] s = "merge" -> MergeValid(a)

-----------------------------------------------------------------------------
(* The steps *)

\* The input's repository is allowed or not; the registry finds what is outdated.
DependenciesFacts ==
  LET Input(listed, outdated) == [listed |-> listed, outdated |-> outdated]
  IN {Input(TRUE, BumpPackages), Input(TRUE, {}), Input(FALSE, {})}

ComputeScan(st, known) ==
  Unless(~known.listed, {[packages |-> known.outdated, from |-> DerivedFrom(st, {})]})

\* Nothing outdated throws.
ComputeGroup(st) ==
  LET outdated == EffectiveArtifact(st, "scan").packages
      Row(p) == [group |-> JumpFor(p), excluded |-> FALSE, reasoned |-> FALSE]
  IN IF ~HasArtifact(st, "scan") THEN {}
     ELSE Unless(outdated = {},
            {[rows |-> [p \in outdated |-> Row(p)], pinned |-> TRUE, from |-> DerivedFrom(st, {"scan"})]})

AssertExcludeReasons(grouping) ==
  \A p \in DOMAIN grouping.rows : grouping.rows[p].excluded => grouping.rows[p].reasoned
KeptIn(grouping) == {p \in DOMAIN grouping.rows : ~grouping.rows[p].excluded}

\* An exclusion without a reason throws, and so does excluding everything.  The
\* groups that keep a package are accepted, every package included.
ComputeApply(st) ==
  LET grouping == EffectiveArtifact(st, "group")
      rows == [p \in KeptIn(grouping) |-> [group |-> grouping.rows[p].group, included |-> TRUE]]
  IN IF ~HasArtifact(st, "group") THEN {}
     ELSE Unless(~AssertExcludeReasons(grouping) \/ KeptIn(grouping) = {},
            {[rows |-> rows, accepted |-> GroupsOf(rows), pinned |-> TRUE,
              from |-> DerivedFrom(st, {"group"})]})

IncludedIn(apply, group) ==
  {p \in DOMAIN apply.rows : apply.rows[p].group = group /\ apply.rows[p].included}
LeftOn(apply) == {g \in GroupsOf(apply.rows) : g \in apply.accepted /\ IncludedIn(apply, g) # {}}

\* What is left on of a group is built and validated; the rest is skipped.
ComputeValidate(st) ==
  LET apply == EffectiveArtifact(st, "apply")
      Status(g, failing) ==
        IF g \notin LeftOn(apply) THEN "skipped" ELSE IF g \in failing THEN "failed" ELSE "green"
  IN IF ~HasArtifact(st, "apply") THEN {}
     ELSE {[status |-> [g \in GroupsOf(apply.rows) |-> Status(g, failing)],
            skipped |-> GroupsOf(apply.rows) \ LeftOn(apply),
            from |-> DerivedFrom(st, {"apply"})] : failing \in SUBSET LeftOn(apply)}

\* A failing group that is not skipped throws, and so does an empty plan.
ComputeMerge(st) ==
  LET apply == EffectiveArtifact(st, "apply")
      validate == EffectiveArtifact(st, "validate")
      planned == LeftOn(apply) \ validate.skipped
      Preview(packages) == [packages |-> packages, cveFixes |-> packages \intersect Vulnerable]
  IN IF ~HasArtifact(st, "apply") \/ ~HasArtifact(st, "validate") THEN {}
     ELSE Unless(planned = {} \/ \E g \in DOMAIN validate.status \ validate.skipped : validate.status[g] # "green",
            {[previews |-> [g \in planned |-> Preview(IncludedIn(apply, g))],
              from |-> DerivedFrom(st, {"apply", "validate"})]})

DependenciesCompute(s, st, known) ==
  CASE s = "scan" -> ComputeScan(st, known)
    [] s = "group" -> ComputeGroup(st)
    [] s = "apply" -> ComputeApply(st)
    [] s = "validate" -> ComputeValidate(st)
    [] s = "merge" -> ComputeMerge(st)

\* The manifest was read under the path policy, which the writer asks again.
DependenciesGate(s, st) ==
  s = "merge" =>
    /\ HasArtifact(st, "apply") /\ HasArtifact(st, "validate")
    /\ DOMAIN EffectiveArtifact(st, "merge").previews \subseteq GroupsOf(EffectiveArtifact(st, "apply").rows)

\* The manifest with the versions of some packages replaced.
BuildGroupFileChanges(packages) == <<[path |-> "manifest", content |-> packages]>>

\* One pull request per previewed group, in the order of the groups, each with
\* the files of the packages the apply artifact includes, built again.
BumpPullRequests(st) ==
  LET previews == EffectiveArtifact(st, "merge").previews
      Included(g) == IncludedIn(EffectiveArtifact(st, "apply"), g)
      Bump(g) ==
        IF g \notin DOMAIN previews THEN <<>>
        ELSE ApplyPatch(DependencyBranch(g), BuildGroupFileChanges(Included(g)),
               [group |-> g, packages |-> Included(g), cveFixes |-> previews[g].cveFixes])
  IN Bump(DependencyGroups[1]) \o Bump(DependencyGroups[2])

DependenciesWrites(s, st) == IF s = "merge" THEN BumpPullRequests(st) ELSE <<>>

\* A pull request bumps what was left on of a green group, never an excluded
\* package, and names the CVEs it closes.
DependenciesPolicy(st, call) ==
  LET group == call.what.group
      rows == EffectiveArtifact(st, "group").rows
      apply == EffectiveArtifact(st, "apply")
  IN /\ call.what.packages # {} /\ call.what.cveFixes = call.what.packages \intersect Vulnerable
     /\ group \in apply.accepted /\ EffectiveArtifact(st, "validate").status[group] = "green"
     /\ \A p \in call.what.packages :
          ~rows[p].excluded /\ rows[p].group = group /\ apply.rows[p].included

-----------------------------------------------------------------------------
(* The console's side *)

\* What the parsers read: not the fields only the flow fills in.
ScanView(a) == Parsed(a, {}, [packages |-> {}])
GroupView(a) == Parsed(a, {}, [rows |-> << >>])
ApplyView(a) == Parsed(a, {}, [rows |-> << >>, accepted |-> {}])
ValidateView(a) == Parsed(a, {}, [status |-> << >>, skipped |-> {}])
MergeView(a) == Parsed(a, {}, [previews |-> << >>])

MovePackageBetween(rows, package, to) == [rows EXCEPT ![package].group = to]
Exclude(rows, package, reasoned) == [rows EXCEPT ![package].excluded = TRUE, ![package].reasoned = reasoned]

\* The groups as a whole are the edit, as the console read them.
AsRead(drafts) == {WithField(draft, "pinned", FALSE) : draft \in drafts}

GroupDrafts(a) ==
  {[rows |-> Exclude(a.rows, "core", reasoned)] : reasoned \in BOOLEAN}
    \union {[rows |-> MovePackageBetween(a.rows, "core", "minor")],
            [rows |-> Exclude(Exclude(a.rows, "core", TRUE), "lib", TRUE)]}

\* A package left out, or a group that is not a major one.
ApplyDrafts(a) ==
  {[rows |-> [a.rows EXCEPT ![p].included = FALSE]] : p \in DOMAIN a.rows}
    \union {[accepted |-> a.accepted \ {g}] : g \in a.accepted \ {"major"}}

ScanSurface(a) == ReadOnly(ScanView(a))
GroupSurface(a) == Surface(GroupView(a), AsRead(GroupDrafts(a)))
ApplySurface(a) == Surface(ApplyView(a), AsRead(ApplyDrafts(a)))

\* Only a failing group has a box to skip it.
ValidateSurface(a) ==
  LET Failed == {g \in DOMAIN a.status : a.status[g] = "failed"} IN
  Surface(ValidateView(a), {[skipped |-> a.skipped \union more] : more \in SUBSET Failed})
MergeSurface(a) == ReadOnly(MergeView(a))

DependenciesSurface(s, a) ==
  CASE s = "scan" -> ScanSurface(a)
    [] s = "group" -> GroupSurface(a)
    [] s = "apply" -> ApplySurface(a)
    [] s = "validate" -> ValidateSurface(a)
    [] s = "merge" -> MergeSurface(a)

\* A client of the API that keeps every field hands the groups in whole.
DependenciesApiDrafts(s, a) ==
  CASE s = "group" -> GroupDrafts(a)
    [] s = "apply" -> ApplyDrafts(a)
    [] OTHER -> {}

DependenciesBlocked(s, a) ==
  CASE s = "group" -> ~AssertExcludeReasons(a)
    [] s = "apply" -> LeftOn(a) = {}
    [] s = "validate" -> \E g \in DOMAIN a.status \ a.skipped : a.status[g] = "failed"
    [] OTHER -> FALSE

\* Edits no form of the console opens, which the API takes.
DependenciesFreeEdits(s, a) ==
  CASE s = "scan" -> {[packages |-> {}], [packages |-> {"core"}]}
    [] s = "validate" -> {[status |-> [g \in DOMAIN a.status |-> "green"]]}
    [] s = "merge" -> {[previews |-> [g \in DOMAIN a.previews |-> [a.previews[g] EXCEPT !.cveFixes = {}]]],
                       [previews |-> [g \in JumpKind |-> [packages |-> BumpPackages, cveFixes |-> {}]]]}
    [] OTHER -> {}
==============================================================================

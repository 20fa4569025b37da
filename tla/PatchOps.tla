------------------------------- MODULE PatchOps -------------------------------
(***************************************************************************)
(* What the four lanes that end in a draft pull request share: the path    *)
(* policy of the repository, the plan of files a human may edit, the floor *)
(* of validators, and the writer's gate and its two writes                 *)
(* (src/src/mastra/agents/programming/tools/github.ts and validators.ts).  *)
(* A file is a record of at least its path and its content: "good",        *)
(* "edited" by a human, or "broken"; included is whether the reviewer left  *)
(* it in the plan.                                                         *)
(***************************************************************************)
EXTENDS FlowOps

-----------------------------------------------------------------------------
(* The repository and its policy *)

\* The tree as it is listed; an asset is not a source file.
Tree == <<"app", "vendored", "secret", "asset", "api", "migration">>
Vendored == {"vendored"}
Analysable(path) == path # "asset"

AllowPaths == {"app", "api", "test", "vendored", "asset", "migration"}
DenyPaths == {"secret"}
DestructivePaths == {"migration"}
AllowsPath(path) == path \in AllowPaths \ DenyPaths

\* The bounds of the code are 10 files of a patch, 10 files chosen by default
\* and 25 at most, and 12 inspected files.
MaxPatchFiles == 2
DefaultChangedFiles == 2
MaxChangedFiles == 3
AnalysisFileLimit == 3

FirstOf(seq, n) == SubSeq(seq, 1, IF Len(seq) < n THEN Len(seq) ELSE n)

\* What a lane can list and read; its listing is four times its limit.
Listable == {path \in AllowPaths : path \notin Vendored /\ AllowsPath(path)}
ListFiles(limit) == FirstOf(Selected(Tree, Listable), limit)
InspectFiles ==
  LET listed == ListFiles(4 * AnalysisFileLimit)
      inspected == FirstOf(Selected(listed, {path \in Listable : Analysable(path)}), AnalysisFileLimit)
  IN {inspected[i] : i \in 1..Len(inspected)}

-----------------------------------------------------------------------------
(* The plan of files *)

FilesOf(files) == {files[i] : i \in 1..Len(files)}
PathsOf(files) == {file.path : file \in FilesOf(files)}

ValidatesNothing(files) == TRUE
Validates(files) == \A file \in FilesOf(files) : file.content # "broken"

PatchFilesInPlan(files) == Selected(files, {file \in FilesOf(files) : file.included})

\* An edited plan keeps a file and passes the validators.
EditViolations(files) == files = <<>> \/ ~Validates(files)

-----------------------------------------------------------------------------
(* The writer *)

\* No lane approves a destructive path.
Preflights(files) ==
  /\ Len(files) <= MaxPatchFiles
  /\ Cardinality(PathsOf(files)) = Len(files)
  /\ \A path \in PathsOf(files) : AllowsPath(path) /\ path \notin DestructivePaths

\* A pull request is known by its branch and the hash of its patch.
ComputePatchHash(files) == [i \in 1..Len(files) |-> <<files[i].path, files[i].content>>]
ApplyPatch(branch, files, what) ==
  LET key == <<branch, ComputePatchHash(files)>> IN
  <<Call("branch", key, TRUE, what), Call("pull-request", key, TRUE, what)>>

\* A branch that is there already is taken for a replay if its pull request is
\* one of this patch; otherwise the writer throws.
FindDurableReplay(call, made) ==
  LET Same(m) == m.sys = "pull-request" /\ m.key = call.key IN
  call.sys = "branch" =>
    \/ \A m \in made : m.sys = "branch" => m.key[1] # call.key[1]
    \/ \E m \in made : Same(m)

-----------------------------------------------------------------------------
(* The console's side *)

Dropped(files, i) == SubSeq(files, 1, i - 1) \o SubSeq(files, i + 1, Len(files))

\* A human rewrites what is at a path, well or badly, or drops a path if it is
\* not all there is: here the first path and the last.
PlanDrafts(files) ==
  LET first == files[1].path
      last == files[Len(files)].path
      Rewritten(content) ==
        [i \in 1..Len(files) |->
           IF files[i].path = first THEN [files[i] EXCEPT !.content = content] ELSE files[i]]
  IN {Rewritten("edited"), Rewritten("broken")}
       \union {kept \in {Selected(files, {file \in FilesOf(files) : file.path # last})} : Len(files) > 1}
==============================================================================

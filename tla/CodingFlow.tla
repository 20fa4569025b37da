----------------------------- MODULE CodingFlow -----------------------------
(***************************************************************************)
(* The coding lane (src/src/mastra/agents/programming/flow.ts): runs that  *)
(* diagnose a ticket, plan a patch, have its destructive paths approved,   *)
(* validate, repair and judge it, and open one Draft PR.  All runs are     *)
(* about one branch of one repository, one after the other: a run is the   *)
(* retry of the one before.  With a sandbox the patch lives on the disk of *)
(* a container that the runs of the branch share, and the commit is of the *)
(* disk; without one it is of the files of the patch.                      *)
(***************************************************************************)
EXTENDS Integers, Sequences, FiniteSets

CONSTANTS
  Paths,        \* the paths a patch may name
  Destructive,  \* those that need an approval (policy.destructivePaths)
  Denied,       \* those no patch may touch (policy.denyPaths)
  MaxFiles,     \* policy.maxFiles
  Bytes,        \* what a file may hold
  BadBytes,     \* the contents the structural validators refuse
  NRuns,        \* runs of the branch
  MaxMoves,     \* commits others push to the base branch
  MaxFaults     \* calls that fail and restarts in a behaviour

ASSUME CodingAssumption ==
  /\ Destructive \subseteq Paths /\ Denied \subseteq Paths
  /\ BadBytes \subseteq Bytes /\ IsFiniteSet(Paths)
  /\ MaxFiles \in Nat /\ NRuns \in Nat \ {0}
  /\ MaxMoves \in Nat /\ MaxFaults \in Nat

VARIABLES
  sandbox,      \* whether the lane runs in a container
  preapproved,  \* input.approvedDestructivePaths
  run,          \* the state each run's workflow carries
  container,    \* the container of the branch the provisioner holds
  base,         \* the head of the base branch
  branch,       \* what the remote branch holds, NoFiles if there is none
  pulls,        \* the patch behind each Draft PR asked for
  moves,        \* so far
  faults        \* so far

vars == <<sandbox, preapproved, run, container, base, branch, pulls, moves, faults>>

Runs == 1..NRuns
Patches == UNION {[D -> Bytes] : D \in (SUBSET Paths) \ {{}}}
NoFiles == << >>
NoContainer == [up |-> FALSE, files |-> NoFiles, head |-> 0]
Moved == 0      \* the HEAD of a container after its commit

Reasons == {"insufficient_evidence", "unfixable", "path_denied", "approval_rejected",
            "stale_source", "doom_loop", "approval_required",
            "validation_failed_after_repair", "critic_blocked", "ci_failed"}
Closes == Reasons \union {"none", "awaiting_ci", "draft_pr_opened"}
Steps == {"investigate", "strict-rca", "plan", "preflight", "suspended", "patch", "validate",
          "repair", "checks", "critic", "regenerate", "draft", "open", "ci", "close"}

NewRun == [pc |-> "idle", sha |-> 0, rca |-> "none", patch |-> NoFiles, manifest |-> NoFiles,
           shown |-> NoFiles, granted |-> {}, spent |-> FALSE, judged |-> NoFiles, close |-> "none"]

Init ==
  /\ sandbox \in BOOLEAN /\ preapproved \in SUBSET Destructive
  /\ run = [r \in Runs |-> NewRun]
  /\ container = NoContainer
  /\ base = 1 /\ branch = NoFiles /\ pulls = <<>>
  /\ moves = 0 /\ faults = 0

-----------------------------------------------------------------------------
(* Policy, validators, container *)

\* Files of `files` written over a working tree.
Overlay(files, disk) ==
  [p \in (DOMAIN files) \union (DOMAIN disk) |-> IF p \in DOMAIN files THEN files[p] ELSE disk[p]]

PassesFloor(patch) == \A p \in DOMAIN patch : patch[p] \notin BadBytes

Ungranted(patch, granted) == (DOMAIN patch \intersect Destructive) \ granted

\* Wrong on purpose: destructive paths are not asked about.
SkipsApprovals(patch, granted) ==
  IF Cardinality(DOMAIN patch) > MaxFiles \/ DOMAIN patch \intersect Denied # {} THEN {"denied"} ELSE {"ok"}

\* GitHubWriter.preflight: the limits first, then file by file, in the order
\* the patch lists its files.
Preflights(patch, granted) ==
  LET tooMany == Cardinality(DOMAIN patch) > MaxFiles
      denied == tooMany \/ DOMAIN patch \intersect Denied # {}
      asks == ~tooMany /\ Ungranted(patch, granted) # {}
  IN {v \in {"ok", "denied", "approval_required"} :
        \/ v = "denied" /\ denied
        \/ v = "approval_required" /\ asks
        \/ v = "ok" /\ ~denied /\ ~asks}

Approved(r) == preapproved \union run[r].granted

\* The provisioner hands out the container it holds for the branch, whatever
\* its working tree holds; a new one is a checkout of the run's source.
Acquired(r) ==
  IF container.up THEN container ELSE [up |-> TRUE, files |-> NoFiles, head |-> run[r].sha]

\* On the sandbox path a plan is written to the disk before anything judges it.
Land(r, patch) ==
  container' = IF sandbox THEN [Acquired(r) EXCEPT !.files = Overlay(patch, @)] ELSE container

GoTo(r, step) == run' = [run EXCEPT ![r].pc = step]
\* Wrong on purpose: the reason of the close is not kept.
CloseUndecided(r, close) == run' = [run EXCEPT ![r].pc = "close"]

CloseWith(r, close) == run' = [run EXCEPT ![r].pc = "close", ![r].close = close]

\* The step throws: the run ends, no record is kept, no container released.
Dies(r) == run' = [run EXCEPT ![r] = [NewRun EXCEPT !.pc = "thrown"]]

world == <<container, base, branch, pulls, moves, faults>>
config == <<sandbox, preapproved>>

-----------------------------------------------------------------------------
(* The steps *)

Ended(r) == run[r].pc \in {"closed", "thrown"}

LoadContext(r) ==
  /\ run[r].pc = "idle" /\ \A q \in Runs : q < r => Ended(q)
  /\ run' = [run EXCEPT ![r].pc = "investigate", ![r].sha = base]
  /\ UNCHANGED <<world, config>>

Investigate(r) ==
  /\ run[r].pc = "investigate"
  /\ \/ \E rca \in {"weak", "unfixable", "sound"} :
          run' = [run EXCEPT ![r].pc = "strict-rca", ![r].rca = rca]
     \/ run' = [run EXCEPT ![r].pc = "close", ![r].rca = "weak", ![r].close = "insufficient_evidence"]
  /\ UNCHANGED <<world, config>>

StrictRca(r) ==
  /\ run[r].pc = "strict-rca"
  /\ CASE run[r].rca = "weak" -> CloseWith(r, "insufficient_evidence")
       [] run[r].rca = "unfixable" -> CloseWith(r, "unfixable")
       [] run[r].rca = "sound" -> GoTo(r, "plan")
  /\ UNCHANGED <<world, config>>

PlanSurgicalPatch(r) ==
  /\ run[r].pc = "plan"
  /\ \/ \E plan \in Patches :
          /\ run' = [run EXCEPT ![r].pc = "preflight", ![r].patch = plan]
          /\ Land(r, plan)
     \/ CloseWith(r, "path_denied") /\ UNCHANGED container
  /\ UNCHANGED <<base, branch, pulls, moves, faults, config>>

Manifested(r, granted) ==
  run' = [run EXCEPT ![r].pc = "patch", ![r].manifest = run[r].patch, ![r].granted = granted]

Preflight(r) ==
  /\ run[r].pc = "preflight"
  /\ \E verdict \in Preflights(run[r].patch, preapproved) :
       CASE verdict = "ok" -> Manifested(r, preapproved)
         [] verdict = "denied" -> CloseWith(r, "path_denied")
         [] verdict = "approval_required" ->
              run' = [run EXCEPT ![r].pc = "suspended", ![r].shown = run[r].patch]
  /\ UNCHANGED <<world, config>>

\* An approved resume grants the destructive paths of the patch that was shown.
ResumeApproved(r) ==
  LET granted == preapproved \union Ungranted(run[r].patch, preapproved) IN
  /\ run[r].pc = "suspended"
  /\ IF "ok" \in Preflights(run[r].patch, granted)
     THEN Manifested(r, granted) ELSE CloseWith(r, "path_denied")
  /\ UNCHANGED <<world, config>>

\* Rejected, expired, or approved without a receipt.
ResumeRejected(r) ==
  /\ run[r].pc = "suspended"
  /\ CloseWith(r, "approval_rejected")
  /\ UNCHANGED <<world, config>>

PatchStep(r) ==
  /\ run[r].pc = "patch"
  /\ IF base = run[r].sha THEN GoTo(r, "validate") ELSE CloseWith(r, "stale_source")
  /\ UNCHANGED <<world, config>>

Validate(r) ==
  /\ run[r].pc = "validate"
  /\ GoTo(r, IF PassesFloor(run[r].patch) THEN "checks" ELSE "repair")
  /\ UNCHANGED <<world, config>>

\* Wrong on purpose: the first patch's manifest stays.
AdoptKeepsManifest(r, next, step) ==
  run' = [run EXCEPT ![r].pc = step, ![r].patch = next, ![r].spent = TRUE]

\* The manifest of a second patch that is let through replaces the first one's.
Adopt(r, next, step) ==
  run' = [run EXCEPT ![r].pc = step, ![r].patch = next, ![r].manifest = next, ![r].spent = TRUE]

Repair(r) ==
  /\ run[r].pc = "repair"
  /\ \/ CloseWith(r, "path_denied") /\ UNCHANGED container
     \/ \E next \in Patches :
          /\ Land(r, next)
          /\ IF next = run[r].patch THEN CloseWith(r, "doom_loop")
             ELSE \E verdict \in Preflights(next, Approved(r)) :
                    CASE verdict = "approval_required" -> CloseWith(r, "approval_required")
                      [] verdict = "denied" -> CloseWith(r, "path_denied")
                      [] verdict = "ok" ->
                           IF PassesFloor(next) THEN Adopt(r, next, "checks")
                           ELSE CloseWith(r, "validation_failed_after_repair")
  /\ UNCHANGED <<base, branch, pulls, moves, faults, config>>

\* The repository's own commands, where there are any: in the container on
\* the sandbox path, and a throw if it is gone.
RunChecks(r) ==
  /\ run[r].pc = "checks"
  /\ \/ GoTo(r, "critic")
     \/ CloseWith(r, "validation_failed_after_repair")
     \/ sandbox /\ ~container.up /\ Dies(r)
  /\ UNCHANGED <<world, config>>

\* A model without a critic passes every patch.
Critic(r) ==
  /\ run[r].pc = "critic"
  /\ \/ run' = [run EXCEPT ![r].pc = "draft", ![r].judged = run[r].patch]
     \/ IF run[r].spent THEN CloseWith(r, "critic_blocked") ELSE GoTo(r, "regenerate")
  /\ UNCHANGED <<world, config>>

\* Wrong on purpose: the regenerated patch is not judged again.
AfterRegenerationUnjudged == "draft"

\* One regeneration for the critic.  Nothing catches what preflight throws
\* here, and the repository's commands do not run again.
AfterRegeneration == "critic"

Regenerate(r) ==
  /\ run[r].pc = "regenerate"
  /\ \/ CloseWith(r, "critic_blocked") /\ UNCHANGED container
     \/ \E next \in Patches :
          /\ Land(r, next)
          /\ IF next = run[r].patch THEN CloseWith(r, "critic_blocked")
             ELSE IF "ok" \notin Preflights(next, Approved(r)) THEN Dies(r)
             ELSE IF PassesFloor(next) THEN Adopt(r, next, AfterRegeneration)
             ELSE CloseWith(r, "critic_blocked")
  /\ UNCHANGED <<base, branch, pulls, moves, faults, config>>

\* Wrong on purpose: the remote branch is not looked at.
NeverReplays(r) == "free"

\* findDurableReplay: what stands on the remote branch for this manifest.
DurableReplay(r) ==
  IF branch = NoFiles THEN "free"
  ELSE IF \E i \in 1..Len(pulls) : pulls[i] = run[r].manifest THEN "replay" ELSE "conflict"

\* What the backend commits: the working tree, or the files of the patch.
Committed(r) == IF sandbox THEN container.files ELSE Overlay(run[r].patch, branch)

Apply(r) ==
  /\ run[r].pc = "draft"
  /\ \/ /\ DurableReplay(r) = "replay" /\ GoTo(r, "ci")
        /\ container' = IF sandbox THEN Acquired(r) ELSE container
        /\ UNCHANGED branch
     \/ DurableReplay(r) = "conflict" /\ Dies(r) /\ UNCHANGED <<container, branch>>
     \/ /\ DurableReplay(r) = "free" /\ base # run[r].sha
        /\ CloseWith(r, "stale_source")
        /\ UNCHANGED <<container, branch>>
     \/ /\ DurableReplay(r) = "free" /\ base = run[r].sha
        /\ sandbox /\ (~container.up \/ container.head # run[r].sha)
        /\ Dies(r)
        /\ UNCHANGED <<container, branch>>
     \/ /\ DurableReplay(r) = "free" /\ base = run[r].sha
        /\ sandbox => container.up /\ container.head = run[r].sha
        /\ branch' = Committed(r)
        /\ container' = IF sandbox THEN [container EXCEPT !.head = Moved] ELSE container
        /\ GoTo(r, "open")
  /\ UNCHANGED <<base, pulls, moves, faults, config>>

OpenDraftPull(r) ==
  /\ run[r].pc = "open"
  /\ pulls' = Append(pulls, run[r].manifest)
  /\ GoTo(r, "ci")
  /\ UNCHANGED <<container, base, branch, moves, faults, config>>

ReadCiStatus(r) ==
  /\ run[r].pc = "ci"
  /\ \E close \in {"ci_failed", "awaiting_ci", "draft_pr_opened"} : CloseWith(r, close)
  /\ UNCHANGED <<world, config>>

\* Wrong on purpose: an escalated run keeps its container.
ReleasesOnOpen(r) == IF run[r].close \in {"awaiting_ci", "draft_pr_opened"} THEN NoContainer ELSE container

\* The record is saved and, whatever the close, the container destroyed.
Released(r) == NoContainer

EvidenceClose(r) ==
  /\ run[r].pc = "close"
  /\ run' = [run EXCEPT ![r] = [NewRun EXCEPT !.pc = "closed", !.close = run[r].close]]
  /\ container' = Released(r)
  /\ UNCHANGED <<base, branch, pulls, moves, faults, config>>

-----------------------------------------------------------------------------
(* Around the runs *)

InStep(r) == run[r].pc \in Steps \ {"suspended"}

\* A call to the model, the container, GitHub or the store fails uncaught.
Break(r) ==
  /\ InStep(r) /\ faults < MaxFaults
  /\ faults' = faults + 1
  /\ Dies(r)
  /\ UNCHANGED <<container, base, branch, pulls, moves, config>>

\* The process restarts: suspended runs survive, containers are swept.
Restart ==
  /\ faults < MaxFaults
  /\ faults' = faults + 1
  /\ run' = [r \in Runs |-> IF InStep(r) THEN [NewRun EXCEPT !.pc = "thrown"] ELSE run[r]]
  /\ container' = NoContainer
  /\ UNCHANGED <<base, branch, pulls, moves, config>>

BaseMoves ==
  /\ moves < MaxMoves
  /\ moves' = moves + 1 /\ base' = base + 1
  /\ UNCHANGED <<run, container, branch, pulls, faults, config>>

Next ==
  \/ \E r \in Runs :
       \/ LoadContext(r) \/ Investigate(r) \/ StrictRca(r) \/ PlanSurgicalPatch(r)
       \/ Preflight(r) \/ ResumeApproved(r) \/ ResumeRejected(r) \/ PatchStep(r)
       \/ Validate(r) \/ Repair(r) \/ RunChecks(r) \/ Critic(r) \/ Regenerate(r)
       \/ Apply(r) \/ OpenDraftPull(r) \/ ReadCiStatus(r) \/ EvidenceClose(r) \/ Break(r)
  \/ Restart \/ BaseMoves

Spec == Init /\ [][Next]_vars

-----------------------------------------------------------------------------
(* Properties *)

Files == Patches \union {NoFiles}

\* Types: a run that is past preflight has a manifest, a closed one a close.
TypeOK ==
  /\ sandbox \in BOOLEAN /\ preapproved \subseteq Destructive
  /\ base = moves + 1 /\ moves \in 0..MaxMoves /\ faults \in 0..MaxFaults
  /\ container.up \in BOOLEAN /\ container.files \in Files /\ container.head \in 0..(MaxMoves + 1)
  /\ branch \in Files /\ pulls \in Seq(Patches)
  /\ \A r \in Runs :
       /\ run[r].pc \in Steps \union {"idle", "closed", "thrown"}
       /\ run[r].rca \in {"none", "weak", "unfixable", "sound"}
       /\ run[r].patch \in Files /\ run[r].manifest \in Files /\ run[r].shown \in Files
       /\ run[r].judged \in Files /\ run[r].granted \subseteq Destructive
       /\ run[r].spent \in BOOLEAN /\ run[r].sha \in 0..base
       /\ run[r].close \in Closes
       /\ (run[r].close # "none") = (run[r].pc \in {"close", "closed"})

Publishing == {"draft", "open", "ci"}

\* A run whose working tree holds nothing but its patch: one without a
\* container, or one in a container that no run before it left behind and that
\* no second patch of its own was written to.
OwnTree(r) == ~sandbox \/ (~run[r].spent /\ (r > 1 => run[r - 1].pc = "closed"))

Allowed(r, D) ==
  /\ D \intersect Destructive \subseteq preapproved \union DOMAIN run[r].shown
  /\ D \intersect Denied = {} /\ Cardinality(D) <= MaxFiles

\* A manifest that goes to GitHub names no destructive path that was neither
\* preapproved nor in the patch a human approved, names no denied path and is
\* within the limits: after the repair and the critic's regeneration too, whose
\* paths the model chooses anew.  The same holds of the branch that is pushed
\* wherever the working tree is the run's own; elsewhere the commit takes more
\* than the manifest names, see CommittedIsManifest.
DestructiveIsShown ==
  \A r \in Runs :
    /\ run[r].pc \in Publishing => Allowed(r, DOMAIN run[r].manifest)
    /\ run[r].pc = "open" /\ OwnTree(r) => Allowed(r, DOMAIN branch)

\* Without a sandbox the branch behind a Draft PR holds exactly the patch
\* whose hash its body quotes; this is what the replay of a retry relies on.
PullIsItsHash ==
  ~sandbox => \A i \in 1..Len(pulls) : branch = pulls[i]

\* The branch is never asked for a second Draft PR: a retry replays the first.
OneOpenPull == Len(pulls) <= 1

\* The manifest that is published passed the structural validators and is the
\* one the critic saw last, and the commit holds its bytes as they were judged:
\* nothing else wherever the working tree is the run's own, and besides it what
\* the container held before on a tree that is shared.
JudgedIsCommitted ==
  \A r \in Runs : run[r].pc = "open" =>
    /\ run[r].judged = run[r].manifest /\ PassesFloor(run[r].manifest)
    /\ \A p \in DOMAIN run[r].judged : p \in DOMAIN branch /\ branch[p] = run[r].judged[p]
    /\ OwnTree(r) => branch = run[r].judged

\* After a run is closed, and until the next one starts, no container is left:
\* each close destroys the one of the branch, escalations and rejections
\* included, whichever run before it made it and threw.
NoContainerLeft ==
  \A r \in Runs :
    run[r].pc = "closed" /\ (\A q \in Runs : r < q => run[q].pc = "idle") => ~container.up

\* What tools/github.ts says of the hash: "the receipt always binds to the
\* exact bytes that would be committed".  What an approved run commits is
\* what its approver was shown.
ReceiptBindsBytes ==
  \A r \in Runs : run[r].pc = "open" /\ run[r].shown # NoFiles => branch = run[r].shown

\* What tools/sandbox-backend.ts says of the disk: "what a run approves and what
\* gets committed are the same bytes on the same disk".  The branch that is
\* pushed is the manifest of the run.
CommittedIsManifest ==
  \A r \in Runs : run[r].pc = "open" => branch = run[r].manifest
=============================================================================

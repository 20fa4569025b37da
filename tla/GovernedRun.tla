------------------------------ MODULE GovernedRun ------------------------------
(***************************************************************************)
(* What the runs API promises of a workflow run, without the queues, locks *)
(* and tasks that provide it: a run stops at every step for a decision, an *)
(* effect is executed only after the approval of exactly that action, and  *)
(* a finished run stays finished.  RunService implements this module.      *)
(***************************************************************************)
CONSTANTS
    Run, Step,
    Decision,       \* what can be approved for a step
    SideEffecting   \* the steps whose approval executes something

VARIABLES
    status,     \* [Run -> "none" or a status of runs/models.py]
    approved,   \* <<run, step, decision>> a human approved
    executed    \* <<run, step, decision>> the engine executed

governedVars == <<status, approved, executed>>

Finished == {"completed", "failed", "cancelled"}
Unfinished == {"queued", "running", "awaiting_human", "blocked"}

Init ==
    /\ status = [r \in Run |-> "none"]
    /\ approved = {}
    /\ executed = {}

Moves(r, from, to) ==
    /\ status[r] \in from
    /\ status' = [status EXCEPT ![r] = to]

\* A pass executes actions of its own run that are approved.
Executes(r) ==
    /\ executed \subseteq executed'
    /\ executed' \ executed \subseteq approved \cap ({r} \X Step \X Decision)

Create(r) ==
    /\ Moves(r, {"none"}, "queued")
    /\ UNCHANGED <<approved, executed>>

\* A decision or a freed slot starts a pass, or puts it in a waiting line.
Schedule(r) ==
    /\ \E to \in {"queued", "running"} : Moves(r, {"queued", "awaiting_human"}, to)
    /\ UNCHANGED <<approved, executed>>

\* A pass ends in front of a human, or of a target another run has locked.
AskHuman(r) ==
    /\ \E to \in {"awaiting_human", "blocked"} : Moves(r, {"running"}, to)
    /\ Executes(r)
    /\ UNCHANGED approved

\* run.locked is announced before the record says so.
Announce(r) ==
    /\ status[r] = "running"
    /\ Executes(r)
    /\ UNCHANGED <<status, approved>>

Unblock(r) ==
    /\ Moves(r, {"blocked"}, "awaiting_human")
    /\ UNCHANGED <<approved, executed>>

\* Nothing is approved twice, and only while the run asks.
ApproveStep(r, s, d) ==
    /\ status[r] = "awaiting_human"
    /\ <<r, s, d>> \notin approved
    /\ approved' = approved \cup {<<r, s, d>>}
    /\ UNCHANGED <<status, executed>>

\* Every step was approved, and the approved effects were executed.
Complete(r) ==
    /\ Moves(r, {"running"}, "completed")
    /\ Executes(r)
    /\ \A s \in Step : \E d \in Decision :
           /\ <<r, s, d>> \in approved
           /\ s \in SideEffecting => <<r, s, d>> \in executed'
    /\ UNCHANGED approved

\* A broken pass also fails the run when it was cancelled meanwhile.
Fail(r) ==
    /\ Moves(r, {"running", "cancelled"}, "failed")
    /\ Executes(r)
    /\ UNCHANGED approved

Cancel(r) ==
    /\ Moves(r, Unfinished, "cancelled")
    /\ UNCHANGED <<approved, executed>>

\* The pass a cancel overtook may still execute what was approved before it.
Overtaken(r) ==
    /\ status[r] = "cancelled"
    /\ Executes(r)
    /\ UNCHANGED <<status, approved>>

Next ==
    \E r \in Run :
        \/ Create(r)
        \/ Schedule(r)
        \/ AskHuman(r)
        \/ Announce(r)
        \/ Unblock(r)
        \/ \E s \in Step, d \in Decision : ApproveStep(r, s, d)
        \/ Complete(r)
        \/ Fail(r)
        \/ Cancel(r)
        \/ Overtaken(r)

Spec == Init /\ [][Next]_governedVars
=============================================================================

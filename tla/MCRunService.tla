----------------------------- MODULE MCRunService -----------------------------
(* RunService on two runs of two steps and two ceilings, or on three runs   *)
(* of one step (MCRunAsync.cfg).                                             *)
EXTENDS RunService, TLC

\* Both runs fit under the run ceiling and compete for the one slot the first
\* step needs: a run queues on the second kind with the first one held.  A
\* third run queues on the first kind, behind both: it is promoted when one of
\* the others gives up a walk half way.
MCLimit == [k \in Kind |-> IF k = 1 THEN 2 ELSE 1]
MCSlotsOf == [s \in Step |-> IF s = 1 THEN {2} ELSE {}]

\* Every run wants the one target when it suspends at its second step.
MCTargetOf == [p \in Run \X Step |->
                  IF p[2] = 2 THEN CHOOSE x \in Target : TRUE ELSE None]

\* No definition tells one task, or one run, from another.
MCTaskSymmetry == Permutations(Task)
MCSymmetry == Permutations(Task) \cup Permutations(Run)
=============================================================================

------------------------------ MODULE MCCeilings ------------------------------
(* Ceilings on four runs and the three kinds of SLOT_ORDER.                  *)
EXTENDS Ceilings, TLC

\* One apply slot, one model slot, two run slots: the smallest caps with which
\* a run can queue on every kind and hold one kind while waiting for a later.
MCLimit == [k \in 1..3 |-> IF k = 1 THEN 2 ELSE 1]

\* Pure steps, model-bearing steps and the dependencies apply step: the slot
\* sets definitions.py declares.
MCPassKinds == {{1}, {1, 3}, {1, 2, 3}}

\* No definition tells one run from another.
MCSymmetry == Permutations(Run)
=============================================================================

------------------------------- MODULE Ceilings -------------------------------
(***************************************************************************)
(* How drive passes share the three ceilings (runs/service.py: _try_launch, *)
(* _release_slots, _release_and_promote, _promote).                        *)
(*                                                                         *)
(* A pass acquires the kinds it needs in the one global order SLOT_ORDER   *)
(* (run, apply, model); a denial leaves it queued on that kind with every  *)
(* earlier kind still held.  It gives back the queue entry first, then its *)
(* slots in the reverse order, and every run a release promoted is walked  *)
(* again afterwards by the releasing task.  Each acquire and each release  *)
(* is a step of its own, so several API instances on one Redis are covered *)
(* as well as the single process; the operations of one run are serialised *)
(* by that run's lock.                                                     *)
(***************************************************************************)
EXTENDS CeilingOps

CONSTANTS
    NumKinds,   \* Len(SLOT_ORDER); kind k is the k-th of it, 1 is RUN_SLOT
    Limit,      \* the cap of each kind
    PassKinds   \* the kind sets _pass_kinds can return for the shipped steps

Kind == 1..NumKinds

ASSUME KindAssumption == NumKinds \in Nat \ {0}
ASSUME LimitAssumption == Limit \in [Kind -> Nat \ {0}]
ASSUME PassKindsAssumption == \A K \in PassKinds : K \subseteq Kind /\ 1 \in K

VARIABLES
    ceiling,    \* [Kind -> Ceiling]
    pass,       \* where each run's current pass stands
    needs,      \* _pass_kinds of the pass: always RUN_SLOT, plus the step's
    granted,    \* the walk's local list of kinds granted so far
    slots,      \* pending_pass["slots"]: the recorded grant
    waitingOn,  \* pending_pass["waitingOn"], 0 when absent
    handed      \* runs a release promoted whose _promote has not run yet

vars == <<ceiling, pass, needs, granted, slots, waitingOn, handed>>

\* parked: no pass (not started, or suspended for a human).  walking: inside
\* _try_launch.  parking / ending: inside _release_slots of a run that will
\* run again / that is terminal.
PassState ==
    {"parked", "walking", "queued", "running", "parking", "ending", "over"}

TypeOK ==
    /\ ceiling \in [Kind -> Ceiling]
    /\ pass \in [Run -> PassState]
    /\ needs \in [Run -> SUBSET Kind]
    /\ granted \in [Run -> SUBSET Kind]
    /\ slots \in [Run -> SUBSET Kind]
    /\ waitingOn \in [Run -> Kind \cup {0}]
    /\ handed \in SUBSET Run

Init ==
    /\ ceiling = [k \in Kind |-> FreeCeiling]
    /\ pass = [r \in Run |-> "parked"]
    /\ needs = [r \in Run |-> {}]
    /\ granted = [r \in Run |-> {}]
    /\ slots = [r \in Run |-> {}]
    /\ waitingOn = [r \in Run |-> 0]
    /\ handed = {}

----------------------------------------------------------------------------
(***************************************************************************)
(* Acquiring                                                               *)
(***************************************************************************)

\* start or decide records a new pass and enters _try_launch with it.
BeginPass(r, K) ==
    /\ pass[r] = "parked"
    /\ pass' = [pass EXCEPT ![r] = "walking"]
    /\ needs' = [needs EXCEPT ![r] = K]
    /\ UNCHANGED <<ceiling, granted, slots, waitingOn, handed>>

\* Wrong on purpose: the walk takes the last kind of SLOT_ORDER first.
NextInReverse(r, k) ==
    /\ k \in needs[r] \ granted[r]
    /\ \A j \in needs[r] \ granted[r] : j <= k

\* The next kind of the walk, in SLOT_ORDER.
NextOf(r, k) ==
    /\ k \in needs[r] \ granted[r]
    /\ \A j \in needs[r] \ granted[r] : k <= j

AcquireGranted(r, k) ==
    /\ pass[r] = "walking"
    /\ NextOf(r, k)
    /\ r \in AcquireSlot(ceiling[k], r, Limit[k]).active
    /\ ceiling' = [ceiling EXCEPT ![k] = AcquireSlot(@, r, Limit[k])]
    /\ granted' = [granted EXCEPT ![r] = @ \cup {k}]
    /\ UNCHANGED <<pass, needs, slots, waitingOn, handed>>

\* Wrong on purpose: the prefix granted so far is not recorded.
AcquireDeniedUnrecorded(r, k) ==
    /\ pass[r] = "walking"
    /\ NextOf(r, k)
    /\ r \notin AcquireSlot(ceiling[k], r, Limit[k]).active
    /\ ceiling' = [ceiling EXCEPT ![k] = AcquireSlot(@, r, Limit[k])]
    /\ pass' = [pass EXCEPT ![r] = "queued"]
    /\ granted' = [granted EXCEPT ![r] = {}]
    /\ waitingOn' = [waitingOn EXCEPT ![r] = k]
    /\ UNCHANGED <<needs, slots, handed>>

\* Denied: the walk stops, the granted prefix and the kind are recorded.
AcquireDenied(r, k) ==
    /\ pass[r] = "walking"
    /\ NextOf(r, k)
    /\ r \notin AcquireSlot(ceiling[k], r, Limit[k]).active
    /\ ceiling' = [ceiling EXCEPT ![k] = AcquireSlot(@, r, Limit[k])]
    /\ pass' = [pass EXCEPT ![r] = "queued"]
    /\ slots' = [slots EXCEPT ![r] = granted[r]]
    /\ granted' = [granted EXCEPT ![r] = {}]
    /\ waitingOn' = [waitingOn EXCEPT ![r] = k]
    /\ UNCHANGED <<needs, handed>>

Launch(r) ==
    /\ pass[r] = "walking"
    /\ granted[r] = needs[r]
    /\ pass' = [pass EXCEPT ![r] = "running"]
    /\ slots' = [slots EXCEPT ![r] = granted[r]]
    /\ granted' = [granted EXCEPT ![r] = {}]
    /\ waitingOn' = [waitingOn EXCEPT ![r] = 0]
    /\ UNCHANGED <<ceiling, needs, handed>>

\* _promote: walk the recorded pass again from its first kind; a run that is
\* terminal by now is left alone.
Promote(r) ==
    /\ r \in handed
    /\ pass[r] \in {"queued", "over"}
    /\ handed' = handed \ {r}
    /\ pass' = [pass EXCEPT ![r] = IF @ = "queued" THEN "walking" ELSE @]
    /\ UNCHANGED <<ceiling, needs, granted, slots, waitingOn>>

----------------------------------------------------------------------------
(***************************************************************************)
(* Giving back                                                             *)
(***************************************************************************)

\* The pass returned: the run is parked for a human, or it is finished.
EndPass(r, how) ==
    /\ pass[r] = "running"
    /\ how \in {"parking", "ending"}
    /\ pass' = [pass EXCEPT ![r] = how]
    /\ UNCHANGED <<ceiling, needs, granted, slots, waitingOn, handed>>

\* cancel of a run that is still waiting for a slot.
CancelQueued(r) ==
    /\ pass[r] = "queued"
    /\ pass' = [pass EXCEPT ![r] = "ending"]
    /\ UNCHANGED <<ceiling, needs, granted, slots, waitingOn, handed>>

\* _release_order: the queue entry first, then the grant in reverse order.
NextToRelease(r, k) ==
    IF waitingOn[r] # 0
    THEN k = waitingOn[r]
    ELSE k \in slots[r] /\ \A j \in slots[r] : j <= k

\* Wrong on purpose: only the last release's promotion is remembered.
ReleaseNextForgets(r, k) ==
    /\ pass[r] \in {"parking", "ending"}
    /\ NextToRelease(r, k)
    /\ ceiling' = [ceiling EXCEPT ![k] = ReleaseSlot(@, r, Limit[k])]
    /\ handed' = PromotedBy(ceiling[k], r, Limit[k])
    /\ waitingOn' = [waitingOn EXCEPT ![r] = 0]
    /\ slots' = [slots EXCEPT ![r] = @ \ {k}]
    /\ UNCHANGED <<pass, needs, granted>>

\* One release of _release_slots.
ReleaseNext(r, k) ==
    /\ pass[r] \in {"parking", "ending"}
    /\ NextToRelease(r, k)
    /\ ceiling' = [ceiling EXCEPT ![k] = ReleaseSlot(@, r, Limit[k])]
    /\ handed' = handed \cup PromotedBy(ceiling[k], r, Limit[k])
    /\ waitingOn' = [waitingOn EXCEPT ![r] = 0]
    /\ slots' = [slots EXCEPT ![r] = @ \ {k}]
    /\ UNCHANGED <<pass, needs, granted>>

\* Everything is back: pending_pass is cleared.
EndRelease(r) ==
    /\ pass[r] \in {"parking", "ending"}
    /\ waitingOn[r] = 0
    /\ slots[r] = {}
    /\ pass' = [pass EXCEPT ![r] = IF @ = "parking" THEN "parked" ELSE "over"]
    /\ needs' = [needs EXCEPT ![r] = {}]
    /\ UNCHANGED <<ceiling, granted, slots, waitingOn, handed>>

----------------------------------------------------------------------------
\* The steps the service itself takes for run r, once r has a pass.
Walk(r) ==
    \/ \E k \in Kind : AcquireGranted(r, k) \/ AcquireDenied(r, k)
    \/ Launch(r)

GiveBack(r) == (\E k \in Kind : ReleaseNext(r, k)) \/ EndRelease(r)

Finish(r) == \E how \in {"parking", "ending"} : EndPass(r, how)

Next ==
    \E r \in Run :
        \/ \E K \in PassKinds : BeginPass(r, K)
        \/ Walk(r)
        \/ Promote(r)
        \/ Finish(r)
        \/ CancelQueued(r)
        \/ GiveBack(r)

Spec == Init /\ [][Next]_vars

----------------------------------------------------------------------------
(***************************************************************************)
(* Safety                                                                  *)
(***************************************************************************)

\* No kind ever has more holders than its cap, even while releases promote.
CapRespected == \A k \in Kind : Cardinality(ceiling[k].active) <= Limit[k]

\* A run is in a waiting line at most once, and never in the line of a kind it
\* holds: the release script's early return would lose the freed slot.
LineWellFormed ==
    \A k \in Kind :
        /\ \A i, j \in DOMAIN ceiling[k].queued :
               ceiling[k].queued[i] = ceiling[k].queued[j] => i = j
        /\ ceiling[k].active \cap Waiting(ceiling[k]) = {}

\* A slot is never idle while somebody waits for it.
NoIdleSlot ==
    \A k \in Kind :
        ceiling[k].queued # <<>> => Cardinality(ceiling[k].active) = Limit[k]

\* Every slot that is taken is in its holder's record or walk, so some exit
\* path gives it back; and every recorded slot is really held.
EverySlotAccounted ==
    \A r \in Run, k \in Kind :
        /\ r \in ceiling[k].active =>
               k \in slots[r] \cup granted[r] \cup {waitingOn[r]}
        /\ k \in slots[r] \cup granted[r] => r \in ceiling[k].active

\* A run that waits holds only earlier kinds: no cycle of waiting runs.
WaitsInOrder ==
    \A r \in Run :
        pass[r] = "queued" =>
            /\ waitingOn[r] \in needs[r]
            /\ \A k \in slots[r] : k < waitingOn[r]
            /\ \A k \in needs[r] : k < waitingOn[r] => k \in slots[r]

\* A queued run is in the line it waits in, or it owns the slot and its
\* promotion is on the way: it is never stranded.
NotStranded ==
    \A r \in Run :
        pass[r] = "queued" =>
            \/ r \in Waiting(ceiling[waitingOn[r]])
            \/ r \in handed /\ r \in ceiling[waitingOn[r]].active

----------------------------------------------------------------------------
(***************************************************************************)
(* Action properties                                                       *)
(***************************************************************************)

\* FIFO: while a line is not empty only its head can become a holder.
HeadOfLineFirst ==
    [][\A k \in Kind :
          ceiling[k].queued # <<>> =>
              ceiling'[k].active \ ceiling[k].active
                  \subseteq {Head(ceiling[k].queued)}]_vars

\* Who stands before r in the line.
Ahead(c, r) ==
    {c.queued[i] : i \in {i \in DOMAIN c.queued :
                             \E j \in DOMAIN c.queued : i < j /\ c.queued[j] = r}}

\* "An already queued run keeps its place" (_try_launch): nobody gets in front of
\* a run that waits.
KeepsItsPlace ==
    [][\A k \in Kind :
          \A r \in Waiting(ceiling[k]) \cap Waiting(ceiling'[k]) :
              Ahead(ceiling'[k], r) \subseteq Ahead(ceiling[k], r)]_vars
=============================================================================

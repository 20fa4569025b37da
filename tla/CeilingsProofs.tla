---------------------------- MODULE CeilingsProofs ----------------------------
(***************************************************************************)
(* Theorems about the ceilings, for any runs, kinds and caps.  The line    *)
(* and cap invariants follow from two facts about single operations        *)
(* (AcquireKeepsGood, ReleaseKeepsGood of CeilingOpsProofs).               *)
(*                                                                         *)
(* The properties that say who holds and who waits for which slot hold with *)
(* both back-ends: every slot is on record, waiting runs cannot block one  *)
(* another in a cycle, nobody is stranded, and the lines are first come,   *)
(* first served.                                                           *)
(*                                                                         *)
(* None of these is inductive.  What a release may promote depends on where *)
(* a run waits, what a promoted run takes again depends on what the record *)
(* of the pass says, and what a denial records must contain what the walk  *)
(* before it held.  Settled(r) ties the three ceilings, the record and the *)
(* phase of one run together; Inv says it of all runs.                     *)
(***************************************************************************)
EXTENDS Ceilings, CeilingOpsProofs

\* The caps are positive numbers and the kinds are what they range over.
LEMMA LimitPositive == \A k \in Kind : Limit[k] \in Nat \ {0}
BY LimitAssumption

\* Every ceiling is well formed.
AllGood == \A k \in Kind : Good(ceiling[k], Limit[k])

\* Type correctness of the pass state, and well-formed ceilings: the state of
\* every run and of every ceiling stays one the service can be in.
THEOREM TypeAndLines == Spec => [](TypeOK /\ AllGood)
<1>1. Init => TypeOK /\ AllGood
  BY FreeIsGood, LimitPositive DEF Init, TypeOK, AllGood, PassState, Ceiling, FreeCeiling
<1>2. TypeOK /\ AllGood /\ [Next]_vars => TypeOK' /\ AllGood'
  <2> SUFFICES ASSUME TypeOK, AllGood, [Next]_vars
               PROVE  TypeOK' /\ AllGood'
    OBVIOUS
  <2>1. ASSUME NEW k \in Kind, NEW c, Good(c, Limit[k]),
               ceiling' = [ceiling EXCEPT ![k] = c]
        PROVE  ceiling' \in [Kind -> Ceiling] /\ AllGood'
    BY <2>1 DEF TypeOK, AllGood, Good
  <2>2. ASSUME UNCHANGED ceiling
        PROVE  ceiling' \in [Kind -> Ceiling] /\ AllGood'
    BY <2>2 DEF TypeOK, AllGood
  <2>3. ASSUME NEW r \in Run, NEW K \in PassKinds, BeginPass(r, K)
        PROVE  TypeOK' /\ AllGood'
    BY <2>2, <2>3, PassKindsAssumption DEF BeginPass, TypeOK, PassState
  <2>4. ASSUME NEW r \in Run, NEW k \in Kind, AcquireGranted(r, k)
        PROVE  TypeOK' /\ AllGood'
    <3>1. Good(AcquireSlot(ceiling[k], r, Limit[k]), Limit[k])
      BY AcquireKeepsGood, LimitPositive DEF AllGood
    <3>2. ceiling' \in [Kind -> Ceiling] /\ AllGood'
      BY <2>1, <2>4, <3>1 DEF AcquireGranted
    <3>3. QED
      BY <2>4, <3>2 DEF AcquireGranted, TypeOK
  <2>5. ASSUME NEW r \in Run, NEW k \in Kind, AcquireDenied(r, k)
        PROVE  TypeOK' /\ AllGood'
    <3>1. Good(AcquireSlot(ceiling[k], r, Limit[k]), Limit[k])
      BY AcquireKeepsGood, LimitPositive DEF AllGood
    <3>2. ceiling' \in [Kind -> Ceiling] /\ AllGood'
      BY <2>1, <2>5, <3>1 DEF AcquireDenied
    <3>3. QED
      BY <2>5, <3>2 DEF AcquireDenied, TypeOK, PassState
  <2>6. ASSUME NEW r \in Run, Launch(r)
        PROVE  TypeOK' /\ AllGood'
    BY <2>2, <2>6 DEF Launch, TypeOK, PassState
  <2>7. ASSUME NEW r \in Run, Promote(r)
        PROVE  TypeOK' /\ AllGood'
    BY <2>2, <2>7 DEF Promote, TypeOK, PassState
  <2>8. ASSUME NEW r \in Run, Finish(r)
        PROVE  TypeOK' /\ AllGood'
    BY <2>2, <2>8 DEF Finish, EndPass, TypeOK, PassState
  <2>9. ASSUME NEW r \in Run, CancelQueued(r)
        PROVE  TypeOK' /\ AllGood'
    BY <2>2, <2>9 DEF CancelQueued, TypeOK, PassState
  <2>10. ASSUME NEW r \in Run, NEW k \in Kind, ReleaseNext(r, k)
         PROVE  TypeOK' /\ AllGood'
    <3>1. /\ Good(ReleaseSlot(ceiling[k], r, Limit[k]), Limit[k])
          /\ PromotedBy(ceiling[k], r, Limit[k]) \subseteq Waiting(ceiling[k])
      BY ReleaseKeepsGood, LimitPositive DEF AllGood
    <3>2. ceiling' \in [Kind -> Ceiling] /\ AllGood'
      BY <2>1, <2>10, <3>1 DEF ReleaseNext
    <3>3. Waiting(ceiling[k]) \subseteq Run
      BY DEF AllGood, Good, Ceiling, Waiting
    <3>4. QED
      BY <2>10, <3>1, <3>2, <3>3 DEF ReleaseNext, TypeOK
  <2>11. ASSUME NEW r \in Run, EndRelease(r)
         PROVE  TypeOK' /\ AllGood'
    BY <2>2, <2>11 DEF EndRelease, TypeOK, PassState
  <2>12. CASE UNCHANGED vars
    BY <2>2, <2>12 DEF vars, TypeOK
  <2>13. QED
    BY <2>3, <2>4, <2>5, <2>6, <2>7, <2>8, <2>9, <2>10, <2>11, <2>12
       DEF Next, Walk, GiveBack
<1>3. QED
  BY <1>1, <1>2, PTL DEF Spec

\* No kind ever has more holders than its cap.
THEOREM CapIsRespected == Spec => []CapRespected
<1>1. AllGood => CapRespected
  BY DEF AllGood, Good, CapRespected
<1>2. QED
  BY <1>1, TypeAndLines, PTL

\* Nobody is in a line twice, or in the line of a kind it holds.
THEOREM LinesAreWellFormed == Spec => []LineWellFormed
<1>1. AllGood => LineWellFormed
  BY DEF AllGood, Good, Distinct, LineWellFormed
<1>2. QED
  BY <1>1, TypeAndLines, PTL

\* No slot is idle while somebody waits for it.
THEOREM SlotsAreNeverIdle == Spec => []NoIdleSlot
<1>1. AllGood => NoIdleSlot
  BY DEF AllGood, Good, NoIdleSlot
<1>2. QED
  BY <1>1, TypeAndLines, PTL

----------------------------------------------------------------------------
\* What a run holds is in its record or its walk, and the other way round.
HeldIsRecorded(r) ==
    \A k \in Kind :
        r \in ceiling[k].active => k \in slots[r] \cup granted[r] \cup {waitingOn[r]}

RecordedIsHeld(r) == \A k \in slots[r] \cup granted[r] : r \in ceiling[k].active

\* A run waits for one kind at most, the recorded one.
WaitsWhereRecorded(r) ==
    \A k \in Kind :
        r \in Waiting(ceiling[k]) =>
            pass[r] \in {"queued", "ending"} /\ waitingOn[r] = k

\* The record names kinds of the pass only.
RecordIsNeeded(r) ==
    /\ slots[r] \cup granted[r] \subseteq needs[r]
    /\ waitingOn[r] # 0 => waitingOn[r] \in needs[r]

\* Kinds are granted in SLOT_ORDER, and a denial records every earlier kind.
GrantIsPrefix(r) ==
    /\ \A k \in granted[r], j \in needs[r] : j < k => j \in granted[r]
    /\ pass[r] \in {"queued", "walking"} /\ waitingOn[r] # 0 =>
           slots[r] = {k \in needs[r] : k < waitingOn[r]}

\* A walk is fresh, or it was promoted and owns the slot it waited for.
WalkIsPaid(r) ==
    /\ pass[r] # "walking" => granted[r] = {}
    /\ pass[r] = "walking" =>
           IF waitingOn[r] = 0 THEN slots[r] = {}
                               ELSE r \in ceiling[waitingOn[r]].active

\* A run without a pass has no record; promotions are of waiting runs only.
IdleIsEmpty(r) ==
    /\ pass[r] \in {"parked", "over"} => slots[r] = {} /\ waitingOn[r] = 0
    /\ r \in handed => pass[r] \in {"queued", "ending", "over"}

\* A queued run is in its line, or promoted and holding the slot.
QueuedIsSomewhere(r) ==
    pass[r] = "queued" =>
        /\ waitingOn[r] # 0
        /\ r \in Waiting(ceiling[waitingOn[r]]) \/ r \in handed
        /\ r \in handed => r \in ceiling[waitingOn[r]].active

Settled(r) ==
    /\ HeldIsRecorded(r)
    /\ RecordedIsHeld(r)
    /\ WaitsWhereRecorded(r)
    /\ RecordIsNeeded(r)
    /\ GrantIsPrefix(r)
    /\ WalkIsPaid(r)
    /\ IdleIsEmpty(r)
    /\ QueuedIsSomewhere(r)

Inv == \A r \in Run : Settled(r)

----------------------------------------------------------------------------
(***************************************************************************)
(* A run that an operation of another run does not concern, and one that   *)
(* the release of another run promotes.                                    *)
(***************************************************************************)

\* Everything that is kept of run q by a step of another run.
Kept(q) ==
    /\ pass'[q] = pass[q]
    /\ needs'[q] = needs[q]
    /\ granted'[q] = granted[q]
    /\ slots'[q] = slots[q]
    /\ waitingOn'[q] = waitingOn[q]

LEMMA UnconcernedStaysSettled ==
    ASSUME TypeOK, NEW q \in Run, Settled(q), Kept(q),
           q \in handed' <=> q \in handed,
           \A k \in Kind :
               /\ q \in ceiling'[k].active <=> q \in ceiling[k].active
               /\ q \in Waiting(ceiling'[k]) <=> q \in Waiting(ceiling[k])
    PROVE  Settled(q)'
<1>1. /\ slots[q] \subseteq Kind /\ granted[q] \subseteq Kind
      /\ waitingOn[q] # 0 => waitingOn[q] \in Kind
  BY DEF TypeOK
<1>2. HeldIsRecorded(q)' /\ RecordedIsHeld(q)'
  BY <1>1 DEF Settled, HeldIsRecorded, RecordedIsHeld, Kept
<1>3. WaitsWhereRecorded(q)'
  BY DEF Settled, WaitsWhereRecorded, Kept
<1>4. RecordIsNeeded(q)' /\ GrantIsPrefix(q)' /\ IdleIsEmpty(q)'
  BY DEF Settled, RecordIsNeeded, GrantIsPrefix, IdleIsEmpty, Kept
<1>5. WalkIsPaid(q)' /\ QueuedIsSomewhere(q)'
  BY <1>1 DEF Settled, WalkIsPaid, QueuedIsSomewhere, Kept
<1>6. QED
  BY <1>2, <1>3, <1>4, <1>5 DEF Settled

LEMMA PromotedStaysSettled ==
    ASSUME TypeOK, NEW q \in Run, Settled(q), Kept(q), q \in handed',
           NEW k \in Kind, q \in Waiting(ceiling[k]),
           q \in ceiling'[k].active, q \notin Waiting(ceiling'[k]),
           \A j \in Kind \ {k} : ceiling'[j] = ceiling[j]
    PROVE  Settled(q)'
<1>1. /\ slots[q] \subseteq Kind /\ granted[q] \subseteq Kind
      /\ waitingOn[q] = k /\ pass[q] \in {"queued", "ending"} /\ k # 0
  BY KindAssumption DEF TypeOK, Settled, WaitsWhereRecorded, Kind
<1>2. HeldIsRecorded(q)' /\ RecordedIsHeld(q)'
  BY <1>1 DEF Settled, HeldIsRecorded, RecordedIsHeld, Kept
<1>3. WaitsWhereRecorded(q)'
  BY DEF Settled, WaitsWhereRecorded, Kept
<1>4. RecordIsNeeded(q)' /\ GrantIsPrefix(q)' /\ IdleIsEmpty(q)'
  BY <1>1 DEF Settled, RecordIsNeeded, GrantIsPrefix, IdleIsEmpty, Kept
<1>5. WalkIsPaid(q)' /\ QueuedIsSomewhere(q)'
  BY <1>1 DEF Settled, WalkIsPaid, QueuedIsSomewhere, Kept
<1>6. QED
  BY <1>2, <1>3, <1>4, <1>5 DEF Settled

----------------------------------------------------------------------------
(***************************************************************************)
(* The actions.                                                            *)
(***************************************************************************)

\* What an acquire of r at k does to the three ceilings.
Acquired(r, k) ==
    LET d == ceiling'[k]
    IN  /\ \A j \in Kind \ {k} : ceiling'[j] = ceiling[j]
        /\ r \in d.active => /\ d.active = ceiling[k].active \cup {r}
                             /\ Waiting(d) = Waiting(ceiling[k]) \ {r}
        /\ r \notin d.active => /\ d.active = ceiling[k].active
                                /\ Waiting(d) = Waiting(ceiling[k]) \cup {r}

LEMMA AcquireAtKind ==
    ASSUME TypeOK, AllGood, NEW r \in Run, NEW k \in Kind,
           ceiling' = [ceiling EXCEPT ![k] = AcquireSlot(@, r, Limit[k])]
    PROVE  /\ Acquired(r, k)
           /\ ceiling'[k] = AcquireSlot(ceiling[k], r, Limit[k])
<1>1. Good(ceiling[k], Limit[k]) /\ Limit[k] \in Nat \ {0}
  BY LimitPositive DEF AllGood
<1>2. ceiling'[k] = AcquireSlot(ceiling[k], r, Limit[k])
      /\ \A j \in Kind \ {k} : ceiling'[j] = ceiling[j]
  BY DEF TypeOK
<1>3. QED
  BY <1>1, <1>2, AcquireEffect DEF Acquired

LEMMA GrantedKeepsInv ==
    ASSUME TypeOK, AllGood, Inv, NEW r \in Run, NEW k \in Kind, AcquireGranted(r, k)
    PROVE  Inv'
<1>1. Acquired(r, k) /\ r \in ceiling'[k].active
  BY AcquireAtKind DEF AcquireGranted
<1>2. ASSUME NEW q \in Run \ {r}
      PROVE  Settled(q)'
  <2>1. Kept(q) /\ handed' = handed
    BY DEF AcquireGranted, Kept, TypeOK
  <2>2. \A j \in Kind :
            /\ q \in ceiling'[j].active <=> q \in ceiling[j].active
            /\ q \in Waiting(ceiling'[j]) <=> q \in Waiting(ceiling[j])
    BY <1>1 DEF Acquired
  <2>3. QED
    BY <2>1, <2>2, UnconcernedStaysSettled DEF Inv
<1>3. Settled(r)'
  <2>1. /\ Settled(r) /\ pass[r] = "walking" /\ r \notin handed
        /\ needs[r] \subseteq Kind /\ Kind \subseteq Nat
        /\ waitingOn[r] # 0 => waitingOn[r] \in Kind
        /\ slots[r] \subseteq Kind /\ granted[r] \subseteq Kind
    BY KindAssumption DEF AcquireGranted, Inv, Settled, IdleIsEmpty, TypeOK, Kind
  <2>2. /\ pass' = pass /\ needs' = needs /\ slots' = slots
        /\ waitingOn' = waitingOn /\ handed' = handed
        /\ granted'[r] = granted[r] \cup {k}
    BY DEF AcquireGranted, TypeOK
  <2>3. k \in needs[r] /\ \A j \in needs[r] \ granted[r] : k <= j
    BY DEF AcquireGranted, NextOf
  <2>4. \A j \in Kind : r \notin Waiting(ceiling[j]) /\ r \notin Waiting(ceiling'[j])
    BY <1>1, <2>1 DEF Settled, WaitsWhereRecorded, Acquired
  <2>5. \A j \in Kind : r \in ceiling'[j].active <=> r \in ceiling[j].active \/ j = k
    BY <1>1 DEF Acquired
  <2>6. HeldIsRecorded(r)' /\ RecordedIsHeld(r)'
    BY <2>1, <2>2, <2>5 DEF Settled, HeldIsRecorded, RecordedIsHeld
  <2>7. WaitsWhereRecorded(r)' /\ IdleIsEmpty(r)' /\ QueuedIsSomewhere(r)'
    BY <2>1, <2>2, <2>4 DEF WaitsWhereRecorded, IdleIsEmpty, QueuedIsSomewhere
  <2>8. RecordIsNeeded(r)' /\ WalkIsPaid(r)'
    BY <2>1, <2>2, <2>3, <2>5 DEF Settled, RecordIsNeeded, WalkIsPaid
  <2>9. GrantIsPrefix(r)'
    BY <2>1, <2>2, <2>3 DEF Settled, GrantIsPrefix
  <2>10. QED
    BY <2>6, <2>7, <2>8, <2>9 DEF Settled
<1>4. QED
  BY <1>2, <1>3 DEF Inv

\* A denial at k: the kinds held before are earlier ones, so the granted prefix
\* that is recorded contains them.
LEMMA DeniedKeepsInv ==
    ASSUME TypeOK, AllGood, Inv, NEW r \in Run, NEW k \in Kind, AcquireDenied(r, k)
    PROVE  Inv'
<1>1. Acquired(r, k) /\ r \notin ceiling'[k].active
  BY AcquireAtKind DEF AcquireDenied
<1>2. ASSUME NEW q \in Run \ {r}
      PROVE  Settled(q)'
  <2>1. Kept(q) /\ handed' = handed
    BY DEF AcquireDenied, Kept, TypeOK
  <2>2. \A j \in Kind :
            /\ q \in ceiling'[j].active <=> q \in ceiling[j].active
            /\ q \in Waiting(ceiling'[j]) <=> q \in Waiting(ceiling[j])
    BY <1>1 DEF Acquired
  <2>3. QED
    BY <2>1, <2>2, UnconcernedStaysSettled DEF Inv
<1>3. Settled(r)'
  <2>1. /\ Settled(r) /\ pass[r] = "walking" /\ r \notin handed
        /\ needs[r] \subseteq Kind /\ Kind \subseteq Nat \ {0}
        /\ waitingOn[r] # 0 => waitingOn[r] \in Kind
        /\ slots[r] \subseteq Kind /\ granted[r] \subseteq Kind
    BY KindAssumption DEF AcquireDenied, Inv, Settled, IdleIsEmpty, TypeOK, Kind
  <2>2. /\ pass'[r] = "queued" /\ needs' = needs /\ slots'[r] = granted[r]
        /\ waitingOn'[r] = k /\ handed' = handed /\ granted'[r] = {}
    BY DEF AcquireDenied, TypeOK
  <2>3. k \in needs[r] \ granted[r] /\ \A j \in needs[r] \ granted[r] : k <= j
    BY DEF AcquireDenied, NextOf
  <2>4. \A j \in Kind : r \in ceiling'[j].active <=> r \in ceiling[j].active
    BY <1>1 DEF Acquired
  <2>5. \A j \in Kind : r \in Waiting(ceiling'[j]) <=> j = k
    BY <1>1, <2>1 DEF Settled, WaitsWhereRecorded, Acquired
  <2>6. granted[r] = {j \in needs[r] : j < k}
    BY <2>1, <2>3 DEF Settled, GrantIsPrefix, RecordIsNeeded
  <2>7. r \notin ceiling[k].active
    BY <1>1, <2>4
  <2>8. slots[r] \cup ({waitingOn[r]} \ {0}) \subseteq granted[r]
    <3>1. CASE waitingOn[r] = 0
      BY <2>1, <3>1 DEF Settled, WalkIsPaid
    <3>2. CASE waitingOn[r] # 0
      <4> DEFINE w == waitingOn[r]
      <4>1. w \in needs[r] /\ r \in ceiling[w].active
            /\ slots[r] = {j \in needs[r] : j < w}
        BY <2>1, <3>2 DEF Settled, WalkIsPaid, RecordIsNeeded, GrantIsPrefix
      <4>2. k \notin slots[r] /\ k # w
        BY <2>1, <2>7, <4>1 DEF Settled, RecordedIsHeld
      <4> HIDE DEF w
      <4>3. w \in Nat /\ k \in Nat /\ ~(k < w)
        BY <2>1, <2>3, <4>1, <4>2
      <4>4. w < k
        BY <4>2, <4>3
      <4>5. \A j \in Nat : j < w => j < k
        BY <4>3, <4>4
      <4>6. slots[r] \subseteq granted[r] /\ w \in granted[r]
        BY <2>1, <2>6, <4>1, <4>4, <4>5
      <4>7. QED
        BY <4>6 DEF w
    <3>3. QED
      BY <3>1, <3>2
  <2>9. HeldIsRecorded(r)' /\ RecordedIsHeld(r)'
    BY <2>1, <2>2, <2>4, <2>8 DEF Settled, HeldIsRecorded, RecordedIsHeld
  <2>10. WaitsWhereRecorded(r)' /\ IdleIsEmpty(r)' /\ QueuedIsSomewhere(r)'
    BY <2>1, <2>2, <2>5 DEF WaitsWhereRecorded, IdleIsEmpty, QueuedIsSomewhere
  <2>11. RecordIsNeeded(r)' /\ WalkIsPaid(r)' /\ GrantIsPrefix(r)'
    BY <2>1, <2>2, <2>3, <2>6 DEF Settled, RecordIsNeeded, WalkIsPaid, GrantIsPrefix
  <2>12. QED
    BY <2>9, <2>10, <2>11 DEF Settled
<1>4. QED
  BY <1>2, <1>3 DEF Inv

\* Steps that leave the ceilings alone concern one run.
LEMMA LocalKeepsInv ==
    ASSUME TypeOK, AllGood, Inv, NEW r \in Run,
           \/ \E K \in PassKinds : BeginPass(r, K)
           \/ Launch(r)
           \/ Promote(r)
           \/ Finish(r)
           \/ CancelQueued(r)
           \/ EndRelease(r)
    PROVE  Inv'
<1>1. ceiling' = ceiling /\ \A q \in Run \ {r} : q \in handed' <=> q \in handed
  BY DEF BeginPass, Launch, Promote, Finish, EndPass, CancelQueued, EndRelease
<1>2. ASSUME NEW q \in Run \ {r}
      PROVE  Settled(q)'
  <2>1. Kept(q)
    BY DEF Kept, TypeOK, BeginPass, Launch, Promote, Finish, EndPass, CancelQueued,
           EndRelease
  <2>2. QED
    BY <1>1, <2>1, UnconcernedStaysSettled DEF Inv
<1>3. /\ Settled(r) /\ needs[r] \subseteq Kind /\ 0 \notin Kind
      /\ waitingOn[r] # 0 => waitingOn[r] \in Kind
      /\ slots[r] \subseteq Kind /\ granted[r] \subseteq Kind
  BY KindAssumption DEF Inv, TypeOK, Kind
<1>4. ASSUME NEW K \in PassKinds, BeginPass(r, K)
      PROVE  Settled(r)'
  <2>1. /\ pass[r] = "parked" /\ pass'[r] = "walking" /\ needs'[r] = K
        /\ UNCHANGED <<granted, slots, waitingOn, handed>>
    BY <1>4 DEF BeginPass, TypeOK
  <2>2. granted[r] = {} /\ slots[r] = {} /\ waitingOn[r] = 0 /\ r \notin handed
        /\ \A k \in Kind : r \notin ceiling[k].active /\ r \notin Waiting(ceiling[k])
    BY <1>3, <2>1 DEF Settled, IdleIsEmpty, WalkIsPaid, HeldIsRecorded,
                      WaitsWhereRecorded
  <2>3. QED
    BY <1>1, <2>1, <2>2 DEF Settled, HeldIsRecorded, RecordedIsHeld,
       WaitsWhereRecorded, RecordIsNeeded, GrantIsPrefix, WalkIsPaid, IdleIsEmpty,
       QueuedIsSomewhere
<1>5. ASSUME Launch(r)
      PROVE  Settled(r)'
  <2>1. /\ pass[r] = "walking" /\ pass'[r] = "running" /\ granted[r] = needs[r]
        /\ slots'[r] = needs[r] /\ granted'[r] = {} /\ waitingOn'[r] = 0
        /\ UNCHANGED <<needs, handed>>
    BY <1>5 DEF Launch, TypeOK
  <2>2. r \notin handed /\ \A k \in Kind : r \notin Waiting(ceiling[k])
    BY <1>3, <2>1 DEF Settled, IdleIsEmpty, WaitsWhereRecorded
  <2>3. \A k \in Kind : r \in ceiling[k].active <=> k \in needs[r]
    BY <1>3, <2>1 DEF Settled, HeldIsRecorded, RecordedIsHeld, RecordIsNeeded
  <2>4. QED
    BY <1>1, <1>3, <2>1, <2>2, <2>3 DEF Settled, HeldIsRecorded, RecordedIsHeld,
       WaitsWhereRecorded, RecordIsNeeded, GrantIsPrefix, WalkIsPaid, IdleIsEmpty,
       QueuedIsSomewhere
<1>6. ASSUME Promote(r)
      PROVE  Settled(r)'
  <2>1. /\ r \in handed /\ r \notin handed'
        /\ UNCHANGED <<needs, granted, slots, waitingOn>>
        /\ \/ pass[r] = "over" /\ pass'[r] = "over"
           \/ pass[r] = "queued" /\ pass'[r] = "walking"
    BY <1>6 DEF Promote, TypeOK
  <2>2. CASE pass[r] = "over"
    BY <1>1, <1>3, <2>1, <2>2 DEF Settled, HeldIsRecorded, RecordedIsHeld,
       WaitsWhereRecorded, RecordIsNeeded, GrantIsPrefix, WalkIsPaid, IdleIsEmpty,
       QueuedIsSomewhere
  <2>3. CASE pass[r] = "queued"
    <3>1. pass'[r] = "walking" /\ waitingOn[r] # 0 /\ r \in ceiling[waitingOn[r]].active
      BY <1>3, <2>1, <2>3 DEF Settled, QueuedIsSomewhere
    <3>2. \A k \in Kind : r \notin Waiting(ceiling[k])
      BY <1>3, <3>1 DEF Settled, WaitsWhereRecorded, AllGood, Good
    <3>3. QED
      BY <1>1, <1>3, <2>1, <2>3, <3>1, <3>2 DEF Settled, HeldIsRecorded,
         RecordedIsHeld, WaitsWhereRecorded, RecordIsNeeded, GrantIsPrefix,
         WalkIsPaid, IdleIsEmpty, QueuedIsSomewhere
  <2>4. QED
    BY <2>1, <2>2, <2>3
<1>7. ASSUME Finish(r) \/ CancelQueued(r)
      PROVE  Settled(r)'
  <2>1. /\ UNCHANGED <<needs, granted, slots, waitingOn, handed>>
        /\ \/ pass[r] = "running" /\ pass'[r] \in {"parking", "ending"}
           \/ pass[r] = "queued" /\ pass'[r] = "ending"
    BY <1>7 DEF Finish, EndPass, CancelQueued, TypeOK
  <2>2. QED
    BY <1>1, <1>3, <2>1 DEF Settled, HeldIsRecorded, RecordedIsHeld,
       WaitsWhereRecorded, RecordIsNeeded, GrantIsPrefix, WalkIsPaid, IdleIsEmpty,
       QueuedIsSomewhere
<1>8. ASSUME EndRelease(r)
      PROVE  Settled(r)'
  <2>1. /\ pass[r] \in {"parking", "ending"} /\ waitingOn[r] = 0 /\ slots[r] = {}
        /\ pass'[r] = (IF pass[r] = "parking" THEN "parked" ELSE "over")
        /\ needs'[r] = {} /\ UNCHANGED <<granted, slots, waitingOn, handed>>
    BY <1>8 DEF EndRelease, TypeOK
  <2>2. granted[r] = {} /\ \A k \in Kind : /\ r \notin ceiling[k].active
                                            /\ r \notin Waiting(ceiling[k])
    BY <1>3, <2>1 DEF Settled, WalkIsPaid, HeldIsRecorded, WaitsWhereRecorded
  <2>3. QED
    BY <1>1, <1>3, <2>1, <2>2 DEF Settled, HeldIsRecorded, RecordedIsHeld,
       WaitsWhereRecorded, RecordIsNeeded, GrantIsPrefix, WalkIsPaid, IdleIsEmpty,
       QueuedIsSomewhere
<1>9. QED
  BY <1>2, <1>4, <1>5, <1>6, <1>7, <1>8 DEF Inv

\* A release of r at k: r is out of that ceiling, and the head of its line may
\* have got the slot.
LEMMA ReleaseKeepsInv ==
    ASSUME TypeOK, AllGood, Inv, NEW r \in Run, NEW k \in Kind, ReleaseNext(r, k)
    PROVE  Inv'
<1> DEFINE P == PromotedBy(ceiling[k], r, Limit[k])
<1>1. /\ \A j \in Kind \ {k} : ceiling'[j] = ceiling[j]
      /\ ceiling'[k].active = (ceiling[k].active \ {r}) \cup P
      /\ Waiting(ceiling'[k]) = (Waiting(ceiling[k]) \ {r}) \ P
      /\ P \subseteq Waiting(ceiling[k]) \ {r}
  <2>1. Good(ceiling[k], Limit[k]) /\ Limit[k] \in Nat \ {0}
    BY LimitPositive DEF AllGood
  <2>2. ceiling'[k] = ReleaseSlot(ceiling[k], r, Limit[k])
        /\ \A j \in Kind \ {k} : ceiling'[j] = ceiling[j]
    BY DEF ReleaseNext, TypeOK
  <2>3. QED
    BY <2>1, <2>2, ReleaseEffect
<1>2. handed' = handed \cup P
  BY DEF ReleaseNext
<1> HIDE DEF P
<1>3. ASSUME NEW q \in Run \ {r}
      PROVE  Settled(q)'
  <2>1. Kept(q) /\ Settled(q)
    BY DEF ReleaseNext, Kept, TypeOK, Inv
  <2>2. CASE q \in P
    BY <1>1, <1>2, <2>1, <2>2, PromotedStaysSettled
  <2>3. CASE q \notin P
    <3>1. \A j \in Kind :
              /\ q \in ceiling'[j].active <=> q \in ceiling[j].active
              /\ q \in Waiting(ceiling'[j]) <=> q \in Waiting(ceiling[j])
      BY <1>1, <2>3
    <3>2. QED
      BY <1>2, <2>1, <2>3, <3>1, UnconcernedStaysSettled
  <2>4. QED
    BY <2>2, <2>3
<1>4. Settled(r)'
  <2>1. /\ Settled(r) /\ pass[r] \in {"parking", "ending"} /\ 0 \notin Kind
        /\ slots[r] \subseteq Kind
        /\ waitingOn[r] # 0 => k = waitingOn[r]
    BY KindAssumption DEF ReleaseNext, NextToRelease, Inv, TypeOK, Kind
  <2>2. /\ UNCHANGED <<pass, needs, granted>>
        /\ slots'[r] = slots[r] \ {k} /\ waitingOn'[r] = 0
    BY DEF ReleaseNext, TypeOK
  <2>3. granted[r] = {}
    BY <2>1 DEF Settled, WalkIsPaid
  <2>4. \A j \in Kind : r \in ceiling'[j].active <=> j # k /\ r \in ceiling[j].active
    BY <1>1
  <2>5. \A j \in Kind : r \notin Waiting(ceiling'[j])
    BY <1>1, <2>1 DEF Settled, WaitsWhereRecorded
  <2>6. r \in handed' <=> r \in handed
    BY <1>1, <1>2
  <2>7. HeldIsRecorded(r)' /\ RecordedIsHeld(r)'
    BY <2>1, <2>2, <2>3, <2>4 DEF Settled, HeldIsRecorded, RecordedIsHeld
  <2>8. WaitsWhereRecorded(r)' /\ RecordIsNeeded(r)' /\ GrantIsPrefix(r)'
    BY <2>1, <2>2, <2>3, <2>5
       DEF Settled, WaitsWhereRecorded, RecordIsNeeded, GrantIsPrefix
  <2>9. WalkIsPaid(r)' /\ IdleIsEmpty(r)' /\ QueuedIsSomewhere(r)'
    BY <2>1, <2>2, <2>3, <2>6
       DEF Settled, WalkIsPaid, IdleIsEmpty, QueuedIsSomewhere
  <2>10. QED
    BY <2>7, <2>8, <2>9 DEF Settled
<1>5. QED
  BY <1>3, <1>4 DEF Inv

----------------------------------------------------------------------------
(***************************************************************************)
(* The invariants.                                                         *)
(***************************************************************************)

\* The ceilings, the record and the phase of every run fit together.
THEOREM InvHolds == Spec => []Inv
<1>1. Init => Inv
  BY KindAssumption
     DEF Init, Inv, Settled, HeldIsRecorded, RecordedIsHeld, WaitsWhereRecorded,
         RecordIsNeeded, GrantIsPrefix, WalkIsPaid, IdleIsEmpty, QueuedIsSomewhere,
         FreeCeiling, Waiting
<1>2. TypeOK /\ AllGood /\ Inv /\ [Next]_vars => Inv'
  <2> SUFFICES ASSUME TypeOK, AllGood, Inv, [Next]_vars
               PROVE  Inv'
    OBVIOUS
  <2>1. ASSUME NEW r \in Run, Walk(r)
        PROVE  Inv'
    BY <2>1, GrantedKeepsInv, DeniedKeepsInv, LocalKeepsInv DEF Walk
  <2>2. ASSUME NEW r \in Run, GiveBack(r)
        PROVE  Inv'
    BY <2>2, ReleaseKeepsInv, LocalKeepsInv DEF GiveBack
  <2>3. ASSUME NEW r \in Run,
               \/ \E K \in PassKinds : BeginPass(r, K)
               \/ Promote(r) \/ Finish(r) \/ CancelQueued(r)
        PROVE  Inv'
    BY <2>3, LocalKeepsInv
  <2>4. CASE UNCHANGED vars
    <3>1. \A q \in Run : Kept(q) /\ Settled(q) /\ handed' = handed /\ ceiling' = ceiling
      BY <2>4 DEF vars, Kept, Inv
    <3>2. QED
      BY <3>1, UnconcernedStaysSettled DEF Inv
  <2>5. QED
    BY <2>1, <2>2, <2>3, <2>4 DEF Next
<1>3. QED
  BY <1>1, <1>2, TypeAndLines, PTL DEF Spec

\* Every taken slot is in a record or a walk that gives it back, and every
\* recorded slot is really held.
THEOREM SlotsAreAccounted == Spec => []EverySlotAccounted
<1>1. TypeOK /\ Inv => EverySlotAccounted
  BY DEF TypeOK, Inv, Settled, HeldIsRecorded, RecordedIsHeld, EverySlotAccounted
<1>2. QED
  BY <1>1, InvHolds, TypeAndLines, PTL

\* A queued run holds the kinds before the one it waits for and no other, so
\* no cycle of runs that wait for one another can form.
THEOREM WaitingIsOrdered == Spec => []WaitsInOrder
<1>1. TypeOK /\ Inv => WaitsInOrder
  BY DEF TypeOK, Inv, Settled, RecordIsNeeded, GrantIsPrefix, QueuedIsSomewhere,
         WaitsInOrder
<1>2. QED
  BY <1>1, InvHolds, TypeAndLines, PTL

\* A queued run is in its line, or it was promoted and owns the slot.
THEOREM NobodyIsStranded == Spec => []NotStranded
<1>1. Inv => NotStranded
  BY DEF Inv, Settled, QueuedIsSomewhere, NotStranded
<1>2. QED
  BY <1>1, InvHolds, PTL

----------------------------------------------------------------------------
(***************************************************************************)
(* The order of the lines.                                                 *)
(***************************************************************************)

\* The steps that change a ceiling: an acquire of a walking run, or a release.
LEMMA CeilingSteps ==
    ASSUME TypeOK, [Next]_vars, NEW k \in Kind, ceiling'[k] # ceiling[k]
    PROVE  \E r \in Run :
              \/ /\ pass[r] = "walking"
                 /\ ceiling'[k] = AcquireSlot(ceiling[k], r, Limit[k])
              \/ ceiling'[k] = ReleaseSlot(ceiling[k], r, Limit[k])
<1>1. \E r \in Run, j \in Kind :
         AcquireGranted(r, j) \/ AcquireDenied(r, j) \/ ReleaseNext(r, j)
  BY DEF Next, Walk, GiveBack, vars, BeginPass, Launch, Promote, Finish, EndPass,
         CancelQueued, EndRelease
<1>2. QED
  BY <1>1 DEF AcquireGranted, AcquireDenied, ReleaseNext, TypeOK

\* While a line is not empty, only its head can become a holder.
THEOREM HeadIsServedFirst == Spec => HeadOfLineFirst
<1>1. TypeOK /\ AllGood /\ [Next]_vars =>
         \A k \in Kind :
            ceiling[k].queued # <<>> =>
               ceiling'[k].active \ ceiling[k].active \subseteq {Head(ceiling[k].queued)}
  <2> SUFFICES ASSUME TypeOK, AllGood, [Next]_vars,
                      NEW k \in Kind, ceiling[k].queued # <<>>
               PROVE  ceiling'[k].active \ ceiling[k].active
                          \subseteq {Head(ceiling[k].queued)}
    OBVIOUS
  <2>1. Good(ceiling[k], Limit[k]) /\ Limit[k] \in Nat \ {0}
    BY LimitPositive DEF AllGood
  <2>2. CASE ceiling'[k] = ceiling[k]
    BY <2>2
  <2>3. CASE ceiling'[k] # ceiling[k]
    <3>1. PICK r \in Run :
             \/ ceiling'[k] = AcquireSlot(ceiling[k], r, Limit[k])
             \/ ceiling'[k] = ReleaseSlot(ceiling[k], r, Limit[k])
      BY <2>3, CeilingSteps
    <3>2. CASE ceiling'[k] = AcquireSlot(ceiling[k], r, Limit[k])
      BY <2>1, <3>1, <3>2, AcquireEffect
    <3>3. CASE ceiling'[k] = ReleaseSlot(ceiling[k], r, Limit[k])
      BY <2>1, <3>1, <3>3, ReleaseEffect
    <3>4. QED
      BY <3>1, <3>2, <3>3
  <2>4. QED
    BY <2>2, <2>3
<1>2. QED
  BY <1>1, TypeAndLines, PTL DEF Spec, HeadOfLineFirst

\* Every pair of the line q stands in the same order in the line p.
OrderedAs(q, p) ==
    \A i, j \in DOMAIN q :
        i < j => \E m, n \in DOMAIN p : m < n /\ p[m] = q[i] /\ p[n] = q[j]

LEMMA WithoutKeepsOrder ==
    ASSUME NEW q \in Seq(Run), NEW r \in Run
    PROVE  OrderedAs(Without(q, r), q)
<1>1. CASE \A i \in DOMAIN q : q[i] # r
  BY <1>1 DEF Without, OrderedAs
<1>2. CASE \E i \in DOMAIN q : q[i] = r
  <2> DEFINE i == CHOOSE j \in DOMAIN q : q[j] = r
             w == [j \in 1..(Len(q) - 1) |-> IF j < i THEN q[j] ELSE q[j + 1]]
             at(j) == IF j < i THEN j ELSE j + 1
  <2>1. Without(q, r) = w
    BY <1>2 DEF Without
  <2>2. i \in 1..Len(q) /\ Len(q) \in Nat /\ DOMAIN q = 1..Len(q)
    BY <1>2
  <2> HIDE DEF i
  <2>3. \A j \in 1..(Len(q) - 1) : at(j) \in DOMAIN q /\ q[at(j)] = w[j]
    BY <2>2
  <2>4. \A m, n \in 1..(Len(q) - 1) : m < n => at(m) < at(n)
    BY <2>2
  <2>5. DOMAIN w = 1..(Len(q) - 1)
    OBVIOUS
  <2> HIDE DEF w, at
  <2>6. OrderedAs(w, q)
    BY <2>3, <2>4, <2>5 DEF OrderedAs
  <2>7. QED
    BY <2>1, <2>6
<1>3. QED
  BY <1>1, <1>2

\* Nobody gets in front of p if the new line is ordered as the old one.
LEMMA OrderKeepsAhead ==
    ASSUME NEW c, NEW d, OrderedAs(d.queued, c.queued), NEW p
    PROVE  Ahead(d, p) \subseteq Ahead(c, p)
<1>1. ASSUME NEW x \in Ahead(d, p)
      PROVE  x \in Ahead(c, p)
  <2>1. PICK i \in DOMAIN d.queued, j \in DOMAIN d.queued :
           i < j /\ d.queued[j] = p /\ d.queued[i] = x
    BY DEF Ahead
  <2>2. PICK m \in DOMAIN c.queued, n \in DOMAIN c.queued :
           m < n /\ c.queued[m] = x /\ c.queued[n] = p
    BY <2>1 DEF OrderedAs
  <2>3. QED
    BY <2>2 DEF Ahead
<1>2. QED
  BY <1>1

\* A release lets nobody in.
LEMMA ReleaseKeepsPlaces ==
    ASSUME NEW c, NEW r \in Run, NEW limit \in Nat \ {0}, Good(c, limit), NEW p
    PROVE  Ahead(ReleaseSlot(c, r, limit), p) \subseteq Ahead(c, p)
<1> DEFINE d == ReleaseSlot(c, r, limit)
<1>1. c.queued \in Seq(Run)
  BY DEF Good, Ceiling
<1>2. OrderedAs(d.queued, c.queued)
  <2>1. CASE HandsOn(c, r, limit)
    <3> DEFINE q == c.queued
               t == Tail(c.queued)
    <3>1. d.queued = t /\ q # <<>>
      BY <2>1 DEF ReleaseSlot, HandsOn
    <3>2. /\ DOMAIN q = 1..Len(q) /\ Len(q) \in Nat /\ DOMAIN t = 1..(Len(q) - 1)
          /\ \A i \in DOMAIN t : t[i] = q[i + 1]
      BY <1>1, <3>1
    <3> HIDE DEF q, t
    <3>3. \A i, j \in DOMAIN t :
              i < j => i + 1 < j + 1 /\ i + 1 \in DOMAIN q /\ j + 1 \in DOMAIN q
      BY <3>2
    <3>4. OrderedAs(t, q)
      BY <3>2, <3>3 DEF OrderedAs
    <3>5. QED
      BY <3>1, <3>4 DEF q
  <2>2. CASE ~HandsOn(c, r, limit)
    <3>1. d.queued = Without(c.queued, r)
      BY <2>2 DEF ReleaseSlot
    <3>2. QED
      BY <1>1, <3>1, WithoutKeepsOrder
  <2>3. QED
    BY <2>1, <2>2
<1> HIDE DEF d
<1>3. QED
  BY <1>2, OrderKeepsAhead DEF d

\* A run that was not in the line joins it at the end, in front of nobody.
LEMMA NewcomerKeepsPlaces ==
    ASSUME NEW c, NEW r \in Run, NEW limit \in Nat \ {0}, Good(c, limit),
           r \notin Waiting(c), NEW p, p # r
    PROVE  Ahead(AcquireSlot(c, r, limit), p) \subseteq Ahead(c, p)
<1> DEFINE d == AcquireSlot(c, r, limit)
           q == c.queued
<1>1. q \in Seq(Run) /\ Without(q, r) = q
  BY DEF Good, Ceiling, Without, Waiting
<1>2. d.queued = q \/ d.queued = Append(q, r)
  BY <1>1 DEF AcquireSlot, Good, Ceiling
<1>3. CASE d.queued = q
  <2> HIDE DEF d
  <2>1. OrderedAs(d.queued, c.queued)
    BY <1>3 DEF OrderedAs
  <2>2. QED
    BY <2>1, OrderKeepsAhead DEF d
<1>4. CASE d.queued = Append(q, r)
  <2>1. /\ DOMAIN q = 1..Len(q) /\ Len(q) \in Nat
        /\ DOMAIN d.queued = 1..(Len(q) + 1) /\ d.queued[Len(q) + 1] = r
        /\ \A i \in 1..Len(q) : d.queued[i] = q[i]
    BY <1>1, <1>4
  <2> HIDE DEF d, q
  <2>2. ASSUME NEW x \in Ahead(d, p)
        PROVE  x \in Ahead(c, p)
    <3>1. PICK i \in DOMAIN d.queued, j \in DOMAIN d.queued :
             i < j /\ d.queued[j] = p /\ d.queued[i] = x
      BY DEF Ahead
    <3>2. j \in 1..Len(q) /\ i \in 1..Len(q)
      BY <2>1, <3>1
    <3>3. QED
      BY <2>1, <3>1, <3>2 DEF Ahead, q
  <2>3. QED
    BY <2>2 DEF d
<1>5. QED
  BY <1>2, <1>3, <1>4

\* Nobody gets in front of a run that waits: whoever asks again for a slot was
\* promoted and waits nowhere, although Redis would re-stamp its place.
THEOREM PlacesAreKept == Spec => KeepsItsPlace
<1>1. TypeOK /\ AllGood /\ Inv /\ [Next]_vars =>
         \A k \in Kind :
            \A r \in Waiting(ceiling[k]) \cap Waiting(ceiling'[k]) :
               Ahead(ceiling'[k], r) \subseteq Ahead(ceiling[k], r)
  <2> SUFFICES ASSUME TypeOK, AllGood, Inv, [Next]_vars, NEW k \in Kind,
                      NEW p \in Waiting(ceiling[k]) \cap Waiting(ceiling'[k])
               PROVE  Ahead(ceiling'[k], p) \subseteq Ahead(ceiling[k], p)
    OBVIOUS
  <2>1. Good(ceiling[k], Limit[k]) /\ Limit[k] \in Nat \ {0}
    BY LimitPositive DEF AllGood
  <2>2. CASE ceiling'[k] = ceiling[k]
    BY <2>2
  <2>3. CASE ceiling'[k] # ceiling[k]
    <3>1. PICK r \in Run :
             \/ /\ pass[r] = "walking"
                /\ ceiling'[k] = AcquireSlot(ceiling[k], r, Limit[k])
             \/ ceiling'[k] = ReleaseSlot(ceiling[k], r, Limit[k])
      BY <2>3, CeilingSteps
    <3>2. CASE /\ pass[r] = "walking"
               /\ ceiling'[k] = AcquireSlot(ceiling[k], r, Limit[k])
      <4>1. r \notin Waiting(ceiling[k])
        BY <3>1, <3>2 DEF Inv, Settled, WaitsWhereRecorded
      <4>2. p # r
        BY <4>1
      <4>3. QED
        BY <2>1, <3>1, <3>2, <4>1, <4>2, NewcomerKeepsPlaces
    <3>3. CASE ceiling'[k] = ReleaseSlot(ceiling[k], r, Limit[k])
      BY <2>1, <3>1, <3>3, ReleaseKeepsPlaces
    <3>4. QED
      BY <3>1, <3>2, <3>3
  <2>4. QED
    BY <2>2, <2>3
<1>2. QED
  BY <1>1, TypeAndLines, InvHolds, PTL DEF Spec, KeepsItsPlace
=============================================================================

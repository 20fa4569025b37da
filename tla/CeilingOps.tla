------------------------------ MODULE CeilingOps ------------------------------
(***************************************************************************)
(* One resource ceiling of runs/ceilings.py as a value, and its two        *)
(* atomic operations as functions of that value.  Both back-ends run each  *)
(* operation under a lock (MemoryConcurrencyCeiling) or as one Lua script  *)
(* (RedisConcurrencyCeiling), so an operation is one step.                 *)
(*                                                                         *)
(* `active` is the list (sorted set) of holders, whose order no operation  *)
(* reads; `queued` is the waiting line, oldest first.                      *)
(***************************************************************************)
EXTENDS Naturals, Sequences, FiniteSets

CONSTANTS
    Run,              \* run ids
    RequeueAtBack     \* TRUE: asking again while queued re-stamps the score
                      \* (Redis ZADD); FALSE: the place is kept (memory list)

ASSUME RequeueAtBackAssumption == RequeueAtBack \in BOOLEAN
ASSUME RunAssumption == IsFiniteSet(Run)

Ceiling == [active : SUBSET Run, queued : Seq(Run)]

FreeCeiling == [active |-> {}, queued |-> <<>>]

Waiting(c) == {c.queued[i] : i \in DOMAIN c.queued}

\* The waiting line without r, which is in it at most once.
Without(q, r) ==
    IF \E i \in DOMAIN q : q[i] = r
    THEN LET i == CHOOSE j \in DOMAIN q : q[j] = r
         IN  [j \in 1..(Len(q) - 1) |-> IF j < i THEN q[j] ELSE q[j + 1]]
    ELSE q

----------------------------------------------------------------------------
\* Wrong on purpose, to see that the checks notice: one holder too many, and a
\* waiting line that newcomers join at the front.
AcquireOverCap(c, r, limit) ==
    IF Cardinality(c.active) <= limit
    THEN [active |-> c.active \cup {r}, queued |-> Without(c.queued, r)]
    ELSE [c EXCEPT !.queued = Append(Without(c.queued, r), r)]

AcquireAtFront(c, r, limit) ==
    IF r \in c.active
    THEN c
    ELSE IF Cardinality(c.active) < limit
    THEN [active |-> c.active \cup {r}, queued |-> Without(c.queued, r)]
    ELSE [c EXCEPT !.queued = <<r>> \o Without(c.queued, r)]

\* acquire: a holder keeps its slot, a free slot is taken (and the queue entry
\* dropped), otherwise the run is in the waiting line afterwards.
AcquireSlot(c, r, limit) ==
    IF r \in c.active
    THEN c
    ELSE IF Cardinality(c.active) < limit
    THEN [active |-> c.active \cup {r}, queued |-> Without(c.queued, r)]
    ELSE IF r \in Waiting(c) /\ ~RequeueAtBack
    THEN c
    ELSE [c EXCEPT !.queued = Append(Without(c.queued, r), r)]

\* Wrong on purpose: the room is counted before the slot is given back.
HandsOnLate(c, r, limit) ==
    /\ r \in c.active
    /\ r \notin Waiting(c)
    /\ c.queued # <<>>
    /\ Cardinality(c.active) < limit

\* release hands a slot on only when it really gave one back: the run held one,
\* was not also queued, and the ceiling has room for the head of the line.
HandsOn(c, r, limit) ==
    /\ r \in c.active
    /\ r \notin Waiting(c)
    /\ c.queued # <<>>
    /\ Cardinality(c.active \ {r}) < limit

\* Wrong on purpose: the queue position is returned, not the run.
PromotedPosition(c, r, limit) == IF HandsOn(c, r, limit) THEN {1} ELSE {}

\* The run a release promotes: none, or the head of the line.
PromotedBy(c, r, limit) ==
    IF HandsOn(c, r, limit) THEN {Head(c.queued)} ELSE {}

\* Wrong on purpose: the newest waiter is served; the promoted run is not popped.
ReleaseToNewest(c, r, limit) ==
    IF HandsOn(c, r, limit)
    THEN [active |-> (c.active \ {r}) \cup {c.queued[Len(c.queued)]},
          queued |-> Without(c.queued, c.queued[Len(c.queued)])]
    ELSE [active |-> c.active \ {r}, queued |-> Without(c.queued, r)]

ReleaseWithoutPop(c, r, limit) ==
    IF HandsOn(c, r, limit)
    THEN [c EXCEPT !.active = (c.active \ {r}) \cup {Head(c.queued)}]
    ELSE [active |-> c.active \ {r}, queued |-> Without(c.queued, r)]

\* release: the slot goes to the head of the line, or it is free.
ReleaseSlot(c, r, limit) ==
    IF HandsOn(c, r, limit)
    THEN [active |-> (c.active \ {r}) \cup {Head(c.queued)},
          queued |-> Tail(c.queued)]
    ELSE [active |-> c.active \ {r}, queued |-> Without(c.queued, r)]
=============================================================================

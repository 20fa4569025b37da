---------------------------- MODULE CeilingOpsProofs ----------------------------
(***************************************************************************)
(* Lemmas about the two operations of a ceiling, for any runs and caps:    *)
(* they keep it well formed, and what they do to its holders and to its    *)
(* waiting line.  The proofs about Ceilings and RunService rest on them.   *)
(***************************************************************************)
EXTENDS CeilingOps, FiniteSetTheorems, TLAPS

\* A waiting line without repetition.
Distinct(q) == \A i, j \in DOMAIN q : q[i] = q[j] => i = j

Elements(q) == {q[i] : i \in DOMAIN q}

\* What every ceiling is between two operations.
Good(c, limit) ==
    /\ c \in Ceiling
    /\ Distinct(c.queued)
    /\ c.active \cap Waiting(c) = {}
    /\ Cardinality(c.active) <= limit
    /\ c.queued # <<>> => Cardinality(c.active) = limit

----------------------------------------------------------------------------
\* Removing r from a line without repetition leaves a line without repetition
\* that holds the others.
LEMMA WithoutRemoves ==
    ASSUME NEW q \in Seq(Run), NEW r \in Run, Distinct(q)
    PROVE  /\ Without(q, r) \in Seq(Run)
           /\ Distinct(Without(q, r))
           /\ Elements(Without(q, r)) = Elements(q) \ {r}
<1>1. CASE \A i \in DOMAIN q : q[i] # r
  BY <1>1 DEF Without, Elements
<1>2. CASE \E i \in DOMAIN q : q[i] = r
  <2> DEFINE i == CHOOSE j \in DOMAIN q : q[j] = r
             w == [j \in 1..(Len(q) - 1) |-> IF j < i THEN q[j] ELSE q[j + 1]]
  <2>1. i \in DOMAIN q /\ q[i] = r
    BY <1>2
  <2>2. Without(q, r) = w
    BY <1>2 DEF Without
  <2>3. i \in 1..Len(q) /\ Len(q) \in Nat /\ DOMAIN q = 1..Len(q)
    BY <2>1
  <2> HIDE DEF i
  <2>4. w \in Seq(Run) /\ Len(w) = Len(q) - 1 /\ DOMAIN w = 1..(Len(q) - 1)
    <3>1. \A j \in 1..(Len(q) - 1) : w[j] \in Run
      BY <2>3
    <3>2. w \in [1..(Len(q) - 1) -> Run]
      BY <3>1
    <3>3. Len(q) - 1 \in Nat
      BY <2>3
    <3>4. QED
      BY <3>2, <3>3
  <2>5. Distinct(w)
    BY <2>1, <2>3, <2>4 DEF Distinct
  <2>6. Elements(w) \subseteq Elements(q) \ {r}
    BY <2>1, <2>3, <2>4 DEF Distinct, Elements
  <2>7. ASSUME NEW x \in Elements(q) \ {r}
        PROVE  x \in Elements(w)
    <3>1. PICK j \in DOMAIN q : q[j] = x
      BY DEF Elements
    <3>2. j # i
      BY <2>1, <3>1
    <3>3. CASE j < i
      BY <2>3, <2>4, <3>1, <3>3 DEF Elements
    <3>4. CASE j > i
      <4>1. j - 1 \in 1..(Len(q) - 1) /\ ~(j - 1 < i) /\ (j - 1) + 1 = j
        BY <2>3, <3>4
      <4>2. w[j - 1] = x
        BY <4>1, <3>1
      <4>3. QED
        BY <4>1, <4>2, <2>4 DEF Elements
    <3>5. QED
      BY <2>3, <3>2, <3>3, <3>4
  <2>8. QED
    BY <2>2, <2>4, <2>5, <2>6, <2>7
<1>3. QED
  BY <1>1, <1>2

\* Asking for a slot keeps a ceiling well formed: the cap is not exceeded, and
\* a line can only start when every slot is taken.
LEMMA AcquireKeepsGood ==
    ASSUME NEW c, NEW r \in Run, NEW limit \in Nat \ {0}, Good(c, limit)
    PROVE  Good(AcquireSlot(c, r, limit), limit)
<1>1. /\ c.active \in SUBSET Run /\ c.queued \in Seq(Run)
      /\ c = [active |-> c.active, queued |-> c.queued]
      /\ IsFiniteSet(c.active) /\ Cardinality(c.active) \in Nat
  <2>1. c.active \in SUBSET Run /\ c.queued \in Seq(Run)
        /\ c = [active |-> c.active, queued |-> c.queued]
    BY DEF Good, Ceiling
  <2>2. IsFiniteSet(c.active)
    BY <2>1, RunAssumption, FS_Subset
  <2>3. QED
    BY <2>1, <2>2, FS_CardinalityType
<1>2. CASE r \in c.active
  BY <1>2 DEF AcquireSlot
<1>3. CASE r \notin c.active /\ Cardinality(c.active) < limit
  <2> DEFINE d == [active |-> c.active \cup {r}, queued |-> Without(c.queued, r)]
  <2>1. AcquireSlot(c, r, limit) = d
    BY <1>3 DEF AcquireSlot
  <2>2. c.queued = <<>>
    BY <1>3 DEF Good
  <2>3. Without(c.queued, r) = <<>>
    BY <2>2 DEF Without
  <2>4. Cardinality(c.active \cup {r}) = Cardinality(c.active) + 1
    BY <1>1, <1>3, FS_AddElement
  <2>5. QED
    BY <1>1, <1>3, <2>1, <2>3, <2>4 DEF Good, Ceiling, Waiting, Distinct
<1>4. CASE r \notin c.active /\ ~(Cardinality(c.active) < limit)
  <2>1. Cardinality(c.active) = limit
    BY <1>1, <1>4 DEF Good
  <2>2. CASE r \in Waiting(c) /\ ~RequeueAtBack
    BY <1>4, <2>2 DEF AcquireSlot
  <2>3. CASE ~(r \in Waiting(c) /\ ~RequeueAtBack)
    <3> DEFINE w == Without(c.queued, r)
               q == Append(w, r)
    <3>1. AcquireSlot(c, r, limit) = [active |-> c.active, queued |-> q]
      BY <1>1, <1>4, <2>3 DEF AcquireSlot
    <3>2. w \in Seq(Run) /\ Distinct(w) /\ Elements(w) = Elements(c.queued) \ {r}
      BY <1>1, WithoutRemoves DEF Good
    <3> HIDE DEF w
    <3>3. q \in Seq(Run) /\ Len(q) = Len(w) + 1 /\ DOMAIN q = 1..(Len(w) + 1)
          /\ q[Len(w) + 1] = r /\ \A i \in 1..Len(w) : q[i] = w[i]
      BY <3>2
    <3>4. \A i \in 1..Len(w) : w[i] # r
      BY <3>2 DEF Elements
    <3>5. Distinct(q)
      BY <3>2, <3>3, <3>4 DEF Distinct
    <3>6. Elements(q) = Elements(w) \cup {r}
      BY <3>2, <3>3 DEF Elements
    <3>7. c.active \cap Elements(q) = {}
      BY <1>4, <3>2, <3>6 DEF Good, Waiting, Elements
    <3> HIDE DEF q
    <3>8. QED
      BY <1>1, <2>1, <3>1, <3>3, <3>5, <3>7 DEF Good, Ceiling, Waiting, Elements
  <2>4. QED
    BY <2>2, <2>3
<1>5. QED
  BY <1>2, <1>3, <1>4

\* Giving a slot back keeps a ceiling well formed: the head of the line takes
\* the freed slot in the same step, so no slot idles while somebody waits.
LEMMA ReleaseKeepsGood ==
    ASSUME NEW c, NEW r \in Run, NEW limit \in Nat \ {0}, Good(c, limit)
    PROVE  /\ Good(ReleaseSlot(c, r, limit), limit)
           /\ PromotedBy(c, r, limit) \subseteq Waiting(c)
<1>1. /\ c.active \in SUBSET Run /\ c.queued \in Seq(Run)
      /\ c = [active |-> c.active, queued |-> c.queued]
      /\ IsFiniteSet(c.active) /\ Cardinality(c.active) \in Nat
  <2>1. c.active \in SUBSET Run /\ c.queued \in Seq(Run)
        /\ c = [active |-> c.active, queued |-> c.queued]
    BY DEF Good, Ceiling
  <2>2. IsFiniteSet(c.active)
    BY <2>1, RunAssumption, FS_Subset
  <2>3. QED
    BY <2>1, <2>2, FS_CardinalityType
<1>2. IsFiniteSet(c.active \ {r})
      /\ Cardinality(c.active \ {r}) =
            IF r \in c.active THEN Cardinality(c.active) - 1
                              ELSE Cardinality(c.active)
  BY <1>1, FS_RemoveElement
<1>3. CASE HandsOn(c, r, limit)
  <2> DEFINE h == Head(c.queued)
             t == Tail(c.queued)
  <2>1. ReleaseSlot(c, r, limit) = [active |-> (c.active \ {r}) \cup {h}, queued |-> t]
        /\ PromotedBy(c, r, limit) = {h}
    BY <1>3 DEF ReleaseSlot, PromotedBy
  <2>2. c.queued # <<>> /\ r \in c.active /\ Cardinality(c.active) = limit
    BY <1>3 DEF HandsOn, Good
  <2>3. h \in Run /\ h = c.queued[1] /\ 1 \in DOMAIN c.queued
    BY <1>1, <2>2
  <2>4. t \in Seq(Run) /\ Len(t) = Len(c.queued) - 1
        /\ \A i \in 1..Len(t) : t[i] = c.queued[i + 1] /\ i + 1 \in DOMAIN c.queued
    BY <1>1, <2>2
  <2>5. h \in Waiting(c)
    BY <2>3 DEF Waiting
  <2>6. h \notin c.active
    BY <2>5 DEF Good
  <2> HIDE DEF h, t
  <2>7. Cardinality((c.active \ {r}) \cup {h}) = limit
    <3>1. h \notin c.active \ {r}
      BY <2>6
    <3>2. Cardinality((c.active \ {r}) \cup {h}) = Cardinality(c.active \ {r}) + 1
      BY <1>2, <3>1, FS_AddElement
    <3>3. QED
      BY <1>1, <1>2, <2>2, <3>2
  <2>8. DOMAIN t = 1..Len(t) /\ Len(t) \in Nat /\ Len(c.queued) \in Nat
    BY <1>1, <2>4
  <2>9. Distinct(c.queued)
    BY DEF Good
  <2>10. Distinct(t)
    <3>1. SUFFICES ASSUME NEW i \in 1..Len(t), NEW j \in 1..Len(t), t[i] = t[j]
                   PROVE  i = j
      BY <2>8 DEF Distinct
    <3>2. i + 1 = j + 1
      BY <2>4, <2>9, <3>1 DEF Distinct
    <3>3. QED
      BY <2>8, <3>2
  <2>11. \A i \in 1..Len(t) : t[i] # h /\ t[i] \notin c.active
    BY <1>1, <2>3, <2>4 DEF Good, Distinct, Waiting
  <2>12. ((c.active \ {r}) \cup {h}) \cap {t[i] : i \in DOMAIN t} = {}
    BY <2>8, <2>11
  <2>13. Good([active |-> (c.active \ {r}) \cup {h}, queued |-> t], limit)
    <3> DEFINE d == [active |-> (c.active \ {r}) \cup {h}, queued |-> t]
    <3>1. d \in Ceiling
      BY <1>1, <2>3, <2>4 DEF Ceiling
    <3>2. d.active = (c.active \ {r}) \cup {h} /\ d.queued = t
      OBVIOUS
    <3> HIDE DEF d
    <3>3. Cardinality(d.active) = limit
      BY <2>7, <3>2
    <3>4. d.active \cap Waiting(d) = {}
      BY <2>12, <3>2 DEF Waiting
    <3>5. Distinct(d.queued)
      BY <2>10, <3>2
    <3>6. Good(d, limit)
      BY <3>1, <3>3, <3>4, <3>5 DEF Good
    <3>7. QED
      BY <3>6 DEF d
  <2>14. QED
    BY <2>1, <2>5, <2>13
<1>4. CASE ~HandsOn(c, r, limit)
  <2> DEFINE w == Without(c.queued, r)
  <2>1. ReleaseSlot(c, r, limit) = [active |-> c.active \ {r}, queued |-> w]
        /\ PromotedBy(c, r, limit) = {}
    BY <1>4 DEF ReleaseSlot, PromotedBy
  <2>2. w \in Seq(Run) /\ Distinct(w) /\ Elements(w) = Elements(c.queued) \ {r}
    BY <1>1, WithoutRemoves DEF Good
  <2>3. c.active \cap Elements(w) = {}
    BY <2>2 DEF Good, Waiting, Elements
  <2>4. ASSUME w # <<>>
        PROVE  Cardinality(c.active \ {r}) = limit
    <3>1. c.queued # <<>>
      BY <1>1, <2>2, <2>4 DEF Elements, Without
    <3>2. Cardinality(c.active) = limit
      BY <3>1 DEF Good
    <3>3. r \notin c.active
      <4>1. SUFFICES ASSUME r \in c.active PROVE FALSE
        OBVIOUS
      <4>2. r \notin Waiting(c)
        BY <4>1 DEF Good
      <4>3. Cardinality(c.active \ {r}) < limit
        BY <1>1, <1>2, <3>2, <4>1
      <4>4. QED
        BY <1>4, <3>1, <4>1, <4>2, <4>3 DEF HandsOn
    <3>4. QED
      BY <1>2, <3>2, <3>3
  <2> HIDE DEF w
  <2>5. Cardinality(c.active \ {r}) <= limit
    BY <1>1, <1>2 DEF Good
  <2>6. QED
    BY <1>1, <2>1, <2>2, <2>3, <2>4, <2>5 DEF Good, Ceiling, Waiting, Elements
<1>5. QED
  BY <1>3, <1>4

\* An empty ceiling is well formed.
LEMMA FreeIsGood ==
    ASSUME NEW limit \in Nat \ {0}
    PROVE  Good(FreeCeiling, limit)
<1>1. FreeCeiling \in Ceiling
  BY DEF FreeCeiling, Ceiling
<1>2. Cardinality({}) = 0
  BY FS_EmptySet
<1>3. QED
  BY <1>1, <1>2 DEF Good, FreeCeiling, Waiting, Distinct

----------------------------------------------------------------------------
(***************************************************************************)
(* What one operation does to holders and waiters.                         *)
(***************************************************************************)

LEMMA AcquireEffect ==
    ASSUME NEW c, NEW r \in Run, NEW limit \in Nat \ {0}, Good(c, limit),
           NEW d, d = AcquireSlot(c, r, limit)
    PROVE  /\ r \in d.active => /\ d.active = c.active \cup {r}
                                /\ Waiting(d) = Waiting(c) \ {r}
           /\ r \notin d.active => /\ d.active = c.active
                                   /\ Waiting(d) = Waiting(c) \cup {r}
           /\ c.queued # <<>> => d.active = c.active
<1>1. c.active \in SUBSET Run /\ c.queued \in Seq(Run)
  BY DEF Good, Ceiling
<1>2. IsFiniteSet(c.active) /\ Cardinality(c.active) \in Nat
  BY <1>1, RunAssumption, FS_Subset, FS_CardinalityType
<1>3. c = [active |-> c.active, queued |-> c.queued]
  BY DEF Good, Ceiling
<1>4. CASE r \in c.active
  BY <1>4 DEF AcquireSlot, Good
<1>5. CASE r \notin c.active /\ Cardinality(c.active) < limit
  <2>1. d = [active |-> c.active \cup {r}, queued |-> Without(c.queued, r)]
    BY <1>5 DEF AcquireSlot
  <2>2. c.queued = <<>>
    BY <1>5 DEF Good
  <2>3. Without(c.queued, r) = <<>>
    BY <2>2 DEF Without
  <2>4. QED
    BY <2>1, <2>2, <2>3 DEF Waiting
<1>6. CASE r \notin c.active /\ ~(Cardinality(c.active) < limit)
  <2>1. CASE r \in Waiting(c) /\ ~RequeueAtBack
    BY <1>6, <2>1 DEF AcquireSlot
  <2>2. CASE ~(r \in Waiting(c) /\ ~RequeueAtBack)
    <3> DEFINE w == Without(c.queued, r)
               q == Append(w, r)
    <3>1. d = [active |-> c.active, queued |-> q]
      BY <1>3, <1>6, <2>2 DEF AcquireSlot
    <3>2. w \in Seq(Run) /\ Elements(w) = Elements(c.queued) \ {r}
      BY <1>1, WithoutRemoves DEF Good
    <3> HIDE DEF w
    <3>3. DOMAIN q = 1..(Len(w) + 1) /\ q[Len(w) + 1] = r
          /\ DOMAIN w = 1..Len(w) /\ \A i \in 1..Len(w) : q[i] = w[i]
      BY <3>2
    <3>4. Elements(q) = Elements(w) \cup {r}
      BY <3>2, <3>3 DEF Elements
    <3> HIDE DEF q
    <3>5. d.queued = q /\ d.active = c.active
      BY <3>1
    <3>6. Waiting(d) = Elements(q) /\ Waiting(c) = Elements(c.queued)
      BY <3>5 DEF Waiting, Elements
    <3>7. Waiting(d) = Waiting(c) \cup {r}
      BY <3>2, <3>4, <3>6
    <3>8. QED
      BY <1>6, <3>5, <3>7
  <2>3. QED
    BY <2>1, <2>2
<1>7. QED
  BY <1>4, <1>5, <1>6

LEMMA ReleaseEffect ==
    ASSUME NEW c, NEW r \in Run, NEW limit \in Nat \ {0}, Good(c, limit),
           NEW d, d = ReleaseSlot(c, r, limit),
           NEW P, P = PromotedBy(c, r, limit)
    PROVE  /\ d.active = (c.active \ {r}) \cup P
           /\ Waiting(d) = (Waiting(c) \ {r}) \ P
           /\ P \subseteq Waiting(c) \ {r}
           /\ c.queued # <<>> => P \subseteq {Head(c.queued)}
<1>1. c.active \in SUBSET Run /\ c.queued \in Seq(Run)
  BY DEF Good, Ceiling
<1>2. CASE HandsOn(c, r, limit)
  <2> DEFINE h == Head(c.queued)
             t == Tail(c.queued)
  <2>1. d = [active |-> (c.active \ {r}) \cup {h}, queued |-> t] /\ P = {h}
    BY <1>2 DEF ReleaseSlot, PromotedBy
  <2>2. r \notin Waiting(c) /\ c.queued # <<>>
    BY <1>2 DEF HandsOn
  <2>3. /\ h = c.queued[1] /\ DOMAIN c.queued = 1..Len(c.queued)
        /\ Len(c.queued) \in Nat /\ Len(c.queued) > 0
        /\ DOMAIN t = 1..(Len(c.queued) - 1)
        /\ \A i \in DOMAIN t : t[i] = c.queued[i + 1]
    BY <1>1, <2>2
  <2> HIDE DEF h, t
  <2>4. Elements(t) = Elements(c.queued) \ {h}
    <3>1. ASSUME NEW i \in DOMAIN t
          PROVE  t[i] \in Elements(c.queued) \ {h}
      <4>1. i + 1 \in DOMAIN c.queued /\ i + 1 # 1 /\ 1 \in DOMAIN c.queued
        BY <2>3, <3>1
      <4>2. c.queued[i + 1] # c.queued[1]
        BY <4>1 DEF Good, Distinct
      <4>3. QED
        BY <2>3, <4>1, <4>2 DEF Elements
    <3>2. ASSUME NEW x \in Elements(c.queued) \ {h}
          PROVE  x \in Elements(t)
      <4>1. PICK j \in DOMAIN c.queued : c.queued[j] = x
        BY DEF Elements
      <4>2. j - 1 \in DOMAIN t /\ (j - 1) + 1 = j
        BY <2>3, <4>1
      <4>3. QED
        BY <2>3, <4>1, <4>2 DEF Elements
    <3>3. QED
      BY <3>1, <3>2 DEF Elements
  <2>5. h \in Waiting(c)
    BY <2>3 DEF Waiting
  <2>6. QED
    BY <2>1, <2>2, <2>4, <2>5 DEF Waiting, Elements, h
<1>3. CASE ~HandsOn(c, r, limit)
  <2>1. d = [active |-> c.active \ {r}, queued |-> Without(c.queued, r)] /\ P = {}
    BY <1>3 DEF ReleaseSlot, PromotedBy
  <2>2. Elements(Without(c.queued, r)) = Elements(c.queued) \ {r}
    BY <1>1, WithoutRemoves DEF Good
  <2>3. QED
    BY <2>1, <2>2 DEF Waiting, Elements
<1>4. QED
  BY <1>2, <1>3
=============================================================================

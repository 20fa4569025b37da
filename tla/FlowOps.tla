------------------------------- MODULE FlowOps -------------------------------
(***************************************************************************)
(* What every lane flow (src/src/mastra/agents/<lane>/flow.ts) does with   *)
(* the envelope the run service sends: the merge of a resume, the decision *)
(* that applies to a step, the artifact a step moves forward with.         *)
(*                                                                         *)
(* A flow state is a record                                                *)
(*   art      step -> the stored artifact (v = 0: none is stored)          *)
(*   dec      step -> the recorded decision                                *)
(*   eff      step -> the hash of the action whose effect is recorded      *)
(*   decision the decision of this resume (action "none": none)            *)
(* An artifact carries v, the number of the computation that made it,      *)
(* from, the marks of the artifacts it was computed from, and the fields   *)
(* its lane's control depends on.                                          *)
(***************************************************************************)
EXTENDS Integers, Sequences, FiniteSets, TLC

NoEdits == << >>
NoDecision == [action |-> "none", edits |-> NoEdits]
NoArtifact == [v |-> 0]
NoEffect == <<"none">>

IsForward(d) == d.action \in {"proceed", "edit"}

HasArtifact(st, s) == st.art[s].v # 0

\* `{...artifact, ...edits}`: a field of the edits wins.
Merged(edits, artifact) ==
  [f \in DOMAIN edits \union DOMAIN artifact |->
     IF f \in DOMAIN edits THEN edits[f] ELSE artifact[f]]

(***************************************************************************)
(* The stored copy with the recorded edits merged on top.                  *)
(***************************************************************************)
EffectiveArtifact(st, s) ==
  IF st.dec[s].action = "edit" THEN Merged(st.dec[s].edits, st.art[s]) ELSE st.art[s]

Mark(st, s) == <<st.art[s].v, EffectiveArtifact(st, s)>>

DerivedFrom(st, S) == [u \in S |-> <<st.art[u].v, st.dec[u].edits>>]

CurrentDecision(st, s) ==
  IF st.decision.action # "none" THEN st.decision ELSE st.dec[s]

\* Wrong on purpose: the decision goes on to the next step.
ForwardLeaks(st) == st

(***************************************************************************)
(* `decision` belongs to the resumed step only.                            *)
(***************************************************************************)
ForwardState(st) == [st EXCEPT !.decision = NoDecision]

\* Wrong on purpose: the snapshot's decisions win.
MergeKeepsDecisions(base, resume, keepsEffects) ==
  [resume EXCEPT !.dec = base.dec]

(***************************************************************************)
(* On a resume the envelope wins key by key over the snapshot the workflow *)
(* kept; KeepsEffects names the lanes that union the effect maps.          *)
(***************************************************************************)
MergeState(base, resume, keepsEffects) ==
  [resume EXCEPT !.eff =
     [s \in DOMAIN resume.eff |->
        IF keepsEffects /\ resume.eff[s] = NoEffect THEN base.eff[s] ELSE resume.eff[s]]]

(***************************************************************************)
(* `effectiveArtifact(...) ?? compute(...)`: a stored copy is shown again, *)
(* whatever asked for the step to be computed.                             *)
(***************************************************************************)
StoredOr(st, s, computed) ==
  IF HasArtifact(st, s) THEN {EffectiveArtifact(st, s)} ELSE computed

\* A record with one field set, whether it had it or not (`{...record, field}`).
WithField(record, field, value) ==
  [f \in DOMAIN record \union {field} |-> IF f = field THEN value ELSE record[f]]

\* The elements of a sequence that are in S, in their order (`filter`): each
\* comes from the place of its rank among the places kept.
Selected(seq, S) ==
  LET kept == {i \in 1..Len(seq) : seq[i] \in S}
      At(n) == CHOOSE i \in kept : Cardinality({j \in kept : j <= i}) = n
  IN [n \in 1..Cardinality(kept) |-> seq[At(n)]]

Unless(bad, computed) == IF bad THEN {} ELSE computed

(***************************************************************************)
(* Contracts are strict schemas: a set of records, the fields of an        *)
(* artifact being the ones that are not marks of this model.               *)
(***************************************************************************)
Fields(a) == [f \in DOMAIN a \ {"v", "from"} |-> a[f]]
Conforms(a, schema) == Fields(a) \in schema

\* An agent's answer is taken if it satisfies its contract or, asked once
\* more, the next one does; otherwise the step throws.
ContractOutput(answers, contract) == {x \in answers : x \in contract}

\* Wrong on purpose: an unchanged draft is submitted as edits too.
BuildAlwaysEdits(artifact, draft) == [action |-> "edit", edits |-> draft]

(***************************************************************************)
(* What Proceed submits from the console: the draft as edits when it       *)
(* changes the artifact shown, and a plain proceed otherwise.              *)
(***************************************************************************)
BuildProceed(artifact, draft) ==
  IF Merged(draft, artifact) = artifact THEN [action |-> "proceed", edits |-> NoEdits]
  ELSE [action |-> "edit", edits |-> draft]

(***************************************************************************)
(* A surface of the console: what its parser reads out of an artifact, and *)
(* the drafts it offers.  A parser gives nothing when a field it needs is  *)
(* missing, and a default for one it can do without.                       *)
(***************************************************************************)
NoView == [hidden |-> TRUE]
NoDefaults == << >>
Parsed(a, required, defaults) ==
  IF required \subseteq DOMAIN a
  THEN [f \in required \union DOMAIN defaults |-> IF f \in DOMAIN a THEN a[f] ELSE defaults[f]]
  ELSE NoView

Surface(view, drafts) == [view |-> view, drafts |-> IF view = NoView THEN {} ELSE drafts]
ReadOnly(view) == Surface(view, {})

\* One call to a system outside the run: dedupes says whether that system
\* recognises the key of a call it has already carried out.
Call(sys, key, dedupes, what) ==
  [sys |-> sys, key |-> key, dedupes |-> dedupes, what |-> what]
==============================================================================

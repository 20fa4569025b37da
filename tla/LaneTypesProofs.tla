---------------------------- MODULE LaneTypesProofs ----------------------------
(***************************************************************************)
(* The types of the lanes' runs, for any number of runs, changes and       *)
(* faults: above all that every artifact a run's record stores is within   *)
(* the contract of its step (the strict schemas of the lanes' contracts),  *)
(* whatever the agents answer, the systems return and a human hands in.    *)
(*                                                                         *)
(* Gate asks for the contract of an artifact when its step lets it         *)
(* forward; that what a step suspends with is within it too must follow    *)
(* from how it was computed.  It was computed from artifacts that the      *)
(* contracts and the gates of the steps before let through (Stands of      *)
(* LaneRunsProofs), and at times a step relies on more than they ask for:  *)
(* where a number is bounded, or a list is not empty, because of what an   *)
(* earlier step computed, the history is opened (Approved).  Each lane in  *)
(* turn, step by step; then all of them, and the runs.                     *)
(***************************************************************************)
EXTENDS LanePolicyProofs

-----------------------------------------------------------------------------
(* Contracts, and records under another number *)

\* What st holds of the steps before the i-th is within their contracts.
Sound(l, i, st) ==
  \A j \in 1..(i - 1) : Contract(l, StepsOf(l)[j], EffectiveArtifact(st, StepsOf(l)[j]))

LEMMA FieldsStay ==
  ASSUME NEW a, NEW v
  PROVE  Fields(WithField(a, "v", v)) = Fields(a)
BY DEF Fields, WithField

\* What a record says it still says under another number.
LEMMA StillSays ==
  ASSUME NEW a, NEW v, NEW x, x \in DOMAIN Fields(a)
  PROVE  x \in DOMAIN a /\ WithField(a, "v", v)[x] = a[x]
BY DEF Fields, WithField

\* A set within one of n elements has at most n.
LEMMA OneMore ==
  ASSUME NEW S, NEW x, NEW n \in Nat, IsFiniteSet(S), Cardinality(S) <= n
  PROVE  IsFiniteSet(S \union {x}) /\ Cardinality(S \union {x}) <= n + 1
<1>1. /\ IsFiniteSet(S \union {x})
      /\ Cardinality(S \union {x}) = IF x \in S THEN Cardinality(S) ELSE Cardinality(S) + 1
  BY FS_AddElement
<1>2. Cardinality(S) \in Nat BY FS_CardinalityType
<1> QED BY <1>1, <1>2

LEMMA AtMostFour ==
  ASSUME NEW x, NEW y, NEW z, NEW u, NEW S \in SUBSET {x, y, z, u}
  PROVE  IsFiniteSet(S) /\ Cardinality(S) \in 0..4
<1> DEFINE none == {}
           one == none \union {x}
           two == one \union {y}
           three == two \union {z}
           four == three \union {u}
<1>1. IsFiniteSet(none) /\ Cardinality(none) <= 0 BY FS_EmptySet
<1>2. IsFiniteSet(one) /\ Cardinality(one) <= 1
  <2> HIDE DEF none
  <2>1. IsFiniteSet(none \union {x}) /\ Cardinality(none \union {x}) <= 0 + 1
    BY <1>1, 0 \in Nat, OneMore
  <2> QED BY <2>1
<1>3. IsFiniteSet(two) /\ Cardinality(two) <= 2
  <2> HIDE DEF one
  <2>1. IsFiniteSet(one \union {y}) /\ Cardinality(one \union {y}) <= 1 + 1
    BY <1>2, 1 \in Nat, OneMore
  <2> QED BY <2>1
<1>4. IsFiniteSet(three) /\ Cardinality(three) <= 3
  <2> HIDE DEF two
  <2>1. IsFiniteSet(two \union {z}) /\ Cardinality(two \union {z}) <= 2 + 1
    BY <1>3, 2 \in Nat, OneMore
  <2> QED BY <2>1
<1>5. IsFiniteSet(four) /\ Cardinality(four) <= 4
  <2> HIDE DEF three
  <2>1. IsFiniteSet(three \union {u}) /\ Cardinality(three \union {u}) <= 3 + 1
    BY <1>4, 3 \in Nat, OneMore
  <2> QED BY <2>1
<1>6. S \subseteq four OBVIOUS
<1> HIDE DEF four
<1>7. IsFiniteSet(S) /\ Cardinality(S) <= Cardinality(four) BY <1>5, <1>6, FS_Subset
<1>8. Cardinality(S) \in Nat /\ Cardinality(four) \in Nat BY <1>5, <1>7, FS_CardinalityType
<1> QED BY <1>5, <1>7, <1>8

\* A score that is capped is within its range.
LEMMA Capped ==
  ASSUME NEW x \in Nat
  PROVE  Min({100, x}) \in 0..100
<1> DEFINE m == IF x < 100 THEN x ELSE 100
<1>1. m \in {100, x} /\ \A y \in {100, x} : m <= y OBVIOUS
<1> HIDE DEF m
<1>2. Min({100, x}) \in {100, x} /\ \A y \in {100, x} : Min({100, x}) <= y
  BY <1>1 DEF Min
<1> QED BY <1>2

\* Of n things, those of one kind, those of another and the others make n.
LEMMA Shares ==
  ASSUME NEW D, NEW n \in Nat, IsFiniteSet(D), Cardinality(D) <= n,
         NEW R \in SUBSET D, NEW W \in SUBSET D, R \intersect W = {}
  PROVE  /\ Cardinality(R) \in 0..n /\ Cardinality(W) \in 0..n
         /\ Cardinality(D) - Cardinality(R) - Cardinality(W) \in 0..n
<1>1. /\ IsFiniteSet(R) /\ Cardinality(R) <= Cardinality(D)
      /\ IsFiniteSet(W) /\ Cardinality(W) <= Cardinality(D)
  BY FS_Subset
<1>2. R \union W \subseteq D OBVIOUS
<1>3. Cardinality(R \union W) <= Cardinality(D) BY <1>2, FS_Subset
<1>4. Cardinality({}) = 0 BY FS_EmptySet
<1>5. Cardinality(R \union W) = Cardinality(R) + Cardinality(W) - 0 BY <1>1, <1>4, FS_Union
<1>6. Cardinality(R) \in Nat /\ Cardinality(W) \in Nat /\ Cardinality(D) \in Nat
  BY <1>1, FS_CardinalityType
<1> QED BY <1>1, <1>3, <1>5, <1>6

LEMMA SomeOf ==
  ASSUME NEW D, IsFiniteSet(D), NEW R \in SUBSET D
  PROVE  Cardinality(R) \in Nat
BY FS_Subset, FS_CardinalityType

-----------------------------------------------------------------------------
(* Security *)

LEMMA IngestConforms ==
  ASSUME NEW st, NEW known, NEW a \in ComputeIngest(st, known)
  PROVE  Fields(a) \in IngestArtifact
<1> DEFINE seen == SeenBefore(known)
           checks == IF known.text = {} THEN {"pass", "flag"} ELSE {"pass"}
           from == DerivedFrom(st, {})
<1>1. seen \in BOOLEAN BY DEF SeenBefore
<1>2. checks \in SUBSET {"pass", "flag", "fail"} OBVIOUS
<1>3. a = [seenBefore |-> seen, checks |-> checks, from |-> from] BY DEF ComputeIngest
<1> HIDE DEF seen, checks, from
<1>4. Fields(a) = [seenBefore |-> seen, checks |-> checks] BY <1>3 DEF Fields
<1> QED BY <1>1, <1>2, <1>4 DEF IngestArtifact

LEMMA TriageConforms ==
  ASSUME NEW st, NEW known, NEW a \in ComputeTriage(st, known)
  PROVE  Fields(a) \in AlertTriage
<1> DEFINE signals == ClassifySignals(known.text)
           class == signals.class
           severity == signals.severity
           flags == signals.flags
           needs == signals.class = "unknown" \/ signals.percent < 70
           from == DerivedFrom(st, {"ingest"})
<1>1. class \in Classifications /\ severity \in Severities
  BY DEF ClassifySignals, Classifications, Severities
<1>2. flags \in SUBSET InjectionRules
  BY DEF ClassifySignals, DetectInjection, InjectionRules
<1>3. needs \in BOOLEAN OBVIOUS
<1>4. a = [class |-> class, severity |-> severity, flags |-> flags,
           needsInvestigation |-> needs, from |-> from]
  BY DEF ComputeTriage
<1> HIDE DEF class, severity, flags, needs, from
<1>5. Fields(a) = [class |-> class, severity |-> severity, flags |-> flags, needsInvestigation |-> needs]
  BY <1>4 DEF Fields
<1> QED BY <1>1, <1>2, <1>3, <1>5 DEF AlertTriage

LEMMA InvestigateConforms ==
  ASSUME NEW st, NEW known, NEW a \in ComputeInvestigate(st, known)
  PROVE  Fields(a) \in EvidencePack
<1> DEFINE missing == MissingEvidence(known)
           from == DerivedFrom(st, {"ingest", "triage"})
<1>1. PICK claims \in InvestigatorAnswers :
        /\ claims \subseteq Retrieved(known)
        /\ a = [claims |-> claims, missing |-> missing, from |-> from]
  BY DEF ComputeInvestigate, Unless, ContractOutput, ValidateClaims
<1>2. claims \in (SUBSET Sources) \ {{}}
  BY <1>1 DEF InvestigatorAnswers, Retrieved, Sources
<1>3. missing \in SUBSET Sources BY DEF MissingEvidence
<1> HIDE DEF missing, from
<1>4. Fields(a) = [claims |-> claims, missing |-> missing] BY <1>1 DEF Fields
<1> QED BY <1>2, <1>3, <1>4 DEF EvidencePack

LEMMA DecideConforms ==
  ASSUME NEW st, NEW known, NEW a \in ComputeDecide(st, known),
         Fields(EffectiveArtifact(st, "triage")) \in AlertTriage
  PROVE  Fields(a) \in DecideArtifact
<1> DEFINE triage == EffectiveArtifact(st, "triage")
           proposed == ProposedActionFor(triage.class, triage.severity)
           onHostFps == {case \in Recall(known.history, 5) : case.class = "fp" /\ case.onHost}
           action == IF Cardinality(onHostFps) >= 2 /\ triage.severity # "critical"
                     THEN "close" ELSE proposed
           risk == RiskFor(action, triage.severity, known.environment, BlockedTarget(known))
           final == IF risk.refused THEN "escalate" ELSE action
           tier == risk.tier
           refused == risk.refused
           human == \/ final = "contain" \/ risk.tier \in {"high", "critical"}
                    \/ triage.class = "unknown" \/ triage.needsInvestigation
           from == DerivedFrom(st, {"triage", "investigate"})
<1>1. a = [action |-> final, tier |-> tier, refused |-> refused, requiresHuman |-> human, from |-> from]
  BY DEF ComputeDecide, Unless
<1>2. tier \in Severities /\ refused \in BOOLEAN BY DEF RiskFor, Severities
<1>3. human \in BOOLEAN
  <2>1. triage.needsInvestigation \in BOOLEAN
    <3> HIDE DEF triage
    <3>1. Fields(triage) \in AlertTriage BY DEF triage
    <3> QED BY <3>1 DEF AlertTriage, Fields
  <2> HIDE DEF final, risk, triage
  <2> QED BY <2>1
<1>4. final \in DecideActions
  <2>1. proposed \in DecideActions BY DEF ProposedActionFor, DecideActions
  <2> HIDE DEF proposed, risk
  <2> QED BY <2>1 DEF DecideActions
<1> HIDE DEF final, tier, refused, human, from
<1>5. Fields(a) = [action |-> final, tier |-> tier, refused |-> refused, requiresHuman |-> human]
  BY <1>1 DEF Fields
<1> QED BY <1>2, <1>3, <1>4, <1>5 DEF DecideArtifact

LEMMA ApproveConforms ==
  ASSUME NEW st, NEW a \in ComputeApprove(st),
         Fields(EffectiveArtifact(st, "decide")) \in DecideArtifact
  PROVE  Fields(a) \in ApproveArtifact
<1> DEFINE decide == EffectiveArtifact(st, "decide")
           action == decide.action
           tier == decide.tier
           signers == SignerMatrix[decide.tier]
           from == DerivedFrom(st, {"decide"})
<1>1. a = [action |-> action, tier |-> tier, signers |-> signers, signed |-> {},
           allApproved |-> FALSE, from |-> from]
  BY DEF ComputeApprove, Unless
<1>2. action \in DecideActions /\ tier \in Severities
  <2> HIDE DEF decide
  <2>1. Fields(decide) \in DecideArtifact BY DEF decide
  <2> QED BY <2>1 DEF DecideArtifact, Fields
<1>3. signers \in (SUBSET SignerRoles) \ {{}}
  <2> HIDE DEF decide
  <2>1. tier \in {"low", "medium", "high", "critical"} BY <1>2 DEF Severities
  <2> QED BY <2>1 DEF SignerMatrix, SignerRoles
<1> HIDE DEF action, tier, signers, from
<1>4. Fields(a) = [action |-> action, tier |-> tier, signers |-> signers, signed |-> {},
                   allApproved |-> FALSE]
  <2>1. DOMAIN a \ {"v", "from"} = {"action", "tier", "signers", "signed", "allApproved"}
    BY <1>1
  <2>2. Fields(a) = [x \in {"action", "tier", "signers", "signed", "allApproved"} |-> a[x]]
    BY <2>1 DEF Fields
  <2> QED BY <1>1, <2>2
<1> QED BY <1>2, <1>3, <1>4 DEF ApproveArtifact

LEMMA PreviewConforms ==
  ASSUME NEW st, NEW a \in ComputeContainPreview(st),
         Fields(EffectiveArtifact(st, "decide")) \in DecideArtifact
  PROVE  Fields(a) \in ContainPreview
<1> DEFINE decide == EffectiveArtifact(st, "decide")
           action == decide.action
           outcome == OutcomeFor[decide.action]
           from == DerivedFrom(st, {"decide"})
<1>1. a = [action |-> action, outcome |-> outcome, from |-> from] BY DEF ComputeContainPreview, Unless
<1>2. action \in DecideActions
  <2> HIDE DEF decide
  <2>1. Fields(decide) \in DecideArtifact BY DEF decide
  <2> QED BY <2>1 DEF DecideArtifact, Fields
<1>3. outcome \in Outcomes BY <1>2 DEF DecideActions, OutcomeFor, Outcomes
<1> HIDE DEF action, outcome, from
<1>4. Fields(a) = [action |-> action, outcome |-> outcome] BY <1>1 DEF Fields
<1> QED BY <1>2, <1>3, <1>4 DEF ContainPreview

LEMMA SecurityConforms ==
  ASSUME NEW i \in 1..6, NEW st, NEW known, Sound("security", i, st), NEW v,
         Anew("security", SecuritySteps[i], st), NEW a \in SecurityCompute(SecuritySteps[i], st, known)
  PROVE  Contract("security", SecuritySteps[i], WithField(a, "v", v))
<1> SUFFICES Fields(a) \in SecurityContract(SecuritySteps[i])
  BY FieldsStay DEF Contract, Conforms
<1>1. \A j \in 1..(i - 1) : Fields(EffectiveArtifact(st, SecuritySteps[j])) \in SecurityContract(SecuritySteps[j])
  BY SecurityWalk DEF Sound, Contract, Conforms
<1>2. i > 2 => Fields(EffectiveArtifact(st, "triage")) \in AlertTriage
  BY <1>1, SecurityWalk DEF SecurityContract
<1>3. i > 4 => Fields(EffectiveArtifact(st, "decide")) \in DecideArtifact
  BY <1>1, SecurityWalk DEF SecurityContract
<1>4. CASE i = 1 BY <1>4, SecurityWalk, IngestConforms DEF SecurityCompute, SecurityContract
<1>5. CASE i = 2 BY <1>5, SecurityWalk, TriageConforms DEF SecurityCompute, SecurityContract
<1>6. CASE i = 3 BY <1>6, SecurityWalk, InvestigateConforms DEF SecurityCompute, SecurityContract
<1>7. CASE i = 4 BY <1>2, <1>7, SecurityWalk, DecideConforms DEF SecurityCompute, SecurityContract
<1>8. CASE i = 5
  <2>1. a \in ComputeApprove(st)
    BY <1>8, SecurityWalk DEF SecurityCompute, StoredOr, Anew, KeptBy, ShownAgain
  <2> QED BY <1>3, <1>8, <2>1, SecurityWalk, ApproveConforms DEF SecurityContract
<1>9. CASE i = 6
  <2>1. a \in ComputeContainPreview(st)
    BY <1>9, SecurityWalk DEF SecurityCompute, StoredOr, Anew, KeptBy, ShownAgain
  <2> QED BY <1>3, <1>9, <2>1, SecurityWalk, PreviewConforms DEF SecurityContract
<1> QED BY <1>4, <1>5, <1>6, <1>7, <1>8, <1>9

-----------------------------------------------------------------------------
(* Managed service provider *)

LEMMA MspIntakeConforms ==
  ASSUME NEW st, NEW known, NEW a \in ComputeMspIntake(st, known)
  PROVE  Fields(a) \in MspIntakeArtifact
<1> DEFINE client == ClientRefFor(known.to)
           from == DerivedFrom(st, {})
<1>1. client \in MspClients BY DEF ClientRefFor, MspClients
<1>2. a = [client |-> client, from |-> from] BY DEF ComputeMspIntake
<1> HIDE DEF client, from
<1>3. Fields(a) = [client |-> client] BY <1>2 DEF Fields
<1> QED BY <1>1, <1>3 DEF MspIntakeArtifact

LEMMA TicketConforms ==
  ASSUME NEW st, NEW a \in ComputeTicket(st),
         Fields(EffectiveArtifact(st, "intake")) \in MspIntakeArtifact
  PROVE  Fields(a) \in MspTicketArtifact
<1> DEFINE intake == EffectiveArtifact(st, "intake")
           client == intake.client
           existing == HasDeskTicket(st)
           from == DerivedFrom(st, {"intake"})
<1>1. client \in MspClients
  <2> HIDE DEF intake
  <2>1. Fields(intake) \in MspIntakeArtifact BY DEF intake
  <2> QED BY <2>1 DEF MspIntakeArtifact, Fields
<1>2. existing \in BOOLEAN BY DEF HasDeskTicket
<1>3. a = [client |-> client, existing |-> existing, from |-> from] BY DEF ComputeTicket
<1> HIDE DEF client, existing, from
<1>4. Fields(a) = [client |-> client, existing |-> existing] BY <1>3 DEF Fields
<1> QED BY <1>1, <1>2, <1>4 DEF MspTicketArtifact

LEMMA MspDraftConforms ==
  ASSUME NEW st, NEW known, NEW a \in ComputeDraft(st, known)
  PROVE  Fields(a) \in MspDraftArtifact
<1> DEFINE client == EffectiveArtifact(st, "intake").client
           scope == [tenant |-> known.tenant, service |-> known.service, client |-> client]
           passages == MspSearch(scope, known.terms)
           stale == {p \in passages : MspPassage[p].stale}
           found == Cardinality(passages)
           staleFound == Cardinality(stale)
           from == DerivedFrom(st, {"intake"})
           Drafted(body, citations, escalations) ==
             [body |-> body, citations |-> citations, escalations |-> escalations,
              escalated |-> escalations # {}, passageCount |-> found,
              staleCount |-> staleFound, from |-> from]
<1>1. passages \in SUBSET {"vpn", "printer", "payroll", "payroll"} BY DEF MspSearch, MspPassage
<1>2. stale \in SUBSET {"vpn", "printer", "payroll", "payroll"} BY <1>1
<1>3. found \in 0..8 /\ staleFound \in 0..8
  <2> HIDE DEF passages, stale
  <2>1. Cardinality(passages) \in 0..4 BY <1>1, AtMostFour
  <2>2. Cardinality(stale) \in 0..4 BY <1>2, AtMostFour
  <2> QED BY <2>1, <2>2
<1>4. \E body, citations, escalations :
        /\ body \in {"none", "thin", "full", "rewritten"} /\ citations \in SUBSET DOMAIN MspPassage
        /\ escalations \in SUBSET MspEscalationReasons
        /\ a = Drafted(body, citations, escalations)
  <2>1. CASE passages = {}
    <3>1. a = Drafted("none", {}, {"empty_retrieval"}) BY <2>1 DEF ComputeDraft
    <3> QED BY <3>1 DEF MspEscalationReasons
  <2>2. CASE passages # {} /\ passages = stale
    <3>1. a = Drafted("none", {}, {"stale_evidence"}) BY <2>2 DEF ComputeDraft
    <3> QED BY <3>1 DEF MspEscalationReasons
  <2>3. CASE passages # {} /\ passages # stale
    <3>1. PICK answer \in ContractOutput(MspDrafterAnswers, MspDraftOutput) :
            a = Drafted(answer.body, answer.citations, AnswerEscalations(answer, passages))
      BY <2>3 DEF ComputeDraft
    <3>2. answer \in MspDraftOutput BY <3>1 DEF ContractOutput
    <3>3. answer.body \in {"thin", "full"} /\ answer.citations \in SUBSET DOMAIN MspPassage
      BY <3>2 DEF MspDraftOutput
    <3>4. AnswerEscalations(answer, passages) \in SUBSET MspEscalationReasons
      BY DEF AnswerEscalations
    <3> QED BY <3>1, <3>3, <3>4
  <2> QED BY <2>1, <2>2, <2>3
<1> HIDE DEF passages, stale, found, staleFound, from
<1>5. PICK body, citations, escalations :
        /\ body \in {"none", "thin", "full", "rewritten"} /\ citations \in SUBSET DOMAIN MspPassage
        /\ escalations \in SUBSET MspEscalationReasons
        /\ a = Drafted(body, citations, escalations)
  BY <1>4
<1> DEFINE escalated == escalations # {}
           all == {"body", "citations", "escalations", "escalated", "passageCount", "staleCount"}
<1>6. escalated \in BOOLEAN /\ escalated = (escalations # {}) OBVIOUS
<1>7. a = [body |-> body, citations |-> citations, escalations |-> escalations,
           escalated |-> escalated, passageCount |-> found, staleCount |-> staleFound, from |-> from]
  BY <1>5
<1> HIDE DEF escalated
<1>8. Fields(a) = [body |-> body, citations |-> citations, escalations |-> escalations,
                   escalated |-> escalated, passageCount |-> found, staleCount |-> staleFound]
  <2>1. DOMAIN a \ {"v", "from"} = all BY <1>7
  <2>2. Fields(a) = [x \in all |-> a[x]] BY <2>1 DEF Fields
  <2> QED BY <1>7, <2>2
<1> HIDE DEF Drafted
<1>9. Fields(a) \in [body : {"none", "thin", "full", "rewritten"}, citations : SUBSET DOMAIN MspPassage,
                     escalations : SUBSET MspEscalationReasons, escalated : BOOLEAN,
                     passageCount : 0..8, staleCount : 0..8]
  BY <1>3, <1>5, <1>6, <1>8
<1>10. Fields(a).escalated = (Fields(a).escalations # {}) BY <1>6, <1>8
<1> QED BY <1>9, <1>10 DEF MspDraftArtifact

LEMMA MspApproveConforms ==
  ASSUME NEW st, NEW a \in ComputeMspApprove(st),
         Fields(EffectiveArtifact(st, "draft")) \in MspDraftArtifact
  PROVE  Fields(a) \in MspApproveArtifact
<1> DEFINE draft == EffectiveArtifact(st, "draft")
           reasons == draft.escalations
           told == Cardinality(reasons)
           from == DerivedFrom(st, {"draft"})
<1>1. reasons \in SUBSET MspEscalationReasons
  <2> HIDE DEF draft
  <2>1. Fields(draft) \in MspDraftArtifact BY DEF draft
  <2> QED BY <2>1 DEF MspDraftArtifact, Fields
<1>2. told \in 0..8
  <2> HIDE DEF reasons
  <2>1. Cardinality(reasons) \in 0..4 BY <1>1, AtMostFour DEF MspEscalationReasons
  <2> QED BY <2>1
<1>3. a = [state |-> "pending", told |-> told, from |-> from] BY DEF ComputeMspApprove, Unless
<1> HIDE DEF told, from
<1>4. Fields(a) = [state |-> "pending", told |-> told] BY <1>3 DEF Fields
<1> QED BY <1>2, <1>4 DEF MspApproveArtifact

LEMMA MspSendConforms ==
  ASSUME NEW st, NEW a \in ComputeSendPlan(st),
         Fields(EffectiveArtifact(st, "intake")) \in MspIntakeArtifact
  PROVE  Fields(a) \in MspSendArtifact
<1> DEFINE intake == EffectiveArtifact(st, "intake")
           client == intake.client
           deskKey == HasDeskTicket(st)
           from == DerivedFrom(st, {"intake", "draft"})
<1>1. client \in MspClients
  <2> HIDE DEF intake
  <2>1. Fields(intake) \in MspIntakeArtifact BY DEF intake
  <2> QED BY <2>1 DEF MspIntakeArtifact, Fields
<1>2. deskKey \in BOOLEAN BY DEF HasDeskTicket
<1>3. a = [client |-> client, deskKey |-> deskKey, from |-> from] BY DEF ComputeSendPlan, Unless
<1> HIDE DEF client, deskKey, from
<1>4. Fields(a) = [client |-> client, deskKey |-> deskKey] BY <1>3 DEF Fields
<1> QED BY <1>1, <1>2, <1>4 DEF MspSendArtifact

LEMMA MspConforms ==
  ASSUME NEW i \in 1..5, NEW st, NEW known, Sound("msp", i, st), NEW v,
         Anew("msp", MspSteps[i], st), NEW a \in MspCompute(MspSteps[i], st, known)
  PROVE  Contract("msp", MspSteps[i], WithField(a, "v", v))
<1> SUFFICES MspContract(MspSteps[i], a)
  BY FieldsStay DEF Contract, MspContract
<1>1. \A j \in 1..(i - 1) : MspContract(MspSteps[j], EffectiveArtifact(st, MspSteps[j]))
  BY MspWalk DEF Sound, Contract
<1>2. i > 1 => Fields(EffectiveArtifact(st, "intake")) \in MspIntakeArtifact
  <2>1. i > 1 => MspContract("intake", EffectiveArtifact(st, "intake")) BY <1>1, MspWalk, 1 \in 1..5
  <2> QED BY <2>1 DEF MspContract
<1>3. i > 3 => Fields(EffectiveArtifact(st, "draft")) \in MspDraftArtifact
  <2>1. i > 3 => MspContract("draft", EffectiveArtifact(st, "draft")) BY <1>1, MspWalk, 3 \in 1..5
  <2> QED BY <2>1 DEF MspContract
<1>4. CASE i = 1 BY <1>4, MspWalk, MspIntakeConforms DEF MspCompute, MspContract
<1>5. CASE i = 2
  <2>1. a \in ComputeTicket(st)
    BY <1>5, MspWalk DEF MspCompute, StoredOr, Anew, KeptBy, ShownAgain
  <2> QED BY <1>2, <1>5, <2>1, MspWalk, TicketConforms DEF MspContract
<1>6. CASE i = 3 BY <1>6, MspWalk, MspDraftConforms DEF MspCompute, MspContract
<1>7. CASE i = 4
  <2>1. a \in ComputeMspApprove(st)
    BY <1>7, MspWalk DEF MspCompute, StoredOr, Anew, KeptBy, ShownAgain
  <2> QED BY <1>3, <1>7, <2>1, MspWalk, MspApproveConforms DEF MspContract
<1>8. CASE i = 5
  <2>1. a \in ComputeSendPlan(st)
    BY <1>8, MspWalk DEF MspCompute, StoredOr, Anew, KeptBy, ShownAgain
  <2> QED BY <1>2, <1>8, <2>1, MspWalk, MspSendConforms DEF MspContract
<1> QED BY <1>4, <1>5, <1>6, <1>7, <1>8

-----------------------------------------------------------------------------
(* Vendors *)

LEMMA VendorDocumentsAreFour ==
  IsFiniteSet(VendorDocuments) /\ Cardinality(VendorDocuments) <= 4
<1>1. VendorDocuments \in SUBSET {"registration", "tax-id", "bank-letter", "insurance"}
  BY DEF VendorDocuments
<1>2. IsFiniteSet(VendorDocuments) /\ Cardinality(VendorDocuments) \in 0..4 BY <1>1, AtMostFour
<1> QED BY <1>2

LEMMA VendorChecksAreFinite == IsFiniteSet(VendorCheckIds)
<1>1. IsFiniteSet({"tax-format", "duplicate-screening"})
  <2>1. {"tax-format", "duplicate-screening"}
          \in SUBSET {"tax-format", "duplicate-screening", "tax-format", "tax-format"}
    OBVIOUS
  <2> QED BY <2>1, AtMostFour
<1> QED BY <1>1, VendorDocumentsAreFour, FS_Union DEF VendorCheckIds

LEMMA TotalsAreBounded ==
  ASSUME NEW documents, DOMAIN documents = VendorDocuments
  PROVE  /\ CollectTotals(documents) \in [received : 0..4, waived : 0..4, outstanding : 0..4]
         /\ CollectTotals(documents).waived \in Nat /\ CollectTotals(documents).outstanding \in Nat
<1> DEFINE R == {d \in VendorDocuments : documents[d].status = "received"}
           W == {d \in VendorDocuments : documents[d].status = "waived"}
           received == Cardinality(R)
           waived == Cardinality(W)
           outstanding == Cardinality(VendorDocuments) - Cardinality(R) - Cardinality(W)
<1>1. R \in SUBSET VendorDocuments /\ W \in SUBSET VendorDocuments /\ R \intersect W = {} OBVIOUS
<1>2. received \in 0..4 /\ waived \in 0..4 /\ outstanding \in 0..4
  <2> HIDE DEF R, W
  <2> QED BY <1>1, 4 \in Nat, VendorDocumentsAreFour, Shares
<1>3. CollectTotals(documents) = [received |-> received, waived |-> waived, outstanding |-> outstanding]
  BY DEF CollectTotals, With
<1> HIDE DEF received, waived, outstanding
<1> QED BY <1>2, <1>3

LEMMA VendorCollectConforms ==
  ASSUME NEW st, NEW a \in ComputeCollect(st)
  PROVE  Fields(a) \in CollectArtifact
<1> DEFINE documents == [d \in VendorDocuments |-> [status |-> "missing", evidenced |-> FALSE]]
           totals == CollectTotals(documents)
           from == DerivedFrom(st, {})
<1>1. documents \in [VendorDocuments -> DocumentEntry] BY DEF DocumentEntry
<1>2. DOMAIN documents = VendorDocuments OBVIOUS
<1>3. a = [documents |-> documents, totals |-> totals, from |-> from] BY DEF ComputeCollect
<1> HIDE DEF documents
<1>4. totals \in [received : 0..4, waived : 0..4, outstanding : 0..4] BY <1>2, TotalsAreBounded
<1> HIDE DEF totals, from
<1>5. Fields(a) = [documents |-> documents, totals |-> totals] BY <1>3 DEF Fields
<1> QED BY <1>1, <1>4, <1>5 DEF CollectArtifact

LEMMA MatchesAreScores ==
  ASSUME NEW f \in VendorsFacts, NEW C
  PROVE  MatchCandidates(Looked(f, C)) \in SUBSET (0..100)
<1> DEFINE known == Looked(f, C)
           Legible(record) == record.name \in 0..100 /\ record.taxId \in {"exact", "prefix", "other"}
<1>1. "registry" \in DOMAIN f /\ \A record \in f.registry : Legible(record)
  <2> DEFINE R == {MasterRecord(60, "prefix"), MasterRecord(50, "exact"), MasterRecord(100, "prefix"),
                   MasterRecord(20, "other"), MasterRecord(80, "prefix")}
  <2>1. "registry" \in DOMAIN f /\ f.registry \subseteq R
    <3> DEFINE A == {{}, {MasterRecord(60, "prefix"), MasterRecord(50, "exact")},
                     {MasterRecord(100, "prefix"), MasterRecord(20, "other")}}
               B == {{MasterRecord(80, "prefix")}}
    <3>1. \A S \in A \union B : S \subseteq R OBVIOUS
    <3>2. f \in [taxShaped : {TRUE}, registry : A] \/ f \in [taxShaped : {FALSE}, registry : B]
      BY DEF VendorsFacts
    <3> HIDE DEF A, B, R
    <3>3. "registry" \in DOMAIN f /\ f.registry \in A \union B BY <3>2
    <3> QED BY <3>1, <3>3
  <2>2. \A record \in R : Legible(record) BY DEF MasterRecord
  <2> HIDE DEF R, Legible
  <2> QED BY <2>1, <2>2
<1>2. known.registry = f.registry BY <1>1, LookedUp
<1>3. Legible(MasterRecord(100, "exact")) BY DEF MasterRecord
<1> HIDE DEF Legible
<1>4. \A record \in RegistryList(known) : Legible(record) BY <1>1, <1>2, <1>3 DEF RegistryList
<1> HIDE DEF known
<1>5. ASSUME NEW record \in RegistryList(known)
      PROVE  (7 * record.name + 3 * TaxComponent[record.taxId]) \div 10 \in 0..100
  <2> DEFINE n == record.name
             c == TaxComponent[record.taxId]
  <2>1. n \in 0..100 /\ c \in {0, 50, 100} BY <1>4 DEF Legible, TaxComponent
  <2> HIDE DEF n, c
  <2>2. (7 * n + 3 * c) \in 0..1000 BY <2>1
  <2>3. \A x \in 0..1000 : x \div 10 \in 0..100 OBVIOUS
  <2> QED BY <2>2, <2>3 DEF n, c
<1>6. MatchCandidates(known) \in SUBSET (0..100) BY <1>5 DEF MatchCandidates
<1> QED BY <1>6 DEF known

LEMMA VendorVerifyConforms ==
  ASSUME NEW st, NEW f \in VendorsFacts, NEW C, NEW a \in ComputeVerify(st, Looked(f, C))
  PROVE  Fields(a) \in VerifyArtifact
<1> DEFINE known == Looked(f, C)
           documents == EffectiveArtifact(st, "collect").documents
           candidates == MatchCandidates(known)
           checks == [c \in VendorCheckIds |->
                        CASE c = "tax-format" -> TaxFormatCheck(known)
                          [] c = "duplicate-screening" -> DuplicateCheck(candidates)
                          [] OTHER -> DocumentCheck(documents[c])]
           failed == {c \in VendorCheckIds : checks[c] = "fail"}
           from == DerivedFrom(st, {"collect"})
<1>1. a = [checks |-> checks, candidates |-> candidates, resolutions |-> {},
           manualReview |-> failed, from |-> from]
  BY DEF ComputeVerify, Unless
<1>2. candidates \in SUBSET (0..100) BY MatchesAreScores
<1>3. checks \in [VendorCheckIds -> CheckStatuses]
  <2> HIDE DEF known, documents, candidates
  <2>1. ASSUME NEW c \in VendorCheckIds PROVE checks[c] \in CheckStatuses
    <3>1. CASE c = "tax-format" BY <3>1 DEF TaxFormatCheck, CheckStatuses
    <3>2. CASE c = "duplicate-screening" BY <3>2 DEF DuplicateCheck, CheckStatuses
    <3>3. CASE c \notin {"tax-format", "duplicate-screening"}
      <4>1. checks[c] = DocumentCheck(documents[c]) BY <3>3
      <4>2. DocumentCheck(documents[c]) \in CheckStatuses BY DEF DocumentCheck, CheckStatuses
      <4> HIDE DEF checks
      <4> QED BY <4>1, <4>2
    <3> QED BY <3>1, <3>2, <3>3
  <2>2. checks = [c \in VendorCheckIds |-> checks[c]] OBVIOUS
  <2> HIDE DEF checks
  <2> QED BY <2>1, <2>2
<1>4. failed \in SUBSET VendorCheckIds OBVIOUS
<1> HIDE DEF checks, candidates, failed, from
<1>5. Fields(a) = [checks |-> checks, candidates |-> candidates, resolutions |-> {},
                   manualReview |-> failed]
  BY <1>1 DEF Fields
<1> QED BY <1>2, <1>3, <1>4, <1>5 DEF VerifyArtifact

LEMMA VendorRiskIsScore ==
  ASSUME NEW collect, Fields(collect) \in CollectArtifact,
         NEW verify, Fields(verify) \in VerifyArtifact
  PROVE  RiskScore(collect, verify) \in 0..100
<1> DEFINE totals == CollectTotals(collect.documents)
           waived == totals.waived
           outstanding == totals.outstanding
           fails == Cardinality({c \in DOMAIN verify.checks : verify.checks[c] = "fail"})
           flags == Cardinality({c \in DOMAIN verify.checks : verify.checks[c] = "flag"})
           top == TopScore(verify.candidates)
           more == IF top >= 85 THEN 25 ELSE IF top >= 60 THEN 10 ELSE 0
           raw == waived * 12 + outstanding * 25 + fails * 15 + flags * 5 + more
<1>1. DOMAIN collect.documents = VendorDocuments BY DEF CollectArtifact, Fields
<1>2. DOMAIN verify.checks = VendorCheckIds BY DEF VerifyArtifact, Fields
<1>3. waived \in Nat /\ outstanding \in Nat BY <1>1, TotalsAreBounded
<1>4. fails \in Nat /\ flags \in Nat BY <1>2, VendorChecksAreFinite, SomeOf
<1>5. more \in Nat OBVIOUS
<1>6. RiskScore(collect, verify) = Min({100, raw}) BY DEF RiskScore
<1> HIDE DEF waived, outstanding, fails, flags, more
<1>7. raw \in Nat BY <1>3, <1>4, <1>5
<1> HIDE DEF raw
<1> QED BY <1>6, <1>7, Capped

LEMMA VendorRiskConforms ==
  ASSUME NEW st, NEW a \in ComputeRisk(st),
         Fields(EffectiveArtifact(st, "collect")) \in CollectArtifact,
         Fields(EffectiveArtifact(st, "verify")) \in VerifyArtifact
  PROVE  Fields(a) \in RiskArtifact
<1> DEFINE score == RiskScore(EffectiveArtifact(st, "collect"), EffectiveArtifact(st, "verify"))
           tier == TierOf(score)
           signers == ApproverMatrix[TierOf(score)]
           from == DerivedFrom(st, {"collect", "verify"})
<1>1. score \in 0..100 BY VendorRiskIsScore
<1>2. a = [score |-> score, tier |-> tier, requiredSigners |-> signers, from |-> from]
  BY DEF ComputeRisk, Unless
<1> HIDE DEF score
<1>3. tier \in RiskTiers BY DEF TierOf, RiskTiers
<1>4. signers \in (SUBSET VendorSigners) \ {{}} BY <1>3 DEF ApproverMatrix, RiskTiers, VendorSigners
<1> HIDE DEF tier, signers, from
<1>5. Fields(a) = [score |-> score, tier |-> tier, requiredSigners |-> signers] BY <1>2 DEF Fields
<1> QED BY <1>1, <1>3, <1>4, <1>5 DEF RiskArtifact

LEMMA VendorChainConforms ==
  ASSUME NEW st, NEW a \in ComputeChain(st),
         Fields(EffectiveArtifact(st, "risk-score")) \in RiskArtifact
  PROVE  Fields(a) \in ChainArtifact
<1> DEFINE risk == EffectiveArtifact(st, "risk-score")
           tier == risk.tier
           asked == risk.requiredSigners
           chain == [role \in risk.requiredSigners |-> "pending"]
           from == DerivedFrom(st, {"risk-score"})
<1>1. a = [tier |-> tier, chain |-> chain, allApproved |-> FALSE, from |-> from]
  BY DEF ComputeChain, Unless
<1>2. tier \in RiskTiers /\ asked \in (SUBSET VendorSigners) \ {{}}
  <2> HIDE DEF risk
  <2>1. Fields(risk) \in RiskArtifact BY DEF risk
  <2> QED BY <2>1 DEF RiskArtifact, Fields
<1>3. chain \in Chains(VendorSigners)
  <2>1. chain \in [asked -> SignerStates] BY DEF SignerStates
  <2> HIDE DEF chain, asked
  <2> QED BY <1>2, <2>1 DEF Chains
<1> HIDE DEF tier, chain, from
<1>4. Fields(a) = [tier |-> tier, chain |-> chain, allApproved |-> FALSE]
  <2>1. DOMAIN a \ {"v", "from"} = {"tier", "chain", "allApproved"} BY <1>1
  <2>2. Fields(a) = [x \in {"tier", "chain", "allApproved"} |-> a[x]] BY <2>1 DEF Fields
  <2> QED BY <1>1, <2>2
<1> QED BY <1>2, <1>3, <1>4 DEF ChainArtifact

LEMMA VendorRecordConforms ==
  ASSUME NEW st, NEW known, NEW a \in ComputeRecord(st, known)
  PROVE  Fields(a) \in CreateArtifact
<1> DEFINE existing == RegistryKnows(known)
           from == DerivedFrom(st, {"collect", "approve"})
<1>1. existing \in BOOLEAN BY DEF RegistryKnows
<1>2. a = [existing |-> existing, welcomePacket |-> TRUE, from |-> from] BY DEF ComputeRecord, Unless
<1> HIDE DEF existing, from
<1>3. Fields(a) = [existing |-> existing, welcomePacket |-> TRUE]
  <2>1. DOMAIN a \ {"v", "from"} = {"existing", "welcomePacket"} BY <1>2
  <2>2. Fields(a) = [x \in {"existing", "welcomePacket"} |-> a[x]] BY <2>1 DEF Fields
  <2> QED BY <1>2, <2>2
<1> QED BY <1>1, <1>3 DEF CreateArtifact

LEMMA VendorsConforms ==
  ASSUME NEW i \in 1..5, NEW st, NEW f \in VendorsFacts, NEW C, Sound("vendors", i, st), NEW v,
         Anew("vendors", VendorsSteps[i], st),
         NEW a \in VendorsCompute(VendorsSteps[i], st, Looked(f, C))
  PROVE  Contract("vendors", VendorsSteps[i], WithField(a, "v", v))
<1> SUFFICES Fields(a) \in VendorsContract(VendorsSteps[i])
  BY FieldsStay DEF Contract, Conforms
<1>1. \A j \in 1..(i - 1) : Fields(EffectiveArtifact(st, VendorsSteps[j])) \in VendorsContract(VendorsSteps[j])
  BY VendorsWalk DEF Sound, Contract, Conforms
<1>2. i > 2 => /\ Fields(EffectiveArtifact(st, "collect")) \in CollectArtifact
               /\ Fields(EffectiveArtifact(st, "verify")) \in VerifyArtifact
  BY <1>1, VendorsWalk DEF VendorsContract
<1>3. i > 3 => Fields(EffectiveArtifact(st, "risk-score")) \in RiskArtifact
  BY <1>1, VendorsWalk DEF VendorsContract
<1>4. CASE i = 1 BY <1>4, VendorsWalk, VendorCollectConforms DEF VendorsCompute, VendorsContract
<1>5. CASE i = 2 BY <1>5, VendorsWalk, VendorVerifyConforms DEF VendorsCompute, VendorsContract
<1>6. CASE i = 3 BY <1>2, <1>6, VendorsWalk, VendorRiskConforms DEF VendorsCompute, VendorsContract
<1>7. CASE i = 4
  <2>1. a \in ComputeChain(st)
    BY <1>7, VendorsWalk DEF VendorsCompute, StoredOr, Anew, KeptBy, ShownAgain
  <2> QED BY <1>3, <1>7, <2>1, VendorsWalk, VendorChainConforms DEF VendorsContract
<1>8. CASE i = 5
  <2>1. a \in ComputeRecord(st, Looked(f, C))
    BY <1>8, VendorsWalk DEF VendorsCompute, StoredOr, Anew, KeptBy, ShownAgain
  <2> QED BY <1>8, <2>1, VendorsWalk, VendorRecordConforms DEF VendorsContract
<1> QED BY <1>4, <1>5, <1>6, <1>7, <1>8

-----------------------------------------------------------------------------
(* Onboarding *)

LEMMA HireRequiredAreFive ==
  IsFiniteSet(HireRequired) /\ Cardinality(HireRequired) <= 6
<1> DEFINE four == {"id-verification", "right-to-work", "signed-contract", "tax-form"}
<1>1. HireRequired = four \union {"bank-details"} BY DEF HireRequired, HireDocuments
<1>2. IsFiniteSet(four) /\ Cardinality(four) <= 4
  <2>1. four \in SUBSET {"id-verification", "right-to-work", "signed-contract", "tax-form"} OBVIOUS
  <2>2. IsFiniteSet(four) /\ Cardinality(four) \in 0..4 BY <2>1, AtMostFour
  <2> QED BY <2>2
<1> HIDE DEF four
<1>3. IsFiniteSet(HireRequired) /\ Cardinality(HireRequired) <= 4 + 1
  BY <1>1, <1>2, 4 \in Nat, OneMore
<1>4. Cardinality(HireRequired) \in Nat BY <1>3, FS_CardinalityType
<1> QED BY <1>3, <1>4

LEMMA HireChecksAreFinite == IsFiniteSet(HireCheckIds)
<1> DEFINE others == {"start-date", "manager-assignment", "duplicate-screening"}
<1>1. IsFiniteSet(others)
  <2>1. others \in SUBSET {"start-date", "manager-assignment", "duplicate-screening", "start-date"}
    OBVIOUS
  <2> QED BY <2>1, AtMostFour
<1>2. HireCheckIds = HireRequired \union others BY DEF HireCheckIds
<1> HIDE DEF others
<1> QED BY <1>1, <1>2, HireRequiredAreFive, FS_Union

LEMMA HireTotalsAreBounded ==
  ASSUME NEW documents
  PROVE  /\ HireTotals(documents) \in [received : 0..6, waived : 0..6, outstanding : 0..6]
         /\ HireTotals(documents).waived \in Nat /\ HireTotals(documents).outstanding \in Nat
<1> DEFINE R == {d \in HireRequired : documents[d].status = "received"}
           W == {d \in HireRequired : documents[d].status = "waived"}
           received == Cardinality(R)
           waived == Cardinality(W)
           outstanding == Cardinality(HireRequired) - Cardinality(R) - Cardinality(W)
<1>1. R \in SUBSET HireRequired /\ W \in SUBSET HireRequired /\ R \intersect W = {} OBVIOUS
<1>2. received \in 0..6 /\ waived \in 0..6 /\ outstanding \in 0..6
  <2> HIDE DEF R, W
  <2> QED BY <1>1, 6 \in Nat, HireRequiredAreFive, Shares
<1>3. HireTotals(documents) = [received |-> received, waived |-> waived, outstanding |-> outstanding]
  BY DEF HireTotals
<1> HIDE DEF received, waived, outstanding
<1> QED BY <1>2, <1>3

\* What is known of a hire.
LEMMA HireIsKnown ==
  ASSUME NEW f \in OnboardingFacts, NEW C
  PROVE  LET known == Looked(f, C) IN
         /\ known.access \in AccessTiers /\ known.manager \in {"known", "unknown", "none"}
         /\ known.start \in {"past", "soon", "later"} /\ known.engineering \in BOOLEAN
         /\ \A other \in known.colleagues : other.name \in DOMAIN NameScore
<1> DEFINE R == {Colleague("surname", TRUE), Colleague("given", FALSE), Colleague("token", TRUE),
                 Colleague("surname", FALSE), Colleague("initial", TRUE)}
           Hires == [access : AccessTiers, manager : {"known", "unknown", "none"},
                     start : {"past", "soon", "later"}, engineering : BOOLEAN,
                     colleagues : SUBSET R]
<1>1. /\ {"access", "manager", "start", "engineering", "colleagues"} \subseteq DOMAIN f
      /\ f.access \in AccessTiers /\ f.manager \in {"known", "unknown", "none"}
      /\ f.start \in {"past", "soon", "later"} /\ f.engineering \in BOOLEAN
      /\ \A other \in f.colleagues : other.name \in DOMAIN NameScore
  <2>1. f \in Hires
    <3> DEFINE given == {Colleague("surname", TRUE)}
               two == {Colleague("given", FALSE), Colleague("token", TRUE)}
               sur == {Colleague("surname", FALSE)}
               ini == {Colleague("initial", TRUE)}
               Hire(access, manager, start, engineering, colleagues) ==
                 [access |-> access, manager |-> manager, start |-> start,
                  engineering |-> engineering, colleagues |-> colleagues]
    <3>1. given \in SUBSET R /\ two \in SUBSET R /\ sur \in SUBSET R /\ ini \in SUBSET R OBVIOUS
    <3>2. f \in {Hire("low", "known", "later", TRUE, {}), Hire("high", "unknown", "later", TRUE, given),
                 Hire("medium", "none", "soon", FALSE, two), Hire("high", "known", "past", FALSE, sur),
                 Hire("low", "none", "later", FALSE, ini)}
      BY DEF OnboardingFacts
    <3>3. {} \in SUBSET R OBVIOUS
    <3> HIDE DEF R, given, two, sur, ini
    <3>4. ASSUME NEW access \in AccessTiers, NEW manager \in {"known", "unknown", "none"},
                 NEW start \in {"past", "soon", "later"}, NEW engineering \in BOOLEAN,
                 NEW colleagues \in SUBSET R
          PROVE  Hire(access, manager, start, engineering, colleagues) \in Hires
      OBVIOUS
    <3>5. "low" \in AccessTiers /\ "medium" \in AccessTiers /\ "high" \in AccessTiers
      BY DEF AccessTiers
    <3> HIDE DEF Hires, Hire
    <3>6. /\ Hire("low", "known", "later", TRUE, {}) \in Hires
          /\ Hire("high", "unknown", "later", TRUE, given) \in Hires
          /\ Hire("medium", "none", "soon", FALSE, two) \in Hires
          /\ Hire("high", "known", "past", FALSE, sur) \in Hires
          /\ Hire("low", "none", "later", FALSE, ini) \in Hires
      BY <3>1, <3>3, <3>4, <3>5
    <3> QED BY <3>2, <3>6
  <2>2. \A other \in R : other.name \in DOMAIN NameScore BY DEF Colleague, NameScore
  <2> HIDE DEF R
  <2>3. f.colleagues \in SUBSET R BY <2>1
  <2> QED BY <2>1, <2>2, <2>3
<1>2. /\ Looked(f, C).access = f.access /\ Looked(f, C).manager = f.manager
      /\ Looked(f, C).start = f.start /\ Looked(f, C).engineering = f.engineering
      /\ Looked(f, C).colleagues = f.colleagues
  BY <1>1, LookedUp
<1> QED BY <1>1, <1>2

LEMMA HireCollectConforms ==
  ASSUME NEW st, NEW f \in OnboardingFacts, NEW C, NEW a \in ComputeHireCollect(st, Looked(f, C))
  PROVE  Fields(a) \in HireCollectArtifact
<1> DEFINE access == Looked(f, C).access
           documents == [d \in HireDocuments |-> [status |-> "missing", evidenced |-> FALSE]]
           totals == HireTotals(documents)
           from == DerivedFrom(st, {})
<1>1. documents \in [HireDocuments -> HireDocumentEntry] BY DEF HireDocumentEntry
<1>2. access \in AccessTiers BY HireIsKnown
<1>3. a = [access |-> access, documents |-> documents, totals |-> totals, from |-> from]
  BY DEF ComputeHireCollect
<1> HIDE DEF documents
<1>4. totals \in [received : 0..6, waived : 0..6, outstanding : 0..6] BY HireTotalsAreBounded
<1> HIDE DEF access, totals, from
<1>5. Fields(a) = [access |-> access, documents |-> documents, totals |-> totals]
  <2>1. DOMAIN a \ {"v", "from"} = {"access", "documents", "totals"} BY <1>3
  <2>2. Fields(a) = [x \in {"access", "documents", "totals"} |-> a[x]] BY <2>1 DEF Fields
  <2> QED BY <1>3, <2>2
<1> QED BY <1>1, <1>2, <1>4, <1>5 DEF HireCollectArtifact

LEMMA DuplicatesAreScores ==
  ASSUME NEW f \in OnboardingFacts, NEW C
  PROVE  FindDuplicates(Looked(f, C)) \in SUBSET (0..100)
<1> DEFINE known == Looked(f, C)
           Score(other) == NameScore[other.name] + (IF other.sameDepartment THEN 5 ELSE 0)
<1>1. ASSUME NEW other \in known.colleagues PROVE Min({100, Score(other)}) \in 0..100
  <2>1. other.name \in DOMAIN NameScore BY HireIsKnown
  <2>2. NameScore[other.name] \in Nat BY <2>1 DEF NameScore
  <2>3. Score(other) \in Nat BY <2>2
  <2> HIDE DEF Score
  <2> QED BY <2>3, Capped
<1> HIDE DEF known
<1>2. FindDuplicates(known) = {Min({100, Score(other)}) : other \in known.colleagues}
  BY DEF FindDuplicates
<1> HIDE DEF Score
<1>3. FindDuplicates(known) \in SUBSET (0..100) BY <1>1, <1>2
<1> QED BY <1>3 DEF known

LEMMA HireVerifyConforms ==
  ASSUME NEW st, NEW f \in OnboardingFacts, NEW C, NEW a \in ComputeHireVerify(st, Looked(f, C))
  PROVE  Fields(a) \in HireVerifyArtifact
<1> DEFINE known == Looked(f, C)
           documents == EffectiveArtifact(st, "collect").documents
           candidates == FindDuplicates(known)
           checks == [c \in HireCheckIds |->
                        CASE c = "start-date" -> StartDateCheck(known.start)
                          [] c = "manager-assignment" -> ManagerCheck(known.manager)
                          [] c = "duplicate-screening" -> HireDuplicateCheck(candidates)
                          [] OTHER -> HireDocumentCheck(documents[c])]
           failed == {c \in HireCheckIds : checks[c] = "fail"}
           from == DerivedFrom(st, {"collect"})
           Statuses3 == {"pass", "flag", "fail"}
<1>1. a = [checks |-> checks, candidates |-> candidates, resolutions |-> {},
           manualReview |-> failed, from |-> from]
  BY DEF ComputeHireVerify, Unless
<1>2. candidates \in SUBSET (0..100) BY DuplicatesAreScores
<1>3. checks \in [HireCheckIds -> Statuses3]
  <2>0. known.start \in {"past", "soon", "later"} /\ known.manager \in {"known", "unknown", "none"}
    BY HireIsKnown
  <2> HIDE DEF known, documents, candidates
  <2>1. ASSUME NEW c \in HireCheckIds PROVE checks[c] \in Statuses3
    <3>1. CASE c = "start-date" BY <2>0, <3>1 DEF StartDateCheck
    <3>2. CASE c = "manager-assignment" BY <2>0, <3>2 DEF ManagerCheck
    <3>3. CASE c = "duplicate-screening" BY <3>3 DEF HireDuplicateCheck
    <3>4. CASE c \notin {"start-date", "manager-assignment", "duplicate-screening"}
      <4>1. checks[c] = HireDocumentCheck(documents[c]) BY <3>4
      <4>2. HireDocumentCheck(documents[c]) \in Statuses3 BY DEF HireDocumentCheck
      <4> HIDE DEF checks
      <4> QED BY <4>1, <4>2
    <3> QED BY <3>1, <3>2, <3>3, <3>4
  <2>2. checks = [c \in HireCheckIds |-> checks[c]] OBVIOUS
  <2> HIDE DEF checks
  <2> QED BY <2>1, <2>2
<1>4. failed \in SUBSET HireCheckIds OBVIOUS
<1> HIDE DEF checks, candidates, failed, from
<1>5. Fields(a) = [checks |-> checks, candidates |-> candidates, resolutions |-> {},
                   manualReview |-> failed]
  BY <1>1 DEF Fields
<1> QED BY <1>2, <1>3, <1>4, <1>5 DEF HireVerifyArtifact

LEMMA HireRiskIsScore ==
  ASSUME NEW collect, Fields(collect) \in HireCollectArtifact,
         NEW verify, Fields(verify) \in HireVerifyArtifact
  PROVE  HireRiskScore(collect, verify) \in 0..100
<1> DEFINE totals == HireTotals(collect.documents)
           points == AccessTierPoints[collect.access]
           waived == totals.waived
           outstanding == totals.outstanding
           fails == Cardinality({c \in DOMAIN verify.checks : verify.checks[c] = "fail"})
           flags == Cardinality({c \in DOMAIN verify.checks : verify.checks[c] = "flag"})
           top == HireTopScore(verify.candidates)
           more == IF top >= 85 THEN 25 ELSE IF top >= 60 THEN 10 ELSE 0
           raw == points + waived * 12 + outstanding * 25 + fails * 15 + flags * 5 + more
<1>1. collect.access \in AccessTiers BY DEF HireCollectArtifact, Fields
<1>2. DOMAIN verify.checks = HireCheckIds BY DEF HireVerifyArtifact, Fields
<1>3. waived \in Nat /\ outstanding \in Nat BY HireTotalsAreBounded
<1>4. fails \in Nat /\ flags \in Nat BY <1>2, HireChecksAreFinite, SomeOf
<1>5. more \in Nat OBVIOUS
<1>6. points \in Nat BY <1>1 DEF AccessTierPoints, AccessTiers
<1>7. HireRiskScore(collect, verify) = Min({100, raw}) BY DEF HireRiskScore
<1> HIDE DEF points, waived, outstanding, fails, flags, more
<1>8. raw \in Nat BY <1>3, <1>4, <1>5, <1>6
<1> HIDE DEF raw
<1> QED BY <1>7, <1>8, Capped

LEMMA HireRiskConforms ==
  ASSUME NEW st, NEW a \in ComputeHireRisk(st),
         Fields(EffectiveArtifact(st, "collect")) \in HireCollectArtifact,
         Fields(EffectiveArtifact(st, "verify")) \in HireVerifyArtifact
  PROVE  Fields(a) \in HireRiskArtifact
<1> DEFINE score == HireRiskScore(EffectiveArtifact(st, "collect"), EffectiveArtifact(st, "verify"))
           tier == HireTierOf(score)
           signers == HireSigners[HireTierOf(score)]
           from == DerivedFrom(st, {"collect", "verify"})
<1>1. score \in 0..100 BY HireRiskIsScore
<1>2. a = [score |-> score, tier |-> tier, requiredSigners |-> signers, from |-> from]
  BY DEF ComputeHireRisk, Unless
<1> HIDE DEF score
<1>3. tier \in AccessTiers BY DEF HireTierOf, AccessTiers
<1>4. signers \in (SUBSET HireRoles) \ {{}} BY <1>3 DEF HireSigners, AccessTiers, HireRoles
<1> HIDE DEF tier, signers, from
<1>5. Fields(a) = [score |-> score, tier |-> tier, requiredSigners |-> signers] BY <1>2 DEF Fields
<1> QED BY <1>1, <1>3, <1>4, <1>5 DEF HireRiskArtifact

LEMMA HireChainConforms ==
  ASSUME NEW st, NEW a \in ComputeHireChain(st),
         Fields(EffectiveArtifact(st, "risk-score")) \in HireRiskArtifact
  PROVE  Fields(a) \in HireChainArtifact
<1> DEFINE risk == EffectiveArtifact(st, "risk-score")
           tier == risk.tier
           asked == risk.requiredSigners
           chain == [role \in risk.requiredSigners |-> "pending"]
           chains == UNION {[some -> {"pending", "approved", "rejected"}]
                              : some \in (SUBSET HireRoles) \ {{}}}
           from == DerivedFrom(st, {"risk-score"})
<1>1. a = [tier |-> tier, chain |-> chain, allApproved |-> FALSE, from |-> from]
  BY DEF ComputeHireChain, Unless
<1>2. tier \in AccessTiers /\ asked \in (SUBSET HireRoles) \ {{}}
  <2> HIDE DEF risk
  <2>1. Fields(risk) \in HireRiskArtifact BY DEF risk
  <2> QED BY <2>1 DEF HireRiskArtifact, Fields
<1>3. chain \in chains
  <2>1. chain \in [asked -> {"pending", "approved", "rejected"}] OBVIOUS
  <2> HIDE DEF chain, asked
  <2> QED BY <1>2, <2>1
<1> HIDE DEF tier, chain, from
<1>4. Fields(a) = [tier |-> tier, chain |-> chain, allApproved |-> FALSE]
  <2>1. DOMAIN a \ {"v", "from"} = {"tier", "chain", "allApproved"} BY <1>1
  <2>2. Fields(a) = [x \in {"tier", "chain", "allApproved"} |-> a[x]] BY <2>1 DEF Fields
  <2> QED BY <1>1, <2>2
<1> HIDE DEF chains
<1>5. HireChainArtifact = [tier : AccessTiers, allApproved : BOOLEAN, chain : chains]
  BY DEF HireChainArtifact, chains
<1> QED BY <1>2, <1>3, <1>4, <1>5

LEMMA ProvisionConforms ==
  ASSUME NEW st, NEW f \in OnboardingFacts, NEW C, NEW a \in ComputeProvision(st, Looked(f, C)),
         Fields(EffectiveArtifact(st, "collect")) \in HireCollectArtifact
  PROVE  Fields(a) \in ProvisionArtifact
<1> DEFINE collect == EffectiveArtifact(st, "collect")
           known == Looked(f, C)
           access == collect.access
           accounts == ProvisionAccounts(access, known.engineering)
           existing == "employee-registry" \in known.carried
           from == DerivedFrom(st, {"collect", "approve"})
           all == {"okta", "slack", "zendesk", "jira", "workday", "github", "aws"}
<1>1. a = [access |-> access, accounts |-> accounts, existing |-> existing, from |-> from]
  BY DEF ComputeProvision, Unless
<1>2. access \in AccessTiers
  <2> HIDE DEF collect
  <2>1. Fields(collect) \in HireCollectArtifact BY DEF collect
  <2> QED BY <2>1 DEF HireCollectArtifact, Fields
<1>3. accounts \in SUBSET all
  <2> HIDE DEF access, known
  <2> QED BY <1>2 DEF ProvisionAccounts, TierSystems, AccessTiers
<1>4. existing \in BOOLEAN OBVIOUS
<1> HIDE DEF access, accounts, existing, from
<1>5. Fields(a) = [access |-> access, accounts |-> accounts, existing |-> existing]
  <2>1. DOMAIN a \ {"v", "from"} = {"access", "accounts", "existing"} BY <1>1
  <2>2. Fields(a) = [x \in {"access", "accounts", "existing"} |-> a[x]] BY <2>1 DEF Fields
  <2> QED BY <1>1, <2>2
<1> QED BY <1>2, <1>3, <1>4, <1>5 DEF ProvisionArtifact

LEMMA OnboardingConforms ==
  ASSUME NEW i \in 1..5, NEW st, NEW f \in OnboardingFacts, NEW C, Sound("onboarding", i, st), NEW v,
         Anew("onboarding", OnboardingSteps[i], st),
         NEW a \in OnboardingCompute(OnboardingSteps[i], st, Looked(f, C))
  PROVE  Contract("onboarding", OnboardingSteps[i], WithField(a, "v", v))
<1> SUFFICES Fields(a) \in OnboardingContract(OnboardingSteps[i])
  BY FieldsStay DEF Contract, Conforms
<1>1. \A j \in 1..(i - 1) :
        Fields(EffectiveArtifact(st, OnboardingSteps[j])) \in OnboardingContract(OnboardingSteps[j])
  BY OnboardingWalk DEF Sound, Contract, Conforms
<1>2. i > 2 => /\ Fields(EffectiveArtifact(st, "collect")) \in HireCollectArtifact
               /\ Fields(EffectiveArtifact(st, "verify")) \in HireVerifyArtifact
  BY <1>1, OnboardingWalk DEF OnboardingContract
<1>3. i > 3 => Fields(EffectiveArtifact(st, "risk-score")) \in HireRiskArtifact
  BY <1>1, OnboardingWalk DEF OnboardingContract
<1>4. CASE i = 1 BY <1>4, OnboardingWalk, HireCollectConforms DEF OnboardingCompute, OnboardingContract
<1>5. CASE i = 2 BY <1>5, OnboardingWalk, HireVerifyConforms DEF OnboardingCompute, OnboardingContract
<1>6. CASE i = 3 BY <1>2, <1>6, OnboardingWalk, HireRiskConforms DEF OnboardingCompute, OnboardingContract
<1>7. CASE i = 4
  <2>1. a \in ComputeHireChain(st)
    BY <1>7, OnboardingWalk DEF OnboardingCompute, StoredOr, Anew, KeptBy, ShownAgain
  <2> QED BY <1>3, <1>7, <2>1, OnboardingWalk, HireChainConforms DEF OnboardingContract
<1>8. CASE i = 5
  <2>1. a \in ComputeProvision(st, Looked(f, C))
    BY <1>8, OnboardingWalk DEF OnboardingCompute, StoredOr, Anew, KeptBy, ShownAgain
  <2> QED BY <1>2, <1>8, <2>1, OnboardingWalk, ProvisionConforms DEF OnboardingContract
<1> QED BY <1>4, <1>5, <1>6, <1>7, <1>8

-----------------------------------------------------------------------------
(* Offboarding *)

LEMMA SystemsAreFive ==
  IsFiniteSet(AllSystems) /\ Cardinality(AllSystems) \in 0..5
<1> DEFINE four == {"aws", "github", "slack", "wiki"}
<1>1. AllSystems = four \union {"workday"} BY DEF AllSystems, LeaverSystems
<1>2. IsFiniteSet(four) /\ Cardinality(four) <= 4
  <2>1. four \in SUBSET {"aws", "github", "slack", "wiki"} OBVIOUS
  <2>2. IsFiniteSet(four) /\ Cardinality(four) \in 0..4 BY <2>1, AtMostFour
  <2> QED BY <2>2
<1> HIDE DEF four
<1>3. IsFiniteSet(AllSystems) /\ Cardinality(AllSystems) <= 4 + 1 BY <1>1, <1>2, 4 \in Nat, OneMore
<1>4. Cardinality(AllSystems) \in Nat BY <1>3, FS_CardinalityType
<1> QED BY <1>3, <1>4

LEMMA LeaverIsKnown ==
  ASSUME NEW f \in OffboardingFacts
  PROVE  f.access \in LeaverAccess /\ f.systems \in (SUBSET AllSystems) \ {{}}
<1> DEFINE S == (SUBSET AllSystems) \ {{}}
           Leaver(found, access, systems, failing, leaveOwed) ==
             [found |-> found, access |-> access, systems |-> systems, failing |-> failing,
              leaveOwed |-> leaveOwed]
           a == {"slack"}
           b == {"github", "slack"}
           c == {"wiki", "workday"}
           d == {"slack", "workday"}
           e == {"aws", "github"}
<1>1. {"aws", "github", "slack", "wiki", "workday"} = AllSystems BY DEF AllSystems, LeaverSystems
<1>2. a \in S /\ b \in S /\ c \in S /\ d \in S /\ e \in S BY <1>1
<1>3. f \in {Leaver(FALSE, "low", a, {}, FALSE), Leaver(TRUE, "low", b, {}, TRUE),
             Leaver(TRUE, "low", c, {"workday"}, FALSE), Leaver(TRUE, "medium", d, {"slack"}, FALSE),
             Leaver(TRUE, "high", e, {"aws", "github"}, TRUE)}
  BY DEF OffboardingFacts
<1>4. \A v, w, s, g, o : Leaver(v, w, s, g, o).access = w /\ Leaver(v, w, s, g, o).systems = s OBVIOUS
<1> HIDE DEF S, Leaver, a, b, c, d, e
<1>5. \E v, w, s, g, o : w \in {"low", "medium", "high"} /\ s \in S /\ f = Leaver(v, w, s, g, o)
  <2>1. "low" \in {"low", "medium", "high"} /\ "medium" \in {"low", "medium", "high"}
        /\ "high" \in {"low", "medium", "high"}
    OBVIOUS
  <2>2. CASE f = Leaver(FALSE, "low", a, {}, FALSE) BY <1>2, <2>1, <2>2
  <2>3. CASE f = Leaver(TRUE, "low", b, {}, TRUE) BY <1>2, <2>1, <2>3
  <2>4. CASE f = Leaver(TRUE, "low", c, {"workday"}, FALSE) BY <1>2, <2>1, <2>4
  <2>5. CASE f = Leaver(TRUE, "medium", d, {"slack"}, FALSE) BY <1>2, <2>1, <2>5
  <2>6. CASE f = Leaver(TRUE, "high", e, {"aws", "github"}, TRUE) BY <1>2, <2>1, <2>6
  <2> QED BY <1>3, <2>2, <2>3, <2>4, <2>5, <2>6
<1>6. f.access \in {"low", "medium", "high"} /\ f.systems \in S BY <1>4, <1>5
<1> QED BY <1>6 DEF S, LeaverAccess

LEMMA LeaverConforms ==
  ASSUME NEW st, NEW f \in OffboardingFacts, NEW C, NEW a \in ComputeLeaver(st, Looked(f, C))
  PROVE  Fields(a) \in LeaverArtifact
<1> DEFINE access == Looked(f, C).access
           systems == Looked(f, C).systems
           from == DerivedFrom(st, {})
<1>1. access \in LeaverAccess /\ systems \in (SUBSET AllSystems) \ {{}} BY LeaverLooked, LeaverIsKnown
<1>2. a = [access |-> access, systems |-> systems, from |-> from] BY DEF ComputeLeaver, Unless
<1> HIDE DEF access, systems, from
<1>3. Fields(a) = [access |-> access, systems |-> systems] BY <1>2 DEF Fields
<1> QED BY <1>1, <1>3 DEF LeaverArtifact

LEMMA ProfilesAreRegular ==
  ASSUME NEW system
  PROVE  SystemProfile(system).blast \in Nat /\ SystemProfile(system).reversibility \in Reversibilities
<1> DEFINE Rated(p) == p.blast \in Nat /\ p.reversibility \in Reversibilities
           listed == [okta |-> Profile(40, "recoverable"), github |-> Profile(35, "recoverable"),
                      aws |-> Profile(55, "irreversible"), jira |-> Profile(15, "reversible"),
                      slack |-> Profile(10, "reversible"), zendesk |-> Profile(20, "reversible"),
                      payroll |-> Profile(60, "recoverable"), erp |-> Profile(45, "recoverable"),
                      banking |-> Profile(65, "recoverable"), workday |-> Profile(50, "irreversible")]
<1>1. ASSUME NEW n \in Nat, NEW r \in Reversibilities
      PROVE  Rated(Profile(n, r))
  BY DEF Profile
<1>2. "reversible" \in Reversibilities /\ "recoverable" \in Reversibilities
      /\ "irreversible" \in Reversibilities
  BY DEF Reversibilities
<1> HIDE DEF Rated
<1>3. Rated(Profile(40, "recoverable")) /\ Rated(Profile(35, "recoverable")) BY <1>1, <1>2
<1>4. Rated(Profile(55, "irreversible")) /\ Rated(Profile(15, "reversible")) BY <1>1, <1>2
<1>5. Rated(Profile(10, "reversible")) /\ Rated(Profile(20, "reversible")) BY <1>1, <1>2
<1>6. Rated(Profile(60, "recoverable")) /\ Rated(Profile(45, "recoverable")) BY <1>1, <1>2
<1>7. Rated(Profile(65, "recoverable")) /\ Rated(Profile(50, "irreversible")) BY <1>1, <1>2
<1>8. Rated(Profile(55, "recoverable")) /\ Rated(Profile(25, "reversible")) BY <1>1, <1>2
<1>9. \A s \in DOMAIN listed : Rated(listed[s])
  BY <1>3, <1>4, <1>5, <1>6, <1>7
<1>10. SystemProfiles = WithField(listed, "hr-console", Profile(55, "recoverable")) BY DEF SystemProfiles
<1> HIDE DEF listed
<1>11. \A s \in DOMAIN SystemProfiles : Rated(SystemProfiles[s]) BY <1>8, <1>9, <1>10 DEF WithField
<1>12. Rated(SystemProfile(system)) BY <1>8, <1>11 DEF SystemProfile, StandardProfile
<1> QED BY <1>12 DEF Rated

LEMMA BlastIsScore ==
  ASSUME NEW system, NEW access \in LeaverAccess
  PROVE  BlastScoreFor(system, access) \in 0..100
<1> DEFINE more == [low |-> 0, medium |-> 5, high |-> 10][access]
           blast == SystemProfile(system).blast
           raised == blast + more
<1>1. more \in Nat BY DEF LeaverAccess
<1>2. blast \in Nat BY ProfilesAreRegular
<1>3. BlastScoreFor(system, access) = IF raised > 100 THEN 100 ELSE raised BY DEF BlastScoreFor
<1> HIDE DEF more, blast
<1> QED BY <1>1, <1>2, <1>3

LEMMA LeaverAuditConforms ==
  ASSUME NEW st, NEW a \in ComputeAudit(st),
         Fields(EffectiveArtifact(st, "intake")) \in LeaverArtifact
  PROVE  Fields(a) \in AuditArtifact(a)
<1> DEFINE intake == EffectiveArtifact(st, "intake")
           access == intake.access
           Score(system) == BlastScoreFor(system, intake.access)
           Entry(system) == [blastRadius |-> BlastTierFor(Score(system)), riskScore |-> Score(system),
                             reversibility |-> SystemProfile(system).reversibility]
           entries == [system \in intake.systems |-> Entry(system)]
           Tier(systems, tier) == IF systems # {} THEN tier ELSE "low"
           risks == [risk \in AuditRisks |->
                       CASE risk = "high-blast" ->
                              Tier({s \in intake.systems : entries[s].blastRadius = "high"}, "high")
                         [] risk = "irreversible" ->
                              Tier({s \in intake.systems : entries[s].reversibility = "irreversible"}, "high")
                         [] OTHER -> Tier({s \in intake.systems : entries[s].blastRadius # "high"}, "medium")]
           from == DerivedFrom(st, {"intake"})
<1>1. a = [access |-> access, entries |-> entries, risks |-> risks, from |-> from]
  BY DEF ComputeAudit, Unless
<1>2. access \in LeaverAccess /\ intake.systems \in SUBSET AllSystems
  <2> HIDE DEF intake
  <2>1. Fields(intake) \in LeaverArtifact BY DEF intake
  <2> QED BY <2>1 DEF LeaverArtifact, Fields
<1>3. entries \in [intake.systems -> AuditEntry]
  <2>1. ASSUME NEW system PROVE Entry(system) \in AuditEntry
    <3> DEFINE score == Score(system)
               reversibility == SystemProfile(system).reversibility
               tier == BlastTierFor(score)
    <3>1. score \in 0..100 BY <1>2, BlastIsScore
    <3>2. reversibility \in Reversibilities BY ProfilesAreRegular
    <3>3. tier \in BlastTiers BY DEF BlastTierFor, BlastTiers
    <3>4. Entry(system) = [blastRadius |-> tier, riskScore |-> score, reversibility |-> reversibility]
      OBVIOUS
    <3> HIDE DEF score, reversibility, tier, Entry
    <3> QED BY <3>1, <3>2, <3>3, <3>4 DEF AuditEntry
  <2> HIDE DEF Entry, intake
  <2> QED BY <2>1
<1>4. risks \in [AuditRisks -> BlastTiers]
  <2>1. \A systems : \A tier \in {"high", "medium"} : Tier(systems, tier) \in BlastTiers
    BY DEF BlastTiers
  <2>2. "high" \in {"high", "medium"} /\ "medium" \in {"high", "medium"} OBVIOUS
  <2>3. ASSUME NEW risk \in AuditRisks PROVE risks[risk] \in BlastTiers
    <3> HIDE DEF entries, intake, Tier
    <3>1. CASE risk = "high-blast" BY <2>1, <2>2, <3>1
    <3>2. CASE risk = "irreversible" BY <2>1, <2>2, <3>2
    <3>3. CASE risk \notin {"high-blast", "irreversible"} BY <2>1, <2>2, <3>3
    <3> QED BY <3>1, <3>2, <3>3
  <2>4. risks = [risk \in AuditRisks |-> risks[risk]] OBVIOUS
  <2> HIDE DEF risks
  <2> QED BY <2>3, <2>4
<1> HIDE DEF access, risks, from, entries
<1>5. Fields(a) = [access |-> access, entries |-> entries, risks |-> risks]
  <2>1. DOMAIN a \ {"v", "from"} = {"access", "entries", "risks"} BY <1>1
  <2>2. Fields(a) = [x \in {"access", "entries", "risks"} |-> a[x]] BY <2>1 DEF Fields
  <2> QED BY <1>1, <2>2
<1>6. entries \in PerSystem(entries, AuditEntry)
  <2> HIDE DEF intake
  <2>1. DOMAIN entries \intersect AllSystems = intake.systems BY <1>2, <1>3
  <2> QED BY <1>3, <2>1 DEF PerSystem
<1>7. a.entries = entries BY <1>1
<1> QED BY <1>2, <1>4, <1>5, <1>6, <1>7 DEF AuditArtifact

LEMMA AuditSays ==
  ASSUME NEW st, LET audit == EffectiveArtifact(st, "access-audit") IN
                 Fields(audit) \in AuditArtifact(audit)
  PROVE  LET entries == EffectiveArtifact(st, "access-audit").entries IN
         /\ entries \in [DOMAIN entries -> AuditEntry] /\ DOMAIN entries \subseteq AllSystems
         /\ \A system \in DOMAIN entries : entries[system].blastRadius \in BlastTiers
<1> DEFINE audit == EffectiveArtifact(st, "access-audit")
           entries == audit.entries
<1>1. Fields(audit) \in AuditArtifact(audit) OBVIOUS
<1> HIDE DEF audit
<1>2. entries \in [DOMAIN entries \intersect AllSystems -> AuditEntry]
  BY <1>1 DEF AuditArtifact, PerSystem, Fields
<1>3. DOMAIN entries \intersect AllSystems = DOMAIN entries BY <1>2
<1>4. entries \in [DOMAIN entries -> AuditEntry] /\ DOMAIN entries \subseteq AllSystems BY <1>2, <1>3
<1> HIDE DEF entries
<1>5. \A system \in DOMAIN entries : entries[system].blastRadius \in BlastTiers
  BY <1>4 DEF AuditEntry
<1> QED BY <1>4, <1>5 DEF audit, entries

LEMMA RevocationItemsConform ==
  ASSUME NEW st, NEW a \in ComputeRevocationItems(st),
         LET audit == EffectiveArtifact(st, "access-audit") IN Fields(audit) \in AuditArtifact(audit)
  PROVE  Fields(a) \in RevocationApproval(a)
<1> DEFINE entries == EffectiveArtifact(st, "access-audit").entries
           High(system) == entries[system].blastRadius = "high"
           explicit == {system \in DOMAIN entries : High(system)}
           Item(system) == [blastRadius |-> entries[system].blastRadius, explicit |-> High(system),
                            approved |-> ~High(system), signed |-> FALSE]
           items == [system \in DOMAIN entries |-> Item(system)]
           required == Cardinality(explicit)
           all == explicit = {}
           from == DerivedFrom(st, {"access-audit"})
<1>1. a = [items |-> items, explicitRequired |-> required, allApproved |-> all, from |-> from]
  BY DEF ComputeRevocationItems, Unless
<1>2. /\ entries \in [DOMAIN entries -> AuditEntry] /\ DOMAIN entries \subseteq AllSystems
      /\ \A system \in DOMAIN entries : entries[system].blastRadius \in BlastTiers
  BY AuditSays
<1> HIDE DEF entries
<1>3. items \in [DOMAIN entries -> ApproveItem]
  <2>1. ASSUME NEW system \in DOMAIN entries PROVE Item(system) \in ApproveItem
    <3> DEFINE tier == entries[system].blastRadius
               high == High(system)
               low == ~High(system)
    <3>1. tier \in BlastTiers /\ high \in BOOLEAN /\ low \in BOOLEAN BY <1>2
    <3>2. Item(system) = [blastRadius |-> tier, explicit |-> high, approved |-> low, signed |-> FALSE]
      OBVIOUS
    <3> HIDE DEF tier, high, low, Item
    <3> QED BY <3>1, <3>2 DEF ApproveItem
  <2> HIDE DEF Item
  <2> QED BY <2>1
<1>4. required \in 0..30
  <2>1. explicit \subseteq AllSystems BY <1>2
  <2> HIDE DEF explicit
  <2>2. /\ IsFiniteSet(explicit) /\ Cardinality(explicit) <= Cardinality(AllSystems)
    BY <2>1, SystemsAreFive, FS_Subset
  <2>3. Cardinality(explicit) \in Nat BY <2>2, FS_CardinalityType
  <2> QED BY <2>2, <2>3, SystemsAreFive
<1>5. all \in BOOLEAN OBVIOUS
<1> HIDE DEF items, required, all, from
<1>6. Fields(a) = [items |-> items, explicitRequired |-> required, allApproved |-> all]
  <2>1. DOMAIN a \ {"v", "from"} = {"items", "explicitRequired", "allApproved"} BY <1>1
  <2>2. Fields(a) = [x \in {"items", "explicitRequired", "allApproved"} |-> a[x]] BY <2>1 DEF Fields
  <2> QED BY <1>1, <2>2
<1>7. items \in PerSystem(items, ApproveItem)
  <2>1. DOMAIN items \intersect AllSystems = DOMAIN entries BY <1>2, <1>3
  <2> QED BY <1>3, <2>1 DEF PerSystem
<1>8. a.items = items BY <1>1
<1> QED BY <1>4, <1>5, <1>6, <1>7, <1>8 DEF RevocationApproval

LEMMA RevokePlanConforms ==
  ASSUME NEW st, NEW a \in ComputeRevokePlan(st),
         LET audit == EffectiveArtifact(st, "access-audit") IN Fields(audit) \in AuditArtifact(audit)
  PROVE  Fields(a) \in RevokePlan(a)
<1> DEFINE entries == EffectiveArtifact(st, "access-audit").entries
           Act(system) == [blastRadius |-> entries[system].blastRadius, status |-> "pending"]
           actions == [system \in DOMAIN entries |-> Act(system)]
           from == DerivedFrom(st, {"access-audit"})
<1>1. a = [actions |-> actions, from |-> from] BY DEF ComputeRevokePlan, Unless
<1>2. /\ DOMAIN entries \subseteq AllSystems
      /\ \A system \in DOMAIN entries : entries[system].blastRadius \in BlastTiers
  BY AuditSays
<1> HIDE DEF entries
<1>3. actions \in [DOMAIN entries -> RevokeAction]
  <2>1. ASSUME NEW system \in DOMAIN entries PROVE Act(system) \in RevokeAction
    BY <1>2 DEF RevokeAction
  <2> HIDE DEF Act
  <2> QED BY <2>1
<1> HIDE DEF actions, from
<1>4. Fields(a) = [actions |-> actions] BY <1>1 DEF Fields
<1>5. actions \in PerSystem(actions, RevokeAction)
  <2>1. DOMAIN actions \intersect AllSystems = DOMAIN entries BY <1>2, <1>3
  <2> QED BY <1>3, <2>1 DEF PerSystem
<1>6. a.actions = actions BY <1>1
<1> QED BY <1>4, <1>5, <1>6 DEF RevokePlan

LEMMA AttestConforms ==
  ASSUME NEW st, NEW known, NEW a \in ComputeAttest(st, known),
         LET revoke == EffectiveArtifact(st, "revoke") IN Fields(revoke) \in RevokePlan(revoke)
  PROVE  Fields(a) \in AttestArtifact(a)
<1> DEFINE receipt == RevokeReceiptOf(st, known)
           Ready(yes) == IF yes THEN "ready" ELSE "pending"
           Pay(item) == CASE item = "access-revocation" -> Ready(receipt.failed = {})
                          [] item = "leave-balance" -> Ready(~known.leaveOwed)
                          [] item = "equipment-return" -> Ready(FALSE)
           pay == [item \in FinalPayItems |-> Pay(item)]
           equipment == [item \in EquipmentIds |-> "outstanding"]
           revoked == receipt.revoked
           failed == receipt.failed
           existing == "offboarding-case" \in known.carried
           from == DerivedFrom(st, {"intake", "revoke"})
           all == {"finalPay", "equipment", "revoked", "failed", "acknowledgements", "existing"}
<1>1. a = [finalPay |-> pay, equipment |-> equipment, revoked |-> revoked, failed |-> failed,
           acknowledgements |-> << >>, existing |-> existing, from |-> from]
  BY DEF ComputeAttest, Unless
<1>2. revoked \in SUBSET AllSystems /\ failed \in SUBSET AllSystems
  <2> DEFINE revoke == EffectiveArtifact(st, "revoke")
             planned == DOMAIN revoke.actions
             held == AllSystems \intersect known.carried
             done == planned \ known.failing
             left == planned \intersect known.failing
  <2>1. planned \subseteq AllSystems
    <3> HIDE DEF revoke
    <3>1. Fields(revoke) \in RevokePlan(revoke) BY DEF revoke
    <3>2. revoke.actions \in [DOMAIN revoke.actions \intersect AllSystems -> RevokeAction]
      BY <3>1 DEF RevokePlan, PerSystem, Fields
    <3> QED BY <3>2
  <2>2. receipt = IF st.eff["revoke"] = NoEffect THEN [revoked |-> held, failed |-> {}]
                  ELSE [revoked |-> done, failed |-> left]
    BY DEF RevokeReceiptOf
  <2>3. held \subseteq AllSystems /\ done \subseteq AllSystems /\ left \subseteq AllSystems BY <2>1
  <2> HIDE DEF receipt, held, done, left
  <2> QED BY <2>2, <2>3
<1>3. pay \in [FinalPayItems -> {"ready", "pending", "blocked"}]
  <2>1. \A yes : Ready(yes) \in {"ready", "pending", "blocked"} OBVIOUS
  <2> HIDE DEF Ready, receipt
  <2>2. ASSUME NEW item \in FinalPayItems PROVE Pay(item) \in {"ready", "pending", "blocked"}
    <3>1. CASE item = "access-revocation" BY <2>1, <3>1
    <3>2. CASE item = "leave-balance" BY <2>1, <3>2
    <3>3. CASE item = "equipment-return" BY <2>1, <3>3
    <3> QED BY <3>1, <3>2, <3>3 DEF FinalPayItems
  <2> HIDE DEF Pay
  <2> QED BY <2>2
<1>4. equipment \in [EquipmentIds -> {"returned", "outstanding"}] OBVIOUS
<1>5. << >> \in PerSystem(<< >>, {TRUE})
  <2>1. DOMAIN << >> \intersect AllSystems = {} OBVIOUS
  <2>2. << >> \in [{} -> {TRUE}] OBVIOUS
  <2> QED BY <2>1, <2>2 DEF PerSystem
<1>6. existing \in BOOLEAN OBVIOUS
<1> HIDE DEF pay, equipment, revoked, failed, existing, from
<1>7. Fields(a) = [finalPay |-> pay, equipment |-> equipment, revoked |-> revoked, failed |-> failed,
                   acknowledgements |-> << >>, existing |-> existing]
  <2>1. DOMAIN a \ {"v", "from"} = all BY <1>1
  <2>2. Fields(a) = [x \in all |-> a[x]] BY <2>1 DEF Fields
  <2> QED BY <1>1, <2>2
<1>8. a.acknowledgements = << >> BY <1>1
<1> QED BY <1>2, <1>3, <1>4, <1>5, <1>6, <1>7, <1>8 DEF AttestArtifact

LEMMA OffboardingConforms ==
  ASSUME NEW i \in 1..5, NEW st, NEW f \in OffboardingFacts, NEW C, Sound("offboarding", i, st), NEW v,
         Anew("offboarding", OffboardingSteps[i], st),
         NEW a \in OffboardingCompute(OffboardingSteps[i], st, Looked(f, C))
  PROVE  Contract("offboarding", OffboardingSteps[i], WithField(a, "v", v))
<1> DEFINE w == WithField(a, "v", v)
<1>1. Fields(w) = Fields(a) BY FieldsStay
<1>2. SUFFICES Fields(a) \in OffboardingContract(OffboardingSteps[i], w)
  BY <1>1 DEF Contract, Conforms
<1>3. \A j \in 1..(i - 1) :
        LET e == EffectiveArtifact(st, OffboardingSteps[j]) IN
        Fields(e) \in OffboardingContract(OffboardingSteps[j], e)
  BY OffboardingWalk DEF Sound, Contract, Conforms
<1>4. i > 1 => Fields(EffectiveArtifact(st, "intake")) \in LeaverArtifact
  BY <1>3, OffboardingWalk DEF OffboardingContract
<1>5. i > 2 => LET e == EffectiveArtifact(st, "access-audit") IN Fields(e) \in AuditArtifact(e)
  BY <1>3, OffboardingWalk DEF OffboardingContract
<1>6. i > 4 => LET e == EffectiveArtifact(st, "revoke") IN Fields(e) \in RevokePlan(e)
  BY <1>3, OffboardingWalk DEF OffboardingContract
<1>7. CASE i = 1
  <2> HIDE DEF w
  <2> QED BY <1>7, OffboardingWalk, LeaverConforms DEF OffboardingCompute, OffboardingContract
<1>8. CASE i = 2
  <2>1. Fields(a) \in AuditArtifact(a)
    BY <1>4, <1>8, OffboardingWalk, LeaverAuditConforms DEF OffboardingCompute
  <2>2. "entries" \in DOMAIN Fields(a) BY <2>1 DEF AuditArtifact
  <2>3. w.entries = a.entries BY <2>2, StillSays
  <2> HIDE DEF w
  <2>4. AuditArtifact(w) = AuditArtifact(a) BY <2>3 DEF AuditArtifact
  <2> QED BY <1>8, <2>1, <2>4, OffboardingWalk DEF OffboardingContract
<1>9. CASE i = 3
  <2>1. a \in ComputeRevocationItems(st)
    BY <1>9, OffboardingWalk DEF OffboardingCompute, StoredOr, Anew, KeptBy, ShownAgain
  <2>2. Fields(a) \in RevocationApproval(a) BY <1>5, <1>9, <2>1, RevocationItemsConform
  <2>3. "items" \in DOMAIN Fields(a) BY <2>2 DEF RevocationApproval
  <2>4. w.items = a.items BY <2>3, StillSays
  <2> HIDE DEF w
  <2>5. RevocationApproval(w) = RevocationApproval(a) BY <2>4 DEF RevocationApproval
  <2> QED BY <1>9, <2>2, <2>5, OffboardingWalk DEF OffboardingContract
<1>10. CASE i = 4
  <2>1. a \in ComputeRevokePlan(st)
    BY <1>10, OffboardingWalk DEF OffboardingCompute, StoredOr, Anew, KeptBy, ShownAgain
  <2>2. Fields(a) \in RevokePlan(a) BY <1>5, <1>10, <2>1, RevokePlanConforms
  <2>3. "actions" \in DOMAIN Fields(a) BY <2>2 DEF RevokePlan
  <2>4. w.actions = a.actions BY <2>3, StillSays
  <2> HIDE DEF w
  <2>5. RevokePlan(w) = RevokePlan(a) BY <2>4 DEF RevokePlan
  <2> QED BY <1>10, <2>2, <2>5, OffboardingWalk DEF OffboardingContract
<1>11. CASE i = 5
  <2>1. a \in ComputeAttest(st, Looked(f, C))
    BY <1>11, OffboardingWalk DEF OffboardingCompute, StoredOr, Anew, KeptBy, ShownAgain
  <2>2. Fields(a) \in AttestArtifact(a) BY <1>6, <1>11, <2>1, AttestConforms
  <2>3. "acknowledgements" \in DOMAIN Fields(a) BY <2>2 DEF AttestArtifact
  <2>4. w.acknowledgements = a.acknowledgements BY <2>3, StillSays
  <2> HIDE DEF w
  <2>5. AttestArtifact(w) = AttestArtifact(a) BY <2>4 DEF AttestArtifact
  <2> QED BY <1>11, <2>2, <2>5, OffboardingWalk DEF OffboardingContract
<1> QED BY <1>7, <1>8, <1>9, <1>10, <1>11

-----------------------------------------------------------------------------
(* Screening *)

LEMMA Quotient ==
  ASSUME NEW n \in Nat, NEW d \in Nat \ {0}, n < 101 * d
  PROVE  n \div d \in 0..100
<1> DEFINE q == n \div d
<1>1. q \in Nat /\ d * q <= n BY Z3
<1>2. ASSUME q > 100 PROVE FALSE
  <2>1. q = 101 + (q - 101) /\ q - 101 \in Nat BY <1>1, <1>2
  <2>2. d * q = d * 101 + d * (q - 101) BY <1>1, <2>1
  <2>3. d * (q - 101) >= 0 BY <2>1
  <2> QED BY <1>1, <2>2, <2>3
<1> QED BY <1>1, <1>2

LEMMA CandidateIsKnown ==
  ASSUME NEW f \in ScreeningFacts, NEW C
  PROVE  LET files == Looked(f, C).files IN
         /\ DOMAIN files \subseteq Pipeline
         /\ \A c \in DOMAIN files : \A crit \in Criteria : files[c][crit] \in {"strong", "weak", "none"}
<1> DEFINE Ats(found, files, failing) == [found |-> found, files |-> files, failing |-> failing]
           Both(first, second) == [c1 |-> first, c2 |-> second]
           Filed(files) == /\ DOMAIN files \subseteq {"c1", "c2"}
                           /\ \A c \in DOMAIN files : \A crit \in Criteria :
                                files[c][crit] \in {"strong", "weak", "none"}
           strong == File("strong", "strong")
<1>1. \A x, y \in {"strong", "weak", "none"} : \A crit \in Criteria :
        File(x, y)[crit] \in {"strong", "weak", "none"}
  BY DEF File, Criteria
<1>2. "strong" \in {"strong", "weak", "none"} /\ "weak" \in {"strong", "weak", "none"}
      /\ "none" \in {"strong", "weak", "none"}
  OBVIOUS
<1>3. \E found, files, failing : Filed(files) /\ f = Ats(found, files, failing)
  <2>1. CASE f = Ats(FALSE, [c1 |-> strong], {})
    <3>1. Filed([c1 |-> strong]) BY <1>1, <1>2
    <3> QED BY <2>1, <3>1
  <2>2. CASE f = Ats(TRUE, << >>, {})
    <3>1. Filed(<< >>) OBVIOUS
    <3> QED BY <2>2, <3>1
  <2>3. ASSUME NEW x \in {"strong", "weak", "none"}, NEW y \in {"strong", "weak", "none"},
               NEW z \in {"strong", "weak", "none"}, NEW w \in {"strong", "weak", "none"}
        PROVE  Filed(Both(File(x, y), File(z, w)))
    <3> DEFINE a == File(x, y)
               b == File(z, w)
    <3>1. \A crit \in Criteria : a[crit] \in {"strong", "weak", "none"}
                                 /\ b[crit] \in {"strong", "weak", "none"}
      BY <1>1
    <3> HIDE DEF a, b
    <3>2. Filed(Both(a, b)) BY <3>1
    <3> QED BY <3>2 DEF a, b
  <2> HIDE DEF Filed, Both
  <2>4. Filed(Both(strong, File("strong", "weak"))) BY <1>2, <2>3
  <2>5. Filed(Both(strong, File("weak", "strong"))) BY <1>2, <2>3
  <2>6. Filed(Both(File("strong", "none"), File("none", "strong"))) BY <1>2, <2>3
  <2>7. f \in {Ats(FALSE, [c1 |-> strong], {}), Ats(TRUE, << >>, {}),
               Ats(TRUE, Both(strong, File("strong", "weak")), {}),
               Ats(TRUE, Both(strong, File("weak", "strong")), {"c1"}),
               Ats(TRUE, Both(File("strong", "none"), File("none", "strong")), {})}
    BY DEF ScreeningFacts, Both
  <2> HIDE DEF strong, Ats
  <2> QED BY <2>1, <2>2, <2>4, <2>5, <2>6, <2>7
<1>4. "files" \in DOMAIN f /\ Filed(f.files)
  <2>1. \A found, files, failing : /\ "files" \in DOMAIN Ats(found, files, failing)
                                   /\ Ats(found, files, failing).files = files
    OBVIOUS
  <2> HIDE DEF Filed, Ats
  <2> QED BY <1>3, <2>1
<1>5. Looked(f, C).files = f.files BY <1>4, LookedUp
<1>6. {"c1", "c2"} = Pipeline BY DEF Pipeline, Candidates
<1> QED BY <1>4, <1>5, <1>6

LEMMA RequisitionConforms ==
  ASSUME NEW st, NEW f \in ScreeningFacts, NEW C, NEW a \in ComputeRequisition(st, Looked(f, C))
  PROVE  Fields(a) \in RequisitionArtifact
<1> DEFINE known == Looked(f, C)
           candidates == DOMAIN known.files
           from == DerivedFrom(st, {})
<1>1. a = [criteria |-> Rubric, candidates |-> candidates, interviewers |-> 2, from |-> from]
      /\ candidates # {}
  BY DEF ComputeRequisition, Unless
<1>2. candidates \in SUBSET Pipeline BY CandidateIsKnown
<1>3. Rubric \in [Criteria -> Criterion]
  <2> DEFINE must == [weight |-> 40, mustHave |-> TRUE]
             nice == [weight |-> 60, mustHave |-> FALSE]
  <2>1. must \in Criterion /\ nice \in Criterion BY DEF Criterion
  <2>2. Rubric = [must |-> must, nice |-> nice] BY DEF Rubric
  <2> HIDE DEF must, nice
  <2>3. [must |-> must, nice |-> nice] \in [{"must", "nice"} -> Criterion] BY <2>1
  <2> QED BY <2>2, <2>3 DEF Criteria
<1> HIDE DEF candidates, from
<1>4. Fields(a) = [criteria |-> Rubric, candidates |-> candidates, interviewers |-> 2]
  <2>1. DOMAIN a \ {"v", "from"} = {"criteria", "candidates", "interviewers"} BY <1>1
  <2>2. Fields(a) = [x \in {"criteria", "candidates", "interviewers"} |-> a[x]] BY <2>1 DEF Fields
  <2> QED BY <1>1, <2>2
<1> QED BY <1>1, <1>2, <1>3, <1>4 DEF RequisitionArtifact

LEMMA ScoreIsScore ==
  ASSUME NEW criteria \in [Criteria -> Criterion], NEW verdicts \in [Criteria -> Verdicts]
  PROVE  ScoreFor(criteria, verdicts) \in 0..100
<1> DEFINE Points(v) == CASE v = "pass" -> 2 [] v = "partial" -> 1 [] v = "fail" -> 0
           weights == [c \in DOMAIN verdicts |-> criteria[c].weight]
           scored == [c \in DOMAIN verdicts |-> criteria[c].weight * Points(verdicts[c])]
           total == weights["must"] + weights["nice"]
           halves == scored["must"] + scored["nice"]
           m == criteria["must"].weight
           n == criteria["nice"].weight
           x == Points(verdicts["must"])
           y == Points(verdicts["nice"])
<1>1. ScoreFor(criteria, verdicts) = IF total = 0 THEN 0 ELSE (halves * 100 + total) \div (2 * total)
  BY DEF ScoreFor
<1>2. "must" \in Criteria /\ "nice" \in Criteria BY DEF Criteria
<1>3. m \in 0..100 /\ n \in 0..100 BY <1>2 DEF Criterion
<1>4. x \in {0, 1, 2} /\ y \in {0, 1, 2}
  <2>1. \A v \in Verdicts : Points(v) \in {0, 1, 2} BY DEF Verdicts
  <2> HIDE DEF Points
  <2> QED BY <1>2, <2>1
<1> HIDE DEF Points
<1>5. total = m + n /\ halves = m * x + n * y BY <1>2
<1> HIDE DEF m, n, x, y, total, halves
<1>6. total \in Nat /\ halves \in Nat /\ halves <= 2 * total
  <2>1. m * x \in {0, m, 2 * m} /\ n * y \in {0, n, 2 * n} BY <1>3, <1>4
  <2> QED BY <1>3, <1>5, <2>1
<1>7. CASE total = 0 BY <1>1, <1>7
<1>8. CASE total # 0
  <2> DEFINE up == halves * 100 + total
             down == 2 * total
  <2>1. up \in Nat /\ down \in Nat \ {0} /\ up < 101 * down BY <1>6, <1>8
  <2> HIDE DEF up, down
  <2>2. up \div down \in 0..100 BY <2>1, Quotient
  <2> QED BY <1>1, <1>8, <2>2 DEF up, down
<1> QED BY <1>7, <1>8

LEMMA ScreenConforms ==
  ASSUME NEW st, NEW f \in ScreeningFacts, NEW C, NEW a \in ComputeScreen(st, Looked(f, C)),
         Fields(EffectiveArtifact(st, "requisition")) \in RequisitionArtifact
  PROVE  Fields(a) \in ScreenArtifact(a)
<1> DEFINE requisition == EffectiveArtifact(st, "requisition")
           criteria == requisition.criteria
           files == Looked(f, C).files
           Found(file) == [c \in Criteria |-> VerdictFor(file[c])]
           Screened(file, flags) ==
             [verdicts |-> Found(file), score |-> ScoreFor(criteria, Found(file)), flags |-> flags,
              misses |-> {c \in Criteria : criteria[c].mustHave /\ Found(file)[c] # "pass"}]
           from == DerivedFrom(st, {"requisition"})
<1>1. PICK answer \in GuardrailAnswers :
        a = [candidates |-> [c \in DOMAIN files |-> Screened(files[c], answer[c])],
             totalFlags |-> Cardinality(UNION {{c} \X answer[c] : c \in DOMAIN files}),
             from |-> from]
  BY DEF ComputeScreen, Unless
<1> DEFINE candidates == [c \in DOMAIN files |-> Screened(files[c], answer[c])]
           pairs == UNION {{c} \X answer[c] : c \in DOMAIN files}
           total == Cardinality(pairs)
<1>2. criteria \in [Criteria -> Criterion]
  <2> HIDE DEF requisition
  <2>1. Fields(requisition) \in RequisitionArtifact BY DEF requisition
  <2> QED BY <2>1 DEF RequisitionArtifact, Fields
<1>3. /\ DOMAIN files \subseteq Pipeline
      /\ \A c \in DOMAIN files : \A crit \in Criteria : files[c][crit] \in {"strong", "weak", "none"}
  BY CandidateIsKnown
<1>4. Pipeline = {"c1", "c2"} BY DEF Pipeline, Candidates
<1>5. \A c \in Pipeline : answer[c] \in SUBSET FlagKinds
  <2>1. CASE answer = [c \in Pipeline \union {"nobody"} |-> {}] BY <2>1
  <2>2. CASE answer = [c1 |-> {"protected-attribute"}, c2 |-> {}, nobody |-> {"non-rubric"}]
    <3>1. answer["c1"] \in SUBSET FlagKinds /\ answer["c2"] \in SUBSET FlagKinds
      BY <2>2 DEF FlagKinds
    <3> QED BY <1>4, <3>1
  <2>3. CASE answer = [c1 |-> {}, c2 |-> {"non-rubric"}, nobody |-> {}]
    <3>1. answer["c1"] \in SUBSET FlagKinds /\ answer["c2"] \in SUBSET FlagKinds
      BY <2>3 DEF FlagKinds
    <3> QED BY <1>4, <3>1
  <2> QED BY <1>1, <2>1, <2>2, <2>3 DEF GuardrailAnswers
<1> HIDE DEF criteria, files
<1>6. candidates \in [DOMAIN files -> ScreenCandidate]
  <2>1. ASSUME NEW c \in DOMAIN files PROVE Screened(files[c], answer[c]) \in ScreenCandidate
    <3> DEFINE verdicts == Found(files[c])
               score == ScoreFor(criteria, verdicts)
               flags == answer[c]
               misses == {d \in Criteria : criteria[d].mustHave /\ verdicts[d] # "pass"}
    <3>1. verdicts \in [Criteria -> Verdicts]
      <4>1. \A d \in Criteria : VerdictFor(files[c][d]) \in Verdicts
        BY <1>3 DEF VerdictFor, Verdicts
      <4> QED BY <4>1
    <3>2. Screened(files[c], answer[c]) = [verdicts |-> verdicts, score |-> score, flags |-> flags,
                                           misses |-> misses]
      OBVIOUS
    <3> HIDE DEF verdicts, Screened
    <3>3. score \in 0..100 BY <1>2, <3>1, ScoreIsScore
    <3>4. flags \in SUBSET FlagKinds BY <1>3, <1>5
    <3>5. misses \in SUBSET Criteria OBVIOUS
    <3> HIDE DEF score, flags, misses
    <3> QED BY <3>1, <3>2, <3>3, <3>4, <3>5 DEF ScreenCandidate
  <2> HIDE DEF Screened
  <2> QED BY <2>1
<1>7. total \in 0..300
  <2> DEFINE P(c, k) == <<c, k>>
  <2>1. pairs \in SUBSET {P("c1", "protected-attribute"), P("c1", "non-rubric"),
                          P("c2", "protected-attribute"), P("c2", "non-rubric")}
    <3>1. ASSUME NEW p \in pairs
          PROVE  \E c \in {"c1", "c2"}, k \in {"protected-attribute", "non-rubric"} : p = P(c, k)
      <4>1. PICK c \in DOMAIN files : p \in {c} \X answer[c] OBVIOUS
      <4>2. PICK k \in answer[c] : p = <<c, k>> BY <4>1
      <4>3. c \in {"c1", "c2"} /\ k \in {"protected-attribute", "non-rubric"}
        BY <1>3, <1>4, <1>5 DEF FlagKinds
      <4> QED BY <4>2, <4>3
    <3> HIDE DEF P, pairs
    <3> QED BY <3>1
  <2> HIDE DEF P, pairs
  <2>2. Cardinality(pairs) \in 0..4 BY <2>1, AtMostFour
  <2> QED BY <2>2
<1>8. a = [candidates |-> candidates, totalFlags |-> total, from |-> from] BY <1>1
<1> HIDE DEF candidates, total, from
<1>9. Fields(a) = [candidates |-> candidates, totalFlags |-> total] BY <1>8 DEF Fields
<1>10. candidates \in PerCandidate(candidates, ScreenCandidate)
  <2>1. DOMAIN candidates \intersect Pipeline = DOMAIN files BY <1>3, <1>6
  <2> QED BY <1>6, <2>1 DEF PerCandidate
<1>11. a.candidates = candidates BY <1>8
<1> QED BY <1>7, <1>9, <1>10, <1>11 DEF ScreenArtifact

\* A set of candidates has two at most.
LEMMA CandidatesAreFew ==
  ASSUME NEW S \in SUBSET Pipeline
  PROVE  IsFiniteSet(S) /\ Cardinality(S) \in 0..4
<1>1. S \in SUBSET {"c1", "c2", "c1", "c2"} BY DEF Pipeline, Candidates
<1> QED BY <1>1, AtMostFour

LEMMA ScreenedSays ==
  ASSUME NEW candidates, candidates \in PerCandidate(candidates, ScreenCandidate)
  PROVE  DOMAIN candidates \subseteq Pipeline /\ candidates \in [DOMAIN candidates -> ScreenCandidate]
<1>1. candidates \in [DOMAIN candidates \intersect Pipeline -> ScreenCandidate] BY DEF PerCandidate
<1>2. DOMAIN candidates \intersect Pipeline = DOMAIN candidates BY <1>1
<1> QED BY <1>1, <1>2

LEMMA LineConforms ==
  ASSUME NEW candidate \in ScreenCandidate
  PROVE  ShortlistEntryFor(candidate) \in ShortlistLine
<1> DEFINE excluded == \/ "protected-attribute" \in candidate.flags
                       \/ candidate.misses # {}
                       \/ candidate.flags # {}
                       \/ candidate.score < 50
           score == candidate.score
           decision == IF excluded THEN "exclude" ELSE "include"
           flags == Cardinality(candidate.flags)
<1>1. ShortlistEntryFor(candidate) = [score |-> score, decision |-> decision, reasoned |-> TRUE, flags |-> flags]
  BY DEF ShortlistEntryFor
<1>2. score \in 0..100 /\ candidate.flags \in SUBSET FlagKinds BY DEF ScreenCandidate
<1>3. decision \in {"include", "exclude"} OBVIOUS
<1>4. flags \in 0..30
  <2> DEFINE marks == candidate.flags
  <2>1. marks \in SUBSET {"protected-attribute", "non-rubric", "non-rubric", "non-rubric"}
    BY <1>2 DEF FlagKinds
  <2> HIDE DEF marks
  <2>2. Cardinality(marks) \in 0..4 BY <2>1, AtMostFour
  <2> QED BY <2>2 DEF marks
<1> HIDE DEF score, decision, flags
<1> QED BY <1>1, <1>2, <1>3, <1>4 DEF ShortlistLine

LEMMA ShortlistConforms ==
  ASSUME NEW st, NEW a \in ComputeShortlist(st),
         LET screen == EffectiveArtifact(st, "screen") IN Fields(screen) \in ScreenArtifact(screen)
  PROVE  Fields(a) \in ShortlistArtifact(a)
<1> DEFINE screen == EffectiveArtifact(st, "screen")
           candidates == screen.candidates
           entries == [c \in DOMAIN candidates |-> ShortlistEntryFor(candidates[c])]
           included == Cardinality(Included(entries))
           excluded == Cardinality(DOMAIN entries) - included
           from == DerivedFrom(st, {"screen"})
<1>1. a = WithField([entries |-> entries, included |-> included, excluded |-> excluded], "from", from)
  BY DEF ComputeShortlist, Counted, Unless
<1>2. DOMAIN candidates \subseteq Pipeline /\ candidates \in [DOMAIN candidates -> ScreenCandidate]
  <2> HIDE DEF screen
  <2>1. Fields(screen) \in ScreenArtifact(screen) BY DEF screen
  <2>2. candidates \in PerCandidate(candidates, ScreenCandidate) BY <2>1 DEF ScreenArtifact, Fields
  <2> HIDE DEF candidates
  <2> QED BY <2>2, ScreenedSays
<1> HIDE DEF candidates
<1>3. entries \in [DOMAIN candidates -> ShortlistLine]
  <2>1. \A c \in DOMAIN candidates : ShortlistEntryFor(candidates[c]) \in ShortlistLine
    BY <1>2, LineConforms
  <2> QED BY <2>1
<1>4. DOMAIN entries \subseteq Pipeline BY <1>2
<1> HIDE DEF entries
<1>5. included \in 0..20 /\ excluded \in 0..20
  <2> DEFINE D == DOMAIN entries
             I == Included(entries)
  <2>1. D \in SUBSET Pipeline /\ I \in SUBSET D BY <1>4 DEF Included
  <2> HIDE DEF D, I
  <2>2. IsFiniteSet(D) /\ Cardinality(D) \in 0..4 BY <2>1, CandidatesAreFew
  <2>3. IsFiniteSet(I) /\ Cardinality(I) <= Cardinality(D) BY <2>1, <2>2, FS_Subset
  <2>4. Cardinality(I) \in Nat BY <2>3, FS_CardinalityType
  <2> QED BY <2>2, <2>3, <2>4 DEF D, I
<1> HIDE DEF included, excluded, from
<1>6. /\ DOMAIN a \ {"v", "from"} = {"entries", "included", "excluded"}
      /\ a.entries = entries /\ a.included = included /\ a.excluded = excluded
  BY <1>1 DEF WithField
<1>7. Fields(a) = [entries |-> entries, included |-> included, excluded |-> excluded]
  <2>1. Fields(a) = [x \in {"entries", "included", "excluded"} |-> a[x]] BY <1>6 DEF Fields
  <2> QED BY <1>6, <2>1
<1>8. entries \in PerCandidate(entries, ShortlistLine)
  <2>1. DOMAIN entries \intersect Pipeline = DOMAIN candidates BY <1>3, <1>4
  <2> QED BY <1>3, <2>1 DEF PerCandidate
<1> QED BY <1>5, <1>6, <1>7, <1>8 DEF ShortlistArtifact

\* The places of seq that a filter keeps, and the one it gives to the k-th.
KeptPlaces(seq, S) == {i \in 1..Len(seq) : seq[i] \in S}
PlaceOf(seq, S, k) == Cardinality({j \in KeptPlaces(seq, S) : j <= k})

\* What is kept stands behind as many as were kept before it.
LEMMA SelectedPlace ==
  ASSUME NEW seq, Len(seq) \in Nat, NEW S, NEW k \in 1..Len(seq), seq[k] \in S
  PROVE  /\ Len(Selected(seq, S)) = Cardinality(KeptPlaces(seq, S))
         /\ PlaceOf(seq, S, k) \in 1..Len(Selected(seq, S))
         /\ Selected(seq, S)[PlaceOf(seq, S, k)] = seq[k]
<1> DEFINE L == Len(seq)
           kept == {i \in 1..L : seq[i] \in S}
           Upto(i) == {j \in kept : j <= i}
           c == Cardinality(kept)
           At(n) == CHOOSE i \in kept : Cardinality(Upto(i)) = n
<1>1. IsFiniteSet(1..L)
  <2> HIDE DEF L
  <2>1. L \in Nat BY DEF L
  <2> QED BY <2>1, OneToN
<1>2. IsFiniteSet(kept) /\ c \in Nat BY <1>1, FS_Subset, FS_CardinalityType
<1>3. ASSUME NEW i \in kept
      PROVE  /\ IsFiniteSet(Upto(i)) /\ Cardinality(Upto(i)) \in Nat
             /\ Cardinality(Upto(i)) <= c
  BY <1>2, FS_Subset, FS_CardinalityType
<1>4. ASSUME NEW i \in kept, NEW j \in kept, Cardinality(Upto(i)) = Cardinality(Upto(j)), i < j
      PROVE  FALSE
  <2>1. Upto(i) \subseteq Upto(j) /\ j \in Upto(j) /\ j \notin Upto(i) BY <1>4
  <2> HIDE DEF Upto, kept
  <2> QED BY <1>3, <1>4, <2>1, FS_Subset
<1>5. k \in kept OBVIOUS
<1> DEFINE n == Cardinality(Upto(k))
<1>6. n \in 1..c
  <2>1. k \in Upto(k) BY <1>5
  <2> HIDE DEF Upto, kept, c
  <2>2. n # 0 BY <1>3, <1>5, <2>1, FS_EmptySet
  <2> QED BY <1>2, <1>3, <1>5, <2>2
<1>7. At(n) = k
  <2>1. \A i \in kept : Cardinality(Upto(i)) = n => i = k
    <3>1. kept \subseteq Nat OBVIOUS
    <3> HIDE DEF Upto, kept
    <3> QED BY <1>4, <1>5, <3>1
  <2> HIDE DEF Upto, kept
  <2> QED BY <1>5, <2>1
<1> HIDE DEF At, n
<1>8. Selected(seq, S) = [m \in 1..c |-> seq[At(m)]] BY DEF Selected, At
<1>9. Len(Selected(seq, S)) = c
  <2> HIDE DEF c
  <2> QED BY <1>2, <1>8
<1>10. Selected(seq, S)[n] = seq[k] BY <1>6, <1>7, <1>8
<1>11. n = PlaceOf(seq, S, k) /\ c = Cardinality(KeptPlaces(seq, S)) BY DEF n, PlaceOf, KeptPlaces
<1> QED BY <1>6, <1>9, <1>10, <1>11

\* Nothing that is kept is left out of what a filter gives.
LEMMA SelectedHasAll ==
  ASSUME NEW seq, Len(seq) \in Nat, NEW S, NEW k \in 1..Len(seq), seq[k] \in S
  PROVE  /\ \E n \in 1..Len(Selected(seq, S)) : Selected(seq, S)[n] = seq[k]
         /\ Len(Selected(seq, S)) = Cardinality({i \in 1..Len(seq) : seq[i] \in S})
BY SelectedPlace DEF KeptPlaces

\* A filter that keeps the first keeps it first.
LEMMA SelectedKeepsFirst ==
  ASSUME NEW seq, Len(seq) \in Nat \ {0}, NEW S, seq[1] \in S
  PROVE  Len(Selected(seq, S)) \in Nat \ {0} /\ Selected(seq, S)[1] = seq[1]
<1> DEFINE n == PlaceOf(seq, S, 1)
<1>1. 1 \in 1..Len(seq) /\ Len(seq) \in Nat OBVIOUS
<1>2. n \in 1..Len(Selected(seq, S)) /\ Selected(seq, S)[n] = seq[1] BY <1>1, SelectedPlace
<1>3. Len(Selected(seq, S)) \in Nat BY <1>1, SelectedIsKept
<1>4. {j \in KeptPlaces(seq, S) : j <= 1} = {1} BY <1>1 DEF KeptPlaces
<1>5. n = 1 BY <1>4, FS_Singleton DEF PlaceOf
<1> HIDE DEF n
<1> QED BY <1>2, <1>3, <1>5

LEMMA TwoMakeTwo ==
  ASSUME NEW x, NEW y, x # y
  PROVE  Cardinality({x} \union {y}) = 2
<1> DEFINE one == {x}
<1>1. IsFiniteSet(one) /\ Cardinality(one) = 1 /\ y \notin one BY FS_Singleton
<1> HIDE DEF one
<1>2. Cardinality(one \union {y}) = 2 BY <1>1, FS_AddElement
<1> QED BY <1>2 DEF one

\* Whoever is included has a place among those planned.
LEMMA PlannedAll ==
  ASSUME NEW included \in SUBSET Pipeline
  PROVE  \A c \in included :
           LET planned == Selected(Candidates, included) IN
           (CHOOSE i \in 1..Len(planned) : planned[i] = c) \in 1..Cardinality(included)
<1> DEFINE planned == Selected(Candidates, included)
           kept == {i \in 1..Len(Candidates) : Candidates[i] \in included}
<1>1. Len(Candidates) = 2 /\ Candidates[1] = "c1" /\ Candidates[2] = "c2" BY DEF Candidates
<1>2. Pipeline = {"c1", "c2"} BY DEF Pipeline, Candidates
<1>3. ASSUME NEW c \in included
      PROVE  /\ Len(planned) = Cardinality(kept)
             /\ \E i \in 1..Len(planned) : planned[i] = c
  <2>1. PICK k \in 1..2 : Candidates[k] = c BY <1>1, <1>2
  <2>2. Len(Candidates) \in Nat /\ k \in 1..Len(Candidates) /\ Candidates[k] \in included BY <1>1, <2>1
  <2>3. /\ \E n \in 1..Len(planned) : planned[n] = Candidates[k]
        /\ Len(planned) = Cardinality(kept)
    BY <2>2, SelectedHasAll
  <2> HIDE DEF planned, kept
  <2> QED BY <2>1, <2>3
<1>4. Cardinality(kept) = Cardinality(included)
  <2>1. CASE included = {} BY <1>1, <2>1, FS_EmptySet
  <2>2. CASE included = {"c1"}
    <3>1. kept = {1} BY <1>1, <2>2
    <3> QED BY <2>2, <3>1, FS_Singleton
  <2>3. CASE included = {"c2"}
    <3>1. kept = {2} BY <1>1, <2>3
    <3> QED BY <2>3, <3>1, FS_Singleton
  <2>4. CASE included = {"c1", "c2"}
    <3>1. kept = {1} \union {2} BY <1>1, <2>4
    <3>2. included = {"c1"} \union {"c2"} BY <2>4
    <3>3. 1 # 2 /\ "c1" # "c2" OBVIOUS
    <3>4. Cardinality({1} \union {2}) = 2 BY <3>3, TwoMakeTwo
    <3>5. Cardinality({"c1"} \union {"c2"}) = 2 BY <3>3, TwoMakeTwo
    <3> QED BY <3>1, <3>2, <3>4, <3>5
  <2> QED BY <1>2, <2>1, <2>2, <2>3, <2>4
<1> HIDE DEF kept
<1>5. ASSUME NEW c \in included
      PROVE  (CHOOSE i \in 1..Len(planned) : planned[i] = c) \in 1..Cardinality(included)
  <2>1. Len(planned) = Cardinality(included) /\ \E i \in 1..Len(planned) : planned[i] = c BY <1>3, <1>4
  <2> HIDE DEF planned
  <2>2. (CHOOSE i \in 1..Len(planned) : planned[i] = c) \in 1..Len(planned) BY <2>1
  <2> QED BY <2>1, <2>2
<1> QED BY <1>5

LEMMA ScheduleConforms ==
  ASSUME NEW st, NEW a \in ComputeSchedulePlan(st),
         Fields(EffectiveArtifact(st, "requisition")) \in RequisitionArtifact,
         LET shortlist == EffectiveArtifact(st, "shortlist") IN
         Fields(shortlist) \in ShortlistArtifact(shortlist)
  PROVE  Fields(a) \in ScheduleArtifact(a)
<1> DEFINE shortlist == EffectiveArtifact(st, "shortlist")
           requisition == EffectiveArtifact(st, "requisition")
           included == Included(shortlist.entries)
           interviewers == requisition.interviewers
           planned == Selected(Candidates, included)
           Place(c) == CHOOSE i \in 1..Len(planned) : planned[i] = c
           Invite(c) == [slot |-> Place(c), interviewer |-> 1 + ((Place(c) - 1) % interviewers)]
           invites == [c \in included |-> Invite(c)]
           from == DerivedFrom(st, {"requisition", "shortlist"})
<1>1. a = [invites |-> invites, from |-> from] /\ included # {}
  BY DEF ComputeSchedulePlan, Unless
<1>2. interviewers \in 1..10
  <2> HIDE DEF requisition
  <2>1. Fields(requisition) \in RequisitionArtifact BY DEF requisition
  <2> QED BY <2>1 DEF RequisitionArtifact, Fields
<1>3. included \in SUBSET Pipeline
  <2> HIDE DEF shortlist
  <2>1. Fields(shortlist) \in ShortlistArtifact(shortlist) BY DEF shortlist
  <2>2. shortlist.entries \in [DOMAIN shortlist.entries \intersect Pipeline -> ShortlistLine]
    BY <2>1 DEF ShortlistArtifact, PerCandidate, Fields
  <2> QED BY <2>2 DEF Included
<1> HIDE DEF included, interviewers
<1>4. ASSUME NEW c \in included
      PROVE  /\ Invite(c).slot \in 1..Cardinality(included) /\ Invite(c).interviewer \in 1..10
             /\ DOMAIN Invite(c) = {"slot", "interviewer"}
  <2> DEFINE place == Place(c)
             n == Cardinality(included)
  <2>1. place \in 1..n BY <1>3, PlannedAll
  <2> HIDE DEF place
  <2>2. Invite(c) = [slot |-> place, interviewer |-> 1 + ((place - 1) % interviewers)] BY DEF place
  <2> HIDE DEF Invite
  <2>3. n \in Nat
    <3>1. n \in 0..4 BY <1>3, CandidatesAreFew
    <3> QED BY <3>1
  <2> HIDE DEF n
  <2>4. place - 1 \in Nat BY <2>1, <2>3
  <2>5. \A x \in Nat : \A m \in 1..10 : 1 + (x % m) \in 1..10 OBVIOUS
  <2>6. 1 + ((place - 1) % interviewers) \in 1..10 BY <1>2, <2>4, <2>5
  <2> QED BY <2>1, <2>2, <2>6 DEF n
<1>5. DOMAIN invites = included OBVIOUS
<1>6. \A c \in included : invites[c] \in [slot : 1..Cardinality(included), interviewer : 1..10]
  <2>1. \A c \in included : invites[c] = Invite(c) OBVIOUS
  <2>2. \A c : Invite(c) = [slot |-> Invite(c).slot, interviewer |-> Invite(c).interviewer] OBVIOUS
  <2> HIDE DEF invites, Invite
  <2> QED BY <1>4, <2>1, <2>2
<1>7. invites = [c \in included |-> invites[c]] OBVIOUS
<1> HIDE DEF invites, from
<1>8. Fields(a) = [invites |-> invites] /\ a.invites = invites BY <1>1 DEF Fields
<1> DEFINE rows == [slot : 1..Cardinality(included), interviewer : 1..10]
<1>9. ScheduleInvite(a) = rows BY <1>5, <1>8 DEF ScheduleInvite, SlotsOf
<1>10. invites \in PerCandidate(invites, rows) \ {<< >>}
  <2>1. DOMAIN invites \intersect Pipeline = included BY <1>3, <1>5
  <2>2. invites \in [included -> rows]
    <3> HIDE DEF rows
    <3> QED BY <1>6, <1>7 DEF rows
  <2>3. invites # << >> BY <1>1, <1>5
  <2> QED BY <2>1, <2>2, <2>3 DEF PerCandidate
<1> HIDE DEF rows
<1> QED BY <1>8, <1>9, <1>10 DEF ScheduleArtifact

LEMMA ScreeningConforms ==
  ASSUME NEW i \in 1..4, NEW st, NEW f \in ScreeningFacts, NEW C, Sound("screening", i, st), NEW v,
         Anew("screening", ScreeningSteps[i], st),
         NEW a \in ScreeningCompute(ScreeningSteps[i], st, Looked(f, C))
  PROVE  Contract("screening", ScreeningSteps[i], WithField(a, "v", v))
<1> DEFINE w == WithField(a, "v", v)
<1>1. Fields(w) = Fields(a) BY FieldsStay
<1>2. SUFFICES Fields(a) \in ScreeningContract(ScreeningSteps[i], w)
  BY <1>1 DEF Contract, Conforms
<1>3. \A j \in 1..(i - 1) :
        LET e == EffectiveArtifact(st, ScreeningSteps[j]) IN
        Fields(e) \in ScreeningContract(ScreeningSteps[j], e)
  BY ScreeningWalk DEF Sound, Contract, Conforms
<1>4. i > 1 => Fields(EffectiveArtifact(st, "requisition")) \in RequisitionArtifact
  BY <1>3, ScreeningWalk DEF ScreeningContract
<1>5. i > 2 => LET e == EffectiveArtifact(st, "screen") IN Fields(e) \in ScreenArtifact(e)
  BY <1>3, ScreeningWalk DEF ScreeningContract
<1>6. i > 3 => LET e == EffectiveArtifact(st, "shortlist") IN Fields(e) \in ShortlistArtifact(e)
  BY <1>3, ScreeningWalk DEF ScreeningContract
<1>7. CASE i = 1
  <2> HIDE DEF w
  <2> QED BY <1>7, ScreeningWalk, RequisitionConforms DEF ScreeningCompute, ScreeningContract
<1>8. CASE i = 2
  <2>1. Fields(a) \in ScreenArtifact(a)
    BY <1>4, <1>8, ScreeningWalk, ScreenConforms DEF ScreeningCompute
  <2>2. "candidates" \in DOMAIN Fields(a) BY <2>1 DEF ScreenArtifact
  <2>3. w.candidates = a.candidates BY <2>2, StillSays
  <2> HIDE DEF w
  <2>4. ScreenArtifact(w) = ScreenArtifact(a) BY <2>3 DEF ScreenArtifact
  <2> QED BY <1>8, <2>1, <2>4, ScreeningWalk DEF ScreeningContract
<1>9. CASE i = 3
  <2>1. a \in ComputeShortlist(st)
    BY <1>9, ScreeningWalk DEF ScreeningCompute, StoredOr, Anew, KeptBy, ShownAgain
  <2>2. Fields(a) \in ShortlistArtifact(a) BY <1>5, <1>9, <2>1, ShortlistConforms
  <2>3. "entries" \in DOMAIN Fields(a) BY <2>2 DEF ShortlistArtifact
  <2>4. w.entries = a.entries BY <2>3, StillSays
  <2> HIDE DEF w
  <2>5. ShortlistArtifact(w) = ShortlistArtifact(a) BY <2>4 DEF ShortlistArtifact
  <2> QED BY <1>9, <2>2, <2>5, ScreeningWalk DEF ScreeningContract
<1>10. CASE i = 4
  <2>1. a \in ComputeSchedulePlan(st)
    BY <1>10, ScreeningWalk DEF ScreeningCompute, StoredOr, Anew, KeptBy, ShownAgain
  <2>2. Fields(a) \in ScheduleArtifact(a) BY <1>4, <1>6, <1>10, <2>1, ScheduleConforms
  <2>3. "invites" \in DOMAIN Fields(a) BY <2>2 DEF ScheduleArtifact
  <2>4. w.invites = a.invites BY <2>3, StillSays
  <2> HIDE DEF w
  <2>5. ScheduleArtifact(w) = ScheduleArtifact(a) BY <2>4 DEF ScheduleArtifact, ScheduleInvite, SlotsOf
  <2> QED BY <1>10, <2>2, <2>5, ScreeningWalk DEF ScreeningContract
<1> QED BY <1>7, <1>8, <1>9, <1>10

-----------------------------------------------------------------------------
(* Leave *)

LEMMA LeaveAsks ==
  ASSUME NEW f \in LeaveFacts, NEW C
  PROVE  LET known == Looked(f, C) IN
         /\ known.range \in LeaveRange /\ known.range.to <= 15 + known.range.from
         /\ known.balance = 5 /\ known.booked \in SUBSET LeaveRange
<1> DEFINE R(x, y) == [from |-> x, to |-> y]
           Asks(range, balance, found, managed, booked) ==
             [range |-> range, balance |-> balance, found |-> found, managed |-> managed,
              booked |-> booked]
           Short(range) == range \in LeaveRange /\ range.to <= 15 + range.from
           other == {R(11, 15)}
<1>1. ASSUME NEW x \in 1..24, NEW y \in 1..24, y <= 15 + x
      PROVE  Short(R(x, y))
  <2>1. R(x, y) \in LeaveRange BY DEF LeaveRange
  <2> QED BY <1>1, <2>1
<1>2. other \in SUBSET LeaveRange BY DEF LeaveRange
<1>3. {} \in SUBSET LeaveRange OBVIOUS
<1>4. f \in {Asks(R(8, 9), 5, FALSE, FALSE, {}), Asks(R(9, 8), 5, TRUE, TRUE, {}),
             Asks(R(13, 14), 5, TRUE, TRUE, {}), Asks(R(8, 12), 5, TRUE, TRUE, other),
             Asks(R(2, 12), 5, TRUE, FALSE, {}), Asks(R(23, 24), 5, TRUE, TRUE, {}),
             Asks(R(2, 3), 5, TRUE, FALSE, {})}
  BY DEF LeaveFacts
<1> HIDE DEF Short, R, other
<1>5. /\ Short(R(8, 9)) /\ Short(R(9, 8)) /\ Short(R(13, 14)) /\ Short(R(8, 12))
      /\ Short(R(2, 12)) /\ Short(R(23, 24)) /\ Short(R(2, 3))
  BY <1>1
<1> HIDE DEF Asks
<1>6. \E range, found, managed, booked :
        Short(range) /\ booked \in SUBSET LeaveRange /\ f = Asks(range, 5, found, managed, booked)
  <2>1. CASE f = Asks(R(8, 9), 5, FALSE, FALSE, {}) BY <1>3, <1>5, <2>1
  <2>2. CASE f = Asks(R(9, 8), 5, TRUE, TRUE, {}) BY <1>3, <1>5, <2>2
  <2>3. CASE f = Asks(R(13, 14), 5, TRUE, TRUE, {}) BY <1>3, <1>5, <2>3
  <2>4. CASE f = Asks(R(8, 12), 5, TRUE, TRUE, other) BY <1>2, <1>5, <2>4
  <2>5. CASE f = Asks(R(2, 12), 5, TRUE, FALSE, {}) BY <1>3, <1>5, <2>5
  <2>6. CASE f = Asks(R(23, 24), 5, TRUE, TRUE, {}) BY <1>3, <1>5, <2>6
  <2>7. CASE f = Asks(R(2, 3), 5, TRUE, FALSE, {}) BY <1>3, <1>5, <2>7
  <2> QED BY <1>4, <2>1, <2>2, <2>3, <2>4, <2>5, <2>6, <2>7
<1>7. /\ {"range", "balance", "booked"} \subseteq DOMAIN f
      /\ Short(f.range) /\ f.balance = 5 /\ f.booked \in SUBSET LeaveRange
  BY <1>6 DEF Asks
<1>8. LET known == Looked(f, C) IN
      known.range = f.range /\ known.balance = f.balance /\ known.booked = f.booked
  BY <1>7, LookedUp
<1> QED BY <1>7, <1>8 DEF Short

LEMMA LeaveIntakeConforms ==
  ASSUME NEW st, NEW f \in LeaveFacts, NEW C, NEW a \in ComputeLeaveIntake(st, Looked(f, C))
  PROVE  /\ Fields(a) \in LeaveRequest
         /\ {"range", "balanceDays"} \subseteq DOMAIN a
         /\ a.range.to <= 15 + a.range.from /\ a.balanceDays = 5
<1> DEFINE range == Looked(f, C).range
           balance == Looked(f, C).balance
           from == DerivedFrom(st, {})
<1>1. a = [range |-> range, balanceDays |-> balance, from |-> from] BY DEF ComputeLeaveIntake, Unless
<1>2. range \in LeaveRange /\ balance = 5 /\ range.to <= 15 + range.from BY LeaveAsks
<1> HIDE DEF range, balance, from
<1>3. Fields(a) = [range |-> range, balanceDays |-> balance] BY <1>1 DEF Fields
<1> QED BY <1>1, <1>2, <1>3 DEF LeaveRequest

\* What was asked stands: nobody edits a request.
LEMMA LeaveIsAsked ==
  ASSUME NEW rec, NEW n, NEW f \in LeaveFacts, Approved(rec, "leave", n, f), 1 \in 1..n
  PROVE  LET intake == EffectiveArtifact(rec, "intake") IN
         /\ intake.range \in LeaveRange /\ intake.range.to <= 15 + intake.range.from
         /\ intake.balanceDays = 5
<1> DEFINE intake == EffectiveArtifact(rec, "intake")
<1>1. PICK st, C, a : From(rec, "leave", "intake", 1, f, st, C, a) /\ Restates(intake, a)
  BY LeaveTakesNoEdits, LeaveWalk, Unedited
<1>2. a \in ComputeLeaveIntake(st, Looked(f, C)) BY <1>1 DEF From, Compute, LeaveCompute
<1>3. /\ Fields(a) \in LeaveRequest /\ {"range", "balanceDays"} \subseteq DOMAIN a
      /\ a.range.to <= 15 + a.range.from /\ a.balanceDays = 5
  BY <1>2, LeaveIntakeConforms
<1>4. a.range \in LeaveRange BY <1>3 DEF LeaveRequest, Fields
<1> HIDE DEF intake
<1>5. intake.range = a.range /\ intake.balanceDays = a.balanceDays BY <1>1, <1>3 DEF Restates
<1> QED BY <1>3, <1>4, <1>5 DEF intake

\* A range of a fortnight and a day has sixteen days at most.
LEMMA FewDays ==
  ASSUME NEW x \in 1..300, NEW y \in 1..300, y <= 15 + x
  PROVE  IsFiniteSet(x..y) /\ Cardinality(x..y) <= 16
<1>1. IsFiniteSet(x..y) /\ Cardinality(x..y) = IF x > y THEN 0 ELSE y - x + 1 BY FS_Interval
<1> QED BY <1>1

LEMMA PolicyConforms ==
  ASSUME NEW st, NEW f \in LeaveFacts, NEW C, NEW a \in ComputePolicy(st, Looked(f, C)),
         LET intake == EffectiveArtifact(st, "intake") IN
         /\ intake.range \in LeaveRange /\ intake.range.to <= 15 + intake.range.from
         /\ intake.balanceDays = 5
  PROVE  Fields(a) \in LeavePolicyArtifact
<1> DEFINE intake == EffectiveArtifact(st, "intake")
           known == Looked(f, C)
           range == intake.range
           days == WorkingDaysBetween(intake.range)
           before == intake.balanceDays
           after == intake.balanceDays - days
           overlaps == {booked \in LeaveBookings(known) : Meets(booked, intake.range)}
           blackout == \E period \in BlackoutPeriods : Meets(period, intake.range)
           Check(good, otherwise) == IF good THEN "pass" ELSE otherwise
           Checked(check) == CASE check = "balance" -> Check(after >= 0, "fail")
                               [] check = "coverage" -> Check(overlaps = {}, "flag")
                               [] check = "blackout" -> Check(~blackout, "flag")
                               [] check = "notice" ->
                                    Check(intake.range.from - Today >= NoticeDays, "flag")
           checks == [check \in PolicyChecks |-> Checked(check)]
           verdict == IF after < 0 \/ blackout THEN "exception_required" ELSE "ok"
           from == DerivedFrom(st, {"intake"})
           all == {"range", "workingDays", "balanceBefore", "balanceAfter", "checks", "overlaps", "verdict"}
<1>1. a = [range |-> range, workingDays |-> days, balanceBefore |-> before, balanceAfter |-> after,
           checks |-> checks, overlaps |-> overlaps, verdict |-> verdict, from |-> from]
      /\ ~(days < 1)
  BY DEF ComputePolicy, Unless
<1>2. range \in LeaveRange /\ range.to <= 15 + range.from /\ before = 5 OBVIOUS
<1>3. days \in 1..120
  <2> DEFINE all300 == range.from .. range.to
             working == {day \in EachDate(range) : ~IsWeekend(day) /\ day \notin LeaveHolidays}
  <2>1. range.from \in 1..300 /\ range.to \in 1..300 BY <1>2 DEF LeaveRange
  <2>2. IsFiniteSet(all300) /\ Cardinality(all300) <= 16
    <3> DEFINE x == range.from
               y == range.to
    <3>1. x \in 1..300 /\ y \in 1..300 /\ y <= 15 + x
      <4> HIDE DEF range
      <4> QED BY <1>2, <2>1
    <3>2. all300 = x..y OBVIOUS
    <3> HIDE DEF x, y, all300
    <3> QED BY <3>1, <3>2, FewDays
  <2>3. working \subseteq all300 BY DEF EachDate
  <2>4. days = Cardinality(working) BY DEF WorkingDaysBetween
  <2> HIDE DEF all300, working, days
  <2>5. IsFiniteSet(working) /\ Cardinality(working) <= Cardinality(all300) BY <2>2, <2>3, FS_Subset
  <2>6. Cardinality(working) \in Nat /\ Cardinality(all300) \in Nat BY <2>2, <2>5, FS_CardinalityType
  <2> QED BY <1>1, <2>2, <2>4, <2>5, <2>6
<1> HIDE DEF days
<1>4. after \in -365..365 /\ before \in 0..365 BY <1>2, <1>3
<1>5. overlaps \in SUBSET LeaveRange
  <2>1. known.range \in LeaveRange /\ known.booked \in SUBSET LeaveRange BY LeaveAsks
  <2> HIDE DEF known
  <2>2. LeaveBookings(known) \in SUBSET LeaveRange
    <3> DEFINE mine == IF "leave-registry" \in known.carried THEN {known.range} ELSE {}
    <3>1. mine \in SUBSET LeaveRange BY <2>1
    <3>2. LeaveBookings(known) = known.booked \union mine BY DEF LeaveBookings
    <3> HIDE DEF mine
    <3> QED BY <2>1, <3>1, <3>2
  <2> DEFINE bookings == LeaveBookings(known)
  <2>3. overlaps \subseteq bookings OBVIOUS
  <2> HIDE DEF overlaps
  <2> QED BY <2>2, <2>3
<1>6. checks \in [PolicyChecks -> PolicyStatuses]
  <2>1. \A good : \A otherwise \in {"fail", "flag"} : Check(good, otherwise) \in PolicyStatuses
    BY DEF PolicyStatuses
  <2>2. "fail" \in {"fail", "flag"} /\ "flag" \in {"fail", "flag"} OBVIOUS
  <2>3. ASSUME NEW check \in PolicyChecks PROVE Checked(check) \in PolicyStatuses
    <3> HIDE DEF Check, after, overlaps, blackout
    <3>1. CASE check = "balance" BY <2>1, <2>2, <3>1
    <3>2. CASE check = "coverage" BY <2>1, <2>2, <3>2
    <3>3. CASE check = "blackout" BY <2>1, <2>2, <3>3
    <3>4. CASE check = "notice" BY <2>1, <2>2, <3>4
    <3> QED BY <3>1, <3>2, <3>3, <3>4 DEF PolicyChecks
  <2> HIDE DEF Checked
  <2> QED BY <2>3
<1>7. verdict \in {"ok", "exception_required"} OBVIOUS
<1> HIDE DEF range, before, after, overlaps, checks, verdict, from
<1>8. Fields(a) = [range |-> range, workingDays |-> days, balanceBefore |-> before,
                   balanceAfter |-> after, checks |-> checks, overlaps |-> overlaps, verdict |-> verdict]
  <2>1. DOMAIN a \ {"v", "from"} = all BY <1>1
  <2>2. Fields(a) = [x \in all |-> a[x]] BY <2>1 DEF Fields
  <2> QED BY <1>1, <2>2
<1> QED BY <1>2, <1>3, <1>4, <1>5, <1>6, <1>7, <1>8 DEF LeavePolicyArtifact

LEMMA LeaveApproveConforms ==
  ASSUME NEW st, NEW known, NEW a \in ComputeLeaveApprove(st, known),
         Fields(EffectiveArtifact(st, "policy-check")) \in LeavePolicyArtifact
  PROVE  Fields(a) \in LeaveApproval
<1> DEFINE policy == EffectiveArtifact(st, "policy-check")
           role == IF known.managed THEN "people-manager" ELSE "people-partner"
           days == policy.workingDays
           exception == policy.verdict = "exception_required"
           from == DerivedFrom(st, {"policy-check"})
<1>1. a = [approverRole |-> role, workingDays |-> days, exception |-> exception, state |-> "pending",
           from |-> from]
  BY DEF ComputeLeaveApprove, Unless
<1>2. days \in 1..120
  <2> HIDE DEF policy
  <2>1. Fields(policy) \in LeavePolicyArtifact BY DEF policy
  <2> QED BY <2>1 DEF LeavePolicyArtifact, Fields
<1>3. role \in {"people-manager", "people-partner"} /\ exception \in BOOLEAN OBVIOUS
<1> HIDE DEF role, days, exception, from
<1>4. Fields(a) = [approverRole |-> role, workingDays |-> days, exception |-> exception,
                   state |-> "pending"]
  <2>1. DOMAIN a \ {"v", "from"} = {"approverRole", "workingDays", "exception", "state"} BY <1>1
  <2>2. Fields(a) = [x \in {"approverRole", "workingDays", "exception", "state"} |-> a[x]]
    BY <2>1 DEF Fields
  <2> QED BY <1>1, <2>2
<1> QED BY <1>2, <1>3, <1>4 DEF LeaveApproval

LEMMA LeaveApplyConforms ==
  ASSUME NEW st, NEW known, NEW a \in ComputeLeaveApply(st, known),
         Fields(EffectiveArtifact(st, "policy-check")) \in LeavePolicyArtifact
  PROVE  Fields(a) \in ApplyArtifact
<1> DEFINE policy == EffectiveArtifact(st, "policy-check")
           entry == LeaveEntry(policy)
           existing == "leave-registry" \in known.carried
           from == DerivedFrom(st, {"policy-check"})
<1>1. a = [request |-> entry, existing |-> existing, from |-> from] BY DEF ComputeLeaveApply, Unless
<1>2. entry \in EntryPreview
  <2> HIDE DEF policy
  <2>1. Fields(policy) \in LeavePolicyArtifact BY DEF policy
  <2>2. policy.range \in LeaveRange BY <2>1 DEF LeavePolicyArtifact, Fields
  <2>3. policy.workingDays \in 1..120 BY <2>1 DEF LeavePolicyArtifact, Fields
  <2> QED BY <2>2, <2>3 DEF EntryPreview, LeaveEntry
<1>3. existing \in BOOLEAN OBVIOUS
<1> HIDE DEF entry, existing, from
<1>4. Fields(a) = [request |-> entry, existing |-> existing] BY <1>1 DEF Fields
<1> QED BY <1>2, <1>3, <1>4 DEF ApplyArtifact

LEMMA LeaveConforms ==
  ASSUME NEW i \in 1..4, NEW st, NEW f \in LeaveFacts, NEW C, Sound("leave", i, st), NEW v,
         NEW rec, Approved(rec, "leave", i - 1, f), Shows(st, rec, "leave", i),
         Anew("leave", LeaveSteps[i], st), NEW a \in LeaveCompute(LeaveSteps[i], st, Looked(f, C))
  PROVE  Contract("leave", LeaveSteps[i], WithField(a, "v", v))
<1> SUFFICES Fields(a) \in LeaveContract(LeaveSteps[i])
  BY FieldsStay DEF Contract, Conforms
<1>1. \A j \in 1..(i - 1) : Fields(EffectiveArtifact(st, LeaveSteps[j])) \in LeaveContract(LeaveSteps[j])
  BY LeaveWalk DEF Sound, Contract, Conforms
<1>2. i > 2 => Fields(EffectiveArtifact(st, "policy-check")) \in LeavePolicyArtifact
  BY <1>1, LeaveWalk DEF LeaveContract
<1>3. CASE i = 1 BY <1>3, LeaveWalk, LeaveIntakeConforms DEF LeaveCompute, LeaveContract
<1>4. CASE i = 2
  <2>1. 1 \in 1..(i - 1) BY <1>4
  <2>2. EffectiveArtifact(st, "intake") = EffectiveArtifact(rec, "intake")
    BY <1>4, LeaveWalk DEF Shows
  <2>3. a \in ComputePolicy(st, Looked(f, C)) BY <1>4, LeaveWalk DEF LeaveCompute
  <2> QED BY <1>4, <2>1, <2>2, <2>3, LeaveWalk, LeaveIsAsked, PolicyConforms DEF LeaveContract
<1>5. CASE i = 3
  <2>1. a \in ComputeLeaveApprove(st, Looked(f, C))
    BY <1>5, LeaveWalk DEF LeaveCompute, StoredOr, Anew, KeptBy, ShownAgain
  <2> QED BY <1>2, <1>5, <2>1, LeaveWalk, LeaveApproveConforms DEF LeaveContract
<1>6. CASE i = 4
  <2>1. a \in ComputeLeaveApply(st, Looked(f, C))
    BY <1>6, LeaveWalk DEF LeaveCompute, StoredOr, Anew, KeptBy, ShownAgain
  <2> QED BY <1>2, <1>6, <2>1, LeaveWalk, LeaveApplyConforms DEF LeaveContract
<1> QED BY <1>3, <1>4, <1>5, <1>6

-----------------------------------------------------------------------------
(* HR help *)

LEMMA HelpAsks ==
  ASSUME NEW f \in HrHelpFacts, NEW C
  PROVE  LET known == Looked(f, C) IN
         /\ known.terms \in SUBSET {"leave", "carry", "travel", "pets"}
         /\ known.service \in {"down", "empty", "up"}
<1> DEFINE Asks(terms, service) == [terms |-> terms, service |-> service]
           All == {"leave", "carry", "travel", "pets"}
           pets == {"pets"}
           travel == {"travel"}
           both == {"leave", "carry"}
           carry == {"carry"}
<1>1. pets \in SUBSET All /\ travel \in SUBSET All /\ both \in SUBSET All /\ carry \in SUBSET All
  OBVIOUS
<1>2. f \in {Asks(pets, "down"), Asks(travel, "down"), Asks(both, "empty"), Asks(both, "up"),
             Asks(carry, "down")}
  BY DEF HrHelpFacts
<1>3. \A t, s : {"terms", "service"} \subseteq DOMAIN Asks(t, s) /\ Asks(t, s).terms = t
                /\ Asks(t, s).service = s
  OBVIOUS
<1> HIDE DEF Asks, All, pets, travel, both, carry
<1>4. /\ {"terms", "service"} \subseteq DOMAIN f /\ f.terms \in SUBSET All
      /\ f.service \in {"down", "empty", "up"}
  <2>1. CASE f = Asks(pets, "down") BY <1>1, <1>3, <2>1
  <2>2. CASE f = Asks(travel, "down") BY <1>1, <1>3, <2>2
  <2>3. CASE f = Asks(both, "empty") BY <1>1, <1>3, <2>3
  <2>4. CASE f = Asks(both, "up") BY <1>1, <1>3, <2>4
  <2>5. CASE f = Asks(carry, "down") BY <1>1, <1>3, <2>5
  <2> QED BY <1>2, <2>1, <2>2, <2>3, <2>4, <2>5
<1>5. Looked(f, C).terms = f.terms /\ Looked(f, C).service = f.service BY <1>4, LookedUp
<1> QED BY <1>4, <1>5 DEF All

LEMMA HrIntakeConforms ==
  ASSUME NEW st, NEW f \in HrHelpFacts, NEW C, NEW a \in ComputeHrIntake(st, Looked(f, C))
  PROVE  Fields(a) \in HelpQuestion
<1> DEFINE terms == Looked(f, C).terms
           from == DerivedFrom(st, {})
<1>1. a = [terms |-> terms, from |-> from] BY DEF ComputeHrIntake
<1>2. terms \in SUBSET {"leave", "carry", "travel", "pets"} BY HelpAsks
<1> HIDE DEF terms, from
<1>3. Fields(a) = [terms |-> terms] BY <1>1 DEF Fields
<1> QED BY <1>2, <1>3 DEF HelpQuestion

LEMMA PassageScores ==
  ASSUME NEW terms \in SUBSET {"leave", "carry", "travel", "pets"}, NEW p
  PROVE  PassageScore(p, terms) \in 0..100
<1> DEFINE shared == terms \intersect PolicyCorpus[p].words
           n == Cardinality(terms)
           k == Cardinality(shared)
<1>1. IsFiniteSet(terms) /\ n \in 0..4 BY AtMostFour
<1>2. k \in Nat /\ k <= n BY <1>1, FS_Subset, FS_CardinalityType
<1>3. terms # {} => n # 0 BY <1>1, FS_EmptySet
<1>4. PassageScore(p, terms) = IF terms = {} THEN 0 ELSE (100 * k) \div n BY DEF PassageScore
<1> HIDE DEF n, k
<1>5. CASE terms = {} BY <1>4, <1>5
<1>6. CASE terms # {}
  <2> DEFINE up == 100 * k
  <2>1. up \in Nat /\ n \in Nat \ {0} /\ up < 101 * n BY <1>1, <1>2, <1>3, <1>6
  <2> HIDE DEF up
  <2>2. up \div n \in 0..100 BY <2>1, Quotient
  <2> QED BY <1>4, <1>6, <2>2 DEF up
<1> QED BY <1>5, <1>6

LEMMA RetrieveConforms ==
  ASSUME NEW st, NEW f \in HrHelpFacts, NEW C, NEW a \in ComputeRetrieve(st, Looked(f, C)),
         Fields(EffectiveArtifact(st, "intake")) \in HelpQuestion
  PROVE  Fields(a) \in RetrieveArtifact(a)
<1> DEFINE intake == EffectiveArtifact(st, "intake")
           terms == intake.terms
           service == Looked(f, C).service
           tries == {tried \in HttpRetrieve(service, terms) : Answerable(tried)}
           Row(p) == [score |-> PassageScore(p, terms), stale |-> IsStale(p)]
           Passages(found) == [p \in found |-> Row(p)]
           Stale(found) == Cardinality({p \in found : IsStale(p)})
           from == DerivedFrom(st, {"intake"})
<1>1. PICK found \in tries :
        a = [terms |-> terms, passages |-> Passages(found), staleCount |-> Stale(found), from |-> from]
  BY DEF ComputeRetrieve, Unless
<1>2. terms \in SUBSET {"leave", "carry", "travel", "pets"}
  <2> HIDE DEF intake
  <2>1. Fields(intake) \in HelpQuestion BY DEF intake
  <2> QED BY <2>1 DEF HelpQuestion, Fields
<1>3. found \in SUBSET PolicyPassages
  <2> HIDE DEF terms
  <2>1. service \in {"down", "empty", "up"} BY HelpAsks
  <2>2. \A best \in CorpusRetrieve(terms) : best \in SUBSET PolicyPassages BY DEF CorpusRetrieve
  <2>3. found \in HttpRetrieve(service, terms) OBVIOUS
  <2> HIDE DEF service, tries
  <2> QED BY <2>1, <2>2, <2>3 DEF HttpRetrieve
<1>4. PolicyPassages = {"carryover", "accrual", "travel"} BY DEF PolicyPassages, PolicyCorpus
<1> DEFINE passages == Passages(found)
           stale == Stale(found)
<1>5. passages \in [found -> [score : 0..100, stale : BOOLEAN]]
  <2>1. ASSUME NEW p PROVE Row(p) \in [score : 0..100, stale : BOOLEAN]
    <3> DEFINE score == PassageScore(p, terms)
               old == IsStale(p)
    <3>1. score \in 0..100 BY <1>2, PassageScores
    <3>2. old \in BOOLEAN BY DEF IsStale
    <3>3. Row(p) = [score |-> score, stale |-> old] OBVIOUS
    <3> HIDE DEF score, old, Row
    <3> QED BY <3>1, <3>2, <3>3
  <2> HIDE DEF Row
  <2> QED BY <2>1
<1>6. stale \in 0..8
  <2> DEFINE old == {p \in found : IsStale(p)}
  <2>1. old \in SUBSET {"carryover", "accrual", "travel", "travel"} BY <1>3, <1>4
  <2> HIDE DEF old
  <2>2. Cardinality(old) \in 0..4 BY <2>1, AtMostFour
  <2> QED BY <2>2 DEF old
<1>7. a = [terms |-> terms, passages |-> passages, staleCount |-> stale, from |-> from] BY <1>1
<1> HIDE DEF passages, stale, terms, from
<1>8. Fields(a) = [terms |-> terms, passages |-> passages, staleCount |-> stale]
  <2>1. DOMAIN a \ {"v", "from"} = {"terms", "passages", "staleCount"} BY <1>7
  <2>2. Fields(a) = [x \in {"terms", "passages", "staleCount"} |-> a[x]] BY <2>1 DEF Fields
  <2> QED BY <1>7, <2>2
<1>9. a.passages = passages /\ DOMAIN passages \intersect PolicyPassages = found BY <1>3, <1>5, <1>7
<1> QED BY <1>2, <1>5, <1>6, <1>8, <1>9 DEF RetrieveArtifact

LEMMA HrDraftConforms ==
  ASSUME NEW st, NEW a \in ComputeHrDraft(st)
  PROVE  Fields(a) \in DraftArtifact
<1> DEFINE from == DerivedFrom(st, {"retrieve"})
           all == {"answer", "citations", "flags", "allowed", "totalFlags"}
<1>1. PICK output \in CitedDrafts(EffectiveArtifact(st, "retrieve")),
           guardrail \in ContractOutput(HelpGuardrailAnswers, GuardrailOutput) :
        a = [answer |-> "drafted", citations |-> output.citations, flags |-> guardrail.flags,
             allowed |-> guardrail.allowed, totalFlags |-> Cardinality(guardrail.flags), from |-> from]
  BY DEF ComputeHrDraft, Unless
<1> DEFINE citations == output.citations
           flags == guardrail.flags
           allowed == guardrail.allowed
           total == Cardinality(flags)
<1>2. citations \in (SUBSET PolicyPassages) \ {{}}
  <2>1. output \in DraftModelOutput BY DEF CitedDrafts, ContractOutput
  <2> QED BY <2>1 DEF DraftModelOutput
<1>3. flags \in SUBSET FlagKindsOfAnswers /\ allowed \in BOOLEAN
  <2>1. guardrail \in GuardrailOutput BY DEF ContractOutput
  <2> QED BY <2>1 DEF GuardrailOutput
<1>4. a = [answer |-> "drafted", citations |-> citations, flags |-> flags, allowed |-> allowed,
           totalFlags |-> total, from |-> from]
  BY <1>1
<1> HIDE DEF citations, flags, allowed, from
<1>5. total \in 0..20
  <2>1. flags \in SUBSET {"legal-advice", "pii-leakage", "pii-leakage", "pii-leakage"}
    BY <1>3 DEF FlagKindsOfAnswers
  <2>2. Cardinality(flags) \in 0..4 BY <2>1, AtMostFour
  <2> QED BY <2>2
<1> HIDE DEF total
<1>6. Fields(a) = [answer |-> "drafted", citations |-> citations, flags |-> flags,
                   allowed |-> allowed, totalFlags |-> total]
  <2>1. DOMAIN a \ {"v", "from"} = all BY <1>4
  <2>2. Fields(a) = [x \in all |-> a[x]] BY <2>1 DEF Fields
  <2> QED BY <1>4, <2>2
<1> QED BY <1>2, <1>3, <1>5, <1>6 DEF DraftArtifact

LEMMA HrApproveConforms ==
  ASSUME NEW st, NEW a \in ComputeHrApprove(st)
  PROVE  Fields(a) \in HelpApproval
<1> DEFINE draft == EffectiveArtifact(st, "draft")
           signOff == draft.totalFlags > 0 \/ ~draft.allowed
           from == DerivedFrom(st, {"draft"})
<1>1. a = [state |-> "pending", signOff |-> signOff, from |-> from] BY DEF ComputeHrApprove, Unless
<1>2. signOff \in BOOLEAN OBVIOUS
<1> HIDE DEF signOff, from
<1>3. Fields(a) = [state |-> "pending", signOff |-> signOff] BY <1>1 DEF Fields
<1> QED BY <1>2, <1>3 DEF HelpApproval

LEMMA HrSendConforms ==
  ASSUME NEW st, NEW known, NEW a \in ComputeHrSendPlan(st, known),
         Fields(EffectiveArtifact(st, "draft")) \in DraftArtifact
  PROVE  Fields(a) \in SendArtifact
<1> DEFINE draft == EffectiveArtifact(st, "draft")
           citations == draft.citations
           count == Cardinality(citations)
           existing == "hr-answers" \in known.carried
           from == DerivedFrom(st, {"draft"})
<1>1. a = [citationCount |-> count, existing |-> existing, from |-> from] BY DEF ComputeHrSendPlan, Unless
<1>2. citations \in SUBSET PolicyPassages
  <2> HIDE DEF draft
  <2>1. Fields(draft) \in DraftArtifact BY DEF draft
  <2> QED BY <2>1 DEF DraftArtifact, Fields
<1>3. count \in 0..8
  <2> HIDE DEF citations
  <2>1. citations \in SUBSET {"carryover", "accrual", "travel", "travel"}
    BY <1>2 DEF PolicyPassages, PolicyCorpus
  <2>2. Cardinality(citations) \in 0..4 BY <2>1, AtMostFour
  <2> QED BY <2>2
<1>4. existing \in BOOLEAN OBVIOUS
<1> HIDE DEF count, existing, from
<1>5. Fields(a) = [citationCount |-> count, existing |-> existing] BY <1>1 DEF Fields
<1> QED BY <1>3, <1>4, <1>5 DEF SendArtifact

LEMMA HrHelpConforms ==
  ASSUME NEW i \in 1..5, NEW st, NEW f \in HrHelpFacts, NEW C, Sound("hr-help", i, st), NEW v,
         Anew("hr-help", HrHelpSteps[i], st),
         NEW a \in HrHelpCompute(HrHelpSteps[i], st, Looked(f, C))
  PROVE  Contract("hr-help", HrHelpSteps[i], WithField(a, "v", v))
<1> DEFINE w == WithField(a, "v", v)
<1>1. Fields(w) = Fields(a) BY FieldsStay
<1>2. SUFFICES Fields(a) \in HrHelpContract(HrHelpSteps[i], w)
  BY <1>1 DEF Contract, Conforms
<1>3. \A j \in 1..(i - 1) :
        LET e == EffectiveArtifact(st, HrHelpSteps[j]) IN
        Fields(e) \in HrHelpContract(HrHelpSteps[j], e)
  BY HrHelpWalk DEF Sound, Contract, Conforms
<1>4. i > 1 => Fields(EffectiveArtifact(st, "intake")) \in HelpQuestion
  BY <1>3, HrHelpWalk DEF HrHelpContract
<1>5. i > 3 => Fields(EffectiveArtifact(st, "draft")) \in DraftArtifact
  BY <1>3, HrHelpWalk DEF HrHelpContract
<1>6. CASE i = 1
  <2> HIDE DEF w
  <2> QED BY <1>6, HrHelpWalk, HrIntakeConforms DEF HrHelpCompute, HrHelpContract
<1>7. CASE i = 2
  <2>1. Fields(a) \in RetrieveArtifact(a)
    BY <1>4, <1>7, HrHelpWalk, RetrieveConforms DEF HrHelpCompute
  <2>2. "passages" \in DOMAIN Fields(a) BY <2>1 DEF RetrieveArtifact
  <2>3. w.passages = a.passages BY <2>2, StillSays
  <2> HIDE DEF w
  <2>4. RetrieveArtifact(w) = RetrieveArtifact(a) BY <2>3 DEF RetrieveArtifact
  <2> QED BY <1>7, <2>1, <2>4, HrHelpWalk DEF HrHelpContract
<1>8. CASE i = 3
  <2> HIDE DEF w
  <2> QED BY <1>8, HrHelpWalk, HrDraftConforms DEF HrHelpCompute, HrHelpContract
<1>9. CASE i = 4
  <2>1. a \in ComputeHrApprove(st)
    BY <1>9, HrHelpWalk DEF HrHelpCompute, StoredOr, Anew, KeptBy, ShownAgain
  <2> HIDE DEF w
  <2> QED BY <1>9, <2>1, HrHelpWalk, HrApproveConforms DEF HrHelpContract
<1>10. CASE i = 5
  <2>1. a \in ComputeHrSendPlan(st, Looked(f, C))
    BY <1>10, HrHelpWalk DEF HrHelpCompute, StoredOr, Anew, KeptBy, ShownAgain
  <2> HIDE DEF w
  <2> QED BY <1>5, <1>10, <2>1, HrHelpWalk, HrSendConforms DEF HrHelpContract
<1> QED BY <1>6, <1>7, <1>8, <1>9, <1>10

-----------------------------------------------------------------------------
(* Bills *)

LEMMA BillReadingsConform ==
  ASSUME NEW output \in ContractOutput(BillReadings, BillModelOutput)
  PROVE  output.bank \in BankDetails /\ output.bill \in ExtractedBill
<1>1. output \in BillModelOutput BY DEF ContractOutput
<1> QED BY <1>1 DEF BillModelOutput

\* The four things that keep a bill back.
LEMMA FourEscalations ==
  EscalationReasons \subseteq
    {"empty_extraction", "missing_fields", "bank_details_changed", "vendor_unverified"}
BY DEF EscalationReasons

LEMMA ExtractConforms ==
  ASSUME NEW st, NEW known, NEW a \in ComputeExtract(st, known)
  PROVE  /\ Fields(a) \in ExtractArtifact /\ {"escalated", "escalations"} \subseteq DOMAIN Fields(a)
         /\ a.escalated = (a.escalations # {})
<1> DEFINE vendor == LookupVendor(known)
           registered == vendor # NoVendor
           from == DerivedFrom(st, {"intake"})
           Escalations(output) ==
             ReadingEscalations(output.bill) \union VendorEscalations(output.bank, vendor)
           all == {"bill", "stated", "registered", "matches", "escalations", "escalated"}
<1>1. PICK output \in ContractOutput(BillReadings, BillModelOutput) :
        a = [bill |-> output.bill, stated |-> output.bank, registered |-> registered,
             matches |-> BankDetailsMatch(output.bank, vendor), escalations |-> Escalations(output),
             escalated |-> Escalations(output) # {}, from |-> from]
  BY DEF ComputeExtract
<1> DEFINE bill == output.bill
           stated == output.bank
           matches == BankDetailsMatch(output.bank, vendor)
           escalations == Escalations(output)
           escalated == escalations # {}
<1>2. bill \in ExtractedBill /\ stated \in BankDetails BY BillReadingsConform
<1>3. registered \in BOOLEAN /\ matches \in BOOLEAN /\ escalated \in BOOLEAN
  BY DEF BankDetailsMatch
<1>4. escalations \in SUBSET EscalationReasons
  <2>1. ReadingEscalations(bill) \in SUBSET EscalationReasons
    BY DEF ReadingEscalations, EscalationReasons
  <2>2. VendorEscalations(stated, vendor) \in SUBSET EscalationReasons
    BY DEF VendorEscalations, EscalationReasons
  <2> HIDE DEF bill, stated, vendor
  <2> QED BY <2>1, <2>2 DEF bill, stated
<1>5. a = [bill |-> bill, stated |-> stated, registered |-> registered, matches |-> matches,
           escalations |-> escalations, escalated |-> escalated, from |-> from]
  BY <1>1
<1>6. escalated = (escalations # {}) OBVIOUS
<1> HIDE DEF bill, stated, registered, matches, escalations, escalated, from
<1>7. Fields(a) = [bill |-> bill, stated |-> stated, registered |-> registered, matches |-> matches,
                   escalations |-> escalations, escalated |-> escalated]
  <2>1. DOMAIN a \ {"v", "from"} = all BY <1>5
  <2>2. Fields(a) = [x \in all |-> a[x]] BY <2>1 DEF Fields
  <2> QED BY <1>5, <2>2
<1>8. {"escalated", "escalations"} \subseteq DOMAIN Fields(a) BY <1>7
<1>9. a.escalated = (a.escalations # {}) BY <1>5, <1>6
<1>10. Fields(a) \in ExtractArtifact BY <1>2, <1>3, <1>4, <1>7 DEF ExtractArtifact
<1> QED BY <1>8, <1>9, <1>10

LEMMA BillsApproveConforms ==
  ASSUME NEW st, NEW a \in ComputeBillsApprove(st),
         Fields(EffectiveArtifact(st, "extract")) \in ExtractArtifact
  PROVE  Fields(a) \in BillApproval
<1> DEFINE extract == EffectiveArtifact(st, "extract")
           escalations == extract.escalations
           told == Cardinality(escalations)
           from == DerivedFrom(st, {"extract"})
<1>1. a = [state |-> "pending", told |-> told, from |-> from] BY DEF ComputeBillsApprove, Unless
<1>2. escalations \in SUBSET EscalationReasons
  <2> HIDE DEF extract
  <2>1. Fields(extract) \in ExtractArtifact BY DEF extract
  <2> QED BY <2>1 DEF ExtractArtifact, Fields
<1>3. told \in 0..8
  <2> HIDE DEF escalations
  <2>1. Cardinality(escalations) \in 0..4 BY <1>2, FourEscalations, AtMostFour
  <2> QED BY <2>1
<1> HIDE DEF told, from
<1>4. Fields(a) = [state |-> "pending", told |-> told] BY <1>1 DEF Fields
<1> QED BY <1>3, <1>4 DEF BillApproval

LEMMA BillsPostConforms ==
  ASSUME NEW st, NEW a \in ComputePostPlan(st),
         Fields(EffectiveArtifact(st, "extract")) \in ExtractArtifact
  PROVE  Fields(a) \in PostArtifact
<1> DEFINE extract == EffectiveArtifact(st, "extract")
           total == extract.bill.totalCents
           complete == CanPost(extract.bill)
           from == DerivedFrom(st, {"extract"})
<1>1. a = [totalCents |-> total, complete |-> complete, from |-> from] BY DEF ComputePostPlan, Unless
<1>2. total \in Cents \union {Unstated}
  <2> HIDE DEF extract
  <2>1. Fields(extract) \in ExtractArtifact BY DEF extract
  <2>2. extract.bill \in ExtractedBill BY <2>1 DEF ExtractArtifact, Fields
  <2> QED BY <2>2 DEF ExtractedBill
<1>3. complete \in BOOLEAN BY DEF CanPost
<1> HIDE DEF total, complete, from
<1>4. Fields(a) = [totalCents |-> total, complete |-> complete] BY <1>1 DEF Fields
<1> QED BY <1>2, <1>3, <1>4 DEF PostArtifact

LEMMA BillsConforms ==
  ASSUME NEW i \in 1..4, NEW st, NEW f \in BillsFacts, NEW C, Sound("bills", i, st), NEW v,
         Anew("bills", BillsSteps[i], st), NEW a \in BillsCompute(BillsSteps[i], st, Looked(f, C))
  PROVE  Contract("bills", BillsSteps[i], WithField(a, "v", v))
<1> DEFINE w == WithField(a, "v", v)
<1>1. Fields(w) = Fields(a) BY FieldsStay
<1>2. \A j \in 1..(i - 1) : BillsContract(BillsSteps[j], EffectiveArtifact(st, BillsSteps[j]))
  BY BillsWalk DEF Sound, Contract
<1>3. ASSUME i > 2
      PROVE  Fields(EffectiveArtifact(st, "extract")) \in ExtractArtifact
  <2>1. 2 \in 1..(i - 1) BY <1>3
  <2>2. BillsContract("extract", EffectiveArtifact(st, "extract")) BY <1>2, <2>1, BillsWalk
  <2> QED BY <2>2 DEF BillsContract, Conforms
<1>4. SUFFICES BillsContract(BillsSteps[i], w) BY DEF Contract
<1>5. CASE i = 1 BY <1>5, BillsWalk DEF BillsContract
<1>6. CASE i = 2
  <2>1. a \in ComputeExtract(st, Looked(f, C)) BY <1>6, BillsWalk DEF BillsCompute
  <2>2. /\ Fields(a) \in ExtractArtifact /\ {"escalated", "escalations"} \subseteq DOMAIN Fields(a)
        /\ a.escalated = (a.escalations # {})
    BY <2>1, ExtractConforms
  <2>3. w.escalated = a.escalated /\ w.escalations = a.escalations BY <2>2, StillSays
  <2> HIDE DEF w
  <2> QED BY <1>1, <1>6, <2>2, <2>3, BillsWalk DEF BillsContract, Conforms
<1>7. CASE i = 3
  <2>1. a \in ComputeBillsApprove(st)
    BY <1>7, BillsWalk DEF BillsCompute, StoredOr, Anew, KeptBy, ShownAgain
  <2> HIDE DEF w
  <2> QED BY <1>1, <1>3, <1>7, <2>1, BillsWalk, BillsApproveConforms DEF BillsContract, Conforms
<1>8. CASE i = 4
  <2>1. a \in ComputePostPlan(st)
    BY <1>8, BillsWalk DEF BillsCompute, StoredOr, Anew, KeptBy, ShownAgain
  <2> HIDE DEF w
  <2> QED BY <1>1, <1>3, <1>8, <2>1, BillsWalk, BillsPostConforms DEF BillsContract, Conforms
<1> QED BY <1>5, <1>6, <1>7, <1>8

-----------------------------------------------------------------------------
(* Review *)

LEMMA ReviewAsksFor ==
  ASSUME NEW f \in ReviewFacts, NEW C
  PROVE  Looked(f, C).prNumber \in {"none", "closed", "pr1"}
<1> DEFINE Input(pr, delta, listed, login) ==
             [prNumber |-> pr, lastReviewed |-> delta, listed |-> listed, login |-> login]
           prs == {"none", "closed", "pr1"}
<1>1. \E pr \in prs : \E delta, listed, login : f = Input(pr, delta, listed, login)
  <2>1. f \in {Input("none", FALSE, TRUE, TRUE), Input("closed", TRUE, TRUE, TRUE),
               Input("pr1", FALSE, FALSE, TRUE)}
    BY DEF ReviewFacts
  <2> HIDE DEF Input
  <2> QED BY <2>1
<1>2. f.prNumber \in prs /\ "prNumber" \in DOMAIN f BY <1>1
<1> QED BY <1>2, LookedUp

LEMMA BothOfTwo ==
  ASSUME NEW S, NEW seq \in Seq(S), Len(seq) = 2
  PROVE  Len(SubSeq(seq, 1, 2)) = 2 /\ \A n \in 1..2 : SubSeq(seq, 1, 2)[n] \in S
OBVIOUS

LEMMA SelectPrConforms ==
  ASSUME NEW st, NEW f \in ReviewFacts, NEW C, NEW a \in ComputeSelectPr(st, Looked(f, C))
  PROVE  {"candidates", "selected"} \subseteq DOMAIN Fields(a) /\ SelectPrValid(a)
<1> DEFINE candidates == SubSeq(<<"pr1", "own">>, 1, CandidateLimit)
           selected == Looked(f, C).prNumber
           from == DerivedFrom(st, {})
<1>1. a = [candidates |-> candidates, selected |-> selected, from |-> from]
  BY DEF ComputeSelectPr, Unless
<1>2. selected \in {"none", "closed", "pr1"} BY ReviewAsksFor
<1>3. \A n \in 1..Len(candidates) : candidates[n] \in {"pr1", "own"}
  <2>1. candidates = SubSeq(<<"pr1", "own">>, 1, 2) BY DEF CandidateLimit
  <2>2. <<"pr1", "own">> \in Seq({"pr1", "own"}) OBVIOUS
  <2>3. Len(<<"pr1", "own">>) = 2 OBVIOUS
  <2> HIDE DEF candidates
  <2>4. Len(candidates) = 2 /\ \A n \in 1..2 : candidates[n] \in {"pr1", "own"}
    BY <2>1, <2>2, <2>3, BothOfTwo
  <2> QED BY <2>4
<1> HIDE DEF candidates, selected, from
<1>4. {"candidates", "selected"} \subseteq DOMAIN Fields(a) BY <1>1 DEF Fields
<1>5. a.candidates = candidates /\ a.selected = selected BY <1>1
<1> QED BY <1>2, <1>3, <1>4, <1>5 DEF SelectPrValid, PullRequestCandidate

LEMMA OptionsConform ==
  ASSUME NEW st, NEW a \in ComputeReviewOptions(st), SelectPrValid(EffectiveArtifact(st, "select-pr"))
  PROVE  {"pullRequest", "enabled"} \subseteq DOMAIN Fields(a) /\ ReviewOptionsValid(a)
<1> DEFINE select == EffectiveArtifact(st, "select-pr")
           selected == select.selected
           from == DerivedFrom(st, {"select-pr"})
<1>1. a = [pullRequest |-> selected, enabled |-> ReviewCategory, from |-> from] /\ selected # "none"
  BY DEF ComputeReviewOptions, Unless
<1>2. selected \in PullRequestCandidate BY <1>1 DEF SelectPrValid
<1> HIDE DEF selected, from
<1>3. {"pullRequest", "enabled"} \subseteq DOMAIN Fields(a) BY <1>1 DEF Fields
<1>4. a.pullRequest = selected /\ a.enabled = ReviewCategory BY <1>1
<1> QED BY <1>2, <1>3, <1>4 DEF ReviewOptionsValid

LEMMA AiReviewConforms ==
  ASSUME NEW st, NEW known, NEW a \in ComputeAiReview(st, known),
         ReviewOptionsValid(EffectiveArtifact(st, "review-options"))
  PROVE  {"pullRequest", "verdict", "summary", "comments"} \subseteq DOMAIN Fields(a)
         /\ ReviewTextValid(a)
<1> DEFINE options == EffectiveArtifact(st, "review-options")
           pr == options.pullRequest
           categories == IF options.enabled # {} THEN options.enabled ELSE ReviewCategory
           delta == known.lastReviewed
           changed == ChangedFiles(known.lastReviewed)
           from == DerivedFrom(st, {"review-options"})
           said == <<"late", "docs", "stray">>
           comments == Selected(said, changed)
           Answer == [verdict |-> "request_changes", comments |-> said]
           all == {"pullRequest", "verdict", "summary", "comments", "categories", "deltaOnly"}
<1>1. a = [pullRequest |-> pr, verdict |-> "request_changes", summary |-> "given",
           comments |-> comments, categories |-> categories, deltaOnly |-> delta, from |-> from]
  <2>1. PICK output \in ReviewerAnswers :
          a = [pullRequest |-> pr, verdict |-> output.verdict, summary |-> "given",
               comments |-> OnChangedPaths(output.comments, changed),
               categories |-> categories, deltaOnly |-> delta, from |-> from]
    BY DEF ComputeAiReview
  <2>2. output = Answer BY DEF ReviewerAnswers
  <2> HIDE DEF pr, categories, delta, changed, from, said
  <2>3. output.verdict = "request_changes" /\ output.comments = said BY <2>2
  <2> QED BY <2>1, <2>3 DEF OnChangedPaths
<1>2. pr \in PullRequestCandidate BY DEF ReviewOptionsValid
<1>3. comments \in Seq(CommentPath)
  <2>1. Len(said) = 3 OBVIOUS
  <2>2. said \in Seq(CommentPath) BY DEF CommentPath
  <2> HIDE DEF said, changed
  <2>3. /\ Selected(said, changed) \in Seq(changed)
        /\ \A n \in 1..Len(Selected(said, changed)) :
             \E k \in 1..Len(said) : said[k] \in changed /\ Selected(said, changed)[n] = said[k]
    <3>1. Len(said) \in Nat BY <2>1
    <3> QED BY <3>1, SelectedIsKept
  <2>4. \A k \in 1..Len(said) : said[k] \in CommentPath BY <2>2
  <2>5. \A n \in 1..Len(comments) : comments[n] \in CommentPath BY <2>3, <2>4
  <2>6. comments \in Seq(changed) BY <2>3
  <2> HIDE DEF comments
  <2> QED BY <2>5, <2>6
<1> HIDE DEF pr, comments, categories, delta, from
<1>4. DOMAIN Fields(a) = all
  <2>1. DOMAIN a \ {"v", "from"} = all BY <1>1
  <2> QED BY <2>1 DEF Fields
<1>5. a.pullRequest = pr /\ a.verdict = "request_changes" /\ a.summary = "given" /\ a.comments = comments
  BY <1>1
<1> QED BY <1>2, <1>3, <1>4, <1>5 DEF ReviewTextValid, ReviewVerdict

LEMMA CompleteConforms ==
  ASSUME NEW st, NEW a \in ComputeReviewComplete(st)
  PROVE  {"pullRequest", "verdict", "summary", "comments"} \subseteq DOMAIN Fields(a)
         /\ ReviewTextValid(a)
<1> DEFINE review == EffectiveArtifact(st, "ai-review")
           kept == {"pullRequest", "verdict", "summary", "comments", "deltaOnly"}
           said == [x \in kept |-> review[x]]
           from == DerivedFrom(st, {"ai-review"})
<1>1. a = WithField(said, "from", from) /\ ReviewTextValid(review)
  BY DEF ComputeReviewComplete, Unless
<1> HIDE DEF review, from
<1>2. DOMAIN a = kept \union {"from"} /\ \A x \in kept : a[x] = review[x] BY <1>1 DEF WithField
<1>3. {"pullRequest", "verdict", "summary", "comments"} \subseteq DOMAIN Fields(a) BY <1>2 DEF Fields
<1>4. /\ a.pullRequest = review.pullRequest /\ a.verdict = review.verdict
      /\ a.summary = review.summary /\ a.comments = review.comments
  BY <1>2
<1> QED BY <1>1, <1>3, <1>4 DEF ReviewTextValid

LEMMA ReviewConforms ==
  ASSUME NEW i \in 1..4, NEW st, NEW f \in ReviewFacts, NEW C, Sound("review", i, st), NEW v,
         NEW a \in ReviewCompute(ReviewSteps[i], st, Looked(f, C))
  PROVE  Contract("review", ReviewSteps[i], WithField(a, "v", v))
<1> DEFINE w == WithField(a, "v", v)
<1>1. \A x \in DOMAIN Fields(a) : w[x] = a[x] BY StillSays
<1>2. \A j \in 1..(i - 1) : ReviewContract(ReviewSteps[j], EffectiveArtifact(st, ReviewSteps[j]))
  BY ReviewWalk DEF Sound, Contract
<1> SUFFICES ReviewContract(ReviewSteps[i], w) BY DEF Contract
<1> HIDE DEF w
<1>3. CASE i = 1
  <2>1. {"candidates", "selected"} \subseteq DOMAIN Fields(a) /\ SelectPrValid(a)
    BY <1>3, ReviewWalk, SelectPrConforms DEF ReviewCompute
  <2>2. w.candidates = a.candidates /\ w.selected = a.selected BY <1>1, <2>1
  <2> QED BY <1>3, <2>1, <2>2, ReviewWalk DEF ReviewContract, SelectPrValid
<1>4. CASE i = 2
  <2>1. SelectPrValid(EffectiveArtifact(st, "select-pr")) BY <1>2, <1>4, ReviewWalk DEF ReviewContract
  <2>2. {"pullRequest", "enabled"} \subseteq DOMAIN Fields(a) /\ ReviewOptionsValid(a)
    BY <1>4, <2>1, ReviewWalk, OptionsConform DEF ReviewCompute
  <2>3. w.pullRequest = a.pullRequest /\ w.enabled = a.enabled BY <1>1, <2>2
  <2> QED BY <1>4, <2>2, <2>3, ReviewWalk DEF ReviewContract, ReviewOptionsValid
<1>5. ASSUME {"pullRequest", "verdict", "summary", "comments"} \subseteq DOMAIN Fields(a),
             ReviewTextValid(a)
      PROVE  ReviewTextValid(w)
  <2>1. /\ w.pullRequest = a.pullRequest /\ w.verdict = a.verdict
        /\ w.summary = a.summary /\ w.comments = a.comments
    BY <1>1, <1>5
  <2> QED BY <1>5, <2>1 DEF ReviewTextValid
<1>6. CASE i = 3
  <2>1. ReviewOptionsValid(EffectiveArtifact(st, "review-options"))
    BY <1>2, <1>6, ReviewWalk DEF ReviewContract
  <2>2. a \in ComputeAiReview(st, Looked(f, C)) BY <1>6, ReviewWalk DEF ReviewCompute
  <2> QED BY <1>5, <1>6, <2>1, <2>2, ReviewWalk, AiReviewConforms DEF ReviewContract
<1>7. CASE i = 4
  <2>1. a \in ComputeReviewComplete(st) BY <1>7, ReviewWalk DEF ReviewCompute
  <2> QED BY <1>5, <1>7, <2>1, ReviewWalk, CompleteConforms DEF ReviewContract
<1> QED BY <1>3, <1>4, <1>6, <1>7

-----------------------------------------------------------------------------
(* The lanes that push a patch *)

LEMMA Within3 ==
  ASSUME NEW n, NEW m
  PROVE  /\ m \in 0..n /\ m # 0 => m \in 1..n
         /\ m \in 1..n /\ n \in 1..3 => m \in 1..3
         /\ n \in Nat \ {0} /\ n <= 3 => n \in 1..3
OBVIOUS

\* A filter that keeps one keeps something.
LEMMA SelectedIsThere ==
  ASSUME NEW seq, Len(seq) \in Nat, NEW S, NEW k \in 1..Len(seq), seq[k] \in S
  PROVE  Len(Selected(seq, S)) \in 1..Len(seq) /\ Selected(seq, S) # <<>>
<1>1. Len(Selected(seq, S)) \in 0..Len(seq) BY SelectedIsKept
<1>2. \E n \in 1..Len(Selected(seq, S)) : Selected(seq, S)[n] = seq[k] BY SelectedHasAll
<1>3. Len(Selected(seq, S)) \in 1..Len(seq) BY <1>1, <1>2
<1>4. Len(<<>>) = 0 OBVIOUS
<1> QED BY <1>3, <1>4

\* The first files of a sequence that has one.
LEMMA FirstIsThere ==
  ASSUME NEW S, NEW seq \in Seq(S), seq # <<>>, NEW m \in Nat \ {0}
  PROVE  Len(FirstOf(seq, m)) \in 1..m
<1> DEFINE t == IF Len(seq) < m THEN Len(seq) ELSE m
           first == SubSeq(seq, 1, t)
<1>1. FirstOf(seq, m) = first BY DEF FirstOf
<1>2. Len(seq) \in Nat \ {0} OBVIOUS
<1>3. t \in 1..m /\ t <= Len(seq) BY <1>2
<1> HIDE DEF t
<1>4. Len(first) = t BY <1>3
<1> QED BY <1>1, <1>3, <1>4

\* What is left in a plan of which one file is included.
LEMMA PlanIsThere ==
  ASSUME NEW files, Len(files) \in Nat, NEW k \in 1..Len(files), files[k].included
  PROVE  Len(PatchFilesInPlan(files)) \in 1..Len(files) /\ PatchFilesInPlan(files) # <<>>
<1> DEFINE S == {file \in FilesOf(files) : file.included}
<1>1. files[k] \in S BY DEF FilesOf
<1>2. PatchFilesInPlan(files) = Selected(files, S) BY DEF PatchFilesInPlan
<1> HIDE DEF S
<1> QED BY <1>1, <1>2, SelectedIsThere

-----------------------------------------------------------------------------
(* Features *)

LEMMA FeaturesAsk ==
  ASSUME NEW f \in FeaturesFacts, NEW C, NEW criteria \in CriteriaFor(Looked(f, C))
  PROVE  criteria \in (SUBSET AcceptanceCriteria) \ {{}}
<1> DEFINE Input(c, listed) == [criteria |-> c, listed |-> listed]
           all == {{"ac1", "ac2"}, {}}
<1>1. \E c \in all : \E listed : f = Input(c, listed)
  <2>1. f \in {Input({"ac1", "ac2"}, TRUE), Input({}, FALSE)} BY DEF FeaturesFacts
  <2> HIDE DEF Input
  <2> QED BY <2>1
<1>2. f.criteria \in all /\ "criteria" \in DOMAIN f BY <1>1
<1>3. Looked(f, C).criteria = f.criteria BY <1>2, LookedUp
<1>4. criteria \in {{"ac1", "ac2"}, {"ac1"}} BY <1>2, <1>3 DEF CriteriaFor
<1> QED BY <1>4 DEF AcceptanceCriteria

LEMMA FeatureSelectionConforms ==
  ASSUME NEW st, NEW f \in FeaturesFacts, NEW C, NEW a \in ComputeFeatureSelection(st, Looked(f, C))
  PROVE  /\ {"ticket", "criteria", "included", "maxChangedFiles"} \subseteq DOMAIN Fields(a)
         /\ FeatureSelectionValid(a)
<1> DEFINE from == DerivedFrom(st, {})
<1>1. PICK criteria \in CriteriaFor(Looked(f, C)) :
        a = [ticket |-> "own", criteria |-> criteria, included |-> criteria,
             maxChangedFiles |-> DefaultChangedFiles, from |-> from]
  BY DEF ComputeFeatureSelection, Unless
<1>2. criteria \in (SUBSET AcceptanceCriteria) \ {{}} BY FeaturesAsk
<1> HIDE DEF from
<1>3. {"ticket", "criteria", "included", "maxChangedFiles"} \subseteq DOMAIN Fields(a)
  BY <1>1 DEF Fields
<1>4. /\ a.ticket = "own" /\ a.criteria = criteria /\ a.included = criteria
      /\ a.maxChangedFiles = DefaultChangedFiles
  BY <1>1
<1> QED BY <1>2, <1>3, <1>4
        DEF FeatureSelectionValid, FeatureTickets, DefaultChangedFiles, MaxChangedFiles

LEMMA ScopeConforms ==
  ASSUME NEW st, NEW a \in ComputeScopeDesign(st),
         FeatureSelectionValid(EffectiveArtifact(st, "feature-selection"))
  PROVE  {"ticket", "areas"} \subseteq DOMAIN Fields(a) /\ ScopeDesignValid(a)
<1> DEFINE ticket == EffectiveArtifact(st, "feature-selection").ticket
           from == DerivedFrom(st, {"feature-selection"})
<1>1. PICK areas \in ContractOutput(FeaturePlannerAnswers, (SUBSET FeatureAreas) \ {{}}) :
        a = [ticket |-> ticket, areas |-> areas, from |-> from]
  BY DEF ComputeScopeDesign, Unless
<1>2. areas \in SUBSET FeatureAreas BY DEF ContractOutput
<1>3. ticket \in FeatureTickets BY DEF FeatureSelectionValid
<1> HIDE DEF ticket, from
<1>4. {"ticket", "areas"} \subseteq DOMAIN Fields(a) BY <1>1 DEF Fields
<1>5. a.ticket = ticket /\ a.areas = areas BY <1>1
<1> QED BY <1>2, <1>3, <1>4, <1>5 DEF ScopeDesignValid

PlannedFile == {file \in FeatureFile : file.included}

LEMMA EngineerConforms ==
  ASSUME NEW answer \in FeatureEngineerAnswers
  PROVE  answer.verdict \in FeatureVerdicts /\ answer.files \in Seq(PlannedFile)
<1> DEFINE NewFile(path, area, criteria, content) ==
             [path |-> path, area |-> area, criteria |-> criteria, content |-> content, included |-> TRUE]
           paths == {"app", "doc", "test", "migration", "secret"}
           Answer(verdict, files) == [verdict |-> verdict, files |-> files]
           App(content) == NewFile("app", "ui", {"ac1"}, content)
           Test == NewFile("test", "tests", {"ac2"}, "good")
           doc == NewFile("doc", "docs-flags", {"ac1"}, "good")
           migration == NewFile("migration", "ui", {"ac2"}, "good")
           secret == NewFile("secret", "ui", {}, "good")
           broken == App("broken")
           good == App("good")
<1>1. ASSUME NEW path \in paths, NEW area \in FeatureAreas,
             NEW criteria \in SUBSET AcceptanceCriteria, NEW content \in {"good", "edited", "broken"}
      PROVE  NewFile(path, area, criteria, content) \in PlannedFile
  BY DEF PlannedFile, FeatureFile
<1>2. /\ {"ui", "tests", "docs-flags"} \subseteq FeatureAreas
      /\ {{"ac1"}, {"ac2"}, {}} \subseteq SUBSET AcceptanceCriteria
  BY DEF FeatureAreas, AcceptanceCriteria
<1>4. /\ broken \in PlannedFile /\ good \in PlannedFile /\ Test \in PlannedFile
      /\ doc \in PlannedFile /\ migration \in PlannedFile /\ secret \in PlannedFile
  <2> HIDE DEF NewFile
  <2> QED BY <1>1, <1>2
<1>5. \A x, y : Answer(x, y).verdict = x /\ Answer(x, y).files = y OBVIOUS
<1>6. \/ answer = Answer("needs_attention", <<broken>>)
      \/ answer = Answer("ready", <<good, doc, Test, migration>>)
      \/ answer = Answer("ready", <<good, secret>>)
  BY DEF FeatureEngineerAnswers
<1> HIDE DEF Answer, broken, good, Test, doc, migration, secret
<1>7. /\ <<broken>> \in Seq(PlannedFile) /\ <<good, secret>> \in Seq(PlannedFile)
      /\ <<good, doc, Test, migration>> \in Seq(PlannedFile)
  <2> HIDE DEF PlannedFile
  <2>1. <<broken>> \in Seq(PlannedFile) BY <1>4
  <2>2. <<good, secret>> \in Seq(PlannedFile) BY <1>4
  <2>3. <<good, doc, Test, migration>> \in Seq(PlannedFile) BY <1>4
  <2> QED BY <2>1, <2>2, <2>3
<1>8. answer.verdict \in {"ready", "needs_attention"} BY <1>5, <1>6
<1>9. answer.files \in Seq(PlannedFile)
  <2> HIDE DEF PlannedFile, App
  <2>1. \/ answer.files = <<broken>> \/ answer.files = <<good, doc, Test, migration>>
        \/ answer.files = <<good, secret>>
    BY <1>5, <1>6
  <2>2. CASE answer.files = <<broken>> BY <1>7, <2>2
  <2>3. CASE answer.files = <<good, doc, Test, migration>> BY <1>7, <2>3
  <2>4. CASE answer.files = <<good, secret>> BY <1>7, <2>4
  <2> QED BY <2>1, <2>2, <2>3, <2>4
<1> QED BY <1>8, <1>9 DEF FeatureVerdicts

LEMMA ImplementationConforms ==
  ASSUME NEW st, NEW a \in ComputeImplementation(st),
         FeatureSelectionValid(EffectiveArtifact(st, "feature-selection")),
         ScopeDesignValid(EffectiveArtifact(st, "scope-design"))
  PROVE  /\ {"ticket", "areas", "verdict", "files", "coverage", "passed"} \subseteq DOMAIN Fields(a)
         /\ FeatureImplementationValid(a)
         /\ \A n \in 1..Len(a.files) : a.files[n].included
<1> DEFINE selection == EffectiveArtifact(st, "feature-selection")
           scope == EffectiveArtifact(st, "scope-design")
           areas == scope.areas
           ticket == scope.ticket
           included == selection.included
           most == selection.maxChangedFiles
           Within(answer) == {file \in FilesOf(answer.files) : file.area \in areas}
           Enabled(answer) == Selected(answer.files, Within(answer))
           Writable(answer) == Enabled(answer) # <<>> /\ \A p \in PathsOf(Enabled(answer)) : AllowsPath(p)
           Coverage(files) == [c \in included |-> EvidenceFor(c, files)]
           Passed(files) == Validates(files)
           from == DerivedFrom(st, {"feature-selection", "scope-design"})
           Implementation(verdict, files) ==
             [ticket |-> ticket, areas |-> areas, verdict |-> verdict, files |-> files,
              coverage |-> Coverage(files), passed |-> Passed(files), from |-> from]
           missing == ~HasArtifact(st, "feature-selection") \/ ~HasArtifact(st, "scope-design")
           bad == included = {} \/ areas = {}
           answers == {x \in FeatureEngineerAnswers : Writable(x)}
           all == {"ticket", "areas", "verdict", "files", "coverage", "passed"}
<1>1. ComputeImplementation(st) =
        IF missing THEN {}
        ELSE Unless(bad, {Implementation(answer.verdict, FirstOf(Enabled(answer), most)) : answer \in answers})
  BY DEF ComputeImplementation
<1>2. \A answer \in answers : answer \in FeatureEngineerAnswers /\ Enabled(answer) # <<>> OBVIOUS
<1>3. /\ ticket \in FeatureTickets /\ areas \subseteq FeatureAreas
      /\ most \in 1..3
  BY DEF FeatureSelectionValid, ScopeDesignValid, MaxChangedFiles
<1>4. \A files : Passed(files) \in BOOLEAN /\ DOMAIN Coverage(files) = included BY DEF Validates
<1>5. \A verdict, files : LET x == Implementation(verdict, files) IN
        /\ DOMAIN x \ {"v", "from"} = all
        /\ x.ticket = ticket /\ x.areas = areas /\ x.verdict = verdict /\ x.files = files
        /\ x.coverage = Coverage(files) /\ x.passed = Passed(files)
  <2> HIDE DEF ticket, areas, Coverage, Passed, from
  <2> QED OBVIOUS
<1> HIDE DEF Implementation, missing, answers, Enabled, Coverage, Passed
<1>6. PICK answer \in answers :
        a = Implementation(answer.verdict, FirstOf(Enabled(answer), most)) /\ ~bad
  BY <1>1 DEF Unless
<1> DEFINE first == FirstOf(Enabled(answer), most)
<1>7. Enabled(answer) \in Seq(PlannedFile) /\ Enabled(answer) # <<>>
  <2>1. answer.files \in Seq(PlannedFile) BY <1>2, EngineerConforms
  <2> DEFINE files == answer.files
             S == Within(answer)
  <2>2. Len(files) \in Nat /\ \A n \in 1..Len(files) : files[n] \in PlannedFile
    <3> HIDE DEF files
    <3> QED BY <2>1 DEF files
  <2> HIDE DEF S, files
  <2>3. /\ Selected(files, S) \in Seq(S)
        /\ \A n \in 1..Len(Selected(files, S)) :
             \E k \in 1..Len(files) : files[k] \in S /\ Selected(files, S)[n] = files[k]
    BY <2>2, SelectedIsKept
  <2>4. \A n \in 1..Len(Selected(files, S)) : Selected(files, S)[n] \in PlannedFile BY <2>2, <2>3
  <2>5. Enabled(answer) = Selected(files, S) BY DEF Enabled, files, S
  <2> DEFINE enabled == Selected(files, S)
  <2>6. enabled \in Seq(S) /\ \A n \in 1..Len(enabled) : enabled[n] \in PlannedFile BY <2>3, <2>4
  <2> HIDE DEF enabled
  <2>7. enabled \in Seq(PlannedFile) BY <2>6
  <2> QED BY <1>2, <2>5, <2>7 DEF enabled
<1> HIDE DEF most
<1>8. /\ Len(first) \in 1..3 /\ \A n \in 1..Len(first) : first[n] \in PlannedFile
  <2>1. most \in Nat \ {0} /\ most <= 3 BY <1>3
  <2>2. Len(first) \in 1..most BY <1>7, <2>1, FirstIsThere
  <2>3. \A n \in 1..Len(first) : first[n] \in PlannedFile BY <1>7, <2>1, FirstFiles
  <2> HIDE DEF first
  <2>4. Len(first) \in 1..3 BY <2>1, <2>2, Within3
  <2> QED BY <2>3, <2>4
<1>9. answer.verdict \in FeatureVerdicts BY <1>2, EngineerConforms
<1>10. /\ DOMAIN a \ {"v", "from"} = all
       /\ a.ticket = ticket /\ a.areas = areas /\ a.verdict = answer.verdict /\ a.files = first
       /\ a.coverage = Coverage(first) /\ a.passed = Passed(first)
  BY <1>5, <1>6
<1>11. all \subseteq DOMAIN Fields(a) BY <1>10 DEF Fields
<1>12. \A n \in 1..Len(first) : first[n] \in FeatureFile /\ first[n].included
  BY <1>8 DEF PlannedFile
<1>13. FilesOf(first) \subseteq FeatureFile BY <1>12 DEF FilesOf
<1> HIDE DEF first, ticket, areas, Within
<1>14. DOMAIN a.coverage # {} BY <1>4, <1>6, <1>10
<1>15. FeatureImplementationValid(a)
  BY <1>3, <1>4, <1>8, <1>9, <1>10, <1>13, <1>14 DEF FeatureImplementationValid, MaxChangedFiles
<1>16. \A n \in 1..Len(a.files) : a.files[n].included BY <1>10, <1>12
<1> QED BY <1>11, <1>15, <1>16

\* An implementation that was approved leaves a file in the plan.
LEMMA FeaturePlanStands ==
  ASSUME NEW rec, NEW f, Approved(rec, "features", 3, f)
  PROVE  LET files == EffectiveArtifact(rec, "implementation").files IN
         Len(PatchFilesInPlan(files)) \in 1..3
<1> DEFINE implementation == EffectiveArtifact(rec, "implementation")
           files == implementation.files
           plan == PatchFilesInPlan(files)
<1>0. 1 \in 1..3 /\ 2 \in 1..3 /\ 3 \in 1..3 OBVIOUS
<1>1. FeatureImplementationValid(implementation)
  BY <1>0, FeaturesWalk, Contracted DEF Contract, FeaturesContract
<1>2. Len(files) \in 1..3
  <2> HIDE DEF implementation
  <2> QED BY <1>1 DEF FeatureImplementationValid, MaxChangedFiles
<1>3. Len(plan) \in 0..Len(files) /\ (Len(plan) = 0 => plan = <<>>)
  <2> DEFINE S == {file \in FilesOf(files) : file.included}
  <2>1. plan = Selected(files, S) BY DEF PatchFilesInPlan
  <2>2. Len(files) \in Nat BY <1>2
  <2> HIDE DEF S, files, plan
  <2> QED BY <2>1, <2>2, SelectedIsKept
<1>4. plan # <<>>
  <2>1. CASE rec.dec["implementation"].action = "edit"
    <3>1. PassedOn(rec, "features", 3, f) BY <1>0 DEF Approved
    <3>2. PICK st, C : /\ Agree(st, rec, "features", 3 + 1)
                       /\ LaneGate("features", "implementation", st, Looked(f, C))
      BY <3>1, FeaturesWalk DEF PassedOn
    <3>3. /\ st.dec["implementation"] = rec.dec["implementation"]
          /\ EffectiveArtifact(st, "implementation") = implementation
      BY <3>2, FeaturesWalk DEF Agree, EffectiveArtifact
    <3>4. FeaturesGate("implementation", st) BY <3>2 DEF LaneGate
    <3> HIDE DEF implementation
    <3>5. ~EditViolations(FeaturePatch(implementation)) BY <2>1, <3>3, <3>4 DEF FeaturesGate
    <3> QED BY <3>5 DEF EditViolations, FeaturePatch
  <2>2. CASE rec.dec["implementation"].action # "edit"
    <3>1. PICK st, C, a : /\ From(rec, "features", "implementation", 3, f, st, C, a)
                          /\ Restates(implementation, a)
      BY <1>0, <2>2, FeaturesWalk, AsComputed
    <3>2. a \in ComputeImplementation(st) BY <3>1 DEF From, Compute, FeaturesCompute
    <3>3. /\ EffectiveArtifact(st, "feature-selection") = EffectiveArtifact(rec, "feature-selection")
          /\ EffectiveArtifact(st, "scope-design") = EffectiveArtifact(rec, "scope-design")
      BY <3>1, FeaturesWalk DEF From, Shows
    <3>4. /\ FeatureSelectionValid(EffectiveArtifact(rec, "feature-selection"))
          /\ ScopeDesignValid(EffectiveArtifact(rec, "scope-design"))
      <4>1. FeatureSelectionValid(EffectiveArtifact(rec, "feature-selection"))
        BY <1>0, FeaturesWalk, Contracted DEF Contract, FeaturesContract
      <4>2. ScopeDesignValid(EffectiveArtifact(rec, "scope-design"))
        BY <1>0, FeaturesWalk, Contracted DEF Contract, FeaturesContract
      <4> QED BY <4>1, <4>2
    <3>5. "files" \in DOMAIN Fields(a) /\ \A n \in 1..Len(a.files) : a.files[n].included
      BY <3>2, <3>3, <3>4, ImplementationConforms
    <3> HIDE DEF implementation
    <3>6. implementation.files = a.files BY <3>1, <3>5 DEF Restates, Fields
    <3>7. 1 \in 1..Len(files) /\ files[1].included BY <1>2, <3>5, <3>6
    <3> HIDE DEF files
    <3> QED BY <1>2, <3>7, PlanIsThere
  <2> QED BY <2>1, <2>2
<1>5. Len(plan) \in 1..3
  <2> HIDE DEF files, plan
  <2>1. Len(plan) # 0 BY <1>3, <1>4
  <2>2. Len(plan) \in 1..Len(files) BY <1>3, <2>1, Within3
  <2> QED BY <1>2, <2>2, Within3
<1> QED BY <1>5

LEMMA CompletionConforms ==
  ASSUME NEW st, NEW a \in ComputeCompletion(st),
         FeatureImplementationValid(EffectiveArtifact(st, "implementation")),
         Len(FeaturePatch(EffectiveArtifact(st, "implementation"))) \in 1..3
  PROVE  /\ {"ticket", "passed", "paths", "coverage"} \subseteq DOMAIN Fields(a)
         /\ FeatureCompletionValid(a)
<1> DEFINE implementation == EffectiveArtifact(st, "implementation")
           kept == FeaturePatch(implementation)
           ticket == implementation.ticket
           passed == implementation.passed
           branch == FeatureBranchFor(implementation.ticket)
           paths == [i \in 1..Len(kept) |-> kept[i].path]
           coverage == implementation.coverage
           from == DerivedFrom(st, {"feature-selection", "implementation"})
           all == {"ticket", "passed", "branch", "paths", "coverage"}
<1>1. a = [ticket |-> ticket, passed |-> passed, branch |-> branch, paths |-> paths,
           coverage |-> coverage, from |-> from]
  BY DEF ComputeCompletion
<1>2. ticket \in FeatureTickets /\ passed \in BOOLEAN /\ DOMAIN coverage # {}
  <2> HIDE DEF implementation
  <2> QED BY DEF FeatureImplementationValid, implementation
<1>3. Len(kept) \in 1..3 OBVIOUS
<1> HIDE DEF ticket, passed, branch, coverage, from, kept
<1>4. Len(paths) \in 1..3 BY <1>3
<1> HIDE DEF paths
<1>5. DOMAIN a \ {"v", "from"} = all BY <1>1
<1>6. a.ticket = ticket /\ a.passed = passed /\ a.paths = paths /\ a.coverage = coverage BY <1>1
<1>7. {"ticket", "passed", "paths", "coverage"} \subseteq DOMAIN Fields(a) BY <1>5 DEF Fields
<1> QED BY <1>2, <1>4, <1>6, <1>7 DEF FeatureCompletionValid, MaxChangedFiles

LEMMA FeaturesConform ==
  ASSUME NEW i \in 1..4, NEW st, NEW f \in FeaturesFacts, NEW C, Sound("features", i, st), NEW v,
         NEW rec, Approved(rec, "features", i - 1, f), Shows(st, rec, "features", i),
         NEW a \in FeaturesCompute(FeaturesSteps[i], st, Looked(f, C))
  PROVE  Contract("features", FeaturesSteps[i], WithField(a, "v", v))
<1> DEFINE w == WithField(a, "v", v)
<1>1. \A x \in DOMAIN Fields(a) : w[x] = a[x] BY StillSays
<1>2. \A j \in 1..(i - 1) : FeaturesContract(FeaturesSteps[j], EffectiveArtifact(st, FeaturesSteps[j]))
  BY FeaturesWalk DEF Sound, Contract
<1> SUFFICES FeaturesContract(FeaturesSteps[i], w) BY DEF Contract
<1> HIDE DEF w
<1>3. ASSUME i > 1
      PROVE  FeatureSelectionValid(EffectiveArtifact(st, "feature-selection"))
  <2>1. 1 \in 1..(i - 1) BY <1>3
  <2>2. FeaturesContract("feature-selection", EffectiveArtifact(st, "feature-selection"))
    BY <1>2, <2>1, FeaturesWalk
  <2> QED BY <2>2 DEF FeaturesContract
<1>4. CASE i = 1
  <2>1. a \in ComputeFeatureSelection(st, Looked(f, C)) BY <1>4, FeaturesWalk DEF FeaturesCompute
  <2>2. /\ {"ticket", "criteria", "included", "maxChangedFiles"} \subseteq DOMAIN Fields(a)
        /\ FeatureSelectionValid(a)
    BY <2>1, FeatureSelectionConforms
  <2>3. /\ w.ticket = a.ticket /\ w.criteria = a.criteria /\ w.included = a.included
        /\ w.maxChangedFiles = a.maxChangedFiles
    BY <1>1, <2>2
  <2> QED BY <1>4, <2>2, <2>3, FeaturesWalk DEF FeaturesContract, FeatureSelectionValid
<1>5. CASE i = 2
  <2>1. a \in ComputeScopeDesign(st) BY <1>5, FeaturesWalk DEF FeaturesCompute
  <2>2. {"ticket", "areas"} \subseteq DOMAIN Fields(a) /\ ScopeDesignValid(a)
    BY <1>3, <1>5, <2>1, ScopeConforms
  <2>3. w.ticket = a.ticket /\ w.areas = a.areas BY <1>1, <2>2
  <2> QED BY <1>5, <2>2, <2>3, FeaturesWalk DEF FeaturesContract, ScopeDesignValid
<1>6. CASE i = 3
  <2>1. ScopeDesignValid(EffectiveArtifact(st, "scope-design"))
    <3>1. 2 \in 1..(i - 1) BY <1>6
    <3>2. FeaturesContract("scope-design", EffectiveArtifact(st, "scope-design"))
      BY <1>2, <3>1, FeaturesWalk
    <3> QED BY <3>2 DEF FeaturesContract
  <2>2. a \in ComputeImplementation(st) BY <1>6, FeaturesWalk DEF FeaturesCompute
  <2>3. /\ {"ticket", "areas", "verdict", "files", "coverage", "passed"} \subseteq DOMAIN Fields(a)
        /\ FeatureImplementationValid(a)
    BY <1>3, <1>6, <2>1, <2>2, ImplementationConforms
  <2>4. /\ w.ticket = a.ticket /\ w.areas = a.areas /\ w.verdict = a.verdict /\ w.files = a.files
        /\ w.coverage = a.coverage /\ w.passed = a.passed
    BY <1>1, <2>3
  <2> QED BY <1>6, <2>3, <2>4, FeaturesWalk DEF FeaturesContract, FeatureImplementationValid
<1>7. CASE i = 4
  <2>1. FeatureImplementationValid(EffectiveArtifact(st, "implementation"))
    <3>1. 3 \in 1..(i - 1) BY <1>7
    <3>2. FeaturesContract("implementation", EffectiveArtifact(st, "implementation"))
      BY <1>2, <3>1, FeaturesWalk
    <3> QED BY <3>2 DEF FeaturesContract
  <2>2. Len(FeaturePatch(EffectiveArtifact(st, "implementation"))) \in 1..3
    <3>1. EffectiveArtifact(st, "implementation") = EffectiveArtifact(rec, "implementation")
      BY <1>7, FeaturesWalk DEF Shows
    <3>2. Approved(rec, "features", 3, f) BY <1>7
    <3> QED BY <3>1, <3>2, FeaturePlanStands DEF FeaturePatch
  <2>3. a \in ComputeCompletion(st) BY <1>7, FeaturesWalk DEF FeaturesCompute
  <2>4. /\ {"ticket", "passed", "paths", "coverage"} \subseteq DOMAIN Fields(a)
        /\ FeatureCompletionValid(a)
    BY <2>1, <2>2, <2>3, CompletionConforms
  <2>5. w.ticket = a.ticket /\ w.passed = a.passed /\ w.paths = a.paths /\ w.coverage = a.coverage
    BY <1>1, <2>4
  <2> QED BY <1>7, <2>4, <2>5, FeaturesWalk DEF FeaturesContract, FeatureCompletionValid
<1> QED BY <1>4, <1>5, <1>6, <1>7

-----------------------------------------------------------------------------
(* Issues *)

LEMMA IssueSelectionConforms ==
  ASSUME NEW st, NEW known, NEW a \in ComputeIssueSelection(st, known)
  PROVE  {"ticket", "test", "maxChangedFiles"} \subseteq DOMAIN Fields(a) /\ IssueSelectionValid(a)
<1> DEFINE from == DerivedFrom(st, {})
<1>1. a = [ticket |-> "own", test |-> TRUE, maxChangedFiles |-> DefaultChangedFiles, from |-> from]
  BY DEF ComputeIssueSelection, Unless
<1> HIDE DEF from
<1>2. {"ticket", "test", "maxChangedFiles"} \subseteq DOMAIN Fields(a) BY <1>1 DEF Fields
<1>3. a.ticket = "own" /\ a.test = TRUE /\ a.maxChangedFiles = DefaultChangedFiles BY <1>1
<1>4. DefaultChangedFiles \in 1..MaxChangedFiles BY DEF DefaultChangedFiles, MaxChangedFiles
<1>5. a.ticket \in IssueTickets BY <1>3 DEF IssueTickets
<1>6. a.test \in BOOLEAN BY <1>3
<1>7. IssueSelectionValid(a) BY <1>3, <1>4, <1>5, <1>6 DEF IssueSelectionValid
<1> QED BY <1>2, <1>7

\* What the analyst cites has its change described and its lines in order.
LEMMA AnalystConforms ==
  ASSUME NEW cited \in IssueAnalystAnswers
  PROVE  /\ Len(cited) \in Nat
         /\ \A n \in 1..Len(cited) : IssueAffectedFile(cited[n])
<1> DEFINE Cite(paths, i) == [path |-> paths[i], described |-> TRUE, ordered |-> TRUE]
           Cites(paths) == [i \in 1..Len(paths) |-> Cite(paths, i)]
           two == <<"secret", "app">>
           one == <<"secret">>
<1>1. \A paths, i : IssueAffectedFile(Cite(paths, i)) BY DEF IssueAffectedFile
<1>2. cited = Cites(two) \/ cited = Cites(one) BY DEF IssueAnalystAnswers
<1>3. Len(two) \in Nat /\ Len(one) \in Nat OBVIOUS
<1> HIDE DEF Cite, two, one
<1>4. CASE cited = Cites(two) BY <1>1, <1>3, <1>4
<1>5. CASE cited = Cites(one) BY <1>1, <1>3, <1>5
<1> QED BY <1>2, <1>4, <1>5

LEMMA AnalysisConforms ==
  ASSUME NEW st, NEW a \in ComputeAnalysis(st),
         IssueSelectionValid(EffectiveArtifact(st, "issue-selection"))
  PROVE  {"ticket", "affected"} \subseteq DOMAIN Fields(a) /\ IssueAnalysisValid(a)
<1> DEFINE selection == EffectiveArtifact(st, "issue-selection")
           ticket == selection.ticket
           most == selection.maxChangedFiles
           Visible(cited) == {x \in FilesOf(cited) : x.path \in InspectFiles}
           Inspected(cited) == Selected(cited, Visible(cited))
           from == DerivedFrom(st, {"issue-selection"})
           answers == {x \in IssueAnalystAnswers : Inspected(x) # <<>>}
<1>1. ComputeAnalysis(st) =
        Unless(~HasArtifact(st, "issue-selection"),
          {[ticket |-> ticket, affected |-> FirstOf(Inspected(cited), most), from |-> from] : cited \in answers})
  BY DEF ComputeAnalysis
<1>2. \A cited \in answers : cited \in IssueAnalystAnswers /\ Inspected(cited) # <<>> OBVIOUS
<1>3. ticket \in IssueTickets /\ most \in 1..3 BY DEF IssueSelectionValid, MaxChangedFiles
<1> HIDE DEF Inspected, answers, ticket, most, from
<1>4. PICK cited \in answers :
        a = [ticket |-> ticket, affected |-> FirstOf(Inspected(cited), most), from |-> from]
  BY <1>1 DEF Unless
<1> DEFINE inspected == Inspected(cited)
           affected == FirstOf(inspected, most)
           All == {cited[n] : n \in 1..Len(cited)}
<1>5. inspected \in Seq(All) /\ inspected # <<>>
  <2> DEFINE S == Visible(cited)
  <2>1. Len(cited) \in Nat BY <1>2, AnalystConforms
  <2> HIDE DEF S
  <2>2. /\ Selected(cited, S) \in Seq(S)
        /\ \A n \in 1..Len(Selected(cited, S)) :
             \E k \in 1..Len(cited) : cited[k] \in S /\ Selected(cited, S)[n] = cited[k]
    BY <2>1, SelectedIsKept
  <2>3. inspected = Selected(cited, S) BY DEF Inspected, S
  <2> HIDE DEF inspected
  <2>4. inspected \in Seq(S) /\ \A n \in 1..Len(inspected) : inspected[n] \in All BY <2>2, <2>3
  <2> HIDE DEF All
  <2>5. inspected \in Seq(All) BY <2>4
  <2>6. inspected # <<>> BY <1>2 DEF inspected
  <2> QED BY <2>5, <2>6 DEF inspected
<1>6. \A x \in All : IssueAffectedFile(x) BY <1>2, AnalystConforms
<1> HIDE DEF inspected, All
<1>7. most \in Nat \ {0} BY <1>3
<1>8. Len(affected) \in 1..most BY <1>5, <1>7, FirstIsThere
<1>9. \A n \in 1..Len(affected) : affected[n] \in All BY <1>5, <1>7, FirstFiles
<1>10. a = [ticket |-> ticket, affected |-> affected, from |-> from] BY <1>4 DEF inspected
<1> HIDE DEF affected
<1>11. Len(affected) \in 1..3 BY <1>3, <1>8, Within3
<1>12. \A x \in FilesOf(affected) : IssueAffectedFile(x) BY <1>6, <1>9 DEF FilesOf
<1>13. {"ticket", "affected"} \subseteq DOMAIN Fields(a) BY <1>10 DEF Fields
<1>14. a.ticket = ticket /\ a.affected = affected BY <1>10
<1> QED BY <1>3, <1>11, <1>12, <1>13, <1>14 DEF IssueAnalysisValid, MaxChangedFiles

\* What the engineer writes is in the plan.
LEMMA FixerConforms ==
  ASSUME NEW answer \in IssueEngineerAnswers
  PROVE  /\ Len(answer.files) \in 1..3 /\ \A n \in 1..Len(answer.files) : answer.files[n].included
         /\ Len(answer.test) \in 0..1
<1> DEFINE NewFile(path, content) == [path |-> path, content |-> content, included |-> TRUE]
           Answer(files, test) == [files |-> files, test |-> test]
           App(content) == NewFile("app", content)
           Test(content) == <<NewFile("test", content)>>
<1>1. \A x, y : Answer(x, y).test = y /\ Answer(x, y).files = x OBVIOUS
<1>2. \A path, content : NewFile(path, content).included OBVIOUS
<1>3. \A content : Len(Test(content)) = 1
  <2> HIDE DEF NewFile
  <2> QED OBVIOUS
<1>4. Len(<<>>) = 0 OBVIOUS
<1>5. \A x, y : Len(<<x>>) = 1 /\ <<x>>[1] = x /\ Len(<<x, y>>) = 2 /\ <<x, y>>[1] = x /\ <<x, y>>[2] = y
  OBVIOUS
<1>6. \/ answer = Answer(<<App("good")>>, Test("good")) \/ answer = Answer(<<App("broken")>>, Test("good"))
      \/ answer = Answer(<<App("good")>>, Test("broken"))
      \/ answer = Answer(<<App("good"), NewFile("api", "good")>>, Test("good"))
      \/ answer = Answer(<<App("good")>>, <<>>)
      \/ answer = Answer(<<NewFile("secret", "good")>>, Test("good"))
  <2> HIDE DEF Answer, Test, NewFile
  <2> QED BY DEF IssueEngineerAnswers, Answer, Test, NewFile
<1> HIDE DEF Answer, Test, NewFile
<1>7. /\ (\E content : answer.test = Test(content)) \/ answer.test = <<>>
      /\ \/ \E p, c : answer.files = <<NewFile(p, c)>>
         \/ \E p, c, q, d : answer.files = <<NewFile(p, c), NewFile(q, d)>>
  BY <1>1, <1>6
<1>8. Len(answer.test) \in 0..1 BY <1>3, <1>4, <1>7
<1>9. CASE \E p, c : answer.files = <<NewFile(p, c)>>
  <2>1. PICK p, c : answer.files = <<NewFile(p, c)>> BY <1>9
  <2>2. Len(answer.files) = 1 /\ answer.files[1].included BY <1>2, <1>5, <2>1
  <2> QED BY <1>8, <2>2
<1>10. CASE \E p, c, q, d : answer.files = <<NewFile(p, c), NewFile(q, d)>>
  <2>1. PICK p, c, q, d : answer.files = <<NewFile(p, c), NewFile(q, d)>> BY <1>10
  <2>2. Len(answer.files) = 2 /\ answer.files[1].included /\ answer.files[2].included
    BY <1>2, <1>5, <2>1
  <2> QED BY <1>8, <2>2
<1> QED BY <1>7, <1>9, <1>10

LEMMA FixConforms ==
  ASSUME NEW st, NEW a \in ComputeFix(st), IssueSelectionValid(EffectiveArtifact(st, "issue-selection"))
  PROVE  /\ {"ticket", "files", "test", "passed"} \subseteq DOMAIN Fields(a)
         /\ IssueImplementationValid(a)
         /\ \A n \in 1..Len(a.files) : a.files[n].included
<1> DEFINE selection == EffectiveArtifact(st, "issue-selection")
           test == selection.test
           ticket == selection.ticket
           Regression(answer) == IF test THEN answer.test ELSE <<>>
           Taken(answer) == /\ test => answer.test # <<>>
                            /\ \A p \in PathsOf(answer.files \o Regression(answer)) : AllowsPath(p)
           missing == ~HasArtifact(st, "issue-selection") \/ ~HasArtifact(st, "analysis")
           from == DerivedFrom(st, {"issue-selection", "analysis"})
           Passed(answer) == Validates(answer.files)
           Fixed(answer) == [ticket |-> ticket, files |-> answer.files, test |-> Regression(answer),
                             passed |-> Passed(answer), from |-> from]
           answers == {x \in IssueEngineerAnswers : Taken(x)}
           all == {"ticket", "files", "test", "passed"}
<1>1. ComputeFix(st) = IF missing THEN {} ELSE {Fixed(answer) : answer \in answers}
  BY DEF ComputeFix
<1>2. answers \subseteq IssueEngineerAnswers OBVIOUS
<1>3. ticket \in IssueTickets BY DEF IssueSelectionValid
<1>4. \A answer : Passed(answer) \in BOOLEAN BY DEF Validates
<1>5. \A answer \in answers : Len(Regression(answer)) \in 0..1
  <2>1. Len(<<>>) = 0 OBVIOUS
  <2> HIDE DEF answers
  <2> QED BY <1>2, <2>1, FixerConforms
<1>6. \A answer : LET x == Fixed(answer) IN
        /\ DOMAIN x \ {"v", "from"} = all
        /\ x.ticket = ticket /\ x.files = answer.files /\ x.test = Regression(answer)
        /\ x.passed = Passed(answer)
  <2> HIDE DEF Regression, Passed, ticket, from
  <2> QED OBVIOUS
<1> HIDE DEF Fixed, answers, missing, Regression, Passed, ticket
<1>7. PICK answer \in answers : a = Fixed(answer) BY <1>1
<1>8. /\ Len(answer.files) \in 1..3 /\ \A n \in 1..Len(answer.files) : answer.files[n].included
  BY <1>2, FixerConforms
<1>9. /\ DOMAIN a \ {"v", "from"} = all
      /\ a.ticket = ticket /\ a.files = answer.files /\ a.test = Regression(answer)
      /\ a.passed = Passed(answer)
  BY <1>6, <1>7
<1>10. all \subseteq DOMAIN Fields(a) BY <1>9 DEF Fields
<1>11. \A n \in 1..Len(a.files) : a.files[n].included BY <1>8, <1>9
<1>12. IssueImplementationValid(a)
  BY <1>3, <1>4, <1>5, <1>8, <1>9 DEF IssueImplementationValid, MaxChangedFiles
<1> QED BY <1>10, <1>11, <1>12

LEMMA OneLonger ==
  ASSUME NEW n \in 1..3, NEW m, m = n + 1
  PROVE  m \in 1..4
OBVIOUS

\* A fix that was approved has a file in the patch.
LEMMA FixPatchStands ==
  ASSUME NEW rec, NEW f, Approved(rec, "issues", 3, f)
  PROVE  Len(FixPatch(EffectiveArtifact(rec, "implementation"))) \in 1..4
<1> DEFINE implementation == EffectiveArtifact(rec, "implementation")
           files == implementation.files
           test == implementation.test
           plan == PatchFilesInPlan(files)
           S == {file \in FilesOf(files) : file.included}
<1>0. 1 \in 1..3 /\ 2 \in 1..3 /\ 3 \in 1..3 OBVIOUS
<1>1. IssueImplementationValid(implementation)
  BY <1>0, IssuesWalk, Contracted DEF Contract, IssuesContract
<1>2. Len(files) \in 1..3 /\ Len(test) \in 0..1
  <2> HIDE DEF implementation
  <2> QED BY <1>1 DEF IssueImplementationValid, MaxChangedFiles
<1>3. OneOrNone(test) BY <1>0, FixHasItsTest
<1>4. Len(plan) \in 0..Len(files) /\ (Len(plan) = 0 => plan = <<>>) /\ plan \in Seq(S)
  <2>1. plan = Selected(files, S) BY DEF PatchFilesInPlan
  <2>2. Len(files) \in Nat BY <1>2
  <2> HIDE DEF S, files, plan
  <2> QED BY <2>1, <2>2, SelectedIsKept
<1>5. plan # <<>>
  <2>1. CASE rec.dec["implementation"].action = "edit"
    <3>1. PassedOn(rec, "issues", 3, f) BY <1>0 DEF Approved
    <3>2. PICK st, C : /\ Agree(st, rec, "issues", 3 + 1)
                       /\ LaneGate("issues", "implementation", st, Looked(f, C))
      BY <3>1, IssuesWalk DEF PassedOn
    <3>3. /\ st.dec["implementation"] = rec.dec["implementation"]
          /\ EffectiveArtifact(st, "implementation") = implementation
      BY <3>2, IssuesWalk DEF Agree, EffectiveArtifact
    <3>4. FixEditGate(st) BY <3>2 DEF LaneGate, IssuesGate
    <3> HIDE DEF implementation
    <3> QED BY <2>1, <3>3, <3>4 DEF FixEditGate
  <2>2. CASE rec.dec["implementation"].action # "edit"
    <3>1. PICK st, C, a : /\ From(rec, "issues", "implementation", 3, f, st, C, a)
                          /\ Restates(implementation, a)
      BY <1>0, <2>2, IssuesWalk, AsComputed
    <3>2. a \in ComputeFix(st) BY <3>1 DEF From, Compute, IssuesCompute
    <3>3. EffectiveArtifact(st, "issue-selection") = EffectiveArtifact(rec, "issue-selection")
      BY <3>1, IssuesWalk DEF From, Shows
    <3>4. IssueSelectionValid(EffectiveArtifact(rec, "issue-selection"))
      BY <1>0, IssuesWalk, Contracted DEF Contract, IssuesContract
    <3>5. "files" \in DOMAIN Fields(a) /\ \A n \in 1..Len(a.files) : a.files[n].included
      BY <3>2, <3>3, <3>4, FixConforms
    <3> HIDE DEF implementation
    <3>6. implementation.files = a.files BY <3>1, <3>5 DEF Restates, Fields
    <3>7. 1 \in 1..Len(files) /\ files[1].included BY <1>2, <3>5, <3>6
    <3> HIDE DEF files
    <3> QED BY <1>2, <3>7, PlanIsThere
  <2> QED BY <2>1, <2>2
<1> HIDE DEF S, files, plan
<1>6. Len(plan) \in 1..3
  <2>1. Len(plan) # 0 BY <1>4, <1>5
  <2>2. Len(plan) \in 1..Len(files) BY <1>4, <2>1, Within3
  <2> QED BY <1>2, <2>2, Within3
<1> DEFINE patch == FixPatch(implementation)
<1>7. patch = plan \o test BY DEF FixPatch, plan, files
<1> HIDE DEF implementation, test, patch
<1>10. SUFFICES Len(patch) \in 1..4 BY DEF patch, implementation
<1>8. CASE test = <<>>
  <2>1. plan \o test = plan BY <1>4, <1>8
  <2>2. Len(patch) = Len(plan) BY <1>7, <2>1
  <2>3. 1..3 \subseteq 1..4 OBVIOUS
  <2> QED BY <1>6, <2>2, <2>3
<1>9. CASE test # <<>>
  <2>1. PICK x : test = <<x>> BY <1>3, <1>9 DEF OneOrNone
  <2> DEFINE T == S \union {x}
  <2>2. plan \in Seq(T) /\ test \in Seq(T)
    <3>1. <<x>> \in Seq({x}) OBVIOUS
    <3> QED BY <1>4, <2>1, <3>1
  <2> HIDE DEF T
  <2>3. Len(plan \o test) = Len(plan) + Len(test) BY <2>2, JoinedPlaces
  <2>4. Len(test) = 1 BY <2>1
  <2>5. Len(patch) = Len(plan) + 1 BY <1>7, <2>3, <2>4
  <2> QED BY <1>6, <2>5, OneLonger
<1> QED BY <1>8, <1>9

LEMMA FixCompletionConforms ==
  ASSUME NEW st, NEW a \in ComputeFixCompletion(st),
         IssueSelectionValid(EffectiveArtifact(st, "issue-selection")),
         IssueImplementationValid(EffectiveArtifact(st, "implementation")),
         Len(FixPatch(EffectiveArtifact(st, "implementation"))) \in 1..4
  PROVE  /\ {"ticket", "paths", "test", "passed"} \subseteq DOMAIN Fields(a)
         /\ IssueCompletionValid(a)
<1> DEFINE selection == EffectiveArtifact(st, "issue-selection")
           implementation == EffectiveArtifact(st, "implementation")
           patch == FixPatch(implementation)
           ticket == selection.ticket
           branch == IssueBranchFor(selection.ticket)
           paths == [i \in 1..Len(patch) |-> patch[i].path]
           test == implementation.test # <<>>
           passed == implementation.passed
           from == DerivedFrom(st, {"issue-selection", "implementation"})
           all == {"ticket", "branch", "paths", "test", "passed"}
<1>1. a = [ticket |-> ticket, branch |-> branch, paths |-> paths, test |-> test,
           passed |-> passed, from |-> from]
  BY DEF ComputeFixCompletion
<1>2. ticket \in IssueTickets /\ test \in BOOLEAN BY DEF IssueSelectionValid
<1>3. passed \in BOOLEAN BY DEF IssueImplementationValid
<1>4. Len(patch) \in 1..4 OBVIOUS
<1> HIDE DEF ticket, branch, test, passed, from, patch
<1>5. Len(paths) \in 1..4 BY <1>4
<1> HIDE DEF paths
<1>6. DOMAIN a \ {"v", "from"} = all BY <1>1
<1>7. a.ticket = ticket /\ a.paths = paths /\ a.test = test /\ a.passed = passed BY <1>1
<1>8. {"ticket", "paths", "test", "passed"} \subseteq DOMAIN Fields(a) BY <1>6 DEF Fields
<1>9. MaxChangedFiles + 1 = 4 BY DEF MaxChangedFiles
<1> QED BY <1>2, <1>3, <1>5, <1>7, <1>8, <1>9 DEF IssueCompletionValid

LEMMA IssuesConform ==
  ASSUME NEW i \in 1..4, NEW st, NEW f, NEW C, Sound("issues", i, st), NEW v,
         NEW rec, Approved(rec, "issues", i - 1, f), Shows(st, rec, "issues", i),
         NEW a \in IssuesCompute(IssuesSteps[i], st, Looked(f, C))
  PROVE  Contract("issues", IssuesSteps[i], WithField(a, "v", v))
<1> DEFINE w == WithField(a, "v", v)
<1>1. \A x \in DOMAIN Fields(a) : w[x] = a[x] BY StillSays
<1>2. \A j \in 1..(i - 1) : IssuesContract(IssuesSteps[j], EffectiveArtifact(st, IssuesSteps[j]))
  BY IssuesWalk DEF Sound, Contract
<1> SUFFICES IssuesContract(IssuesSteps[i], w) BY DEF Contract
<1> HIDE DEF w
<1>3. ASSUME i > 1
      PROVE  IssueSelectionValid(EffectiveArtifact(st, "issue-selection"))
  <2>1. 1 \in 1..(i - 1) BY <1>3
  <2>2. IssuesContract("issue-selection", EffectiveArtifact(st, "issue-selection"))
    BY <1>2, <2>1, IssuesWalk
  <2> QED BY <2>2 DEF IssuesContract
<1>4. CASE i = 1
  <2>1. a \in ComputeIssueSelection(st, Looked(f, C)) BY <1>4, IssuesWalk DEF IssuesCompute
  <2>2. {"ticket", "test", "maxChangedFiles"} \subseteq DOMAIN Fields(a) /\ IssueSelectionValid(a)
    BY <2>1, IssueSelectionConforms
  <2>3. w.ticket = a.ticket /\ w.test = a.test /\ w.maxChangedFiles = a.maxChangedFiles BY <1>1, <2>2
  <2> QED BY <1>4, <2>2, <2>3, IssuesWalk DEF IssuesContract, IssueSelectionValid
<1>5. CASE i = 2
  <2>1. a \in ComputeAnalysis(st) BY <1>5, IssuesWalk DEF IssuesCompute
  <2>2. {"ticket", "affected"} \subseteq DOMAIN Fields(a) /\ IssueAnalysisValid(a)
    BY <1>3, <1>5, <2>1, AnalysisConforms
  <2>3. w.ticket = a.ticket /\ w.affected = a.affected BY <1>1, <2>2
  <2> QED BY <1>5, <2>2, <2>3, IssuesWalk DEF IssuesContract, IssueAnalysisValid
<1>6. CASE i = 3
  <2>1. a \in ComputeFix(st) BY <1>6, IssuesWalk DEF IssuesCompute
  <2>2. /\ {"ticket", "files", "test", "passed"} \subseteq DOMAIN Fields(a)
        /\ IssueImplementationValid(a)
    BY <1>3, <1>6, <2>1, FixConforms
  <2>3. w.ticket = a.ticket /\ w.files = a.files /\ w.test = a.test /\ w.passed = a.passed
    BY <1>1, <2>2
  <2> QED BY <1>6, <2>2, <2>3, IssuesWalk DEF IssuesContract, IssueImplementationValid
<1>7. CASE i = 4
  <2>1. IssueImplementationValid(EffectiveArtifact(st, "implementation"))
    <3>1. 3 \in 1..(i - 1) BY <1>7
    <3>2. IssuesContract("implementation", EffectiveArtifact(st, "implementation"))
      BY <1>2, <3>1, IssuesWalk
    <3> QED BY <3>2 DEF IssuesContract
  <2>2. Len(FixPatch(EffectiveArtifact(st, "implementation"))) \in 1..4
    <3>1. EffectiveArtifact(st, "implementation") = EffectiveArtifact(rec, "implementation")
      BY <1>7, IssuesWalk DEF Shows
    <3>2. Approved(rec, "issues", 3, f) BY <1>7
    <3> QED BY <3>1, <3>2, FixPatchStands
  <2>3. a \in ComputeFixCompletion(st) BY <1>7, IssuesWalk DEF IssuesCompute
  <2>4. /\ {"ticket", "paths", "test", "passed"} \subseteq DOMAIN Fields(a)
        /\ IssueCompletionValid(a)
    BY <1>3, <1>7, <2>1, <2>2, <2>3, FixCompletionConforms
  <2>5. w.ticket = a.ticket /\ w.paths = a.paths /\ w.test = a.test /\ w.passed = a.passed
    BY <1>1, <2>4
  <2> QED BY <1>7, <2>4, <2>5, IssuesWalk DEF IssuesContract, IssueCompletionValid
<1> QED BY <1>4, <1>5, <1>6, <1>7

-----------------------------------------------------------------------------
(* Dependencies *)

LEMMA ScanConforms ==
  ASSUME NEW st, NEW f \in DependenciesFacts, NEW C, NEW a \in ComputeScan(st, Looked(f, C))
  PROVE  {"packages"} \subseteq DOMAIN Fields(a) /\ ScanValid(a)
<1> DEFINE Input(listed, outdated) == [listed |-> listed, outdated |-> outdated]
           packages == Looked(f, C).outdated
           from == DerivedFrom(st, {})
<1>1. \E listed \in BOOLEAN, outdated \in SUBSET BumpPackages : f = Input(listed, outdated)
  <2>1. f \in {Input(TRUE, BumpPackages), Input(TRUE, {}), Input(FALSE, {})} BY DEF DependenciesFacts
  <2> HIDE DEF Input
  <2> QED BY <2>1
<1>2. f.outdated \subseteq BumpPackages /\ "outdated" \in DOMAIN f BY <1>1
<1>3. packages \subseteq BumpPackages BY <1>2, LookedUp
<1>4. a = [packages |-> packages, from |-> from] BY DEF ComputeScan, Unless
<1> HIDE DEF packages, from
<1>5. {"packages"} \subseteq DOMAIN Fields(a) BY <1>4 DEF Fields
<1>6. a.packages = packages BY <1>4
<1> QED BY <1>3, <1>5, <1>6 DEF ScanValid

LEMMA GroupConforms ==
  ASSUME NEW st, NEW a \in ComputeGroup(st)
  PROVE  {"rows", "pinned"} \subseteq DOMAIN Fields(a) /\ GroupValid(a)
<1> DEFINE outdated == EffectiveArtifact(st, "scan").packages
           Row(p) == [group |-> JumpFor(p), excluded |-> FALSE, reasoned |-> FALSE]
           rows == [p \in outdated |-> Row(p)]
           from == DerivedFrom(st, {"scan"})
<1>1. a = [rows |-> rows, pinned |-> TRUE, from |-> from] BY DEF ComputeGroup, Unless
<1>2. \A p : Row(p) \in GroupRow
  <2>1. \A p : JumpFor(p) \in JumpKind BY DEF JumpFor, JumpKind
  <2> QED BY <2>1 DEF GroupRow
<1> HIDE DEF Row, outdated, from
<1>3. \A p \in DOMAIN rows : rows[p] \in GroupRow BY <1>2
<1> HIDE DEF rows
<1>4. {"rows", "pinned"} \subseteq DOMAIN Fields(a) BY <1>1 DEF Fields
<1>5. a.rows = rows /\ a.pinned = TRUE BY <1>1
<1> QED BY <1>3, <1>4, <1>5 DEF GroupValid

LEMMA ApplyConforms ==
  ASSUME NEW st, NEW a \in ComputeApply(st), GroupValid(EffectiveArtifact(st, "group"))
  PROVE  {"rows", "pinned"} \subseteq DOMAIN Fields(a) /\ ApplyValid(a)
<1> DEFINE grouping == EffectiveArtifact(st, "group")
           Row(p) == [group |-> grouping.rows[p].group, included |-> TRUE]
           kept == KeptIn(grouping)
           rows == [p \in kept |-> Row(p)]
           accepted == GroupsOf(rows)
           from == DerivedFrom(st, {"group"})
           bad == ~AssertExcludeReasons(grouping) \/ kept = {}
           said == [rows |-> rows, accepted |-> accepted, pinned |-> TRUE, from |-> from]
<1>1. ComputeApply(st) = IF ~HasArtifact(st, "group") THEN {} ELSE Unless(bad, {said})
  BY DEF ComputeApply
<1>2. ASSUME NEW p \in kept
      PROVE  Row(p) \in ApplyRow
  <2> HIDE DEF grouping
  <2>1. grouping.rows[p] \in GroupRow BY DEF GroupValid, KeptIn, grouping
  <2>2. grouping.rows[p].group \in JumpKind BY <2>1 DEF GroupRow
  <2> QED BY <2>2 DEF ApplyRow
<1> HIDE DEF Row
<1>3. DOMAIN rows = kept /\ \A p \in kept : rows[p] = Row(p) OBVIOUS
<1> HIDE DEF kept, rows, accepted, from, said
<1>4. a = said /\ kept # {} BY <1>1 DEF Unless
<1>5. {"rows", "pinned"} \subseteq DOMAIN Fields(a) BY <1>4 DEF Fields, said
<1>6. a.rows = rows /\ a.pinned = TRUE BY <1>4 DEF said
<1>7. DOMAIN a.rows # {} /\ \A p \in DOMAIN a.rows : a.rows[p] \in ApplyRow BY <1>2, <1>3, <1>4, <1>6
<1> QED BY <1>5, <1>6, <1>7 DEF ApplyValid

LEMMA GroupsAreJumps ==
  ASSUME NEW apply, ApplyValid(apply)
  PROVE  GroupsOf(apply.rows) \subseteq JumpKind /\ GroupsOf(apply.rows) # {}
<1>1. \A p \in DOMAIN apply.rows : apply.rows[p].group \in JumpKind BY DEF ApplyValid, ApplyRow
<1>2. DOMAIN apply.rows # {} BY DEF ApplyValid
<1> QED BY <1>1, <1>2 DEF GroupsOf

LEMMA ValidateConforms ==
  ASSUME NEW st, NEW a \in ComputeValidate(st), ApplyValid(EffectiveArtifact(st, "apply"))
  PROVE  {"status", "skipped"} \subseteq DOMAIN Fields(a) /\ ValidateValid(a)
<1> DEFINE apply == EffectiveArtifact(st, "apply")
           left == LeftOn(apply)
           groups == GroupsOf(apply.rows)
           Status(g, failing) ==
             IF g \notin left THEN "skipped" ELSE IF g \in failing THEN "failed" ELSE "green"
           from == DerivedFrom(st, {"apply"})
<1>1. PICK failing \in SUBSET left :
        a = [status |-> [g \in groups |-> Status(g, failing)], skipped |-> groups \ left, from |-> from]
  BY DEF ComputeValidate
<1>2. \A g : Status(g, failing) \in {"green", "failed", "skipped"} OBVIOUS
<1>3. groups \subseteq JumpKind /\ groups # {} BY GroupsAreJumps
<1> HIDE DEF groups, left, Status, from
<1> DEFINE status == [g \in groups |-> Status(g, failing)]
           skipped == groups \ left
<1>4. DOMAIN status = groups /\ \A g \in groups : status[g] \in {"green", "failed", "skipped"} BY <1>2
<1>5. skipped \subseteq JumpKind BY <1>3
<1>6. a = [status |-> status, skipped |-> skipped, from |-> from] BY <1>1
<1> HIDE DEF status, skipped
<1>7. {"status", "skipped"} \subseteq DOMAIN Fields(a) BY <1>6 DEF Fields
<1>8. a.status = status /\ a.skipped = skipped BY <1>6
<1> QED BY <1>3, <1>4, <1>5, <1>7, <1>8 DEF ValidateValid

LEMMA MergeConforms ==
  ASSUME NEW st, NEW a \in ComputeMerge(st), ApplyValid(EffectiveArtifact(st, "apply"))
  PROVE  {"previews"} \subseteq DOMAIN Fields(a) /\ MergeValid(a)
<1> DEFINE apply == EffectiveArtifact(st, "apply")
           validate == EffectiveArtifact(st, "validate")
           planned == LeftOn(apply) \ validate.skipped
           Preview(packages) == [packages |-> packages, cveFixes |-> packages \intersect Vulnerable]
           previews == [g \in planned |-> Preview(IncludedIn(apply, g))]
           from == DerivedFrom(st, {"apply", "validate"})
           red == \E g \in DOMAIN validate.status \ validate.skipped : validate.status[g] # "green"
           bad == planned = {} \/ red
           missing == ~HasArtifact(st, "apply") \/ ~HasArtifact(st, "validate")
           said == [previews |-> previews, from |-> from]
<1>1. ComputeMerge(st) = IF missing THEN {} ELSE Unless(bad, {said}) BY DEF ComputeMerge
<1>2. \A packages : Preview(packages).packages = packages OBVIOUS
<1>3. \A g \in planned : g \in JumpKind /\ IncludedIn(apply, g) # {}
  <2>1. \A g \in planned : g \in GroupsOf(apply.rows) /\ IncludedIn(apply, g) # {} BY DEF LeftOn
  <2> HIDE DEF planned
  <2>2. GroupsOf(apply.rows) \subseteq JumpKind BY GroupsAreJumps
  <2> QED BY <2>1, <2>2
<1> HIDE DEF planned, Preview, missing, red, from
<1>4. DOMAIN previews = planned /\ \A g \in planned : previews[g] = Preview(IncludedIn(apply, g))
  OBVIOUS
<1> HIDE DEF previews, said, apply
<1>5. a = said /\ planned # {} BY <1>1 DEF Unless
<1>6. a.previews = previews BY <1>5 DEF said
<1>7. {"previews"} \subseteq DOMAIN Fields(a) BY <1>5 DEF Fields, said
<1>8. \A g \in planned : previews[g].packages # {} BY <1>2, <1>3, <1>4
<1> QED BY <1>3, <1>4, <1>5, <1>6, <1>7, <1>8 DEF MergeValid

LEMMA DependenciesConform ==
  ASSUME NEW i \in 1..5, NEW st, NEW f \in DependenciesFacts, NEW C, Sound("dependencies", i, st), NEW v,
         NEW a \in DependenciesCompute(DependenciesSteps[i], st, Looked(f, C))
  PROVE  Contract("dependencies", DependenciesSteps[i], WithField(a, "v", v))
<1> DEFINE w == WithField(a, "v", v)
<1>1. \A x \in DOMAIN Fields(a) : w[x] = a[x] BY StillSays
<1>2. \A j \in 1..(i - 1) :
        DependenciesContract(DependenciesSteps[j], EffectiveArtifact(st, DependenciesSteps[j]))
  BY DependenciesWalk DEF Sound, Contract
<1> SUFFICES DependenciesContract(DependenciesSteps[i], w) BY DEF Contract
<1> HIDE DEF w
<1>3. ASSUME i > 3
      PROVE  ApplyValid(EffectiveArtifact(st, "apply"))
  <2>1. 3 \in 1..(i - 1) BY <1>3
  <2>2. DependenciesContract("apply", EffectiveArtifact(st, "apply")) BY <1>2, <2>1, DependenciesWalk
  <2> QED BY <2>2 DEF DependenciesContract
<1>4. CASE i = 1
  <2>1. {"packages"} \subseteq DOMAIN Fields(a) /\ ScanValid(a)
    BY <1>4, DependenciesWalk, ScanConforms DEF DependenciesCompute
  <2>2. w.packages = a.packages BY <1>1, <2>1
  <2> QED BY <1>4, <2>1, <2>2, DependenciesWalk DEF DependenciesContract, ScanValid
<1>5. CASE i = 2
  <2>1. {"rows", "pinned"} \subseteq DOMAIN Fields(a) /\ GroupValid(a)
    BY <1>5, DependenciesWalk, GroupConforms DEF DependenciesCompute
  <2>2. w.rows = a.rows /\ w.pinned = a.pinned BY <1>1, <2>1
  <2> QED BY <1>5, <2>1, <2>2, DependenciesWalk DEF DependenciesContract, GroupValid
<1>6. CASE i = 3
  <2>1. GroupValid(EffectiveArtifact(st, "group"))
    <3>1. 2 \in 1..(i - 1) BY <1>6
    <3>2. DependenciesContract("group", EffectiveArtifact(st, "group")) BY <1>2, <3>1, DependenciesWalk
    <3> QED BY <3>2 DEF DependenciesContract
  <2>2. {"rows", "pinned"} \subseteq DOMAIN Fields(a) /\ ApplyValid(a)
    BY <1>6, <2>1, DependenciesWalk, ApplyConforms DEF DependenciesCompute
  <2>3. w.rows = a.rows /\ w.pinned = a.pinned BY <1>1, <2>2
  <2> QED BY <1>6, <2>2, <2>3, DependenciesWalk DEF DependenciesContract, ApplyValid
<1>7. CASE i = 4
  <2>1. {"status", "skipped"} \subseteq DOMAIN Fields(a) /\ ValidateValid(a)
    BY <1>3, <1>7, DependenciesWalk, ValidateConforms DEF DependenciesCompute
  <2>2. w.status = a.status /\ w.skipped = a.skipped BY <1>1, <2>1
  <2> QED BY <1>7, <2>1, <2>2, DependenciesWalk DEF DependenciesContract, ValidateValid
<1>8. CASE i = 5
  <2>1. {"previews"} \subseteq DOMAIN Fields(a) /\ MergeValid(a)
    BY <1>3, <1>8, DependenciesWalk, MergeConforms DEF DependenciesCompute
  <2>2. w.previews = a.previews BY <1>1, <2>1
  <2> QED BY <1>8, <2>1, <2>2, DependenciesWalk DEF DependenciesContract, MergeValid
<1> QED BY <1>4, <1>5, <1>6, <1>7, <1>8

-----------------------------------------------------------------------------
(* Accessibility *)

LEMMA CrawlConforms ==
  ASSUME NEW st, NEW known, NEW a \in ComputeCrawl(st, known)
  PROVE  {"routes", "selected"} \subseteq DOMAIN Fields(a) /\ CrawlValid(a)
<1> DEFINE from == DerivedFrom(st, {})
<1>1. a = [routes |-> SiteRoutes, selected |-> SiteRoutes, from |-> from] BY DEF ComputeCrawl, Unless
<1> HIDE DEF from
<1>2. {"routes", "selected"} \subseteq DOMAIN Fields(a) BY <1>1 DEF Fields
<1>3. a.routes = SiteRoutes /\ a.selected = SiteRoutes BY <1>1
<1> QED BY <1>2, <1>3 DEF CrawlValid

LEMMA AuditFinds ==
  ASSUME NEW routes, NEW known
  PROVE  AuditOf(routes, known) \subseteq ViolationIdentity
<1>1. AuditOf(routes, known) \subseteq {"alt", "focus", "label"} BY DEF AuditOf
<1> QED BY <1>1 DEF ViolationIdentity

LEMMA ViolationsConform ==
  ASSUME NEW st, NEW known, NEW a \in ComputeViolations(st, known)
  PROVE  {"violations"} \subseteq DOMAIN Fields(a) /\ ViolationsValid(a)
<1> DEFINE found == AuditOf(EffectiveArtifact(st, "crawl").selected, known)
           from == DerivedFrom(st, {"crawl"})
<1>1. a = [violations |-> found, from |-> from] BY DEF ComputeViolations, Unless
<1>2. found \subseteq ViolationIdentity BY AuditFinds
<1> HIDE DEF found, from
<1>3. {"violations"} \subseteq DOMAIN Fields(a) BY <1>1 DEF Fields
<1>4. a.violations = found BY <1>1
<1> QED BY <1>2, <1>3, <1>4 DEF ViolationsValid

\* A draft is of a known violation, with files the fixer writes well.
WellDrafted(draft) ==
  /\ draft.violation \in ViolationIdentity
  /\ Len(draft.files) \in Nat /\ \A n \in 1..Len(draft.files) : draft.files[n] \in FixFile

LEMMA DraftsConform ==
  ASSUME NEW drafts \in FixerAnswers
  PROVE  Len(drafts) \in Nat /\ \A n \in 1..Len(drafts) : WellDrafted(drafts[n])
<1> DEFINE Written(path) == [path |-> path, content |-> "good"]
           Draft(violation, path, manual) ==
             [violation |-> violation, manual |-> manual, files |-> <<Written(path)>>]
           Alt == Draft("alt", "app", FALSE)
           Redesign == Draft("alt", "app", TRUE)
           Unlabelled == Draft("label", "secret", FALSE)
           Focus == Draft("focus", "app", FALSE)
           Trap == Draft("trap", "app", FALSE)
<1>1. ASSUME NEW violation \in ViolationIdentity, NEW path \in {"app", "secret"}, NEW manual
      PROVE  WellDrafted(Draft(violation, path, manual))
  <2> DEFINE draft == Draft(violation, path, manual)
             file == Written(path)
  <2>1. file \in FixFile BY DEF FixFile
  <2>2. draft.violation = violation /\ draft.files = <<file>> OBVIOUS
  <2> HIDE DEF draft, file
  <2>3. Len(draft.files) = 1 /\ draft.files[1] = file BY <2>2
  <2>4. WellDrafted(draft) BY <2>1, <2>2, <2>3 DEF WellDrafted
  <2> QED BY <2>4 DEF draft
<1>2. {"alt", "focus", "label", "trap"} \subseteq ViolationIdentity BY DEF ViolationIdentity
<1>3. /\ WellDrafted(Alt) /\ WellDrafted(Redesign) /\ WellDrafted(Unlabelled)
      /\ WellDrafted(Focus) /\ WellDrafted(Trap)
  <2> HIDE DEF Draft
  <2> QED BY <1>1, <1>2
<1>4. \/ drafts = <<Alt, Alt, Unlabelled>> \/ drafts = <<Alt, Focus>>
      \/ drafts = <<Redesign>> \/ drafts = <<Trap>> \/ drafts = <<>>
  BY DEF FixerAnswers
<1> HIDE DEF Alt, Redesign, Unlabelled, Focus, Trap, Draft
<1>5. CASE drafts = <<Alt, Alt, Unlabelled>>
  <2>1. Len(drafts) = 3 /\ drafts[1] = Alt /\ drafts[2] = Alt /\ drafts[3] = Unlabelled BY <1>5
  <2> QED BY <1>3, <2>1
<1>6. CASE drafts = <<Alt, Focus>>
  <2>1. Len(drafts) = 2 /\ drafts[1] = Alt /\ drafts[2] = Focus BY <1>6
  <2> QED BY <1>3, <2>1
<1>7. CASE drafts = <<Redesign>>
  <2>1. Len(drafts) = 1 /\ drafts[1] = Redesign BY <1>7
  <2> QED BY <1>3, <2>1
<1>8. CASE drafts = <<Trap>>
  <2>1. Len(drafts) = 1 /\ drafts[1] = Trap BY <1>8
  <2> QED BY <1>3, <2>1
<1>9. CASE drafts = <<>> BY <1>9
<1> QED BY <1>4, <1>5, <1>6, <1>7, <1>8, <1>9

LEMMA FixesAreValid ==
  ASSUME NEW drafts \in FixerAnswers, NEW shown
  PROVE  LET fixes == FixesOf(drafts, shown) IN
         \A fix \in FilesOf(fixes) :
           /\ fix.violation \in ViolationIdentity /\ fix.manual \in BOOLEAN /\ fix.applied \in BOOLEAN
           /\ FilesOf(fix.files) \subseteq FixFile
<1> DEFINE L == Len(drafts)
           firsts == {i \in 1..L : \A j \in 1..(i - 1) : drafts[j].violation # drafts[i].violation}
           places == [i \in 1..L |-> i]
           taken == Selected(places, firsts)
           N == Len(taken)
           InView(draft) == Selected(draft.files, {file \in FilesOf(draft.files) : file.path \in shown})
           Manual(draft) == draft.manual \/ InView(draft) = <<>>
           Applied(draft) == ~Manual(draft)
           Fix(draft) == [violation |-> draft.violation, files |-> InView(draft),
                          manual |-> Manual(draft), applied |-> Applied(draft)]
           fixes == [i \in 1..N |-> Fix(drafts[taken[i]])]
<1>1. FixesOf(drafts, shown) = fixes BY DEF FixesOf
<1>2. L \in Nat /\ \A n \in 1..L : WellDrafted(drafts[n]) BY DraftsConform
<1>3. Len(places) = L /\ \A i \in 1..L : places[i] = i
  <2> HIDE DEF L
  <2> QED BY <1>2
<1>4. N \in Nat /\ \A i \in 1..N : taken[i] \in 1..L
  <2> HIDE DEF places, firsts
  <2>1. Len(places) \in Nat BY <1>2, <1>3
  <2>2. /\ Len(taken) \in 0..Len(places)
        /\ \A n \in 1..Len(taken) : \E i \in 1..Len(places) : places[i] \in firsts /\ taken[n] = places[i]
    BY <2>1, SelectedIsKept
  <2> HIDE DEF taken, L
  <2> QED BY <1>2, <1>3, <2>2
<1> HIDE DEF places, firsts, taken, L, N
<1>5. \A draft : Manual(draft) \in BOOLEAN /\ Applied(draft) \in BOOLEAN OBVIOUS
<1>6. \A draft : LET x == Fix(draft) IN
        /\ x.violation = draft.violation /\ x.files = InView(draft)
        /\ x.manual = Manual(draft) /\ x.applied = Applied(draft)
  <2> HIDE DEF InView, Manual, Applied
  <2> QED OBVIOUS
<1>7. ASSUME NEW draft, WellDrafted(draft)
      PROVE  FilesOf(InView(draft)) \subseteq FixFile
  <2> DEFINE files == draft.files
             S == {file \in FilesOf(files) : file.path \in shown}
  <2>1. Len(files) \in Nat /\ FilesOf(files) \subseteq FixFile BY <1>7 DEF WellDrafted, FilesOf
  <2>2. S \subseteq FilesOf(files) OBVIOUS
  <2>3. InView(draft) = Selected(files, S) OBVIOUS
  <2> HIDE DEF S, files, InView
  <2>4. FilesOf(Selected(files, S)) \subseteq S BY <2>1, <2>2, KeptFiles
  <2> QED BY <2>1, <2>2, <2>3, <2>4
<1>8. ASSUME NEW n \in 1..N
      PROVE  LET fix == fixes[n] IN
             /\ fix.violation \in ViolationIdentity /\ fix.manual \in BOOLEAN /\ fix.applied \in BOOLEAN
             /\ FilesOf(fix.files) \subseteq FixFile
  <2> DEFINE draft == drafts[taken[n]]
             fix == fixes[n]
  <2>1. WellDrafted(draft) BY <1>2, <1>4
  <2>2. fix = Fix(draft)
    <3> HIDE DEF Fix
    <3> QED OBVIOUS
  <2>3. draft.violation \in ViolationIdentity BY <2>1 DEF WellDrafted
  <2> HIDE DEF draft, fix, fixes, Fix, InView, Manual, Applied
  <2>4. /\ fix.violation = draft.violation /\ fix.files = InView(draft)
        /\ fix.manual = Manual(draft) /\ fix.applied = Applied(draft)
    BY <1>6, <2>2
  <2>5. FilesOf(InView(draft)) \subseteq FixFile BY <1>7, <2>1
  <2>6. Manual(draft) \in BOOLEAN /\ Applied(draft) \in BOOLEAN BY <1>5
  <2>7. /\ fix.violation \in ViolationIdentity /\ fix.manual \in BOOLEAN /\ fix.applied \in BOOLEAN
        /\ FilesOf(fix.files) \subseteq FixFile
    BY <2>3, <2>4, <2>5, <2>6
  <2> QED BY <2>7 DEF fix
<1>9. FilesOf(fixes) = {fixes[n] : n \in 1..N}
  <2> DEFINE At(i) == Fix(drafts[taken[i]])
  <2> HIDE DEF At, Fix
  <2>1. fixes = [i \in 1..N |-> At(i)] BY DEF At
  <2>2. Len(fixes) = N BY <1>4, <2>1
  <2> QED BY <2>2 DEF FilesOf
<1> HIDE DEF fixes
<1> QED BY <1>1, <1>8, <1>9

LEMMA FixesConform ==
  ASSUME NEW st, NEW a \in ComputeFixes(st)
  PROVE  {"fixes"} \subseteq DOMAIN Fields(a) /\ FixValid(a)
<1> DEFINE violations == EffectiveArtifact(st, "violations").violations
           routes == EffectiveArtifact(st, "crawl").selected
           components == {ComponentOf(route) : route \in routes \intersect {RouteOf(v) : v \in violations}}
           shown == {path \in components : AllowsPath(path)}
           Reported(drafts) == \A draft \in FilesOf(drafts) : draft.violation \in violations
           missing == ~HasArtifact(st, "crawl") \/ ~HasArtifact(st, "violations")
           none == components # {} /\ shown = {}
           marks == DerivedFrom(st, {"crawl", "violations"})
           answers == {x \in FixerAnswers : Reported(x)}
           Fixed(drafts) == [fixes |-> FixesOf(drafts, shown), from |-> marks]
<1>1. ComputeFixes(st) = IF missing THEN {} ELSE Unless(none, {Fixed(drafts) : drafts \in answers})
  BY DEF ComputeFixes
<1>2. answers \subseteq FixerAnswers OBVIOUS
<1>3. \A drafts : /\ {"fixes"} \subseteq DOMAIN Fields(Fixed(drafts))
                  /\ Fixed(drafts).fixes = FixesOf(drafts, shown)
  BY DEF Fields
<1> HIDE DEF missing, none, answers, Fixed, shown
<1>4. PICK drafts \in answers : a = Fixed(drafts) BY <1>1 DEF Unless
<1> QED BY <1>2, <1>3, <1>4, FixesAreValid DEF FixValid

LEMMA RescanConforms ==
  ASSUME NEW st, NEW known, NEW a \in ComputeRescan(st, known)
  PROVE  {"remaining", "waivers"} \subseteq DOMAIN Fields(a) /\ ReScanValid(a)
<1> DEFINE before == EffectiveArtifact(st, "violations").violations
           applied == AppliedIn(EffectiveArtifact(st, "fix").fixes)
           audit == AuditOf(EffectiveArtifact(st, "crawl").selected, known)
           after == audit \ {fix.violation : fix \in FilesOf(applied)}
           from == DerivedFrom(st, {"crawl", "violations", "fix"})
           Compared(remaining) ==
             [remaining |-> remaining, resolved |-> before \ remaining, introduced |-> remaining \ before,
              waivers |-> {}, branch |-> AccessibilityBranch, from |-> from]
           missing == \E u \in {"crawl", "violations", "fix"} : ~HasArtifact(st, u)
<1>1. ComputeRescan(st, known) =
        IF missing THEN {} ELSE Unless(applied = <<>>, {Compared(after), Compared(after \union {"trap"})})
  BY DEF ComputeRescan
<1>2. after \subseteq ViolationIdentity /\ after \union {"trap"} \subseteq ViolationIdentity
  <2>1. audit \subseteq ViolationIdentity BY AuditFinds
  <2>2. "trap" \in ViolationIdentity BY DEF ViolationIdentity
  <2> HIDE DEF audit
  <2> QED BY <2>1, <2>2
<1>3. ASSUME NEW remaining
      PROVE  LET x == Compared(remaining) IN
             /\ {"remaining", "waivers"} \subseteq DOMAIN Fields(x)
             /\ x.remaining = remaining /\ x.waivers = {}
  <2> DEFINE resolved == before \ remaining
             introduced == remaining \ before
             x == [remaining |-> remaining, resolved |-> resolved, introduced |-> introduced,
                   waivers |-> {}, branch |-> AccessibilityBranch, from |-> from]
  <2>1. Compared(remaining) = x OBVIOUS
  <2> HIDE DEF resolved, introduced, from
  <2>2. x.remaining = remaining /\ x.waivers = {} OBVIOUS
  <2>3. {"remaining", "waivers"} \subseteq DOMAIN x \ {"v", "from"} OBVIOUS
  <2> HIDE DEF x, Compared
  <2>4. {"remaining", "waivers"} \subseteq DOMAIN Fields(x) BY <2>3 DEF Fields
  <2> QED BY <2>1, <2>2, <2>4
<1> HIDE DEF missing, Compared, after, applied
<1>4. a = Compared(after) \/ a = Compared(after \union {"trap"}) BY <1>1 DEF Unless
<1>5. PICK remaining : remaining \subseteq ViolationIdentity /\ a = Compared(remaining)
  BY <1>2, <1>4
<1> QED BY <1>3, <1>5 DEF ReScanValid

LEMMA AccessibilityConforms ==
  ASSUME NEW i \in 1..4, NEW st, NEW f, NEW C, NEW v,
         NEW a \in AccessibilityCompute(AccessibilitySteps[i], st, Looked(f, C))
  PROVE  Contract("accessibility", AccessibilitySteps[i], WithField(a, "v", v))
<1> DEFINE w == WithField(a, "v", v)
<1>1. \A x \in DOMAIN Fields(a) : w[x] = a[x] BY StillSays
<1> SUFFICES AccessibilityContract(AccessibilitySteps[i], w) BY DEF Contract
<1> HIDE DEF w
<1>2. CASE i = 1
  <2>1. {"routes", "selected"} \subseteq DOMAIN Fields(a) /\ CrawlValid(a)
    BY <1>2, AccessibilityWalk, CrawlConforms DEF AccessibilityCompute
  <2>2. w.routes = a.routes /\ w.selected = a.selected BY <1>1, <2>1
  <2> QED BY <1>2, <2>1, <2>2, AccessibilityWalk DEF AccessibilityContract, CrawlValid
<1>3. CASE i = 2
  <2>1. {"violations"} \subseteq DOMAIN Fields(a) /\ ViolationsValid(a)
    BY <1>3, AccessibilityWalk, ViolationsConform DEF AccessibilityCompute
  <2>2. w.violations = a.violations BY <1>1, <2>1
  <2> QED BY <1>3, <2>1, <2>2, AccessibilityWalk DEF AccessibilityContract, ViolationsValid
<1>4. CASE i = 3
  <2>1. {"fixes"} \subseteq DOMAIN Fields(a) /\ FixValid(a)
    BY <1>4, AccessibilityWalk, FixesConform DEF AccessibilityCompute
  <2>2. w.fixes = a.fixes BY <1>1, <2>1
  <2> QED BY <1>4, <2>1, <2>2, AccessibilityWalk DEF AccessibilityContract, FixValid
<1>5. CASE i = 4
  <2>1. {"remaining", "waivers"} \subseteq DOMAIN Fields(a) /\ ReScanValid(a)
    BY <1>5, AccessibilityWalk, RescanConforms DEF AccessibilityCompute
  <2>2. w.remaining = a.remaining /\ w.waivers = a.waivers BY <1>1, <2>1
  <2> QED BY <1>5, <2>1, <2>2, AccessibilityWalk DEF AccessibilityContract, ReScanValid
<1> QED BY <1>2, <1>3, <1>4, <1>5

-----------------------------------------------------------------------------
(* Every lane *)

\* Within a history that came about as it should, what a step computes is within
\* its contract.
LEMMA LanesConform ==
  ASSUME NEW l \in AllLanes, NEW f \in FactsOf(l), NEW rec, NEW i \in 1..Len(StepsOf(l)),
         Approved(rec, l, i - 1, f), NEW st, Shows(st, rec, l, i), Sound(l, i, st),
         Anew(l, StepsOf(l)[i], st), NEW C, NEW v, NEW a \in Compute(l, StepsOf(l)[i], st, Looked(f, C))
  PROVE  Contract(l, StepsOf(l)[i], WithField(a, "v", v))
<1>1. CASE l = "security"
  <2>1. f \in SecurityFacts /\ StepsOf(l) = SecuritySteps /\ i \in 1..6 BY <1>1, SecurityWalk DEF FactsOf
  <2>2. a \in SecurityCompute(SecuritySteps[i], st, Looked(f, C)) BY <1>1, <2>1 DEF Compute
  <2> QED BY <1>1, <2>1, <2>2, SecurityConforms
<1>2. CASE l = "msp"
  <2>1. f \in MspFacts /\ StepsOf(l) = MspSteps /\ i \in 1..5 BY <1>2, MspWalk DEF FactsOf
  <2>2. a \in MspCompute(MspSteps[i], st, Looked(f, C)) BY <1>2, <2>1 DEF Compute
  <2> QED BY <1>2, <2>1, <2>2, MspConforms
<1>3. CASE l = "features"
  <2>1. f \in FeaturesFacts /\ StepsOf(l) = FeaturesSteps /\ i \in 1..4 BY <1>3, FeaturesWalk DEF FactsOf
  <2>2. a \in FeaturesCompute(FeaturesSteps[i], st, Looked(f, C)) BY <1>3, <2>1 DEF Compute
  <2> QED BY <1>3, <2>1, <2>2, FeaturesConform
<1>4. CASE l = "issues"
  <2>1. f \in IssuesFacts /\ StepsOf(l) = IssuesSteps /\ i \in 1..4 BY <1>4, IssuesWalk DEF FactsOf
  <2>2. a \in IssuesCompute(IssuesSteps[i], st, Looked(f, C)) BY <1>4, <2>1 DEF Compute
  <2> QED BY <1>4, <2>1, <2>2, IssuesConform
<1>5. CASE l = "dependencies"
  <2>1. f \in DependenciesFacts /\ StepsOf(l) = DependenciesSteps /\ i \in 1..5 BY <1>5, DependenciesWalk DEF FactsOf
  <2>2. a \in DependenciesCompute(DependenciesSteps[i], st, Looked(f, C)) BY <1>5, <2>1 DEF Compute
  <2> QED BY <1>5, <2>1, <2>2, DependenciesConform
<1>6. CASE l = "accessibility"
  <2>1. f \in AccessibilityFacts /\ StepsOf(l) = AccessibilitySteps /\ i \in 1..4 BY <1>6, AccessibilityWalk DEF FactsOf
  <2>2. a \in AccessibilityCompute(AccessibilitySteps[i], st, Looked(f, C)) BY <1>6, <2>1 DEF Compute
  <2> QED BY <1>6, <2>1, <2>2, AccessibilityConforms
<1>7. CASE l = "vendors"
  <2>1. f \in VendorsFacts /\ StepsOf(l) = VendorsSteps /\ i \in 1..5 BY <1>7, VendorsWalk DEF FactsOf
  <2>2. a \in VendorsCompute(VendorsSteps[i], st, Looked(f, C)) BY <1>7, <2>1 DEF Compute
  <2> QED BY <1>7, <2>1, <2>2, VendorsConforms
<1>8. CASE l = "onboarding"
  <2>1. f \in OnboardingFacts /\ StepsOf(l) = OnboardingSteps /\ i \in 1..5 BY <1>8, OnboardingWalk DEF FactsOf
  <2>2. a \in OnboardingCompute(OnboardingSteps[i], st, Looked(f, C)) BY <1>8, <2>1 DEF Compute
  <2> QED BY <1>8, <2>1, <2>2, OnboardingConforms
<1>9. CASE l = "offboarding"
  <2>1. f \in OffboardingFacts /\ StepsOf(l) = OffboardingSteps /\ i \in 1..5 BY <1>9, OffboardingWalk DEF FactsOf
  <2>2. a \in OffboardingCompute(OffboardingSteps[i], st, Looked(f, C)) BY <1>9, <2>1 DEF Compute
  <2> QED BY <1>9, <2>1, <2>2, OffboardingConforms
<1>10. CASE l = "screening"
  <2>1. f \in ScreeningFacts /\ StepsOf(l) = ScreeningSteps /\ i \in 1..4 BY <1>10, ScreeningWalk DEF FactsOf
  <2>2. a \in ScreeningCompute(ScreeningSteps[i], st, Looked(f, C)) BY <1>10, <2>1 DEF Compute
  <2> QED BY <1>10, <2>1, <2>2, ScreeningConforms
<1>11. CASE l = "leave"
  <2>1. f \in LeaveFacts /\ StepsOf(l) = LeaveSteps /\ i \in 1..4 BY <1>11, LeaveWalk DEF FactsOf
  <2>2. a \in LeaveCompute(LeaveSteps[i], st, Looked(f, C)) BY <1>11, <2>1 DEF Compute
  <2> QED BY <1>11, <2>1, <2>2, LeaveConforms
<1>12. CASE l = "hr-help"
  <2>1. f \in HrHelpFacts /\ StepsOf(l) = HrHelpSteps /\ i \in 1..5 BY <1>12, HrHelpWalk DEF FactsOf
  <2>2. a \in HrHelpCompute(HrHelpSteps[i], st, Looked(f, C)) BY <1>12, <2>1 DEF Compute
  <2> QED BY <1>12, <2>1, <2>2, HrHelpConforms
<1>13. CASE l = "bills"
  <2>1. f \in BillsFacts /\ StepsOf(l) = BillsSteps /\ i \in 1..4 BY <1>13, BillsWalk DEF FactsOf
  <2>2. a \in BillsCompute(BillsSteps[i], st, Looked(f, C)) BY <1>13, <2>1 DEF Compute
  <2> QED BY <1>13, <2>1, <2>2, BillsConforms
<1>14. CASE l = "review"
  <2>1. f \in ReviewFacts /\ StepsOf(l) = ReviewSteps /\ i \in 1..4 BY <1>14, ReviewWalk DEF FactsOf
  <2>2. a \in ReviewCompute(ReviewSteps[i], st, Looked(f, C)) BY <1>14, <2>1 DEF Compute
  <2> QED BY <1>14, <2>1, <2>2, ReviewConforms
<1> QED
  BY <1>1, <1>2, <1>3, <1>4, <1>5, <1>6, <1>7, <1>8, <1>9, <1>10, <1>11, <1>12, <1>13, <1>14 DEF AllLanes

\* What stands behind steps that came about as they should is within its contract.
LEMMA StoredConforms ==
  ASSUME NEW l \in AllLanes, NEW f \in FactsOf(l), NEW rec, NEW i \in 1..Len(StepsOf(l)),
         Approved(rec, l, i - 1, f), Computed(rec, l, i, f)
  PROVE  Contract(l, StepsOf(l)[i], rec.art[StepsOf(l)[i]])
<1>1. PICK st, C, a, v :
        /\ Agree(st, rec, l, i) /\ Anew(l, StepsOf(l)[i], st)
        /\ a \in Compute(l, StepsOf(l)[i], st, Looked(f, C))
        /\ rec.art[StepsOf(l)[i]] = WithField(a, "v", v)
  BY DEF Computed
<1>2. Shows(st, rec, l, i) BY <1>1, AgreeShows
<1>3. Sound(l, i, st)
  <2> SUFFICES ASSUME NEW j \in 1..(i - 1)
               PROVE  Contract(l, StepsOf(l)[j], EffectiveArtifact(st, StepsOf(l)[j]))
    BY DEF Sound
  <2>1. Contract(l, StepsOf(l)[j], EffectiveArtifact(rec, StepsOf(l)[j])) BY Contracted
  <2>2. StepsOf(l)[j] \in Prior(l, i) BY DEF Prior
  <2> QED BY <1>2, <2>1, <2>2 DEF Shows
<1> QED BY <1>1, <1>2, <1>3, LanesConform

-----------------------------------------------------------------------------
\* A pass has calls left only while it makes them.
CallsInHand(e) == e.calls # <<>> => e.pc = "writing"

Ranged ==
  /\ lane \in Lanes /\ changes \in 0..MaxChanges /\ faults \in 0..MaxFaults
  /\ \A c \in made : c.step \in StepsIn(lane)
  /\ \A r \in Runs : CallsInHand(eng[r])

LEMMA RangedInit == Init => Ranged
<1> SUFFICES ASSUME Init PROVE Ranged
  OBVIOUS
<1>1. \A r \in Runs : CallsInHand(eng[r]) BY DEF Init, Idle, CallsInHand
<1> QED BY <1>1, LaneAssumption DEF Ranged, Init

\* What a step of a run does to its pass.
LEMMA PassSteps ==
  ASSUME Inv, Ranged, NEW r \in Runs,
         \/ StartRun(r) \/ Proceed(r) \/ ProceedByApi(r) \/ Regenerate(r) \/ Back(r)
         \/ Suspend(r) \/ Forward(r) \/ BeginEffect(r) \/ MakeCall(r) \/ EndEffect(r)
         \/ Throw(r) \/ Refuse(r) \/ Break(r) \/ GiveUp(r)
  PROVE  \A q \in Runs : CallsInHand(eng'[q])
<1>1. ASSUME NEW i, NEW st, Walk(r, i, st) PROVE \A q \in Runs : CallsInHand(eng'[q])
  BY <1>1 DEF Walk, Inv, Ranged, CallsInHand
<1>2. ASSUME NEW outcome, EndPass(r, outcome) PROVE \A q \in Runs : CallsInHand(eng'[q])
  <2> DEFINE over == (IF run[r].status = "driving" THEN outcome ELSE run[r]).status \in Ended
             e == IF over THEN Idle(lane) ELSE [eng[r] EXCEPT !.pc = "idle", !.calls = <<>>]
  <2>1. eng' = [eng EXCEPT ![r] = e] BY <1>2 DEF EndPass
  <2>2. DOMAIN eng = Runs /\ DOMAIN eng[r] = {"pc", "i", "st", "calls"} BY DEF Inv, Walked
  <2>3. e.calls = <<>> BY <2>2 DEF Idle
  <2> HIDE DEF e
  <2> QED BY <2>1, <2>2, <2>3 DEF Ranged, CallsInHand
<1>3. ASSUME NEW st, Onward(r, st) PROVE \A q \in Runs : CallsInHand(eng'[q])
  BY <1>1, <1>2, <1>3 DEF Onward
<1>4. CASE StartRun(r) BY <1>1, <1>4 DEF StartRun
<1>5. CASE Proceed(r) \/ ProceedByApi(r) BY <1>1, <1>5 DEF Proceed, ProceedByApi, Resume
<1>6. CASE Regenerate(r) BY <1>1, <1>6 DEF Regenerate, Resume
<1>7. CASE Back(r) BY <1>1, <1>7 DEF Back
<1>8. CASE Suspend(r)
  <2>1. PICK outcome : EndPass(r, outcome) BY <1>8 DEF Suspend
  <2> QED BY <1>2, <2>1
<1>9. CASE Forward(r) BY <1>3, <1>9 DEF Forward
<1>10. CASE BeginEffect(r)
  <2> DEFINE calls == Writes(lane, Here(r), eng[r].st, Known, DeskDedupes)
             e == [eng[r] EXCEPT !.pc = "writing", !.calls = calls]
  <2>1. eng' = [eng EXCEPT ![r] = e] BY <1>10 DEF BeginEffect
  <2>2. DOMAIN eng = Runs /\ DOMAIN eng[r] = {"pc", "i", "st", "calls"} BY DEF Inv, Walked
  <2> HIDE DEF calls
  <2>3. e.pc = "writing" BY <2>2
  <2> HIDE DEF e
  <2> QED BY <2>1, <2>2, <2>3 DEF Ranged, CallsInHand
<1>11. CASE MakeCall(r)
  <2> DEFINE e == [eng[r] EXCEPT !.calls = Tail(@)]
  <2>1. eng' = [eng EXCEPT ![r] = e] /\ eng[r].pc = "writing" BY <1>11 DEF MakeCall
  <2>2. DOMAIN eng = Runs /\ DOMAIN eng[r] = {"pc", "i", "st", "calls"} BY DEF Inv, Walked
  <2>3. e.pc = "writing" BY <2>1, <2>2
  <2> HIDE DEF e
  <2> QED BY <2>1, <2>2, <2>3 DEF Ranged, CallsInHand
<1>12. CASE EndEffect(r)
  <2>1. PICK st : Onward(r, st) BY <1>12 DEF EndEffect
  <2> QED BY <1>3, <2>1
<1>13. CASE Throw(r) \/ Refuse(r) \/ Break(r)
  <2>1. PICK outcome : EndPass(r, outcome) BY <1>13 DEF Throw, Refuse, Break, FailPass
  <2> QED BY <1>2, <2>1
<1>14. CASE GiveUp(r) BY <1>14 DEF GiveUp, Ranged
<1> QED
  BY <1>4, <1>5, <1>6, <1>7, <1>8, <1>9, <1>10, <1>11, <1>12, <1>13, <1>14

LEMMA RangedNext == Inv /\ Ranged /\ [Next]_vars => Ranged'
<1> SUFFICES ASSUME Inv, Ranged, [Next]_vars PROVE Ranged'
  OBVIOUS
<1>1. Ranged' <=> /\ lane' \in Lanes /\ changes' \in 0..MaxChanges /\ faults' \in 0..MaxFaults
                  /\ \A c \in made' : c.step \in StepsIn(lane')
                  /\ \A r \in Runs : CallsInHand(eng'[r])
  BY DEF Ranged, Runs
<1>2. CASE UNCHANGED vars BY <1>2, <1>1 DEF vars, Ranged
<1>3. ASSUME NEW r \in Runs,
             \/ StartRun(r) \/ Proceed(r) \/ ProceedByApi(r) \/ Regenerate(r) \/ Back(r)
             \/ Suspend(r) \/ Forward(r) \/ BeginEffect(r) \/ MakeCall(r) \/ EndEffect(r)
             \/ Throw(r) \/ Refuse(r) \/ Break(r) \/ GiveUp(r)
      PROVE  Ranged'
  <2>1. lane' = lane
    BY <1>3 DEF StartRun, Proceed, ProceedByApi, Regenerate, Resume, Back, Suspend, Forward, BeginEffect, MakeCall,
                EndEffect, Throw, Refuse, Break, GiveUp, FailPass
  <2>2. changes' = changes \/ Change
    BY <1>3 DEF StartRun, Proceed, ProceedByApi, Regenerate, Back, Suspend, Forward, BeginEffect, MakeCall,
                EndEffect, Throw, Refuse, Break, GiveUp, FailPass
  <2>3. faults' = faults \/ Fault
    BY <1>3 DEF StartRun, Proceed, ProceedByApi, Regenerate, Resume, Back, Suspend, Forward, BeginEffect, MakeCall,
                EndEffect, Throw, Refuse, Break, GiveUp, FailPass
  <2>4. changes' \in 0..MaxChanges BY <2>2, LaneAssumption DEF Change, Ranged
  <2>5. faults' \in 0..MaxFaults BY <2>3, LaneAssumption DEF Fault, Ranged
  <2>6. \A c \in made' : c.step \in StepsIn(lane)
    <3>1. CASE MakeCall(r)
      <4>1. Here(r) \in StepsIn(lane) BY DEF Here, Step, StepsIn, Inv, Walked
      <4> DEFINE call == Head(eng[r].calls)
                 again == {m \in made : m.sys = call.sys /\ m.key = call.key /\ m.run = r}
                 new == [sys |-> call.sys, key |-> call.key, dedupes |-> call.dedupes,
                         run |-> r, step |-> Here(r), n |-> Cardinality(again)]
      <4>2. made' = made \/ made' = made \union {new} BY <3>1 DEF MakeCall
      <4>3. new.step = Here(r) OBVIOUS
      <4> HIDE DEF new
      <4> QED BY <4>1, <4>2, <4>3 DEF Ranged
    <3>2. CASE ~MakeCall(r)
      <4>1. made' = made
        BY <1>3, <3>2 DEF StartRun, Proceed, ProceedByApi, Regenerate, Resume, Back, Suspend, Forward, BeginEffect,
                          EndEffect, Throw, Refuse, Break, GiveUp, FailPass
      <4> QED BY <4>1 DEF Ranged
    <3> QED BY <3>1, <3>2
  <2>7. \A q \in Runs : CallsInHand(eng'[q]) BY <1>3, PassSteps
  <2> QED BY <1>1, <2>1, <2>4, <2>5, <2>6, <2>7 DEF Ranged
<1> QED BY <1>2, <1>3 DEF Next

-----------------------------------------------------------------------------
\* Types: an artifact stands behind every review, every stored artifact of a
\* run edited by the forms is within the contract of its step, and decisions
\* are edits exactly when they carry edits (store.py's record, each lane's
\* contracts.ts).
THEOREM RunsAreWellFormed == Spec => []TypeOK
<1>1. Inv /\ Once /\ AskedFor /\ Current /\ Lawful /\ Stands /\ Ranged => TypeOK
  <2> SUFFICES ASSUME Inv, Once, AskedFor, Current, Lawful, Stands, Ranged PROVE TypeOK
    OBVIOUS
  <2>1. StepSet = StepsIn(lane) BY DEF StepSet, StepsIn, Step
  <2>2. ASSUME NEW r \in Runs, ByForms(run[r]), NEW s \in StepSet, run[r].art[s].v # 0
        PROVE  Contract(lane, s, run[r].art[s])
    <3> DEFINE rec == run[r]
    <3>1. PICK j \in 1..Len(StepsOf(lane)) : s = StepsOf(lane)[j] BY <2>1 DEF StepsIn
    <3>2. /\ lane \in AllLanes /\ facts \in FactsOf(lane)
          /\ Derived(rec, lane) /\ Made(rec, lane, facts) /\ Reached(rec, lane, facts)
      BY DEF Inv, AskedFor, Current, Lawful, OneLawful, Stands, Standing
    <3> HIDE DEF rec
    <3>0. \A u \in StepsIn(lane) : HandedIn(rec, lane, u) BY <2>1, <2>2 DEF ByForms, rec
    <3>3. rec.art[StepsOf(lane)[j]].v # 0 BY <2>2, <3>1 DEF rec
    <3>4. /\ \A k \in 1..(j - 1) : IsForward(rec.dec[StepsOf(lane)[k]])
          /\ PassedTo(rec, lane, j - 1, facts)
          /\ Computed(rec, lane, j, facts)
      BY <3>2, <3>3 DEF Derived, Made, Reached
    <3>5. ASSUME NEW k \in 1..(j - 1)
          PROVE  /\ IsForward(rec.dec[StepsOf(lane)[k]]) /\ Computed(rec, lane, k, facts)
                 /\ HandedIn(rec, lane, StepsOf(lane)[k]) /\ PassedOn(rec, lane, k, facts)
      <4>1. k \in 1..Len(StepsOf(lane)) BY <3>2, HasSteps
      <4>2. PassedOn(rec, lane, k, facts) BY <3>4 DEF PassedTo
      <4>3. HandedIn(rec, lane, StepsOf(lane)[k]) BY <3>0, <4>1 DEF StepsIn
      <4> QED BY <3>2, <3>4, <4>1, <4>2, <4>3 DEF Made, PassedOn
    <3>6. Approved(rec, lane, j - 1, facts) BY <3>5 DEF Approved
    <3>7. Contract(lane, StepsOf(lane)[j], rec.art[StepsOf(lane)[j]])
      BY <3>2, <3>4, <3>6, StoredConforms
    <3> QED BY <3>1, <3>7 DEF rec
  <2>3. ASSUME NEW r \in Runs
        PROVE  /\ run[r].status \in Statuses /\ run[r].at \in 1..Len(StepsOf(lane)) /\ run[r].next \in Nat
               /\ \A s \in StepSet : DecisionOK(run[r].dec[s]) /\ run[r].art[s].v < run[r].next
               /\ run[r].status = "review" => run[r].art[Step(run[r].at)].v # 0
               /\ eng[r].pc \in {"idle", "walking", "writing"} /\ eng[r].i \in 1..Len(StepsOf(lane))
               /\ eng[r].calls # <<>> => eng[r].pc = "writing"
    <3>1. Recorded(run[r], lane) /\ Walked(eng[r], run[r].dec, lane) BY DEF Inv
    <3>2. Phased(run[r], eng[r]) BY DEF Once, Attempt
    <3>3. Sent(run[r], eng[r], lane, facts) BY DEF AskedFor
    <3>4. Numbered(run[r], lane) BY DEF Stands, Standing
    <3>5. CallsInHand(eng[r]) BY DEF Ranged
    <3>6. run[r].status \in Statuses /\ eng[r].pc \in {"idle", "walking", "writing"}
      BY <3>2 DEF Phased
    <3>7. run[r].at \in 1..Len(StepsOf(lane)) /\ eng[r].i \in 1..Len(StepsOf(lane))
      BY <3>1 DEF Recorded, Walked
    <3>8. run[r].next \in Nat /\ (run[r].status = "review" => run[r].art[Step(run[r].at)].v # 0)
      BY <3>3 DEF Sent, Step
    <3>9. \A s \in StepSet : DecisionOK(run[r].dec[s]) /\ run[r].art[s].v < run[r].next
      BY <2>1, <3>4 DEF Numbered
    <3>10. eng[r].calls # <<>> => eng[r].pc = "writing" BY <3>5 DEF CallsInHand
    <3> QED BY <3>6, <3>7, <3>8, <3>9, <3>10
  <2>4. \A c \in made : c.run \in Runs /\ c.step \in StepSet /\ c.dedupes \in BOOLEAN
    BY <2>1 DEF Once, Placed, Ranged
  <2>5. /\ lane \in Lanes /\ facts \in FactsOf(lane)
        /\ changes \in 0..MaxChanges /\ faults \in 0..MaxFaults
    BY DEF AskedFor, Ranged
  <2> QED BY <2>2, <2>3, <2>4, <2>5 DEF TypeOK
<1>2. Spec => []Ranged BY RangedInit, RangedNext, PassesFollowTheRecord, PTL DEF Spec
<1> QED
  BY <1>1, <1>2, PassesFollowTheRecord, CallsAreKnown, PassesAskForNothingElse, StoredIsDerived,
     EverythingIsLawful, WhatIsStoredWasReached, PTL
=============================================================================

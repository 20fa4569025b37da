----------------------------- MODULE SecurityFlow -----------------------------
(***************************************************************************)
(* The security lane, src/src/mastra/agents/security/flow.ts: ingest,      *)
(* triage, investigate, decide, approve, contain.  One operator per        *)
(* compute function gives the artifacts the step may suspend with ({}: it  *)
(* throws); Gate says when the forward branch of a step does not throw.    *)
(***************************************************************************)
EXTENDS FlowOps, Functions

SecuritySteps == <<"ingest", "triage", "investigate", "decide", "approve", "contain">>

-----------------------------------------------------------------------------
(* The contracts *)

Classifications == {"tp", "fp", "benign", "unknown"}
Severities == {"low", "medium", "high", "critical"}
DecideActions == {"close", "escalate", "contain", "recommend"}
SignerRoles == {"soc-analyst", "soc-lead", "ciso"}
Sources == {"alert-record", "asset-directory", "case-history"}
Outcomes == {"contained", "closed", "escalated", "recommended"}

\* The tricks the guardrail detector knows, by what it finds in the text.
InjectionRule ==
  [override |-> "instruction-override", systemTag |-> "fake-system-tag",
   directive |-> "tool-directive", encodedOverride |-> "encoded-instruction",
   bidi |-> "unicode-bidi", padding |-> "padding-flood"]
InjectionRules == {InjectionRule[trick] : trick \in DOMAIN InjectionRule}

IngestArtifact == [seenBefore : BOOLEAN, checks : SUBSET {"pass", "flag", "fail"}]
AlertTriage ==
  [class : Classifications, severity : Severities, flags : SUBSET InjectionRules,
   needsInvestigation : BOOLEAN]
EvidencePack == [claims : (SUBSET Sources) \ {{}}, missing : SUBSET Sources]
DecideArtifact ==
  [action : DecideActions, tier : Severities, refused : BOOLEAN, requiresHuman : BOOLEAN]
ApproveArtifact ==
  [action : DecideActions, tier : Severities, signers : (SUBSET SignerRoles) \ {{}},
   signed : SUBSET SignerRoles, allApproved : BOOLEAN]
ContainPreview == [action : DecideActions, outcome : Outcomes]

SecurityContract(s) ==
  CASE s = "ingest" -> IngestArtifact
    [] s = "triage" -> AlertTriage
    [] s = "investigate" -> EvidencePack
    [] s = "decide" -> DecideArtifact
    [] s = "approve" -> ApproveArtifact
    [] s = "contain" -> ContainPreview

-----------------------------------------------------------------------------
(* The alert and what can be looked up about it *)

\* A closed case: whether it was on the alert's host, how it was classified,
\* the techniques it showed and how many words its summary shares.
ClosedCase(id, onHost, class, words) ==
  [id |-> id, onHost |-> onHost, class |-> class, words |-> words]
RepeatedFalsePositives == {ClosedCase(1, TRUE, "fp", 0), ClosedCase(2, TRUE, "fp", 1)}
OtherCases == {ClosedCase(1, TRUE, "fp", 0), ClosedCase(2, FALSE, "fp", 2), ClosedCase(3, TRUE, "tp", 0)}

\* text is what occurs in the alert: terms of signal rules and tricks.  The
\* asset directory gives the environment ("none": no record) and services.
SecurityFacts ==
  LET Alert(texts, environments, services, histories) ==
        [text : texts, environment : environments, services : services, history : histories]
  IN Alert({{"known-ioc", "impact"}, {"known-ioc", "impact", "persistence"}},
           {"production"}, {{"web"}, {"domain controller"}}, {RepeatedFalsePositives, OtherCases})
       \union Alert({{"false-positive-notice"}, {"benign-admin", "execution"}, {"known-ioc"}},
                    {"production"}, {{"web"}}, {{}})
       \union Alert({{"known-ioc", "impact"}}, {"none"}, {{}}, {{}})
       \union Alert({{"known-ioc", "impact", "override"}}, {"none"}, {{}}, {RepeatedFalsePositives, {}})

\* The weight a signal rule adds, once, when one of its terms occurs.
SignalRules ==
  "credential-phishing" :> 35 @@ "known-ioc" :> 30 @@ "encoded-payload" :> 30
    @@ "execution" :> 20 @@ "persistence" :> 25 @@ "lateral-movement" :> 30
    @@ "command-and-control" :> 30 @@ "exfiltration" :> 35 @@ "impact" :> 40
    @@ "benign-admin" :> (-40) @@ "false-positive-notice" :> (-80)

DetectInjection(text) == {InjectionRule[trick] : trick \in text \intersect DOMAIN InjectionRule}

SignalScore(text) == FoldFunctionOnSet(+, 0, SignalRules, text \intersect DOMAIN SignalRules)

\* A flagged alert is never judged automatically.
ClassifySignals(text) ==
  LET score == SignalScore(text)
      magnitude == IF score < 0 THEN -score ELSE score
      flags == DetectInjection(text)
  IN [class |-> IF flags # {} THEN "unknown"
                ELSE IF score >= 25 THEN "tp"
                ELSE IF score <= -40 THEN "fp"
                ELSE IF score <= -20 THEN "benign" ELSE "unknown",
      severity |-> IF score >= 90 THEN "critical"
                   ELSE IF score >= 60 THEN "high"
                   ELSE IF score >= 25 THEN "medium" ELSE "low",
      percent |-> IF flags # {} THEN 40 ELSE IF magnitude > 55 THEN 95 ELSE 40 + magnitude,
      flags |-> flags]

BlockedTarget(known) == known.services \intersect {"domain controller", "fleet"} # {}

ProposedActionFor(class, severity) ==
  IF class \in {"fp", "benign"} THEN "close"
  ELSE IF class = "unknown" THEN "escalate"
  ELSE IF severity \in {"critical", "high"} THEN "contain"
  ELSE IF severity = "medium" THEN "escalate" ELSE "recommend"

ActionPoints == [contain |-> 40, escalate |-> 15, recommend |-> 10, close |-> 5]
SeverityPoints == [critical |-> 30, high |-> 20, medium |-> 10, low |-> 0]
EnvironmentPoints == [none |-> 0, staging |-> 0, corporate |-> 10, production |-> 20]

RiskFor(action, severity, environment, blocked) ==
  LET raw == ActionPoints[action] + SeverityPoints[severity]
               + EnvironmentPoints[environment] + (IF blocked THEN 40 ELSE 0)
  IN [tier |-> IF raw <= 24 THEN "low" ELSE IF raw <= 49 THEN "medium"
               ELSE IF raw <= 79 THEN "high" ELSE "critical",
      refused |-> action = "contain" /\ (blocked \/ raw >= 95)]

\* An earlier run of the alert left its case in the history.
SeenBefore(known) == "case-history" \in known.carried

\* Similar cases: a shared host weighs three, a shared word one.
CaseRecallScore(case) == (IF case.onHost THEN 3 ELSE 0) + case.words

\* The best `limit` of the cases that share anything.
Recall(history, limit) ==
  LET similar == {case \in history : CaseRecallScore(case) > 0}
      Ahead(d, case) ==
        \/ CaseRecallScore(d) > CaseRecallScore(case)
        \/ CaseRecallScore(d) = CaseRecallScore(case) /\ d.id < case.id
  IN {case \in similar : Cardinality({d \in similar : Ahead(d, case)}) < limit}

SignerMatrix ==
  [low |-> {"soc-analyst"}, medium |-> {"soc-analyst", "soc-lead"},
   high |-> {"soc-analyst", "soc-lead"}, critical |-> SignerRoles]

OutcomeFor ==
  [contain |-> "contained", close |-> "closed", escalate |-> "escalated",
   recommend |-> "recommended"]

-----------------------------------------------------------------------------
(* The steps *)

\* An alert already closed as a case is flagged as seen before.
ComputeIngest(st, known) ==
  {[seenBefore |-> SeenBefore(known),
    checks |-> IF known.text = {} THEN {"pass", "flag"} ELSE {"pass"},
    from |-> DerivedFrom(st, {})]}

ComputeTriage(st, known) ==
  LET signals == ClassifySignals(known.text) IN
  {[class |-> signals.class, severity |-> signals.severity, flags |-> signals.flags,
    needsInvestigation |-> signals.class = "unknown" \/ signals.percent < 70,
    from |-> DerivedFrom(st, {"ingest"})]}

\* What the investigation retrieves, and what it has to name as missing.
Retrieved(known) ==
  {"alert-record"} \union (IF known.environment # "none" THEN {"asset-directory"} ELSE {})
    \union (IF SeenBefore(known) \/ Recall(known.history, 3) # {} THEN {"case-history"} ELSE {})
MissingEvidence(known) == Sources \ Retrieved(known)

\* Every claim cites a record that was retrieved.
ValidateClaims(claims, retrieved) == claims \subseteq retrieved

\* The sources an investigator may cite: the alert, or one nobody retrieved.
InvestigatorAnswers == {{"alert-record"}, {"alert-record", "unretrieved"}}

ComputeInvestigate(st, known) ==
  LET sourced == {claims \in InvestigatorAnswers : ValidateClaims(claims, Retrieved(known))} IN
  Unless(~HasArtifact(st, "triage"),
    {[claims |-> claims, missing |-> MissingEvidence(known),
      from |-> DerivedFrom(st, {"ingest", "triage"})]
       : claims \in ContractOutput(InvestigatorAnswers, sourced)})

(***************************************************************************)
(* Two prior false positives on the host close an alert that is not        *)
(* critical; a containment the risk policy refuses is escalated instead.   *)
(* The recorded risk is the one of the action first proposed.              *)
(***************************************************************************)
ComputeDecide(st, known) ==
  LET triage == EffectiveArtifact(st, "triage")
      proposed == ProposedActionFor(triage.class, triage.severity)
      onHostFps == {case \in Recall(known.history, 5) : case.class = "fp" /\ case.onHost}
      action == IF Cardinality(onHostFps) >= 2 /\ triage.severity # "critical"
                THEN "close" ELSE proposed
      risk == RiskFor(action, triage.severity, known.environment, BlockedTarget(known))
      final == IF risk.refused THEN "escalate" ELSE action
  IN Unless(~HasArtifact(st, "triage") \/ ~HasArtifact(st, "investigate"),
       {[action |-> final, tier |-> risk.tier, refused |-> risk.refused,
         requiresHuman |-> \/ final = "contain" \/ risk.tier \in {"high", "critical"}
                           \/ triage.class = "unknown" \/ triage.needsInvestigation,
         from |-> DerivedFrom(st, {"triage", "investigate"})]})

\* The signer chain of the decided tier, all pending.
ComputeApprove(st) ==
  LET decide == EffectiveArtifact(st, "decide") IN
  Unless(~HasArtifact(st, "decide"),
    {[action |-> decide.action, tier |-> decide.tier, signers |-> SignerMatrix[decide.tier],
      signed |-> {}, allApproved |-> FALSE, from |-> DerivedFrom(st, {"decide"})]})

ComputeContainPreview(st) ==
  LET decide == EffectiveArtifact(st, "decide") IN
  Unless(~HasArtifact(st, "decide"),
    {[action |-> decide.action, outcome |-> OutcomeFor[decide.action],
      from |-> DerivedFrom(st, {"decide"})]})

AssertApproved(st) ==
  LET approve == EffectiveArtifact(st, "approve") IN
  /\ HasArtifact(st, "approve")
  /\ HasArtifact(st, "decide") => EffectiveArtifact(st, "decide").action = approve.action
  /\ approve.signers \subseteq approve.signed /\ approve.allApproved

SecurityCompute(s, st, known) ==
  CASE s = "ingest" -> ComputeIngest(st, known)
    [] s = "triage" -> ComputeTriage(st, known)
    [] s = "investigate" -> ComputeInvestigate(st, known)
    [] s = "decide" -> ComputeDecide(st, known)
    [] s = "approve" -> StoredOr(st, s, ComputeApprove(st))
    [] s = "contain" -> StoredOr(st, s, ComputeContainPreview(st))

\* The stored alert, or the one computed anew, was not closed before and
\* failed no check.
SecurityGate(s, st, known) ==
  CASE s = "ingest" ->
         LET alert == IF HasArtifact(st, s) THEN EffectiveArtifact(st, s)
                      ELSE CHOOSE a \in ComputeIngest(st, known) : TRUE
         IN ~alert.seenBefore /\ "fail" \notin alert.checks
    [] s \in {"approve", "contain"} -> AssertApproved(st)
    [] OTHER -> TRUE

\* The registry knows the containment of an alert on a host again and answers
\* with the first reference.
Contain(preview) == Call("containment", "alert", TRUE, preview)

\* The terminal receipt becomes the next row of the case history, one per case.
RememberCase(preview) == Call("case-history", "alert", TRUE, preview)

\* The containment and the case-history row, in that order.
ContainEffect(st) ==
  LET preview == Fields(CHOOSE p \in StoredOr(st, "contain", ComputeContainPreview(st)) : TRUE)
  IN <<Contain(preview), RememberCase(preview)>>

SecurityWrites(s, st) == IF s = "contain" THEN ContainEffect(st) ELSE <<>>

\* What is contained is the disposition that was decided and signed by every
\* role of its tier, and never one the risk policy refuses.  A flagged alert is
\* never contained; repeated false positives on its host may still close it.
SecurityPolicy(st, call, known) ==
  LET decide == EffectiveArtifact(st, "decide") IN
  /\ call.what.action = decide.action /\ call.what.outcome = OutcomeFor[decide.action]
  /\ SignerMatrix[decide.tier] \subseteq EffectiveArtifact(st, "approve").signed
  /\ call.what.action = "contain" => ~BlockedTarget(known)
  /\ EffectiveArtifact(st, "triage").flags # {} => call.what.action \in {"escalate", "close"}

-----------------------------------------------------------------------------
(* The console's side *)

SecurityIngestView(a) == Parsed(a, {"seenBefore"}, [checks |-> {}])
SecurityTriageView(a) ==
  Parsed(a, {"class"}, [severity |-> "low", flags |-> {}, needsInvestigation |-> FALSE])
SecurityInvestigateView(a) ==
  IF a.claims = {} THEN NoView ELSE Parsed(a, {"claims"}, [missing |-> {}])
SecurityDecideView(a) == Parsed(a, {"action", "tier"}, [refused |-> FALSE, requiresHuman |-> FALSE])
SecurityApproveView(a) ==
  Parsed(a, {"action"}, [tier |-> "low", signers |-> {}, signed |-> {}, allApproved |-> FALSE])
SecurityContainView(a) == Parsed(a, {"action", "outcome"}, NoDefaults)

\* Each signer of the chain is approved, or taken back, one by one: none, all
\* but one, and all stand for the sets that can be reached.
SecurityApproveSurface(a) ==
  LET view == SecurityApproveView(a)
      allButOne == {view.signers \ {role} : role \in view.signers \intersect {"soc-lead"}}
  IN Surface(view, {[signed |-> signed, allApproved |-> signed = view.signers]
                      : signed \in {{}, view.signers} \union allButOne})

SecuritySurface(s, a) ==
  CASE s = "ingest" -> ReadOnly(SecurityIngestView(a))
    [] s = "triage" -> ReadOnly(SecurityTriageView(a))
    [] s = "investigate" -> ReadOnly(SecurityInvestigateView(a))
    [] s = "decide" -> ReadOnly(SecurityDecideView(a))
    [] s = "approve" -> SecurityApproveSurface(a)
    [] s = "contain" -> ReadOnly(SecurityContainView(a))

SecurityApproveBlocked(a) == a.signed # a.signers

SecurityBlocked(s, a) == s = "approve" /\ SecurityApproveBlocked(a)

\* Edits no form of the console opens: the API takes any, and the flow merges
\* them under the contract of the step.
SecurityFreeEdits(s, a) ==
  CASE s = "ingest" -> {[seenBefore |-> FALSE]}
    [] s = "triage" -> {[flags |-> {}], [class |-> "tp", severity |-> "critical"]}
    [] s = "decide" -> {[action |-> "contain"], [tier |-> "low"]}
    [] s = "approve" -> {[signers |-> {"soc-analyst"}, signed |-> {"soc-analyst"}, allApproved |-> TRUE]}
    [] s = "contain" -> {[outcome |-> "contained"]}
    [] OTHER -> {}
==============================================================================

---------------------------- MODULE OnboardingFlow ----------------------------
(***************************************************************************)
(* The onboarding lane, src/src/mastra/agents/onboarding/flow.ts: collect, *)
(* verify, risk-score, approve (the signer chain of the tier), provision   *)
(* (the employee record, accounts, equipment, payroll).                    *)
(***************************************************************************)
EXTENDS FlowOps, FiniteSetsExt

OnboardingSteps == <<"collect", "verify", "risk-score", "approve", "provision">>

-----------------------------------------------------------------------------
(* The contracts *)

HireDocuments ==
  {"id-verification", "right-to-work", "signed-contract", "tax-form", "bank-details",
   "emergency-contact"}
HireRequired == HireDocuments \ {"emergency-contact"}
HireCheckIds == HireRequired \union {"start-date", "manager-assignment", "duplicate-screening"}
HireRoles == {"people-partner", "department-head", "people-ops-director"}
AccessTiers == {"low", "medium", "high"}

\* evidenced: a received document names its file, a waived one its reason.
HireDocumentEntry == [status : {"missing", "pending", "received", "waived"}, evidenced : BOOLEAN]
HireCollectArtifact ==
  [access : AccessTiers, documents : [HireDocuments -> HireDocumentEntry],
   totals : [received : 0..6, waived : 0..6, outstanding : 0..6]]
HireVerifyArtifact ==
  [checks : [HireCheckIds -> {"pass", "flag", "fail"}], candidates : SUBSET (0..100),
   manualReview : SUBSET HireCheckIds, resolutions : SUBSET HireCheckIds]
HireRiskArtifact ==
  [score : 0..100, tier : AccessTiers, requiredSigners : (SUBSET HireRoles) \ {{}}]
HireChainArtifact ==
  [tier : AccessTiers, allApproved : BOOLEAN,
   chain : UNION {[some -> {"pending", "approved", "rejected"}]
                    : some \in (SUBSET HireRoles) \ {{}}}]
ProvisionArtifact ==
  [access : AccessTiers, accounts : SUBSET {"okta", "slack", "zendesk", "jira", "workday",
                                           "github", "aws"},
   existing : BOOLEAN]

OnboardingContract(s) ==
  CASE s = "collect" -> HireCollectArtifact
    [] s = "verify" -> HireVerifyArtifact
    [] s = "risk-score" -> HireRiskArtifact
    [] s = "approve" -> HireChainArtifact
    [] s = "provision" -> ProvisionArtifact

-----------------------------------------------------------------------------
(* The hire and the directory *)

\* A colleague in the directory, by how much of the hire's name they share.
Colleague(name, sameDepartment) == [name |-> name, sameDepartment |-> sameDepartment]

\* The access tier asked for, whether the manager is in the directory, how
\* close the start date is, whether the department brings systems of its own.
OnboardingFacts ==
  LET Hire(access, manager, start, engineering, colleagues) ==
        [access |-> access, manager |-> manager, start |-> start,
         engineering |-> engineering, colleagues |-> colleagues]
  IN {Hire("low", "known", "later", TRUE, {}),
      Hire("high", "unknown", "later", TRUE, {Colleague("surname", TRUE)}),
      Hire("medium", "none", "soon", FALSE, {Colleague("given", FALSE), Colleague("token", TRUE)}),
      Hire("high", "known", "past", FALSE, {Colleague("surname", FALSE)}),
      Hire("low", "none", "later", FALSE, {Colleague("initial", TRUE)})}

NameScore == [full |-> 100, given |-> 85, initial |-> 70, surname |-> 55, token |-> 40]
FindDuplicates(known) ==
  {Min({100, NameScore[other.name] + (IF other.sameDepartment THEN 5 ELSE 0)})
     : other \in known.colleagues}
HireTopScore(candidates) == Max(candidates \union {0})

HireDocumentCheck(document) ==
  CASE document.status = "received" -> "pass"
    [] document.status = "waived" -> "flag"
    [] OTHER -> "fail"
ManagerCheck(manager) ==
  CASE manager = "known" -> "pass" [] manager = "unknown" -> "fail" [] manager = "none" -> "flag"
StartDateCheck(start) ==
  CASE start = "past" -> "fail" [] start = "soon" -> "flag" [] start = "later" -> "pass"
HireDuplicateCheck(candidates) ==
  LET top == HireTopScore(candidates) IN
  IF top >= 85 THEN "fail" ELSE IF top >= 60 THEN "flag" ELSE "pass"

\* Only the required documents count.
HireTotals(documents) ==
  LET Counted(status) == Cardinality({d \in HireRequired : documents[d].status = status})
      received == Counted("received")
      waived == Counted("waived")
  IN [received |-> received, waived |-> waived,
      outstanding |-> Cardinality(HireRequired) - received - waived]

AccessTierPoints == [low |-> 0, medium |-> 15, high |-> 30]
HireSigners ==
  [low |-> {"people-partner"}, medium |-> {"people-partner", "department-head"},
   high |-> HireRoles]

TierSystems ==
  [low |-> {"okta", "slack", "zendesk"}, medium |-> {"okta", "slack", "jira", "workday"},
   high |-> {"okta", "github", "aws", "jira", "slack", "workday"}]
ProvisionAccounts(access, engineering) ==
  TierSystems[access] \union (IF engineering THEN {"github", "aws"} ELSE {})

-----------------------------------------------------------------------------
(* The steps *)

\* Five required documents and an optional one, none of them there.
ComputeHireCollect(st, known) ==
  LET documents == [d \in HireDocuments |-> [status |-> "missing", evidenced |-> FALSE]] IN
  {[access |-> known.access, documents |-> documents, totals |-> HireTotals(documents),
    from |-> DerivedFrom(st, {})]}

ComputeHireVerify(st, known) ==
  LET documents == EffectiveArtifact(st, "collect").documents
      candidates == FindDuplicates(known)
      checks == [c \in HireCheckIds |->
                   CASE c = "start-date" -> StartDateCheck(known.start)
                     [] c = "manager-assignment" -> ManagerCheck(known.manager)
                     [] c = "duplicate-screening" -> HireDuplicateCheck(candidates)
                     [] OTHER -> HireDocumentCheck(documents[c])]
  IN Unless(~HasArtifact(st, "collect"),
       {[checks |-> checks, candidates |-> candidates, resolutions |-> {},
         manualReview |-> {c \in HireCheckIds : checks[c] = "fail"},
         from |-> DerivedFrom(st, {"collect"})]})

HireRiskScore(collect, verify) ==
  LET totals == HireTotals(collect.documents)
      Checks(status) == Cardinality({c \in DOMAIN verify.checks : verify.checks[c] = status})
      top == HireTopScore(verify.candidates)
  IN Min({100, AccessTierPoints[collect.access] + totals.waived * 12 + totals.outstanding * 25
                 + Checks("fail") * 15 + Checks("flag") * 5
                 + (IF top >= 85 THEN 25 ELSE IF top >= 60 THEN 10 ELSE 0)})
HireTierOf(score) == IF score <= 24 THEN "low" ELSE IF score <= 59 THEN "medium" ELSE "high"

ComputeHireRisk(st) ==
  LET score == HireRiskScore(EffectiveArtifact(st, "collect"), EffectiveArtifact(st, "verify")) IN
  Unless(~HasArtifact(st, "collect") \/ ~HasArtifact(st, "verify"),
    {[score |-> score, tier |-> HireTierOf(score),
      requiredSigners |-> HireSigners[HireTierOf(score)],
      from |-> DerivedFrom(st, {"collect", "verify"})]})

ComputeHireChain(st) ==
  LET risk == EffectiveArtifact(st, "risk-score") IN
  Unless(~HasArtifact(st, "risk-score"),
    {[tier |-> risk.tier, chain |-> [role \in risk.requiredSigners |-> "pending"],
      allApproved |-> FALSE, from |-> DerivedFrom(st, {"risk-score"})]})

ComputeProvision(st, known) ==
  LET access == EffectiveArtifact(st, "collect").access IN
  Unless(~HasArtifact(st, "collect") \/ ~HasArtifact(st, "approve"),
    {[access |-> access, accounts |-> ProvisionAccounts(access, known.engineering),
      existing |-> "employee-registry" \in known.carried,
      from |-> DerivedFrom(st, {"collect", "approve"})]})

OnboardingCompute(s, st, known) ==
  CASE s = "collect" -> ComputeHireCollect(st, known)
    [] s = "verify" -> ComputeHireVerify(st, known)
    [] s = "risk-score" -> ComputeHireRisk(st)
    [] s = "approve" -> StoredOr(st, s, ComputeHireChain(st))
    [] s = "provision" -> StoredOr(st, s, ComputeProvision(st, known))

\* A document is there or waived, if it is required, and nothing is claimed
\* without its evidence.
HireSettled(documents, d) ==
  /\ d \in HireRequired => documents[d].status \in {"received", "waived"}
  /\ documents[d].status \in {"received", "waived"} => documents[d].evidenced
HireCollectGate(st) ==
  LET documents == EffectiveArtifact(st, "collect").documents IN
  \A d \in HireDocuments : HireSettled(documents, d)

HireUnresolved(verify) ==
  {c \in DOMAIN verify.checks : verify.checks[c] = "fail"} \ verify.resolutions
HireVerifyGate(st) == HireUnresolved(EffectiveArtifact(st, "verify")) = {}

HireApprovers(chain) == {role \in DOMAIN chain : chain[role] = "approved"}
AssertHireApproved(st) ==
  /\ HasArtifact(st, "approve")
  /\ LET chain == EffectiveArtifact(st, "approve").chain IN HireApprovers(chain) = DOMAIN chain

OnboardingGate(s, st) ==
  CASE s = "collect" -> HireCollectGate(st)
    [] s = "verify" -> HireVerifyGate(st)
    [] s \in {"approve", "provision"} -> AssertHireApproved(st)
    [] OTHER -> TRUE

\* The registry knows an employee it has already provisioned.
ProvisionEmployee(preview) ==
  Call("employee-registry", "employee", TRUE,
       [access |-> preview.access, accounts |-> preview.accounts])

OnboardingWrites(s, st) ==
  IF s = "provision" THEN <<ProvisionEmployee(EffectiveArtifact(st, "provision"))>> ELSE <<>>

\* Every signer of the tier of the current risk has approved, a failed check has
\* its note, and the accounts are those of the access tier that was scored.
OnboardingPolicy(st, call, known) ==
  LET collect == EffectiveArtifact(st, "collect") IN
  /\ HireSigners[HireTierOf(HireRiskScore(collect, EffectiveArtifact(st, "verify")))]
       \subseteq HireApprovers(EffectiveArtifact(st, "approve").chain)
  /\ HireVerifyGate(st) /\ HireCollectGate(st)
  /\ call.what.accounts = ProvisionAccounts(collect.access, known.engineering)

-----------------------------------------------------------------------------
(* The console's side *)

\* What the parsers read.
HireCollectView(a) == Parsed(a, {"access"}, [documents |-> << >>, totals |-> HireTotals(a.documents)])
HireVerifyView(a) ==
  Parsed(a, {}, [checks |-> << >>, candidates |-> {}, manualReview |-> {}, resolutions |-> {}])
HireRiskView(a) == Parsed(a, {"tier"}, [score |-> 0, requiredSigners |-> {}])
HireApproveView(a) == Parsed(a, {}, [tier |-> "low", chain |-> << >>, allApproved |-> FALSE])
HireProvisionView(a) == Parsed(a, {"access"}, [accounts |-> {}, existing |-> FALSE])

\* Files are dropped on rows, or rows waived with or without a reason; the
\* declared expiry date may be filled in besides.
HireCollectSurface(a) ==
  LET Settle(received, waived, reason) ==
        LET documents == [d \in HireDocuments |->
              IF d \in waived THEN [status |-> "waived", evidenced |-> reason]
              ELSE IF d \in received THEN [status |-> "received", evidenced |-> TRUE]
              ELSE a.documents[d]]
        IN [documents |-> documents, totals |-> HireTotals(documents)]
      all == Settle(HireRequired, {}, TRUE)
  IN Surface(HireCollectView(a),
       {all, WithField(all, "customFields", TRUE), Settle({}, HireRequired \ {"id-verification"}, TRUE),
        Settle({"id-verification"}, HireRequired \ {"id-verification"}, TRUE),
        Settle(HireRequired, {"emergency-contact"}, FALSE)})

HireVerifySurface(a) ==
  LET view == HireVerifyView(a)
      failing == {c \in DOMAIN view.checks : view.checks[c] = "fail"}
  IN Surface(view, {[resolutions |-> noted] : noted \in SUBSET failing})

\* Nobody, the first signer or everybody has approved.
HireApproveSurface(a) ==
  LET view == HireApproveView(a)
      Signed(approvers) ==
        [chain |-> [role \in DOMAIN view.chain |->
                      IF role \in approvers THEN "approved" ELSE "pending"],
         allApproved |-> approvers = DOMAIN view.chain]
  IN Surface(view, {Signed({}), Signed({"people-partner"}), Signed(DOMAIN view.chain)})

HireRiskSurface(a) == ReadOnly(HireRiskView(a))
HireProvisionSurface(a) == ReadOnly(HireProvisionView(a))

OnboardingSurface(s, a) ==
  CASE s = "collect" -> HireCollectSurface(a)
    [] s = "verify" -> HireVerifySurface(a)
    [] s = "risk-score" -> HireRiskSurface(a)
    [] s = "approve" -> HireApproveSurface(a)
    [] s = "provision" -> HireProvisionSurface(a)

OnboardingCollectBlocked(a) == \E d \in DOMAIN a.documents : ~HireSettled(a.documents, d)
OnboardingVerifyBlocked(a) == HireUnresolved(a) # {}
OnboardingApproveBlocked(a) == HireApprovers(a.chain) # DOMAIN a.chain

OnboardingBlocked(s, a) ==
  CASE s = "collect" -> OnboardingCollectBlocked(a)
    [] s = "verify" -> OnboardingVerifyBlocked(a)
    [] s = "approve" -> OnboardingApproveBlocked(a)
    [] OTHER -> FALSE

\* Edits no form of the console opens, which the API takes.
OnboardingFreeEdits(s, a) ==
  CASE s = "collect" -> {[access |-> "low"]}
    [] s = "verify" -> {[checks |-> [c \in HireCheckIds |-> "pass"]]}
    [] s = "risk-score" -> {[requiredSigners |-> {"people-partner"}]}
    [] s = "approve" -> {[chain |-> [role \in {"people-partner"} |-> "approved"], allApproved |-> TRUE]}
    [] s = "provision" -> {[accounts |-> {"aws", "okta"}]}
==============================================================================

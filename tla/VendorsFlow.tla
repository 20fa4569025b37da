----------------------------- MODULE VendorsFlow -----------------------------
(***************************************************************************)
(* The vendors lane, src/src/mastra/agents/vendors/flow.ts: collect,       *)
(* verify, risk-score, approve (the signer chain of the tier), create (the *)
(* master record).                                                         *)
(***************************************************************************)
EXTENDS FlowOps, FiniteSetsExt

VendorsSteps == <<"collect", "verify", "risk-score", "approve", "create">>

-----------------------------------------------------------------------------
(* The contracts *)

VendorDocuments == {"registration", "tax-id", "bank-letter", "insurance"}
VendorCheckIds == VendorDocuments \union {"tax-format", "duplicate-screening"}
VendorSigners == {"procurement-lead", "finance-manager", "cfo"}
CheckStatuses == {"pass", "flag", "fail"}
RiskTiers == {"low", "medium", "high"}
SignerStates == {"pending", "approved", "rejected"}

\* evidenced: a received document names its file, a waived one its reason.
DocumentEntry == [status : {"missing", "pending", "received", "waived"}, evidenced : BOOLEAN]
CollectArtifact ==
  [documents : [VendorDocuments -> DocumentEntry],
   totals : [received : 0..4, waived : 0..4, outstanding : 0..4]]
VerifyArtifact ==
  [checks : [VendorCheckIds -> CheckStatuses], candidates : SUBSET (0..100),
   manualReview : SUBSET VendorCheckIds, resolutions : SUBSET VendorCheckIds]
RiskArtifact ==
  [score : 0..100, tier : RiskTiers, requiredSigners : (SUBSET VendorSigners) \ {{}}]
Chains(signers) == UNION {[some -> SignerStates] : some \in (SUBSET signers) \ {{}}}
ChainArtifact == [tier : RiskTiers, chain : Chains(VendorSigners), allApproved : BOOLEAN]
CreateArtifact == [existing : BOOLEAN, welcomePacket : BOOLEAN]

VendorsContract(s) ==
  CASE s = "collect" -> CollectArtifact
    [] s = "verify" -> VerifyArtifact
    [] s = "risk-score" -> RiskArtifact
    [] s = "approve" -> ChainArtifact
    [] s = "create" -> CreateArtifact

-----------------------------------------------------------------------------
(* The vendor and the master records *)

\* A master record next to the vendor: the share of their name's words, in
\* percent, and how much of the tax id they share.
MasterRecord(name, taxId) == [name |-> name, taxId |-> taxId]

VendorsFacts ==
  [taxShaped : {TRUE},
   registry : {{}, {MasterRecord(60, "prefix"), MasterRecord(50, "exact")},
               {MasterRecord(100, "prefix"), MasterRecord(20, "other")}}]
    \union [taxShaped : {FALSE}, registry : {{MasterRecord(80, "prefix")}}]

\* An earlier run's record has the name and the tax id of the vendor.
RegistryList(known) ==
  known.registry
    \union (IF "vendor-registry" \in known.carried THEN {MasterRecord(100, "exact")} ELSE {})
RegistryKnows(known) == \E record \in RegistryList(known) : record.taxId = "exact"

TaxComponent == [exact |-> 100, prefix |-> 50, other |-> 0]

\* The scores of the lookalikes, in percent.
MatchCandidates(known) ==
  {score \in {(7 * record.name + 3 * TaxComponent[record.taxId]) \div 10
                : record \in RegistryList(known)} : score >= 50}
TopScore(candidates) == Max(candidates \union {0})

DocumentCheck(document) ==
  CASE document.status = "received" -> "pass"
    [] document.status = "waived" -> "flag"
    [] OTHER -> "fail"
TaxFormatCheck(known) == IF known.taxShaped THEN "pass" ELSE "fail"
DuplicateCheck(candidates) ==
  LET top == TopScore(candidates) IN
  IF top >= 85 THEN "fail" ELSE IF top >= 60 THEN "flag" ELSE "pass"

With(documents, status) == Cardinality({d \in DOMAIN documents : documents[d].status = status})
CollectTotals(documents) ==
  LET received == With(documents, "received")
      waived == With(documents, "waived")
  IN [received |-> received, waived |-> waived,
      outstanding |-> Cardinality(DOMAIN documents) - received - waived]

ApproverMatrix ==
  [low |-> {"procurement-lead"}, medium |-> {"procurement-lead", "finance-manager"},
   high |-> VendorSigners]

-----------------------------------------------------------------------------
(* The steps *)

\* Four required documents, none of them there.
ComputeCollect(st) ==
  LET documents == [d \in VendorDocuments |-> [status |-> "missing", evidenced |-> FALSE]] IN
  {[documents |-> documents, totals |-> CollectTotals(documents), from |-> DerivedFrom(st, {})]}

ComputeVerify(st, known) ==
  LET documents == EffectiveArtifact(st, "collect").documents
      candidates == MatchCandidates(known)
      checks == [c \in VendorCheckIds |->
                   CASE c = "tax-format" -> TaxFormatCheck(known)
                     [] c = "duplicate-screening" -> DuplicateCheck(candidates)
                     [] OTHER -> DocumentCheck(documents[c])]
  IN Unless(~HasArtifact(st, "collect"),
       {[checks |-> checks, candidates |-> candidates, resolutions |-> {},
         manualReview |-> {c \in VendorCheckIds : checks[c] = "fail"},
         from |-> DerivedFrom(st, {"collect"})]})

RiskScore(collect, verify) ==
  LET totals == CollectTotals(collect.documents)
      Checks(status) == Cardinality({c \in DOMAIN verify.checks : verify.checks[c] = status})
      top == TopScore(verify.candidates)
  IN Min({100, totals.waived * 12 + totals.outstanding * 25
                 + Checks("fail") * 15 + Checks("flag") * 5
                 + (IF top >= 85 THEN 25 ELSE IF top >= 60 THEN 10 ELSE 0)})
TierOf(score) == IF score <= 24 THEN "low" ELSE IF score <= 59 THEN "medium" ELSE "high"

ComputeRisk(st) ==
  LET score == RiskScore(EffectiveArtifact(st, "collect"), EffectiveArtifact(st, "verify")) IN
  Unless(~HasArtifact(st, "collect") \/ ~HasArtifact(st, "verify"),
    {[score |-> score, tier |-> TierOf(score), requiredSigners |-> ApproverMatrix[TierOf(score)],
      from |-> DerivedFrom(st, {"collect", "verify"})]})

ComputeChain(st) ==
  LET risk == EffectiveArtifact(st, "risk-score") IN
  Unless(~HasArtifact(st, "risk-score"),
    {[tier |-> risk.tier, chain |-> [role \in risk.requiredSigners |-> "pending"],
      allApproved |-> FALSE, from |-> DerivedFrom(st, {"risk-score"})]})

ComputeRecord(st, known) ==
  Unless(~HasArtifact(st, "collect") \/ ~HasArtifact(st, "approve"),
    {[existing |-> RegistryKnows(known), welcomePacket |-> TRUE,
      from |-> DerivedFrom(st, {"collect", "approve"})]})

VendorsCompute(s, st, known) ==
  CASE s = "collect" -> ComputeCollect(st)
    [] s = "verify" -> ComputeVerify(st, known)
    [] s = "risk-score" -> ComputeRisk(st)
    [] s = "approve" -> StoredOr(st, s, ComputeChain(st))
    [] s = "create" -> StoredOr(st, s, ComputeRecord(st, known))

Settled(document) == document.status \in {"received", "waived"} /\ document.evidenced

CollectGate(st) ==
  \A d \in VendorDocuments : Settled(EffectiveArtifact(st, "collect").documents[d])

Unresolved(verify) == {c \in DOMAIN verify.checks : verify.checks[c] = "fail"} \ verify.resolutions
VerifyGate(st) == Unresolved(EffectiveArtifact(st, "verify")) = {}

Approvers(chain) == {role \in DOMAIN chain : chain[role] = "approved"}

AssertChainApproved(st) ==
  /\ HasArtifact(st, "approve")
  /\ LET chain == EffectiveArtifact(st, "approve").chain IN Approvers(chain) = DOMAIN chain

VendorsGate(s, st) ==
  CASE s = "collect" -> CollectGate(st)
    [] s = "verify" -> VerifyGate(st)
    [] s \in {"approve", "create"} -> AssertChainApproved(st)
    [] OTHER -> TRUE

\* The registry answers a tax id it has already recorded with that record; the
\* welcome packet is a remark of the receipt.
CreateRecord(preview) ==
  Call("vendor-registry", "tax-id", TRUE, IF preview.existing THEN "reused" ELSE "new")

VendorsWrites(s, st) ==
  IF s = "create" THEN <<CreateRecord(EffectiveArtifact(st, "create"))>> ELSE <<>>

\* Every signer of the tier of the current risk has approved, somebody wrote a
\* note for every check that failed, and no document is just missing.
VendorsPolicy(st) ==
  /\ ApproverMatrix[TierOf(RiskScore(EffectiveArtifact(st, "collect"),
                                     EffectiveArtifact(st, "verify")))]
       \subseteq Approvers(EffectiveArtifact(st, "approve").chain)
  /\ VerifyGate(st) /\ CollectGate(st)

-----------------------------------------------------------------------------
(* The console's side *)

\* What the parsers read.
VendorCollectView(a) ==
  Parsed(a, {}, [documents |-> << >>, totals |-> CollectTotals(a.documents)])
VendorVerifyView(a) ==
  Parsed(a, {}, [checks |-> << >>, candidates |-> {}, manualReview |-> {}, resolutions |-> {}])
VendorRiskView(a) == Parsed(a, {"tier"}, [score |-> 0, requiredSigners |-> {}])
VendorApproveView(a) == Parsed(a, {}, [tier |-> "low", chain |-> << >>, allApproved |-> FALSE])
VendorCreateView(a) == Parsed(a, {}, [existing |-> FALSE, welcomePacket |-> TRUE])

\* The fields the workflow definition declares on a step ride its edit.
DeclaredFields(draft) == WithField(draft, "customFields", TRUE)

\* A document is dropped on its row, or waived, with or without a reason: all
\* received, the insurance waived, or everything.  The declared fields of the
\* step are filled in besides; over the API they can be left out.
VendorCollectSurface(a) ==
  LET Settle(waived, reason) ==
        LET documents == [d \in VendorDocuments |->
              IF d \in waived THEN [status |-> "waived", evidenced |-> reason]
              ELSE [status |-> "received", evidenced |-> TRUE]]
        IN [documents |-> documents, totals |-> CollectTotals(documents)]
      drafts == {Settle({}, TRUE), Settle({"insurance"}, TRUE),
                 Settle({"insurance"}, FALSE), Settle(VendorDocuments, TRUE)}
  IN Surface(VendorCollectView(a), drafts \union {DeclaredFields(Settle({}, TRUE))})

\* A note for any of the failing checks.
VendorVerifySurface(a) ==
  LET view == VendorVerifyView(a)
      failing == {c \in DOMAIN view.checks : view.checks[c] = "fail"}
  IN Surface(view, {[resolutions |-> noted] : noted \in SUBSET failing})

VendorRiskSurface(a) == ReadOnly(VendorRiskView(a))

\* Each signer is approved, or taken back, one by one: nobody, the first, all.
VendorApproveSurface(a) ==
  LET view == VendorApproveView(a)
      Signed(approvers) ==
        [chain |-> [role \in DOMAIN view.chain |->
                      IF role \in approvers THEN "approved" ELSE "pending"],
         allApproved |-> approvers = DOMAIN view.chain]
  IN Surface(view, {Signed({}), Signed({"procurement-lead"}), Signed(DOMAIN view.chain)})

VendorCreateSurface(a) == Surface(VendorCreateView(a), [welcomePacket : BOOLEAN])

VendorsSurface(s, a) ==
  CASE s = "collect" -> VendorCollectSurface(a)
    [] s = "verify" -> VendorVerifySurface(a)
    [] s = "risk-score" -> VendorRiskSurface(a)
    [] s = "approve" -> VendorApproveSurface(a)
    [] s = "create" -> VendorCreateSurface(a)

VendorCollectBlocked(a) == \E d \in DOMAIN a.documents : ~Settled(a.documents[d])
VendorVerifyBlocked(a) == Unresolved(a) # {}
VendorApproveBlocked(a) == Approvers(a.chain) # DOMAIN a.chain

VendorsBlocked(s, a) ==
  CASE s = "collect" -> VendorCollectBlocked(a)
    [] s = "verify" -> VendorVerifyBlocked(a)
    [] s = "approve" -> VendorApproveBlocked(a)
    [] OTHER -> FALSE

\* Edits no form of the console opens, which the API takes.
VendorsFreeEdits(s, a) ==
  CASE s = "verify" -> {[checks |-> [c \in VendorCheckIds |-> "pass"]], [candidates |-> {}]}
    [] s = "risk-score" -> {[requiredSigners |-> {"procurement-lead"}]}
    [] s = "approve" -> {[chain |-> [role \in {"procurement-lead"} |-> "approved"], allApproved |-> TRUE]}
    [] s = "create" -> {[existing |-> ~a.existing]}
    [] OTHER -> {}
==============================================================================

---------------------------- MODULE OffboardingFlow ----------------------------
(***************************************************************************)
(* The offboarding lane, src/src/mastra/agents/offboarding/flow.ts: intake,*)
(* access-audit, approve (high-blast systems one by one), revoke (system   *)
(* by system; failures are collected), attest (failures acknowledged, the  *)
(* case closed).  The revoke effect stays in the workflow's snapshot.      *)
(***************************************************************************)
EXTENDS FlowOps

OffboardingSteps == <<"intake", "access-audit", "approve", "revoke", "attest">>

-----------------------------------------------------------------------------
(* The contracts *)

\* The systems the leavers of the model hold, in the order of an audit; the
\* wiki has no profile of its own.
LeaverSystems == <<"aws", "github", "slack", "wiki", "workday">>
AllSystems == {LeaverSystems[i] : i \in 1..Len(LeaverSystems)}

\* One row for each system an artifact speaks of.
PerSystem(rows, row) == [DOMAIN rows \intersect AllSystems -> row]

LeaverAccess == {"low", "medium", "high"}
Reversibilities == {"reversible", "recoverable", "irreversible"}
BlastTiers == {"low", "medium", "high"}
AuditRisks == {"high-blast", "irreversible", "standard-revocations"}
FinalPayItems == {"access-revocation", "leave-balance", "equipment-return"}
EquipmentIds == {"laptop", "badge", "token"}

LeaverArtifact == [access : LeaverAccess, systems : (SUBSET AllSystems) \ {{}}]
AuditEntry == [blastRadius : BlastTiers, riskScore : 0..100, reversibility : Reversibilities]
AuditArtifact(a) ==
  [access : LeaverAccess, entries : PerSystem(a.entries, AuditEntry), risks : [AuditRisks -> BlastTiers]]
ApproveItem == [blastRadius : BlastTiers, explicit : BOOLEAN, approved : BOOLEAN, signed : BOOLEAN]
RevocationApproval(a) ==
  [items : PerSystem(a.items, ApproveItem), explicitRequired : 0..30, allApproved : BOOLEAN]
RevokeAction == [blastRadius : BlastTiers, status : {"pending", "revoked", "failed"}]
RevokePlan(a) == [actions : PerSystem(a.actions, RevokeAction)]
\* An acknowledgement is there with a note; a draft may still be without one.
AttestArtifact(a) ==
  [finalPay : [FinalPayItems -> {"ready", "pending", "blocked"}],
   equipment : [EquipmentIds -> {"returned", "outstanding"}],
   revoked : SUBSET AllSystems, failed : SUBSET AllSystems,
   acknowledgements : PerSystem(a.acknowledgements, {TRUE}), existing : BOOLEAN]

OffboardingContract(s, a) ==
  CASE s = "intake" -> LeaverArtifact
    [] s = "access-audit" -> AuditArtifact(a)
    [] s = "approve" -> RevocationApproval(a)
    [] s = "revoke" -> RevokePlan(a)
    [] s = "attest" -> AttestArtifact(a)

-----------------------------------------------------------------------------
(* The leaver and the systems *)

\* Whether the directory knows the leaver, the access held, the systems whose
\* revocation fails, and whether leave is owed.
OffboardingFacts ==
  LET Leaver(found, access, systems, failing, leaveOwed) ==
        [found |-> found, access |-> access, systems |-> systems, failing |-> failing,
         leaveOwed |-> leaveOwed]
  IN {Leaver(FALSE, "low", {"slack"}, {}, FALSE),
      Leaver(TRUE, "low", {"github", "slack"}, {}, TRUE),
      Leaver(TRUE, "low", {"wiki", "workday"}, {"workday"}, FALSE),
      Leaver(TRUE, "medium", {"slack", "workday"}, {"slack"}, FALSE),
      Leaver(TRUE, "high", {"aws", "github"}, {"aws", "github"}, TRUE)}

Profile(blast, reversibility) == [blast |-> blast, reversibility |-> reversibility]
SystemProfiles ==
  WithField(
    [okta |-> Profile(40, "recoverable"), github |-> Profile(35, "recoverable"),
     aws |-> Profile(55, "irreversible"), jira |-> Profile(15, "reversible"),
     slack |-> Profile(10, "reversible"), zendesk |-> Profile(20, "reversible"),
     payroll |-> Profile(60, "recoverable"), erp |-> Profile(45, "recoverable"),
     banking |-> Profile(65, "recoverable"), workday |-> Profile(50, "irreversible")],
    "hr-console", Profile(55, "recoverable"))
StandardProfile == Profile(25, "reversible")
SystemProfile(system) ==
  IF system \in DOMAIN SystemProfiles THEN SystemProfiles[system] ELSE StandardProfile

BlastScoreFor(system, access) ==
  LET raised == SystemProfile(system).blast + [low |-> 0, medium |-> 5, high |-> 10][access]
  IN IF raised > 100 THEN 100 ELSE raised
BlastTierFor(score) == IF score >= 55 THEN "high" ELSE IF score >= 25 THEN "medium" ELSE "low"

-----------------------------------------------------------------------------
(* The steps *)

ComputeLeaver(st, known) ==
  Unless(~known.found,
    {[access |-> known.access, systems |-> known.systems, from |-> DerivedFrom(st, {})]})

ComputeAudit(st) ==
  LET intake == EffectiveArtifact(st, "intake")
      entries == [system \in intake.systems |->
                    LET score == BlastScoreFor(system, intake.access) IN
                    [blastRadius |-> BlastTierFor(score), riskScore |-> score,
                     reversibility |-> SystemProfile(system).reversibility]]
      Tier(systems, tier) == IF systems # {} THEN tier ELSE "low"
  IN Unless(~HasArtifact(st, "intake"),
       {[access |-> intake.access, entries |-> entries,
         risks |-> [risk \in AuditRisks |->
                      CASE risk = "high-blast" ->
                             Tier({s \in intake.systems : entries[s].blastRadius = "high"}, "high")
                        [] risk = "irreversible" ->
                             Tier({s \in intake.systems : entries[s].reversibility = "irreversible"}, "high")
                        [] OTHER -> Tier({s \in intake.systems : entries[s].blastRadius # "high"}, "medium")],
         from |-> DerivedFrom(st, {"intake"})]})

\* Standard revocations are covered by the case; high-blast ones wait for a
\* human and the name of who approved.
ComputeRevocationItems(st) ==
  LET entries == EffectiveArtifact(st, "access-audit").entries
      High(system) == entries[system].blastRadius = "high"
      explicit == {system \in DOMAIN entries : High(system)}
  IN Unless(~HasArtifact(st, "access-audit"),
       {[items |-> [system \in DOMAIN entries |->
                      [blastRadius |-> entries[system].blastRadius, explicit |-> High(system),
                       approved |-> ~High(system), signed |-> FALSE]],
         explicitRequired |-> Cardinality(explicit), allApproved |-> explicit = {},
         from |-> DerivedFrom(st, {"access-audit"})]})

ComputeRevokePlan(st) ==
  LET entries == EffectiveArtifact(st, "access-audit").entries IN
  Unless(~HasArtifact(st, "access-audit"),
    {[actions |-> [system \in DOMAIN entries |->
                     [blastRadius |-> entries[system].blastRadius, status |-> "pending"]],
      from |-> DerivedFrom(st, {"access-audit"})]})

\* The recorded revocation, or what the registry holds and no failure when no
\* receipt is known.
RevokeReceiptOf(st, known) ==
  LET planned == DOMAIN EffectiveArtifact(st, "revoke").actions IN
  IF st.eff["revoke"] = NoEffect
  THEN [revoked |-> AllSystems \intersect known.carried, failed |-> {}]
  ELSE [revoked |-> planned \ known.failing, failed |-> planned \intersect known.failing]

ComputeAttest(st, known) ==
  LET receipt == RevokeReceiptOf(st, known)
      Ready(yes) == IF yes THEN "ready" ELSE "pending"
  IN Unless(~HasArtifact(st, "intake"),
       {[finalPay |-> [item \in FinalPayItems |->
                         CASE item = "access-revocation" -> Ready(receipt.failed = {})
                           [] item = "leave-balance" -> Ready(~known.leaveOwed)
                           [] item = "equipment-return" -> Ready(FALSE)],
         equipment |-> [item \in EquipmentIds |-> "outstanding"],
         revoked |-> receipt.revoked, failed |-> receipt.failed, acknowledgements |-> << >>,
         existing |-> "offboarding-case" \in known.carried,
         from |-> DerivedFrom(st, {"intake", "revoke"})]})

OffboardingCompute(s, st, known) ==
  CASE s = "intake" -> ComputeLeaver(st, known)
    [] s = "access-audit" -> ComputeAudit(st)
    [] s = "approve" -> StoredOr(st, s, ComputeRevocationItems(st))
    [] s = "revoke" -> StoredOr(st, s, ComputeRevokePlan(st))
    [] s = "attest" -> StoredOr(st, s, ComputeAttest(st, known))

SignedOff(item) == item.approved /\ (item.explicit => item.signed)
AssertRevocationsApproved(st) ==
  LET items == EffectiveArtifact(st, "approve").items IN
  HasArtifact(st, "approve") /\ \A system \in DOMAIN items : SignedOff(items[system])

AssertFailuresAcknowledged(st) ==
  LET attest == EffectiveArtifact(st, "attest") IN
  HasArtifact(st, "attest") /\ attest.failed \subseteq DOMAIN attest.acknowledgements

OffboardingGate(s, st) ==
  CASE s \in {"approve", "revoke"} -> AssertRevocationsApproved(st)
    [] s = "attest" -> AssertFailuresAcknowledged(st)
    [] OTHER -> TRUE

\* One call per system of the plan; a call that fails is only listed.
ExecuteRevocations(plan, known) ==
  LET Revoke(i) == IF LeaverSystems[i] \in DOMAIN plan.actions \ known.failing
                   THEN <<Call(LeaverSystems[i], "employee", TRUE, "revoked")>> ELSE <<>>
  IN Revoke(1) \o Revoke(2) \o Revoke(3) \o Revoke(4) \o Revoke(5)

CloseCase(attest) ==
  <<Call("offboarding-case", "employee", TRUE,
         [revoked |-> attest.revoked, failed |-> attest.failed,
          outstanding |-> {item \in EquipmentIds : attest.equipment[item] = "outstanding"},
          finalPayReady |-> \A item \in FinalPayItems : attest.finalPay[item] = "ready"])>>

OffboardingWrites(s, st, known) ==
  CASE s = "revoke" -> ExecuteRevocations(EffectiveArtifact(st, "revoke"), known)
    [] s = "attest" -> CloseCase(EffectiveArtifact(st, "attest"))
    [] OTHER -> <<>>

\* Access goes only where it was approved, by name where the leaver's access
\* makes it high-blast; the case closes over every revocation that failed, each
\* acknowledged.
OffboardingPolicy(s, st, call, known) ==
  IF s = "revoke"
  THEN LET item == EffectiveArtifact(st, "approve").items[call.sys] IN
       /\ item.approved
       /\ BlastScoreFor(call.sys, known.access) >= 55 => item.signed
  ELSE known.failing \intersect known.systems
         \subseteq DOMAIN EffectiveArtifact(st, "attest").acknowledgements

-----------------------------------------------------------------------------
(* The console's side *)

\* What the parsers read.
OffboardingIntakeView(a) == Parsed(a, {}, [access |-> "low", systems |-> {}])
OffboardingAuditView(a) ==
  Parsed(a, {}, [access |-> "low", entries |-> << >>, risks |-> << >>])
OffboardingApproveView(a) ==
  Parsed(a, {}, [items |-> << >>, explicitRequired |-> 0, allApproved |-> FALSE])
OffboardingRevokeView(a) == Parsed(a, {}, [actions |-> << >>])
OffboardingAttestView(a) ==
  Parsed(a, {}, [finalPay |-> << >>, equipment |-> << >>, revoked |-> {}, failed |-> {},
                 acknowledgements |-> << >>, existing |-> FALSE])

OffboardingIntakeSurface(a) == ReadOnly(OffboardingIntakeView(a))
OffboardingAuditSurface(a) == ReadOnly(OffboardingAuditView(a))
OffboardingRevokeSurface(a) == ReadOnly(OffboardingRevokeView(a))

\* Every item can be approved or not; the high-blast ones take a name.
OffboardingApproveSurface(a) ==
  LET view == OffboardingApproveView(a)
      Items(approved, named) ==
        [system \in DOMAIN view.items |->
           [view.items[system] EXCEPT !.approved = system \in approved,
                                      !.signed = named /\ view.items[system].explicit]]
  IN Surface(view,
       {[items |-> Items(approved, named), allApproved |-> approved = DOMAIN view.items]
          : approved \in SUBSET DOMAIN view.items, named \in BOOLEAN})

\* A note per failed revocation, written or still empty.
OffboardingAttestSurface(a) ==
  LET view == OffboardingAttestView(a) IN
  Surface(view,
    {[acknowledgements |-> [system \in view.failed |-> system \in written]]
       : written \in SUBSET view.failed})

OffboardingSurface(s, a) ==
  CASE s = "intake" -> OffboardingIntakeSurface(a)
    [] s = "access-audit" -> OffboardingAuditSurface(a)
    [] s = "approve" -> OffboardingApproveSurface(a)
    [] s = "revoke" -> OffboardingRevokeSurface(a)
    [] s = "attest" -> OffboardingAttestSurface(a)

OffboardingApproveBlocked(a) == \E system \in DOMAIN a.items : ~SignedOff(a.items[system])
OffboardingAttestBlocked(a) ==
  \E system \in a.failed :
    system \in DOMAIN a.acknowledgements => ~a.acknowledgements[system]

OffboardingBlocked(s, a) ==
  CASE s = "approve" -> OffboardingApproveBlocked(a)
    [] s = "attest" -> OffboardingAttestBlocked(a)
    [] OTHER -> FALSE

\* Edits no form of the console opens, which the API takes: an item approved
\* without the name it asks for, a revocation nobody approved, a failure gone.
OffboardingFreeEdits(s, a) ==
  CASE s = "intake" -> {[access |-> "low"], [systems |-> {"slack"}]}
    [] s = "access-audit" -> {[entries |-> [system \in DOMAIN a.entries |-> [a.entries[system] EXCEPT !.blastRadius = "low"]]]}
    [] s = "approve" ->
         {[items |-> [system \in DOMAIN a.items |-> [a.items[system] EXCEPT !.explicit = FALSE, !.approved = TRUE]],
           allApproved |-> TRUE], [items |-> << >>, allApproved |-> TRUE]}
    [] s = "revoke" -> {[actions |-> [system \in {"aws", "slack"} |-> [blastRadius |-> "low", status |-> "pending"]]]}
    [] s = "attest" -> {[failed |-> {}]}
==============================================================================

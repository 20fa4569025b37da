------------------------------ MODULE BillsFlow ------------------------------
(***************************************************************************)
(* The vendor-bill lane, src/src/mastra/agents/bills/flow.ts: intake,      *)
(* extract (the bill, checked against the vendor registry), approve, post  *)
(* (a draft bill in the ledger).  The console has no surface of its own    *)
(* for the lane: its artifacts are shown as they are.                      *)
(***************************************************************************)
EXTENDS FlowOps

BillsSteps == <<"intake", "extract", "approve", "post">>

-----------------------------------------------------------------------------
(* The contracts.  Unstated is the null of a field the email does not say. *)

Unstated == -1
EscalationReasons == {"empty_extraction", "missing_fields", "bank_details_changed",
                      "vendor_unverified"}

Cents == 0..1000
BankDetails == [bsb : {Unstated, 111, 222}, accountNumber : {Unstated, 12345}]
ExtractedBill ==
  [number : BOOLEAN, dueDate : BOOLEAN, totalCents : Cents \union {Unstated},
   lineItems : {<<>>} \union [1..1 -> Cents] \union [1..2 -> Cents]]
NoVendor == [bank |-> [bsb |-> Unstated, accountNumber |-> Unstated], unknown |-> TRUE]
BillModelOutput == [bank : BankDetails, bill : ExtractedBill]

ExtractArtifact ==
  [bill : ExtractedBill, stated : BankDetails, registered : BOOLEAN, matches : BOOLEAN,
   escalations : SUBSET EscalationReasons, escalated : BOOLEAN]
BillApproval == [state : {"pending", "approved", "rejected"}, told : 0..8]
PostArtifact == [totalCents : Cents \union {Unstated}, complete : BOOLEAN]

BillsContract(s, a) ==
  CASE s = "intake" -> TRUE
    [] s = "extract" -> Conforms(a, ExtractArtifact) /\ a.escalated = (a.escalations # {})
    [] s = "approve" -> Conforms(a, BillApproval)
    [] s = "post" -> Conforms(a, PostArtifact)

-----------------------------------------------------------------------------
(* The vendor registry *)

\* Whether the run carries a tenant, how the registry answers, and the bank it
\* holds for the sender.
BillsFacts ==
  LET Case(tenant, service, bank) == [tenant |-> tenant, service |-> service, bank |-> bank]
      Bank(bsb) == [bsb |-> bsb, accountNumber |-> 12345]
  IN {Case(FALSE, "up", Bank(111)), Case(TRUE, "down", Bank(111)),
      Case(TRUE, "up", Bank(111)), Case(TRUE, "up", Bank(222)), Case(TRUE, "up", Bank(Unstated))}

\* Every failure of the lookup is a sender nobody registered.
LookupVendor(known) ==
  IF known.tenant /\ known.service = "up" THEN [bank |-> known.bank] ELSE NoVendor

\* A detail only one side states is no change.
BankDetailsMatch(stated, vendor) ==
  /\ vendor # NoVendor
  /\ \A detail \in {"bsb", "accountNumber"} :
       stated[detail] # Unstated /\ vendor.bank[detail] # Unstated
         => stated[detail] = vendor.bank[detail]

-----------------------------------------------------------------------------
(* The steps *)

WholeBill == [number |-> TRUE, dueDate |-> TRUE, totalCents |-> 300, lineItems |-> <<100, 200>>]
EmptyBill == [number |-> FALSE, dueDate |-> FALSE, totalCents |-> Unstated, lineItems |-> <<>>]
BillReadings ==
  LET Reads(bill, bsb) == [bank |-> [bsb |-> bsb, accountNumber |-> 12345], bill |-> bill]
  IN {Reads(WholeBill, 111), Reads([WholeBill EXCEPT !.lineItems = <<100>>], Unstated),
      Reads([WholeBill EXCEPT !.dueDate = FALSE], 111), Reads(EmptyBill, 111)}

ComputeBillsIntake(st) == {[from |-> DerivedFrom(st, {})]}

CanPost(bill) == bill.number /\ bill.dueDate /\ bill.totalCents # Unstated

ReadingEscalations(bill) ==
  IF bill = EmptyBill THEN {"empty_extraction"}
  ELSE IF CanPost(bill) THEN {} ELSE {"missing_fields"}
VendorEscalations(stated, vendor) ==
  IF vendor = NoVendor THEN {"vendor_unverified"}
  ELSE IF BankDetailsMatch(stated, vendor) THEN {} ELSE {"bank_details_changed"}

ComputeExtract(st, known) ==
  LET vendor == LookupVendor(known)
      Escalations(output) ==
        ReadingEscalations(output.bill) \union VendorEscalations(output.bank, vendor)
  IN {[bill |-> output.bill, stated |-> output.bank, registered |-> vendor # NoVendor,
       matches |-> BankDetailsMatch(output.bank, vendor), escalations |-> Escalations(output),
       escalated |-> Escalations(output) # {}, from |-> DerivedFrom(st, {"intake"})]
      : output \in ContractOutput(BillReadings, BillModelOutput)}

\* The approver is told how many escalations need a decision.
ComputeBillsApprove(st) ==
  Unless(~HasArtifact(st, "extract"),
    {[state |-> "pending", told |-> Cardinality(EffectiveArtifact(st, "extract").escalations),
      from |-> DerivedFrom(st, {"extract"})]})

ComputePostPlan(st) ==
  LET bill == EffectiveArtifact(st, "extract").bill IN
  Unless(~HasArtifact(st, "extract"),
    {[totalCents |-> bill.totalCents, complete |-> CanPost(bill),
      from |-> DerivedFrom(st, {"extract"})]})

BillsCompute(s, st, known) ==
  CASE s = "intake" -> ComputeBillsIntake(st)
    [] s = "extract" -> ComputeExtract(st, known)
    [] s = "approve" -> StoredOr(st, s, ComputeBillsApprove(st))
    [] s = "post" -> StoredOr(st, s, ComputePostPlan(st))

\* The post refuses a bill without its number, due date or total.
BillsGate(s, st) ==
  CASE s \in {"extract", "approve"} -> HasArtifact(st, s)
    [] s = "post" -> HasArtifact(st, "extract") /\ CanPost(EffectiveArtifact(st, "extract").bill)
    [] OTHER -> TRUE

\* The lines go to the ledger one by one when they add up to the total, and as
\* one line of the total otherwise.
SumOf(cents) == IF cents = <<>> THEN 0 ELSE IF Len(cents) = 1 THEN cents[1] ELSE cents[1] + cents[2]
LedgerLines(bill) ==
  IF bill.lineItems # <<>> /\ SumOf(bill.lineItems) = bill.totalCents
  THEN bill.lineItems ELSE <<bill.totalCents>>

\* The ledger returns the bill it holds under the key of the case and ticket.
LedgerPost(posting) == Call("ledger", "bills-post", TRUE, posting)

ExecutePost(bill) ==
  <<LedgerPost([total |-> bill.totalCents, lines |-> LedgerLines(bill)])>>

BillsWrites(s, st) ==
  IF s = "post" THEN ExecutePost(EffectiveArtifact(st, "extract").bill) ELSE <<>>

\* The amount posted is the total that was approved, line by line; what the
\* registry holds against the sender was put to the approver.
BillsPolicy(st, call, known) ==
  LET extract == EffectiveArtifact(st, "extract") IN
  /\ SumOf(call.what.lines) = EffectiveArtifact(st, "post").totalCents
  /\ VendorEscalations(extract.stated, LookupVendor(known)) \subseteq extract.escalations
  /\ EffectiveArtifact(st, "approve").told = Cardinality(extract.escalations)

\* The extraction is corrected through the API; the console has no form for it.
BillCorrections(a) ==
  {[bill |-> WholeBill], [bill |-> [WholeBill EXCEPT !.totalCents = 250]]}

BillsDrafts(s, a) == IF s = "extract" THEN BillCorrections(a) ELSE {}
BillsSurface(s, a) == Surface(Fields(a), BillsDrafts(s, a))

\* Edits beyond the corrections of a bill that the API takes.
BillsFreeEdits(s, a) ==
  CASE s = "intake" -> {}
    [] s = "extract" -> {[escalations |-> {}, escalated |-> FALSE], [matches |-> TRUE]}
    [] s = "approve" -> {[told |-> 0]}
    [] s = "post" -> {[totalCents |-> 250]}
==============================================================================

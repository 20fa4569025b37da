------------------------------- MODULE MspFlow -------------------------------
(***************************************************************************)
(* The managed-service-provider lane, src/src/mastra/agents/msp/flow.ts:   *)
(* intake, ticket, draft, approve, send.  The ticket step creates the desk *)
(* ticket in the middle of the flow; every suspend payload carries the     *)
(* effects recorded so far.                                                *)
(***************************************************************************)
EXTENDS FlowOps

MspSteps == <<"intake", "ticket", "draft", "approve", "send">>

-----------------------------------------------------------------------------
(* The clients and their runbooks *)

\* A client is the mailbox its mail comes in through; an address that names
\* none is the client "client".
MspClients == {"acme", "zenith", "client"}
ClientRefFor(address) == IF address \in MspClients THEN address ELSE "client"

\* A passage of the knowledge service: the client whose partition it is in and
\* whether its document is past its review date.
MspPassage ==
  [vpn |-> [client |-> "acme", stale |-> FALSE],
   printer |-> [client |-> "acme", stale |-> TRUE],
   payroll |-> [client |-> "zenith", stale |-> FALSE]]

\* Nothing is found without a tenant, while the service is down, or when one
\* passage of its answer is outside the contract.
MspSearch(scope, terms) ==
  {p \in terms \intersect DOMAIN MspPassage :
     scope.tenant /\ scope.service = "up" /\ MspPassage[p].client = scope.client}

-----------------------------------------------------------------------------
(* The contracts *)

MspEscalationReasons == {"empty_retrieval", "stale_evidence", "unsupported_claim", "empty_draft"}

MspDraftOutput ==
  [body : {"thin", "full"}, citations : SUBSET DOMAIN MspPassage, marked : SUBSET DOMAIN MspPassage]
MspIntakeArtifact == [client : MspClients]
MspTicketArtifact == [client : MspClients, existing : BOOLEAN]
MspDraftArtifact ==
  {draft \in [body : {"none", "thin", "full", "rewritten"}, citations : SUBSET DOMAIN MspPassage,
              escalations : SUBSET MspEscalationReasons, escalated : BOOLEAN,
              passageCount : 0..8, staleCount : 0..8] :
     draft.escalated = (draft.escalations # {})}
MspApproveArtifact == [state : {"pending", "approved", "rejected"}, told : 0..8]
MspSendArtifact == [client : MspClients, deskKey : BOOLEAN]

MspContract(s, a) ==
  LET fields == Fields(a) IN
  CASE s = "intake" -> fields \in MspIntakeArtifact
    [] s = "ticket" -> fields \in MspTicketArtifact
    [] s = "draft" -> fields \in MspDraftArtifact
    [] s = "approve" -> fields \in MspApproveArtifact
    [] s = "send" -> fields \in MspSendArtifact

-----------------------------------------------------------------------------
(* The steps *)

\* The mail: the address it came in through, the client the forwarder named,
\* what it asks about, and what becomes of the knowledge service.
MspFacts ==
  LET Mail(to, tenant, terms, service) ==
        [to |-> to, tenant |-> tenant, terms |-> terms, service |-> service]
  IN {Mail("acme", TRUE, {"vpn", "payroll"}, "up"), Mail("acme", TRUE, {"printer"}, "up"),
      Mail("acme", FALSE, {"vpn"}, "up"), Mail("helpdesk", TRUE, {"vpn"}, "up"),
      Mail("zenith", TRUE, {"payroll"}, "down"), Mail("acme", TRUE, {"vpn", "printer"}, "garbled")}

ComputeMspIntake(st, known) ==
  {[client |-> ClientRefFor(known.to), from |-> DerivedFrom(st, {})]}

\* The ticket the recorded effects already hold.
HasDeskTicket(st) == st.eff["ticket"] # NoEffect

\* The plan names it.
ComputeTicket(st) ==
  {[client |-> EffectiveArtifact(st, "intake").client, existing |-> HasDeskTicket(st),
    from |-> DerivedFrom(st, {"intake"})]}

\* The drafter cites and marks what it was given, something of another client,
\* or nothing; or it writes next to nothing.
MspDrafterAnswers ==
  LET Answer(body, citations, marked) ==
        [body |-> body, citations |-> citations, marked |-> marked]
  IN {Answer("full", {"vpn"}, {"vpn"}), Answer("full", {"vpn"}, {}),
      Answer("full", {"payroll"}, {"payroll"}), Answer("thin", {}, {})}

Thin(body) == body \in {"none", "thin"}

\* Why the draft of an answer escalates.
AnswerEscalations(answer, passages) ==
  {reason \in MspEscalationReasons :
     \/ reason = "empty_draft" /\ Thin(answer.body)
     \/ /\ reason = "unsupported_claim"
        /\ \/ answer.citations = {}
           \/ ~(answer.citations \subseteq passages \intersect answer.marked)}

\* The drafter is asked only when a current passage was found.
ComputeDraft(st, known) ==
  LET client == EffectiveArtifact(st, "intake").client
      passages == MspSearch([tenant |-> known.tenant, service |-> known.service,
                             client |-> client], known.terms)
      stale == {p \in passages : MspPassage[p].stale}
      Drafted(body, citations, escalations) ==
        [body |-> body, citations |-> citations, escalations |-> escalations,
         escalated |-> escalations # {}, passageCount |-> Cardinality(passages),
         staleCount |-> Cardinality(stale), from |-> DerivedFrom(st, {"intake"})]
  IN CASE passages = {} -> {Drafted("none", {}, {"empty_retrieval"})}
       [] passages # {} /\ passages = stale -> {Drafted("none", {}, {"stale_evidence"})}
       [] OTHER ->
            {Drafted(answer.body, answer.citations, AnswerEscalations(answer, passages)) :
               answer \in ContractOutput(MspDrafterAnswers, MspDraftOutput)}

\* The technician is told how many reasons the draft escalated for.
ComputeMspApprove(st) ==
  Unless(~HasArtifact(st, "draft"),
    {[state |-> "pending", told |-> Cardinality(EffectiveArtifact(st, "draft").escalations),
      from |-> DerivedFrom(st, {"draft"})]})

ComputeSendPlan(st) ==
  Unless(~HasArtifact(st, "draft"),
    {[client |-> EffectiveArtifact(st, "intake").client, deskKey |-> HasDeskTicket(st),
      from |-> DerivedFrom(st, {"intake", "draft"})]})

MspCompute(s, st, known) ==
  CASE s = "intake" -> ComputeMspIntake(st, known)
    [] s = "ticket" -> StoredOr(st, s, ComputeTicket(st))
    [] s = "draft" -> ComputeDraft(st, known)
    [] s = "approve" -> StoredOr(st, s, ComputeMspApprove(st))
    [] s = "send" -> StoredOr(st, s, ComputeSendPlan(st))

\* A reply shorter than MIN_DRAFT_LENGTH is refused by the send itself.
MspGate(s, st) ==
  CASE s \in {"draft", "approve"} -> HasArtifact(st, s)
    [] s = "send" -> HasArtifact(st, "draft") /\ ~Thin(EffectiveArtifact(st, "draft").body)
    [] OTHER -> TRUE

\* Wrong on purpose: the create is identified by the plan it was made of.
TicketByPlan(s, st) == <<s, Mark(st, s)>>

\* The create is identified by the case and its correlation id, whatever the
\* plan says by now; the send by the action the API approved.
MspHash(s, st) == IF s = "ticket" THEN <<s, "case">> ELSE <<s, Mark(st, s)>>

\* A desk that keeps correlation ids answers a replay with the ticket it has.
TicketEffect(st, deskDedupes) ==
  <<Call("desk", "ticket", deskDedupes, EffectiveArtifact(st, "ticket").client)>>

\* The mail seam replays by its key.
MailSend(st) ==
  LET draft == EffectiveArtifact(st, "draft") IN
  Call("mail", "case", TRUE, [body |-> draft.body, citations |-> draft.citations])

\* The receipt comment goes to the desk ticket the plan names, unless the mail
\* replays and an earlier receipt already has its comment.
SendComment(st, known, deskDedupes) ==
  IF /\ EffectiveArtifact(st, "send").deskKey
     /\ "mail" \notin known.carried \/ st.eff["send"] = NoEffect
  THEN <<Call("desk", "comment", deskDedupes, "sent")>> ELSE <<>>

ExecuteSend(st, known, deskDedupes) == <<MailSend(st)>> \o SendComment(st, known, deskDedupes)

MspWrites(s, st, known, deskDedupes) ==
  CASE s = "ticket" -> TicketEffect(st, deskDedupes)
    [] s = "send" -> ExecuteSend(st, known, deskDedupes)
    [] OTHER -> <<>>

\* A reply is sent to the client of its ticket, with a body; the technician was
\* told of every reason to doubt it, and one there is no reason to doubt cites
\* that client's runbooks only.
MspPolicy(st, call) ==
  LET draft == EffectiveArtifact(st, "draft")
      client == EffectiveArtifact(st, "ticket").client
  IN call.sys = "mail" =>
       /\ ~Thin(call.what.body) /\ EffectiveArtifact(st, "send").client = client
       /\ EffectiveArtifact(st, "approve").told = Cardinality(draft.escalations)
       /\ draft.escalations = {} => \A p \in call.what.citations : MspPassage[p].client = client

\* A human may write the body the model did not, through the API; the console
\* has no form for it.
BodyCorrections == {[body |-> "rewritten"]}

MspDrafts(s) == IF s = "draft" THEN BodyCorrections ELSE {}

\* Edits beyond the corrections of a body that the API takes.
MspFreeEdits(s, a) ==
  CASE s \in {"intake", "ticket"} -> {[client |-> "zenith"]}
    [] s = "draft" -> {[escalations |-> {}, escalated |-> FALSE], [citations |-> {"payroll"}]}
    [] s = "approve" -> {[told |-> 0]}
    [] s = "send" -> {[deskKey |-> ~a.deskKey]}
==============================================================================

------------------------------ MODULE HrHelpFlow ------------------------------
(***************************************************************************)
(* The HR help lane, src/src/mastra/agents/hr-help/flow.ts: intake,        *)
(* retrieve, draft, approve, send (the answer, recorded once per case).    *)
(***************************************************************************)
EXTENDS FlowOps

HrHelpSteps == <<"intake", "retrieve", "draft", "approve", "send">>

-----------------------------------------------------------------------------
(* The policy corpus and its retriever *)

\* A paragraph of a policy document: the words it holds and the days since the
\* document was reviewed (NeverReviewed: it does not say).
NeverReviewed == -1
PolicyCorpus ==
  [carryover |-> [words |-> {"leave", "carry"}, reviewed |-> 90],
   accrual |-> [words |-> {"leave"}, reviewed |-> 400],
   travel |-> [words |-> {"travel"}, reviewed |-> NeverReviewed]]
PolicyPassages == DOMAIN PolicyCorpus

StaleDays == 365
IsStale(p) ==
  LET days == PolicyCorpus[p].reviewed IN days = NeverReviewed \/ days > StaleDays

\* The share of the question's words a paragraph holds, in hundredths.
PassageScore(p, terms) ==
  IF terms = {} THEN 0 ELSE (100 * Cardinality(terms \intersect PolicyCorpus[p].words))
                              \div Cardinality(terms)

RetrieveK == 5
CorpusRetrieve(terms) ==
  LET found == {p \in PolicyPassages : PassageScore(p, terms) > 0}
  IN {best \in SUBSET found :
        /\ Cardinality(best) = IF Cardinality(found) < RetrieveK THEN Cardinality(found)
                               ELSE RetrieveK
        /\ \A p \in best, q \in found \ best : PassageScore(p, terms) >= PassageScore(q, terms)}

\* The knowledge service is asked first where there is one: what it answers is
\* the truth, and an outage or an answer outside the contract falls back to the
\* corpus on disk.
HttpRetrieve(service, terms) ==
  CASE service = "down" -> CorpusRetrieve(terms)
    [] service = "empty" -> {{}}
    [] service = "up" -> CorpusRetrieve(terms)

-----------------------------------------------------------------------------
(* The contracts *)

FlagKindsOfAnswers == {"legal-advice", "pii-leakage"}

HelpQuestion == [terms : SUBSET {"leave", "carry", "travel", "pets"}]
RetrieveArtifact(a) ==
  [terms : SUBSET {"leave", "carry", "travel", "pets"},
   passages : [DOMAIN a.passages \intersect PolicyPassages -> [score : 0..100, stale : BOOLEAN]],
   staleCount : 0..8]
DraftModelOutput ==
  [citations : (SUBSET PolicyPassages) \ {{}}, marked : SUBSET PolicyPassages]
GuardrailOutput == [allowed : BOOLEAN, flags : SUBSET FlagKindsOfAnswers]
DraftArtifact ==
  [answer : {"drafted", "rewritten"}, citations : (SUBSET PolicyPassages) \ {{}},
   flags : SUBSET FlagKindsOfAnswers, allowed : BOOLEAN, totalFlags : 0..20]
HelpApproval == [state : {"pending", "approved", "rejected"}, signOff : BOOLEAN]
SendArtifact == [citationCount : 0..8, existing : BOOLEAN]

HrHelpContract(s, a) ==
  CASE s = "intake" -> HelpQuestion
    [] s = "retrieve" -> RetrieveArtifact(a)
    [] s = "draft" -> DraftArtifact
    [] s = "approve" -> HelpApproval
    [] s = "send" -> SendArtifact

-----------------------------------------------------------------------------
(* The steps *)

\* The words of the question and what becomes of the knowledge service.
HrHelpFacts ==
  LET Asks(terms, service) == [terms |-> terms, service |-> service]
  IN {Asks({"pets"}, "down"), Asks({"travel"}, "down"), Asks({"leave", "carry"}, "empty"),
      Asks({"leave", "carry"}, "up"), Asks({"carry"}, "down")}

ComputeHrIntake(st, known) == {[terms |-> known.terms, from |-> DerivedFrom(st, {})]}

\* Nothing found, or nothing but stale passages, throws.
Answerable(found) == \E p \in found : ~IsStale(p)
ComputeRetrieve(st, known) ==
  LET terms == EffectiveArtifact(st, "intake").terms IN
  Unless(~HasArtifact(st, "intake"),
    {[terms |-> terms,
      passages |-> [p \in found |-> [score |-> PassageScore(p, terms), stale |-> IsStale(p)]],
      staleCount |-> Cardinality({p \in found : IsStale(p)}),
      from |-> DerivedFrom(st, {"intake"})]
     : found \in {tried \in HttpRetrieve(known.service, terms) : Answerable(tried)}})

\* The drafter cites what it was given, cites something else, or leaves a claim
\* unmarked; the guardrail may flag an answer and still allow it.
DrafterAnswers ==
  LET Answer(citations, marked) == [citations |-> citations, marked |-> marked]
  IN {Answer({"carryover"}, {"carryover"}), Answer({"carryover"}, {}),
      Answer({"carryover", "travel"}, {"carryover", "travel"})}
HelpGuardrailAnswers ==
  {[allowed |-> TRUE, flags |-> {}], [allowed |-> FALSE, flags |-> {}],
   [allowed |-> TRUE, flags |-> {"pii-leakage"}]}

\* A citation that was not retrieved, or not marked in the answer, throws.
CitedDrafts(retrieve) ==
  {output \in ContractOutput(DrafterAnswers, DraftModelOutput) :
     /\ output.citations \subseteq DOMAIN retrieve.passages
     /\ output.citations \subseteq output.marked}

ComputeHrDraft(st) ==
  Unless(~HasArtifact(st, "retrieve"),
    {[answer |-> "drafted", citations |-> output.citations, flags |-> guardrail.flags,
      allowed |-> guardrail.allowed, totalFlags |-> Cardinality(guardrail.flags),
      from |-> DerivedFrom(st, {"retrieve"})]
     : output \in CitedDrafts(EffectiveArtifact(st, "retrieve")), guardrail \in
         ContractOutput(HelpGuardrailAnswers, GuardrailOutput)})

\* The approver is told when flags need signing off.
ComputeHrApprove(st) ==
  LET draft == EffectiveArtifact(st, "draft") IN
  Unless(~HasArtifact(st, "draft"),
    {[state |-> "pending", signOff |-> draft.totalFlags > 0 \/ ~draft.allowed,
      from |-> DerivedFrom(st, {"draft"})]})

ComputeHrSendPlan(st, known) ==
  Unless(~HasArtifact(st, "draft"),
    {[citationCount |-> Cardinality(EffectiveArtifact(st, "draft").citations),
      existing |-> "hr-answers" \in known.carried, from |-> DerivedFrom(st, {"draft"})]})

HrHelpCompute(s, st, known) ==
  CASE s = "intake" -> ComputeHrIntake(st, known)
    [] s = "retrieve" -> ComputeRetrieve(st, known)
    [] s = "draft" -> ComputeHrDraft(st)
    [] s = "approve" -> StoredOr(st, s, ComputeHrApprove(st))
    [] s = "send" -> StoredOr(st, s, ComputeHrSendPlan(st, known))

HrHelpGate(s, st) ==
  CASE s \in {"retrieve", "draft", "approve"} -> HasArtifact(st, s)
    [] s = "send" -> HasArtifact(st, "draft")
    [] OTHER -> TRUE

\* The registry returns the answer the case and the ticket already have.
RecordAnswer(st) ==
  LET draft == EffectiveArtifact(st, "draft") IN
  <<Call("hr-answers", "case", TRUE, [answer |-> draft.answer, citations |-> draft.citations])>>

HrHelpWrites(s, st) == IF s = "send" THEN RecordAnswer(st) ELSE <<>>

\* A flagged answer is only sent after its flags were put to the approver, and
\* what it cites was retrieved and is not stale through and through.
HrHelpPolicy(st, call) ==
  LET draft == EffectiveArtifact(st, "draft")
      retrieved == DOMAIN EffectiveArtifact(st, "retrieve").passages
  IN /\ draft.flags # {} => EffectiveArtifact(st, "approve").signOff
     /\ call.what.citations \subseteq retrieved
     /\ \E p \in retrieved : ~IsStale(p)

-----------------------------------------------------------------------------
(* The console's side *)

HrHelpIntakeView(a) == Parsed(a, {}, [terms |-> {}])
HrHelpRetrieveView(a) == Parsed(a, {}, [terms |-> {}, passages |-> << >>, staleCount |-> 0])
HrHelpDraftView(a) ==
  Parsed(a, {}, [answer |-> "", citations |-> {}, flags |-> {}, allowed |-> FALSE,
                 totalFlags |-> 0])
HrHelpApproveView(a) == Parsed(a, {}, [state |-> "pending", signOff |-> FALSE])
HrHelpSendView(a) == Parsed(a, {"citationCount"}, [existing |-> FALSE])

HrHelpIntakeSurface(a) == ReadOnly(HrHelpIntakeView(a))
HrHelpRetrieveSurface(a) == ReadOnly(HrHelpRetrieveView(a))
HrHelpApproveSurface(a) == ReadOnly(HrHelpApproveView(a))
HrHelpSendSurface(a) == ReadOnly(HrHelpSendView(a))

\* The answer can be rewritten; one left blank cannot be handed in.
HrHelpDraftSurface(a) ==
  LET view == HrHelpDraftView(a) IN
  Surface(view, {[answer |-> answer] : answer \in {view.answer, "rewritten", "blank"}})

HrHelpSurface(s, a) ==
  CASE s = "intake" -> HrHelpIntakeSurface(a)
    [] s = "retrieve" -> HrHelpRetrieveSurface(a)
    [] s = "draft" -> HrHelpDraftSurface(a)
    [] s = "approve" -> HrHelpApproveSurface(a)
    [] s = "send" -> HrHelpSendSurface(a)

HrHelpBlocked(s, a) == s = "draft" /\ a.answer = "blank"

\* Edits no form of the console opens, which the API takes.
HrHelpFreeEdits(s, a) ==
  CASE s = "intake" -> {[terms |-> {"travel"}]}
    [] s = "retrieve" -> {[passages |-> [p \in {"travel"} |-> [score |-> 100, stale |-> FALSE]]]}
    [] s = "draft" -> {[citations |-> {"travel"}], [flags |-> {}, totalFlags |-> 0, allowed |-> TRUE]}
    [] s = "approve" -> {[signOff |-> ~a.signOff]}
    [] s = "send" -> {[citationCount |-> 0]}
==============================================================================

---------------------------- MODULE ScreeningFlow ----------------------------
(***************************************************************************)
(* The candidate screening lane, src/src/mastra/agents/screening/flow.ts:  *)
(* requisition, screen (scores and guardrail flags), shortlist, schedule   *)
(* (one invite per included candidate; failures are collected).            *)
(***************************************************************************)
EXTENDS FlowOps

ScreeningSteps == <<"requisition", "screen", "shortlist", "schedule">>

-----------------------------------------------------------------------------
(* The contracts *)

Candidates == <<"c1", "c2">>
Pipeline == {Candidates[i] : i \in 1..Len(Candidates)}
\* One row for each candidate an artifact speaks of.
PerCandidate(rows, row) == [DOMAIN rows \intersect Pipeline -> row]

Criteria == {"must", "nice"}
Criterion == [weight : 0..100, mustHave : BOOLEAN]
Verdicts == {"pass", "partial", "fail"}
FlagKinds == {"protected-attribute", "non-rubric"}
SlotsOf(rows) == 1..Cardinality(DOMAIN rows)

RequisitionArtifact ==
  [criteria : [Criteria -> Criterion], candidates : (SUBSET Pipeline) \ {{}}, interviewers : 1..10]
ScreenCandidate ==
  [verdicts : [Criteria -> Verdicts], score : 0..100, misses : SUBSET Criteria,
   flags : SUBSET FlagKinds]
ScreenArtifact(a) == [candidates : PerCandidate(a.candidates, ScreenCandidate), totalFlags : 0..300]
ShortlistLine ==
  [score : 0..100, decision : {"include", "exclude"}, reasoned : BOOLEAN, flags : 0..30]
ShortlistArtifact(a) ==
  [entries : PerCandidate(a.entries, ShortlistLine), included : 0..20, excluded : 0..20]
ScheduleInvite(a) == [slot : SlotsOf(a.invites), interviewer : 1..10]
ScheduleArtifact(a) == [invites : PerCandidate(a.invites, ScheduleInvite(a)) \ {<< >>}]

ScreeningContract(s, a) ==
  CASE s = "requisition" -> RequisitionArtifact
    [] s = "screen" -> ScreenArtifact(a)
    [] s = "shortlist" -> ShortlistArtifact(a)
    [] s = "schedule" -> ScheduleArtifact(a)

-----------------------------------------------------------------------------
(* The applicant tracking system *)

\* The rubric, and what the files of the candidates hold on each criterion.
Rubric ==
  [must |-> [weight |-> 40, mustHave |-> TRUE], nice |-> [weight |-> 60, mustHave |-> FALSE]]
File(must, nice) == [must |-> must, nice |-> nice]

\* Whether the requisition is known, its candidates, and whose invite fails.
ScreeningFacts ==
  LET Ats(found, files, failing) == [found |-> found, files |-> files, failing |-> failing]
      Both(first, second) == [c1 |-> first, c2 |-> second]
      strong == File("strong", "strong")
  IN {Ats(FALSE, [c1 |-> strong], {}),
      Ats(TRUE, << >>, {}),
      Ats(TRUE, Both(strong, File("strong", "weak")), {}),
      Ats(TRUE, Both(strong, File("weak", "strong")), {"c1"}),
      Ats(TRUE, Both(File("strong", "none"), File("none", "strong")), {})}

\* The guardrail flags whom it likes, somebody unknown among them.
GuardrailAnswers ==
  {[c \in Pipeline \union {"nobody"} |-> {}],
   [c1 |-> {"protected-attribute"}, c2 |-> {}, nobody |-> {"non-rubric"}],
   [c1 |-> {}, c2 |-> {"non-rubric"}, nobody |-> {}]}

VerdictFor(strength) ==
  CASE strength = "strong" -> "pass" [] strength = "weak" -> "partial" [] strength = "none" -> "fail"

\* Full weight for a pass, half for a partial, rounded to a percentage; the
\* rubric has the two criteria.
ScoreFor(criteria, verdicts) ==
  LET Total(f) == f["must"] + f["nice"]
      total == Total([c \in DOMAIN verdicts |-> criteria[c].weight])
      halves == Total([c \in DOMAIN verdicts |->
                         criteria[c].weight
                           * (CASE verdicts[c] = "pass" -> 2 [] verdicts[c] = "partial" -> 1
                                [] verdicts[c] = "fail" -> 0)])
  IN IF total = 0 THEN 0 ELSE (halves * 100 + total) \div (2 * total)

-----------------------------------------------------------------------------
(* The steps *)

ComputeRequisition(st, known) ==
  Unless(~known.found \/ DOMAIN known.files = {},
    {[criteria |-> Rubric, candidates |-> DOMAIN known.files, interviewers |-> 2,
      from |-> DerivedFrom(st, {})]})

\* Flags only attach to known candidates.
ComputeScreen(st, known) ==
  LET criteria == EffectiveArtifact(st, "requisition").criteria
      Screened(file, flags) ==
        LET verdicts == [c \in Criteria |-> VerdictFor(file[c])] IN
        [verdicts |-> verdicts, score |-> ScoreFor(criteria, verdicts), flags |-> flags,
         misses |-> {c \in Criteria : criteria[c].mustHave /\ verdicts[c] # "pass"}]
  IN Unless(~HasArtifact(st, "requisition"),
       {[candidates |-> [c \in DOMAIN known.files |-> Screened(known.files[c], answer[c])],
         totalFlags |-> Cardinality(UNION {{c} \X answer[c] : c \in DOMAIN known.files}),
         from |-> DerivedFrom(st, {"requisition"})]
          : answer \in GuardrailAnswers})

\* A protected attribute, a missed must-have, any other flag or a low score
\* excludes, each with its reason.
ShortlistEntryFor(candidate) ==
  LET excluded ==
        \/ "protected-attribute" \in candidate.flags
        \/ candidate.misses # {}
        \/ candidate.flags # {}
        \/ candidate.score < 50
  IN [score |-> candidate.score, decision |-> IF excluded THEN "exclude" ELSE "include",
      reasoned |-> TRUE, flags |-> Cardinality(candidate.flags)]

Included(entries) == {c \in DOMAIN entries : entries[c].decision = "include"}
Counted(entries) ==
  LET included == Cardinality(Included(entries)) IN
  [entries |-> entries, included |-> included,
   excluded |-> Cardinality(DOMAIN entries) - included]

ComputeShortlist(st) ==
  LET candidates == EffectiveArtifact(st, "screen").candidates IN
  Unless(~HasArtifact(st, "screen"),
    {WithField(Counted([c \in DOMAIN candidates |-> ShortlistEntryFor(candidates[c])]),
               "from", DerivedFrom(st, {"screen"}))})

\* The slots and the interviewers go round in the order of the shortlist.
ComputeSchedulePlan(st) ==
  LET included == Included(EffectiveArtifact(st, "shortlist").entries)
      interviewers == EffectiveArtifact(st, "requisition").interviewers
      planned == Selected(Candidates, included)
      Place(c) == CHOOSE i \in 1..Len(planned) : planned[i] = c
  IN Unless(~HasArtifact(st, "shortlist") \/ ~HasArtifact(st, "requisition") \/ included = {},
       {[invites |-> [c \in included |->
                        [slot |-> Place(c), interviewer |-> 1 + ((Place(c) - 1) % interviewers)]],
         from |-> DerivedFrom(st, {"requisition", "shortlist"})]})

ScreeningCompute(s, st, known) ==
  CASE s = "requisition" -> ComputeRequisition(st, known)
    [] s = "screen" -> ComputeScreen(st, known)
    [] s = "shortlist" -> StoredOr(st, s, ComputeShortlist(st))
    [] s = "schedule" -> StoredOr(st, s, ComputeSchedulePlan(st))

Unreasoned(entries) ==
  {c \in DOMAIN entries : entries[c].decision = "exclude" /\ ~entries[c].reasoned}
AssertShortlistReady(st) ==
  LET entries == EffectiveArtifact(st, "shortlist").entries IN
  HasArtifact(st, "shortlist") /\ Included(entries) # {} /\ Unreasoned(entries) = {}

ScreeningGate(s, st) ==
  s \in {"shortlist", "schedule"} => AssertShortlistReady(st)

\* One invite per planned candidate; an invite that fails is only listed.
ExecuteSchedule(plan, known) ==
  LET Invite(c) == IF c \in DOMAIN plan.invites \ known.failing
                   THEN <<Call("ats", c, TRUE, plan.invites[c])>> ELSE <<>>
  IN Invite(Candidates[1]) \o Invite(Candidates[2])

ScreeningWrites(s, st, known) ==
  IF s = "schedule" THEN ExecuteSchedule(EffectiveArtifact(st, "schedule"), known) ELSE <<>>

\* Whoever is invited is on the current shortlist, whose exclusions are
\* reasoned; whom the screening excluded, a human put back.
ScreeningPolicy(st, call) ==
  LET screened == EffectiveArtifact(st, "screen").candidates[call.key] IN
  /\ call.key \in Included(EffectiveArtifact(st, "shortlist").entries)
  /\ AssertShortlistReady(st)
  /\ ShortlistEntryFor(screened).decision = "exclude" => st.dec["shortlist"].action = "edit"

-----------------------------------------------------------------------------
(* The console's side *)

\* What the parsers read.
ScreeningRequisitionView(a) ==
  Parsed(a, {}, [criteria |-> << >>, candidates |-> {}, interviewers |-> 0])
ScreeningScreenView(a) == Parsed(a, {}, [candidates |-> << >>, totalFlags |-> 0])
ScreeningShortlistView(a) == Parsed(a, {}, [entries |-> << >>, included |-> 0, excluded |-> 0])
ScreeningScheduleView(a) == Parsed(a, {}, [invites |-> << >>])

ScreeningRequisitionSurface(a) == ReadOnly(ScreeningRequisitionView(a))
ScreeningScreenSurface(a) == ReadOnly(ScreeningScreenView(a))
ScreeningScheduleSurface(a) == ReadOnly(ScreeningScheduleView(a))

\* Every candidate can be included or excluded; only the reason of an
\* exclusion can be cleared.
ScreeningShortlistSurface(a) ==
  LET view == ScreeningShortlistView(a)
      Entries(included, cleared) ==
        [c \in DOMAIN view.entries |->
           [view.entries[c] EXCEPT !.decision = IF c \in included THEN "include" ELSE "exclude",
                                   !.reasoned = @ /\ (cleared => c \in included)]]
  IN Surface(view, {Counted(Entries(included, cleared))
                      : included \in SUBSET DOMAIN view.entries, cleared \in BOOLEAN})

ScreeningSurface(s, a) ==
  CASE s = "requisition" -> ScreeningRequisitionSurface(a)
    [] s = "screen" -> ScreeningScreenSurface(a)
    [] s = "shortlist" -> ScreeningShortlistSurface(a)
    [] s = "schedule" -> ScreeningScheduleSurface(a)

\* Wrong on purpose: exclusions without a reason are let through.
BlockedOnlyIfEmpty(a) == Included(a.entries) = {}

ScreeningShortlistBlocked(a) == Included(a.entries) = {} \/ Unreasoned(a.entries) # {}

ScreeningBlocked(s, a) == s = "shortlist" /\ ScreeningShortlistBlocked(a)

\* Edits no form of the console opens, which the API takes.
ScreeningFreeEdits(s, a) ==
  CASE s = "requisition" -> {[interviewers |-> 1]}
    [] s = "screen" -> {[candidates |-> [c \in DOMAIN a.candidates |-> [a.candidates[c] EXCEPT !.flags = {}]]]}
    [] s = "shortlist" -> {[entries |-> [c \in {"c1"} |-> [score |-> 100, decision |-> "include", reasoned |-> TRUE, flags |-> 0]]]}
    [] s = "schedule" -> {[invites |-> [c \in Pipeline |-> [slot |-> 1, interviewer |-> 1]]]}
==============================================================================

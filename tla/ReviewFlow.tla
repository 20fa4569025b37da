------------------------------ MODULE ReviewFlow ------------------------------
(***************************************************************************)
(* The review lane, src/src/mastra/agents/review/flow.ts: select-pr,       *)
(* review-options, ai-review, complete (the review is posted).             *)
(***************************************************************************)
EXTENDS FlowOps

ReviewSteps == <<"select-pr", "review-options", "ai-review", "complete">>

-----------------------------------------------------------------------------
(* The contracts *)

\* Two open pull requests, one of them opened by the token's own user, and a
\* closed one that is not listed.
PullRequestCandidate == {"pr1", "own", "closed"}
ReviewVerdict == {"approve", "comment", "request_changes"}
ReviewCategory == {"security", "performance"}

\* The bounds of the code are 30 candidates and 40 files of a diff.
CandidateLimit == 2
MaxReviewFiles == 2

SelectPrValid(a) ==
  /\ \A i \in 1..Len(a.candidates) : a.candidates[i] \in PullRequestCandidate
  /\ a.selected \in PullRequestCandidate \union {"none"}
ReviewOptionsValid(a) == a.pullRequest \in PullRequestCandidate /\ a.enabled \subseteq ReviewCategory
\* The texts of a review are not empty; a comment is known by the file it is on.
CommentPath == {"src", "docs", "late", "stray"}
ReviewTextValid(a) ==
  /\ a.pullRequest \in PullRequestCandidate /\ a.verdict \in ReviewVerdict /\ a.summary # "empty"
  /\ a.comments \in Seq(CommentPath)

ReviewContract(s, a) ==
  CASE s = "select-pr" -> SelectPrValid(a)
    [] s = "review-options" -> ReviewOptionsValid(a)
    [] OTHER -> ReviewTextValid(a)
-----------------------------------------------------------------------------
(* The steps *)

\* Whether the input names a pull request and the commit of an earlier review,
\* whether the repository is allowed, and whether the token's login is known.
ReviewFacts ==
  LET Input(pr, delta, listed, login) ==
        [prNumber |-> pr, lastReviewed |-> delta, listed |-> listed, login |-> login]
  IN {Input("none", FALSE, TRUE, TRUE), Input("closed", TRUE, TRUE, TRUE), Input("pr1", FALSE, FALSE, TRUE)}

\* The open pull requests, and the one the input names, listed or not.
ComputeSelectPr(st, known) ==
  Unless(~known.listed,
    {[candidates |-> SubSeq(<<"pr1", "own">>, 1, CandidateLimit), selected |-> known.prNumber,
      from |-> DerivedFrom(st, {})]})

ComputeReviewOptions(st) ==
  LET select == EffectiveArtifact(st, "select-pr") IN
  Unless(~HasArtifact(st, "select-pr") \/ select.selected = "none",
    {[pullRequest |-> select.selected, enabled |-> ReviewCategory,
      from |-> DerivedFrom(st, {"select-pr"})]})

\* The files of the diff, or of what was pushed since the last review.
PullFiles(delta) == IF delta THEN <<"docs">> ELSE <<"src", "docs", "late">>
ChangedFiles(delta) ==
  LET files == PullFiles(delta) IN
  {files[i] : i \in 1..(IF Len(files) < MaxReviewFiles THEN Len(files) ELSE MaxReviewFiles)}

\* The reviewer comments on files it was shown and on files it was not.
ReviewerAnswers ==
  {[verdict |-> "request_changes", comments |-> <<"late", "docs", "stray">>]}

\* A comment on a path that did not change is dropped.
AllComments(comments, changed) == comments
OnChangedPaths(comments, changed) == Selected(comments, changed)

ComputeAiReview(st, known) ==
  LET options == EffectiveArtifact(st, "review-options")
      categories == IF options.enabled # {} THEN options.enabled ELSE ReviewCategory
  IN IF ~HasArtifact(st, "review-options") THEN {}
     ELSE {[pullRequest |-> options.pullRequest, verdict |-> output.verdict, summary |-> "given",
            comments |-> OnChangedPaths(output.comments, ChangedFiles(known.lastReviewed)),
            categories |-> categories, deltaOnly |-> known.lastReviewed,
            from |-> DerivedFrom(st, {"review-options"})]
           : output \in ReviewerAnswers}

\* The completion restates the reviewed artifact, edits included.
ComputeReviewComplete(st) ==
  LET review == EffectiveArtifact(st, "ai-review") IN
  IF ~HasArtifact(st, "ai-review") THEN {}
  ELSE Unless(~ReviewTextValid(review),
         {WithField([f \in {"pullRequest", "verdict", "summary", "comments", "deltaOnly"} |-> review[f]],
                    "from", DerivedFrom(st, {"ai-review"}))})

ReviewCompute(s, st, known) ==
  CASE s = "select-pr" -> ComputeSelectPr(st, known)
    [] s = "review-options" -> ComputeReviewOptions(st)
    [] s = "ai-review" -> ComputeAiReview(st, known)
    [] s = "complete" -> ComputeReviewComplete(st)

ReviewGate(s, st) == s = "select-pr" => EffectiveArtifact(st, s).selected # "none"

\* The author of a pull request can but comment on it, which the writer knows
\* when it knows whose its token is.
ReviewEvent(complete, login) ==
  IF login /\ complete.pullRequest = "own" THEN "comment" ELSE complete.verdict

\* A pending review is opened, the comments are added to it one by one, and it
\* is submitted with the verdict.
SubmitReview(pr, event, comments) ==
  LET what == [pullRequest |-> pr, event |-> event, comments |-> comments] IN
  <<Call("pending-review", pr, FALSE, what)>>
    \o [i \in 1..Len(comments) |-> Call("review-comment", <<pr, i>>, FALSE, what)]
    \o <<Call("review", pr, FALSE, what)>>

PostReview(st, known) ==
  LET complete == EffectiveArtifact(st, "complete") IN
  SubmitReview(complete.pullRequest, ReviewEvent(complete, known.login), complete.comments)

ReviewWrites(s, st, known) == IF s = "complete" THEN PostReview(st, known) ELSE <<>>

\* A review goes to the pull request that was picked, with the verdict that was
\* approved last unless its author is the token's user, and only with comments
\* of the review that a human approved, on files that were reviewed.
ReviewPolicy(st, call, known) ==
  LET review == EffectiveArtifact(st, "ai-review")
      InReview(path) == \E i \in 1..Len(review.comments) : review.comments[i] = path
      comments == {call.what.comments[i] : i \in 1..Len(call.what.comments)}
  IN /\ call.what.pullRequest = EffectiveArtifact(st, "select-pr").selected
     /\ call.what.event # EffectiveArtifact(st, "complete").verdict =>
          call.what.event = "comment" /\ call.what.pullRequest = "own"
     /\ \A path \in comments : InReview(path) /\ path \in ChangedFiles(known.lastReviewed)

-----------------------------------------------------------------------------
(* The console's side *)

\* What the parsers read.
SelectPrView(a) == Parsed(a, {}, [candidates |-> <<>>, selected |-> "none"])
ReviewOptionsView(a) == Parsed(a, {}, [enabled |-> {}])
ParseReview(a) ==
  Parsed(a, {"verdict", "summary"}, [pullRequest |-> "none", comments |-> <<>>, deltaOnly |-> FALSE])

\* Another pull request of the list is picked, here the last.
SelectPrSurface(a) ==
  Surface(SelectPrView(a), {[selected |-> a.candidates[Len(a.candidates)]]})

\* The categories are cleared.
ReviewOptionsSurface(a) == Surface(ReviewOptionsView(a), {[enabled |-> {}]})

\* The verdict and the texts are rewritten; a comment without a text is gone,
\* a summary without one is not.
BuildReviewEdits(verdict, summary, comments) ==
  [verdict |-> verdict, summary |-> summary, comments |-> comments]
AiReviewSurface(a) ==
  Surface(ParseReview(a),
    {BuildReviewEdits("approve", "given", <<>>), BuildReviewEdits(a.verdict, "empty", a.comments)})

ReviewSurface(s, a) ==
  CASE s = "select-pr" -> SelectPrSurface(a)
    [] s = "review-options" -> ReviewOptionsSurface(a)
    [] OTHER -> AiReviewSurface(a)

ReviewBlocked(s, a) == s = "select-pr" /\ a.selected = "none"

\* Edits no form of the console opens, which the API takes.
ReviewFreeEdits(s, a) ==
  CASE s = "select-pr" -> {[selected |-> "closed"]}
    [] s = "review-options" -> {[pullRequest |-> "own"]}
    [] OTHER -> {[pullRequest |-> "own"], [comments |-> <<"stray">>]}
==============================================================================

--------------------------- MODULE AccessibilityFlow ---------------------------
(***************************************************************************)
(* The accessibility lane, src/src/mastra/agents/accessibility/flow.ts:    *)
(* crawl, violations, fix, re-scan (the fix pull request, blocked while a  *)
(* critical violation is open and not waived).                             *)
(***************************************************************************)
EXTENDS PatchOps

AccessibilitySteps == <<"crawl", "violations", "fix", "re-scan">>

-----------------------------------------------------------------------------
(* The contracts *)

\* Two routes, one rendered by a file the path policy denies.
SiteRoutes == {"home", "shop"}
ComponentOf(route) == IF route = "home" THEN "app" ELSE "secret"

\* A violation is known by its rule, route and element; a trap is one that a
\* fix introduces.
ViolationIdentity == {"alt", "focus", "label", "trap"}
RouteOf(violation) == IF violation = "label" THEN "shop" ELSE "home"
Criticals(violations) == violations \ {"focus"}

AccessibilityBranch == <<"a11y", "case">>

\* A file of a fix: the ones the routes are rendered by.
FixFile == [path : {"app", "secret"}, content : {"good"}]
WaiverInput == [violation : ViolationIdentity, future : BOOLEAN]

CrawlValid(a) == a.selected \subseteq a.routes /\ a.routes \subseteq SiteRoutes
ViolationsValid(a) == a.violations \subseteq ViolationIdentity
FixValid(a) ==
  \A fix \in FilesOf(a.fixes) :
    /\ fix.violation \in ViolationIdentity /\ fix.manual \in BOOLEAN /\ fix.applied \in BOOLEAN
    /\ FilesOf(fix.files) \subseteq FixFile
ReScanValid(a) == a.remaining \subseteq ViolationIdentity /\ a.waivers \subseteq WaiverInput

AccessibilityContract(s, a) ==
  CASE s = "crawl" -> CrawlValid(a)
    [] s = "violations" -> ViolationsValid(a)
    [] s = "fix" -> FixValid(a)
    [] s = "re-scan" -> ReScanValid(a)

-----------------------------------------------------------------------------
(* The steps *)

\* The input's repository is allowed or not; the site has violations or none.
AccessibilityFacts ==
  LET Input(listed, clean) == [listed |-> listed, clean |-> clean]
  IN {Input(TRUE, FALSE), Input(TRUE, TRUE), Input(FALSE, TRUE)}

ComputeCrawl(st, known) ==
  Unless(~known.listed,
    {[routes |-> SiteRoutes, selected |-> SiteRoutes, from |-> DerivedFrom(st, {})]})

\* What the crawler finds on the selected routes.
AuditOf(routes, known) ==
  {v \in IF known.clean THEN {} ELSE {"alt", "focus", "label"} : RouteOf(v) \in routes}

ComputeViolations(st, known) ==
  LET selected == EffectiveArtifact(st, "crawl").selected IN
  IF ~HasArtifact(st, "crawl") THEN {}
  ELSE Unless(selected = {},
         {[violations |-> AuditOf(selected, known), from |-> DerivedFrom(st, {"crawl"})]})

\* The fixer drafts one fix and repeats itself, or two of one file, or finds
\* that a redesign is needed, or fixes what is not listed.
FixerAnswers ==
  LET Draft(violation, path, manual) ==
        [violation |-> violation, manual |-> manual, files |-> <<[path |-> path, content |-> "good"]>>]
      Alt == Draft("alt", "app", FALSE)
  IN {<<Alt, Alt, Draft("label", "secret", FALSE)>>, <<Alt, Draft("focus", "app", FALSE)>>,
      <<Draft("alt", "app", TRUE)>>, <<Draft("trap", "app", FALSE)>>, <<>>}

\* The first draft of each violation, with the files it was shown; a fix
\* without one is left to a redesign.
FixesOf(drafts, shown) ==
  LET First(i) == \A j \in 1..(i - 1) : drafts[j].violation # drafts[i].violation
      firsts == {i \in 1..Len(drafts) : First(i)}
      taken == Selected([i \in 1..Len(drafts) |-> i], firsts)
      Fix(draft) ==
        LET files == Selected(draft.files, {file \in FilesOf(draft.files) : file.path \in shown})
            manual == draft.manual \/ files = <<>>
        IN [violation |-> draft.violation, files |-> files, manual |-> manual, applied |-> ~manual]
  IN [i \in 1..Len(taken) |-> Fix(drafts[taken[i]])]

(***************************************************************************)
(* The components of the violating routes are read; one that the policy    *)
(* denies is skipped, but none at all throws.  So does an invented         *)
(* violation.                                                              *)
(***************************************************************************)
ComputeFixes(st) ==
  LET violations == EffectiveArtifact(st, "violations").violations
      routes == EffectiveArtifact(st, "crawl").selected
      components == {ComponentOf(route) : route \in routes \intersect {RouteOf(v) : v \in violations}}
      shown == {path \in components : AllowsPath(path)}
      Listed(drafts) == \A draft \in FilesOf(drafts) : draft.violation \in violations
  IN IF ~HasArtifact(st, "crawl") \/ ~HasArtifact(st, "violations") THEN {}
     ELSE Unless(components # {} /\ shown = {},
            {[fixes |-> FixesOf(drafts, shown), from |-> DerivedFrom(st, {"crawl", "violations"})]
             : drafts \in {x \in FixerAnswers : Listed(x)}})

AppliedIn(fixes) ==
  Selected(fixes, {fix \in FilesOf(fixes) : fix.applied /\ ~fix.manual /\ fix.files # <<>>})

\* The audit of the fixed branch: what the fixes did not resolve, and perhaps
\* what they introduced.
ComputeRescan(st, known) ==
  LET before == EffectiveArtifact(st, "violations").violations
      applied == AppliedIn(EffectiveArtifact(st, "fix").fixes)
      after == AuditOf(EffectiveArtifact(st, "crawl").selected, known)
                 \ {fix.violation : fix \in FilesOf(applied)}
      Compared(remaining) ==
        [remaining |-> remaining, resolved |-> before \ remaining, introduced |-> remaining \ before,
         waivers |-> {}, branch |-> AccessibilityBranch,
         from |-> DerivedFrom(st, {"crawl", "violations", "fix"})]
  IN IF \E u \in {"crawl", "violations", "fix"} : ~HasArtifact(st, u) THEN {}
     ELSE Unless(applied = <<>>, {Compared(after), Compared(after \union {"trap"})})

AccessibilityCompute(s, st, known) ==
  CASE s = "crawl" -> ComputeCrawl(st, known)
    [] s = "violations" -> ComputeViolations(st, known)
    [] s = "fix" -> ComputeFixes(st)
    [] s = "re-scan" -> ComputeRescan(st, known)

\* Wrong on purpose: remaining criticals need no waiver.
GateIgnoringWaivers(remaining, waivers) == TRUE

GateFor(remaining, waivers) == Criticals(remaining) \subseteq {w.violation : w \in waivers}

\* The stored artifact with nothing but the waivers of the decision: each is
\* for a violation that remains, and none has expired.
ApplyWaivers(st) ==
  LET remaining == st.art["re-scan"].remaining
      waivers == EffectiveArtifact(st, "re-scan").waivers
  IN /\ \A w \in waivers : w.violation \in remaining /\ w.future
     /\ GateFor(remaining, waivers)

PatchOfFixes(fixes) ==
  LET applied == AppliedIn(fixes) IN [i \in 1..Len(applied) |-> applied[i].files[1]]

\* At least one fix is applied, no two patch one file, the writer's gate passes.
AccessibilityGate(s, st) ==
  LET patch == PatchOfFixes(EffectiveArtifact(st, "fix").fixes) IN
  CASE s = "crawl" -> EffectiveArtifact(st, "crawl").selected # {}
    [] s = "re-scan" -> ApplyWaivers(st) /\ HasArtifact(st, "fix") /\ patch # <<>> /\ Preflights(patch)
    [] OTHER -> TRUE

FixesPullRequest(st) ==
  LET patch == PatchOfFixes(EffectiveArtifact(st, "fix").fixes) IN
  ApplyPatch(st.art["re-scan"].branch, patch,
    [files |-> patch, remaining |-> st.art["re-scan"].remaining,
     waivers |-> EffectiveArtifact(st, "re-scan").waivers])

AccessibilityWrites(s, st) == IF s = "re-scan" THEN FixesPullRequest(st) ELSE <<>>

\* No pull request over a critical violation that remains and that nobody
\* waived, and none with a fix that was switched off or needs a redesign.
AccessibilityPolicy(st, call) ==
  LET fixes == FilesOf(EffectiveArtifact(st, "fix").fixes) IN
  /\ Criticals(st.art["re-scan"].remaining) \subseteq {w.violation : w \in call.what.waivers}
  /\ \A file \in FilesOf(call.what.files) :
       \E fix \in fixes : fix.applied /\ ~fix.manual /\ file \in FilesOf(fix.files)

-----------------------------------------------------------------------------
(* The console's side *)

\* What the parsers read.
CrawlView(a) == Parsed(a, {}, [routes |-> {}, selected |-> {}])
ViolationsView(a) == Parsed(a, {}, [violations |-> {}])
FixView(a) == Parsed(a, {}, [fixes |-> <<>>])
ReScanView(a) ==
  Parsed(a, {}, [remaining |-> {}, resolved |-> {}, introduced |-> {}, waivers |-> {}, branch |-> "none"])

\* A route switched off, or all.
CrawlSurface(a) ==
  Surface(CrawlView(a), {[selected |-> a.selected \ {"home"}], [selected |-> a.selected \ {"shop"}], [selected |-> {}]})
ViolationsSurface(a) == ReadOnly(ViolationsView(a))

\* A fix that needs no redesign is switched off.
FixSurface(a) ==
  Surface(FixView(a),
    {[fixes |-> [a.fixes EXCEPT ![i].applied = FALSE]] : i \in {j \in 1..Len(a.fixes) : ~a.fixes[j].manual}})

\* A waiver with a reason and an expiry that lies ahead, for what remains.
WaiverOf(violation) == [violation |-> violation, future |-> TRUE]
ReScanSurface(a) ==
  Surface(ReScanView(a),
    {[waivers |-> {WaiverOf(v) : v \in waived}] : waived \in {{v} : v \in a.remaining} \union {Criticals(a.remaining)}})

AccessibilitySurface(s, a) ==
  CASE s = "crawl" -> CrawlSurface(a)
    [] s = "violations" -> ViolationsSurface(a)
    [] s = "fix" -> FixSurface(a)
    [] s = "re-scan" -> ReScanSurface(a)

\* A client of the API hands in a waiver that has expired, one for what was
\* resolved, or a comparison of its own.
AccessibilityApiDrafts(s, a) ==
  IF s # "re-scan" THEN {}
  ELSE {[remaining |-> {}], [waivers |-> {WaiverOf("alt")} \union {WaiverOf(v) : v \in a.remaining}],
        [waivers |-> {[WaiverOf(v) EXCEPT !.future = FALSE] : v \in a.remaining}]}

AccessibilityRescanBlocked(a) ==
  ~(Criticals(a.remaining) \subseteq {w.violation : w \in {x \in a.waivers : x.future}})

AccessibilityBlocked(s, a) ==
  CASE s = "crawl" -> a.selected = {}
    [] s = "fix" -> AppliedIn(a.fixes) = <<>> /\ \E fix \in FilesOf(a.fixes) : ~fix.manual
    [] s = "re-scan" -> AccessibilityRescanBlocked(a)
    [] OTHER -> FALSE

\* Edits no form of the console opens, which the API takes.
AccessibilityFreeEdits(s, a) ==
  CASE s = "crawl" -> {[routes |-> {}]}
    [] s = "violations" -> {[violations |-> {"focus"}]}
    [] s = "fix" -> {[fixes |-> [i \in 1..Len(a.fixes) |-> [a.fixes[i] EXCEPT !.manual = FALSE, !.applied = TRUE]]]}
    [] s = "re-scan" -> {[branch |-> <<"a11y", "other">>]}
==============================================================================

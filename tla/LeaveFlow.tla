------------------------------ MODULE LeaveFlow ------------------------------
(***************************************************************************)
(* The leave lane, src/src/mastra/agents/leave/flow.ts: intake,            *)
(* policy-check, approve, apply (the booking).                             *)
(***************************************************************************)
EXTENDS FlowOps

LeaveSteps == <<"intake", "policy-check", "approve", "apply">>

-----------------------------------------------------------------------------
(* The calendar.  A date is a day number; day 1 is a Monday.               *)

Today == 1
LeaveHolidays == {10}
BlackoutPeriods == {[from |-> 22, to |-> 24]}
NoticeDays == 3

\* A range that ends before it starts has no date, and throws; so does a range
\* of more than 200 days.
EachDate(range) == range.from .. range.to
RangeThrows(range) == Cardinality(EachDate(range)) \notin 1..200
IsWeekend(day) == day % 7 \in {6, 0}
WorkingDaysBetween(range) ==
  Cardinality({day \in EachDate(range) : ~IsWeekend(day) /\ day \notin LeaveHolidays})
Meets(one, other) == one.from <= other.to /\ other.from <= one.to

-----------------------------------------------------------------------------
(* The contracts *)

LeaveRange == [from : 1..300, to : 1..300]
PolicyChecks == {"balance", "coverage", "blackout", "notice"}
PolicyStatuses == {"pass", "flag", "fail"}

LeaveRequest == [range : LeaveRange, balanceDays : 0..365]
LeavePolicyArtifact ==
  [range : LeaveRange, workingDays : 1..120, balanceBefore : 0..365, balanceAfter : -365..365,
   checks : [PolicyChecks -> PolicyStatuses], overlaps : SUBSET LeaveRange,
   verdict : {"ok", "exception_required"}]
LeaveApproval ==
  [approverRole : {"people-manager", "people-partner"}, workingDays : 1..120, exception : BOOLEAN,
   state : {"pending", "approved", "rejected"}]
EntryPreview == [range : LeaveRange, workingDays : 1..120]
ApplyArtifact == [request : EntryPreview, existing : BOOLEAN]

LeaveContract(s) ==
  CASE s = "intake" -> LeaveRequest
    [] s = "policy-check" -> LeavePolicyArtifact
    [] s = "approve" -> LeaveApproval
    [] s = "apply" -> ApplyArtifact

-----------------------------------------------------------------------------
(* The steps *)

\* The range asked for, the days the employee has left, whether the directory
\* knows the employee and a manager, and the employee's other bookings.
LeaveFacts ==
  LET Asks(from, to, balance, found, managed, booked) ==
        [range |-> [from |-> from, to |-> to], balance |-> balance, found |-> found,
         managed |-> managed, booked |-> booked]
  IN {Asks(8, 9, 5, FALSE, FALSE, {}),
      Asks(9, 8, 5, TRUE, TRUE, {}),
      Asks(13, 14, 5, TRUE, TRUE, {}),
      Asks(8, 12, 5, TRUE, TRUE, {[from |-> 11, to |-> 15]}),
      Asks(2, 12, 5, TRUE, FALSE, {}),
      Asks(23, 24, 5, TRUE, TRUE, {}),
      Asks(2, 3, 5, TRUE, FALSE, {})}

ComputeLeaveIntake(st, known) ==
  Unless(~known.found,
    {[range |-> known.range, balanceDays |-> known.balance, from |-> DerivedFrom(st, {})]})

\* The bookings on the calendar, the one of an earlier run of the request too.
LeaveBookings(known) ==
  known.booked \union IF "leave-registry" \in known.carried THEN {known.range} ELSE {}

\* A range without a working day throws.
ComputePolicy(st, known) ==
  LET intake == EffectiveArtifact(st, "intake")
      workingDays == WorkingDaysBetween(intake.range)
      balanceAfter == intake.balanceDays - workingDays
      overlaps == {booked \in LeaveBookings(known) : Meets(booked, intake.range)}
      blackout == \E period \in BlackoutPeriods : Meets(period, intake.range)
      Check(good, otherwise) == IF good THEN "pass" ELSE otherwise
  IN Unless(~HasArtifact(st, "intake") \/ RangeThrows(intake.range) \/ workingDays < 1,
       {[range |-> intake.range, workingDays |-> workingDays,
         balanceBefore |-> intake.balanceDays, balanceAfter |-> balanceAfter,
         checks |-> [check \in PolicyChecks |->
                       CASE check = "balance" -> Check(balanceAfter >= 0, "fail")
                         [] check = "coverage" -> Check(overlaps = {}, "flag")
                         [] check = "blackout" -> Check(~blackout, "flag")
                         [] check = "notice" ->
                              Check(intake.range.from - Today >= NoticeDays, "flag")],
         overlaps |-> overlaps,
         verdict |-> IF balanceAfter < 0 \/ blackout THEN "exception_required" ELSE "ok",
         from |-> DerivedFrom(st, {"intake"})]})

\* The approver is told the working days and whether an exception is asked for.
ComputeLeaveApprove(st, known) ==
  LET policy == EffectiveArtifact(st, "policy-check") IN
  Unless(~HasArtifact(st, "policy-check"),
    {[approverRole |-> IF known.managed THEN "people-manager" ELSE "people-partner",
      workingDays |-> policy.workingDays, exception |-> policy.verdict = "exception_required",
      state |-> "pending", from |-> DerivedFrom(st, {"policy-check"})]})

LeaveEntry(policy) == [range |-> policy.range, workingDays |-> policy.workingDays]

\* The preview says whether the request is already booked.
ComputeLeaveApply(st, known) ==
  Unless(~HasArtifact(st, "policy-check"),
    {[request |-> LeaveEntry(EffectiveArtifact(st, "policy-check")),
      existing |-> "leave-registry" \in known.carried,
      from |-> DerivedFrom(st, {"policy-check"})]})

LeaveCompute(s, st, known) ==
  CASE s = "intake" -> ComputeLeaveIntake(st, known)
    [] s = "policy-check" -> ComputePolicy(st, known)
    [] s = "approve" -> StoredOr(st, s, ComputeLeaveApprove(st, known))
    [] s = "apply" -> StoredOr(st, s, ComputeLeaveApply(st, known))

LeaveGate(s, st) == s \in {"policy-check", "approve"} => HasArtifact(st, s)

\* The registry knows a request it has booked.
BookLeave(apply) == <<Call("leave-registry", "request", TRUE, apply.request)>>

LeaveWrites(s, st) ==
  IF s = "apply" THEN BookLeave(EffectiveArtifact(st, "apply")) ELSE <<>>

\* The days booked are the ones the policy was checked for and the approver was
\* told of, and an exception was put to the approver as one.
LeavePolicy(st, call) ==
  LET policy == EffectiveArtifact(st, "policy-check")
      approve == EffectiveArtifact(st, "approve")
  IN /\ call.what = LeaveEntry(policy)
     /\ approve.workingDays = call.what.workingDays
     /\ approve.exception =
          (policy.checks["balance"] = "fail" \/ policy.checks["blackout"] = "flag")

-----------------------------------------------------------------------------
(* The console's side: the lane takes no edits.                            *)

LeaveIntakeView(a) == Parsed(a, {"range"}, [balanceDays |-> 0])
LeavePolicyView(a) ==
  Parsed(a, {"range"}, [workingDays |-> 0, balanceBefore |-> 0, balanceAfter |-> 0,
                        checks |-> << >>, overlaps |-> {}, verdict |-> "ok"])
LeaveApproveView(a) ==
  Parsed(a, {}, [approverRole |-> "", workingDays |-> 0, exception |-> FALSE,
                 state |-> "pending"])
LeaveApplyView(a) == Parsed(a, {"request"}, [existing |-> FALSE])

LeaveIntakeSurface(a) == ReadOnly(LeaveIntakeView(a))
LeavePolicySurface(a) == ReadOnly(LeavePolicyView(a))
LeaveApproveSurface(a) == ReadOnly(LeaveApproveView(a))
LeaveApplySurface(a) == ReadOnly(LeaveApplyView(a))

LeaveSurface(s, a) ==
  CASE s = "intake" -> LeaveIntakeSurface(a)
    [] s = "policy-check" -> LeavePolicySurface(a)
    [] s = "approve" -> LeaveApproveSurface(a)
    [] s = "apply" -> LeaveApplySurface(a)

\* What the API takes all the same.
LeaveFreeEdits(s, a) ==
  LET week == [from |-> 15, to |-> 19] IN
  CASE s = "intake" -> {[balanceDays |-> 30], [range |-> week]}
    [] s = "policy-check" -> {[verdict |-> "ok"], [workingDays |-> 1]}
    [] s = "approve" -> {[exception |-> ~a.exception], [workingDays |-> 1]}
    [] s = "apply" -> {[request |-> [range |-> week, workingDays |-> 5]]}
==============================================================================

SPECIFICATION Spec
CONSTANTS
  Lanes = {"security", "msp", "features", "issues", "dependencies", "accessibility", "vendors", "onboarding", "offboarding", "screening", "leave", "hr-help", "bills", "review"}
  NRuns = 2
  MaxChanges = 1
  MaxFaults = 1
  DeskDedupes = FALSE
INVARIANTS TypeOK StepWritesOnce DerivedFromCurrent EffectsAreKnown ConsoleMirrorsFlow
PROPERTIES WritesAreDecided WritesMatchApproval LanePolicy
CHECK_DEADLOCK FALSE

SPECIFICATION Spec
CONSTANTS
  Lanes = {"vendors", "onboarding"}
  NRuns = 1
  MaxChanges = 0
  MaxFaults = 0
  DeskDedupes = FALSE
PROPERTIES DeclaredFieldsRide
CHECK_DEADLOCK FALSE

CONSTANTS
  Processes = {p, q}
  MaxRev = 1
  MaxStarts = 3
  MaxKills = 2
  MaxLosses = 2
  Free = 0
SPECIFICATION Spec
SYMMETRY InstallSymmetry
CHECK_DEADLOCK FALSE
INVARIANTS AcknowledgedSurvives InstalledWhole OneWriter

SPECIFICATION TerminalSpec
CONSTANTS
  DefaultTokens = 8500
  Lines <- MCLines
  EditLines <- MCEditLines
  Probe <- MCProbe
  LockSqz = FALSE
  Suffixes = 2
  MaxApplies = 1
  MaxFaults = 1
INVARIANTS
    ShownIsCurrent
    AppliedSurvives
PROPERTIES
    ApplyEnds
CHECK_DEADLOCK FALSE

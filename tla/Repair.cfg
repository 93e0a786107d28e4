SPECIFICATION RepairSpec
CONSTANTS
  old = old
  new = new
  lookalike = lookalike
  Absent = Absent
  Link = Link
  Attempts = {n1, n2}
  Bytes <- MCBytes
  Replacements = {new}
  Identity <- MCIdentity
  MaxEdits = 2
  MaxFaults = 2
SYMMETRY Interchangeable
INVARIANTS
    BaseRecoverable
    DisplacesOnlyReviewed
    NoLeftovers
PROPERTIES
    ResultsExact
CHECK_DEADLOCK FALSE

SPECIFICATION LoginSpec
CONSTANTS
  Good = {g1, g2, g3}
  Bad = {b1, b2}
  Stray = {s1}
  None = None
INVARIANTS
    LoginHonest
PROPERTIES
    WaitEnds
CHECK_DEADLOCK FALSE

SPECIFICATION TokenSpec
CONSTANTS
  Logins = {l1, l2}
  Logouts = {o1, o2}
  Nobody = Nobody
  MaxFaults = 1
  MaxLosses = 1
SYMMETRY Interchangeable
INVARIANTS
    CredentialsHold
    LogoutErases
CHECK_DEADLOCK FALSE

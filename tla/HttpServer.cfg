SPECIFICATION HttpSpec
CONSTANTS
  r1 = r1
  r2 = r2
  r3 = r3
  here = here
  t1 = t1
  t2 = t2
  Requests = {r1, r2, r3}
  Addresses = {here}
  Tokens = {t1, t2}
  address <- FromAddress
  token <- ByToken
  Signals = {sigint}
  MaxInFlight = 2
  RateLimit = 2
  Window = 2
  MaxClock = 2
INVARIANTS
    RequestsAccounted
    WindowExact
    AnsweredReported
PROPERTIES
    ShutdownEnds
CHECK_DEADLOCK FALSE

SPECIFICATION ToolCallsSpec
CONSTANTS
  c1 = c1
  l1 = l1
  odds = odds
  alice = alice
  bob = bob
  ambient = ambient
  None = None
  Calls = {c1}
  Lists = {l1}
  tool <- MCTool
  Tools = {odds}
  Tokens = {alice, bob, ambient}
  Kind <- MCKind
  Environments <- MCEnvironments
  Statuses = {200, 401, 429}
  Codes = {"none"}
  Ttl = 0
  Timeout = 1
  MaxClock = 2
  MaxSwitches = 1
  MaxReplans = 1
  MaxReplies = 2
INVARIANTS
    FreshlyAllowed
    ReportedTruthfully
    ListedRecently
PROPERTIES
    RequestEnds

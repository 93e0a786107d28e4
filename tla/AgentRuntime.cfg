SPECIFICATION RuntimeSpec
CONSTANTS
  t1 = t1
  bulky = bulky
  encoded1 = encoded1
  cited1 = cited1
  encodedBulky = encodedBulky
  patch = patch
  id1 = id1
  idCited = idCited
  idBulky = idBulky
  idPatch = idPatch
  None = None
  Contents <- MCContents
  Ids <- MCIds
  Digest <- MCDigest
  Size <- MCSize
  Ticks <- MCTicks
  Payloads <- MCPayloads
  MaxEntries = 2
  MaxTotalBytes = 4
  MaxItemBytes = 3
  MaxAgeTicks = 1
  MaxOrder = 3
  Profiles <- MCProfiles
  Models <- MCModels
  MutatingTools <- MCMutatingTools
  MaxDepth = 2
  Requests <- MCRequests
  Texts <- MCTexts
  Oversize = {bulky}
  SqzReceipts <- MCSqzReceipts
  MaxLatency = 0
  Citations <- MCCitations
  Levels <- MCLevels
  Outputs <- MCOutputs
  Encoded <- MCEncoded
INVARIANTS
    PortsOnlyWhenAdmitted
PROPERTIES
    OnlyScreenedText
    StoreMatchesReceipt

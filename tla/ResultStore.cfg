SPECIFICATION Spec
CONSTANTS
  a = a
  b = b
  d = d
  big = big
  twin = twin
  empty = empty
  huge = huge
  ida = ida
  idb = idb
  idd = idd
  idbig = idbig
  idother = idother
  Contents <- MCContents
  Ids <- MCIds
  Digest <- MCDigest
  Size <- MCSize
  Ticks <- MCTicks
  Payloads <- MCPayloads
  MaxEntries = 2
  MaxTotalBytes = 4
  MaxItemBytes = 3
  MaxAgeTicks = 2
  MaxOrder = 3
INVARIANTS
    BookkeepingExact
    AckedRetrievable
PROPERTIES
    EvictsOldestFirst
    EvictsOnlyForRoom
    ImplementsContentStore

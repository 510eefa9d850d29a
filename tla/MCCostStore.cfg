CONSTANTS
  NoHash = NoHash
  Hashes <- MCHashes
  Lats = {1, 2}
  Engs = {1}
  MaxEntries = 2
  MaxClock = 6
  CrashMidOp = FALSE
SPECIFICATION Spec
 
INVARIANT UniqueHash
INVARIANT CostEntryHasOneKey
PROPERTY CostStoreRefinesLRU

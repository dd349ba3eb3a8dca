SPECIFICATION ModelsSpec
CONSTANTS
  Calls = {a1, a2}
  Keys = {k1, k2}
  Lists <- MCLists
  Asked <- MCAsked
  Exclusions <- MCExclusions
  Ttl = 2
  Timeout = 1
  MaxTime = 3
  NoEntry = NoEntry
SYMMETRY ModelsSymmetry
INVARIANTS
  ModelsAreUsable
  ListsAreRecent
PROPERTIES
  CatalogsAreKeptUp

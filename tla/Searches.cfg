SPECIFICATION Spec
CONSTANTS
  root = root
  a = a
  d = d
  b = b
  e = e
  c = c
  Root = root
  Order <- MCOrder
  Parent <- MCParent
  Trees <- MCTrees
  Size <- MCSize
  Matching <- MCMatching
  RowLimits <- MCLimits
  MAX_FILES_SIZE = 3
  BufferRows = 3
  MaxChanges = 3
INVARIANTS
  ListingIsExact
  PagesTile
  TempsAreRemoved
CHECK_DEADLOCK FALSE

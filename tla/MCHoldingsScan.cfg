CONSTANTS
  Lists <- SmallLists
  Zips <- SmallZips
  LookupLimits = {1, 2}
  CatalogCap = 2
CHECK_DEADLOCK FALSE
SPECIFICATION LookupSpec
INVARIANT HoldingsAreWhole

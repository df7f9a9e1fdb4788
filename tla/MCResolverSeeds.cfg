\* A curated ticker whose letters are not four.
CONSTANTS
  Names    <- SmallNames
  Tickers  <- SmallTickers
  Chains   <- SmallChains
  Others   <- SmallOthers
  Types    <- SmallTypes
  NoTicker = NoTicker
CHECK_DEADLOCK FALSE
SPECIFICATION Spec
INVARIANT SeededTickersHit

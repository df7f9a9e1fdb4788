\* One call at a time, with names of up to three words, four chains and two
\* catalogue types.  A call ends, and the system with it: it may stop.
CONSTANTS
  Names    <- SmallNames
  Tickers  <- SmallTickers
  Chains   <- SmallChains
  Others   <- SmallOthers
  Types    <- SmallTypes
  NoTicker = NoTicker
CHECK_DEADLOCK FALSE
SPECIFICATION FairSpec
INVARIANTS TypeOK TrapsAreFinal GuessesAreChallenged InferredExemptionIsAsked FailuresLoseNothing CatalogueSpeaksTrue
PROPERTIES AuditTrailGrows EveryResolveEnds

\* Windows of up to two months over the files of three, rows in every order, with a
\* limit that is reached; the register's files and an archive of two blocks, with
\* limits and a cap that are reached; and a snippet that starts up to three processes, in any
\* tree.  A call ends, and the system with it: it may stop.
CONSTANTS
  F = F
  A = A
  B = B
  S = S
  None = None
  Requests  <- SmallRequests
  Registers <- SmallRegisters
  Archives  <- SmallArchives
  Limit = 4
  ScanCap = 2
  MonthsMax = 2
  Kids = {k1, k2, k3}
  Root = Root
  Lists <- SmallLists
  Zips <- SmallZips
  LookupLimits = {1, 2}
  CatalogCap = 2
CHECK_DEADLOCK FALSE
SPECIFICATION CallsSpec
INVARIANTS CallsTypeOK AnswerIsExact ContinuationIsStitched LookupIsWhole KilledGroupStaysDead AnsweredRunIsReaped
PROPERTY EveryRunEnds

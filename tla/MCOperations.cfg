\* Two tasks in each machine, lists of up to three pages, two New Years.
CONSTANTS
  Callers = {c1, c2}
  Url = Url
  NoKey = NoKey
  HttpTtl = 2
  Ttl = 2
  MaxTime = 4
  FirstYear = 2025
  MaxYears = 2
  PageSize = 2
  SiconfiPages = 3
  PortfolioPages = 2
  EntesPages = 2
  PageTtl = 1
  Sizes = {0, 2, 3, 5}
  Wanted = {1, 3, 4, 11}
  MaxChanges = 2
  MaxClock = 2
  ImaCallers = {i1, i2}
  Days = {1, 2}
  Slots = 1
  DayTtl = 1
  MaxHours = 1
  Tasks = {t1, t2}
  LoopIds = {l1, l2}
  MaxLoops = 3
  MaxClients = 3
  MaxAttempts = 2
  Companies <- SmallCompanies
  Funds <- SmallFunds
  Insurers <- SmallInsurers
  LookupLimit = 3
  MaxBuilds = 2
  Needles <- CsvNeedles
  MaxFile = 7
  MaxRows = 2
SPECIFICATION OperationsSpec
SYMMETRY TaskSymmetry
INVARIANTS OperationsTypeOK LimitKept YearIsCurrent BlameIsJust TablesAreHonest
INVARIANTS HiddenAtMostADay EnvelopeIsHonest WalkIsWhole NoForeignConnection OnlyClosingLosesClients LookupFinds ScanIsWhole
PROPERTY StackedReadsAreMonotonic
\* No loop is started any more once MaxLoops have run.
CHECK_DEADLOCK FALSE

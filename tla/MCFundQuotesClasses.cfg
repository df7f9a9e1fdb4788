\* Are the classes of a fund served apart when both are quoted on one day?
CONSTANTS
  F = F
  A = A
  B = B
  S = S
  None = None
  Requests  <- SmallRequests
  Registers <- SmallRegisters
  Archives  <- ClassArchives
  Limit = 4
  ScanCap = 2
  MonthsMax = 2
CHECK_DEADLOCK FALSE
SPECIFICATION Spec
INVARIANT ClassesAreApart

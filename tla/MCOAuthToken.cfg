\* Three tasks and one reset, over more than one token's life: a token of 0 is dead
\* when it arrives, one of 5 good for three instants; a life that is not said is
\* taken for 4, too long or too short.
CONSTANTS
  Callers = {c1, c2, c3}
  Lifetimes = {0, 5}
  Default = 4
  MaxLifetime = 5
  Margin = 2
  Latency = 1
  Grace = 1
  MaxTime = 4
  MaxResets = 1
SPECIFICATION FairSpec
INVARIANTS TypeOK OneRefreshAtATime RefreshOnlyWhenNeeded NeverPresentsExpired
PROPERTY EveryGetEnds

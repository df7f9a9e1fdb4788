\* Two tasks, one reset: does the next call refresh?
CONSTANTS
  Callers = {c1, c2}
  Lifetimes = {3, 5}
  Default = 3
  MaxLifetime = 5
  Margin = 2
  Latency = 1
  Grace = 1
  MaxTime = 3
  MaxResets = 1
SPECIFICATION Spec
INVARIANT ResetForcesRefresh

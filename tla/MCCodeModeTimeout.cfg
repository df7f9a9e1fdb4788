\* A snippet that starts one process, exits and leaves it running: does a timeout
\* kill it?
CONSTANTS
  Kids = {k1}
  Root = Root
CHECK_DEADLOCK FALSE
SPECIFICATION RunSpec
INVARIANT TimeoutKillsTree

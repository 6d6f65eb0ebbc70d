\* A checkpoint of an earlier list, crash and failed saves, under fairness: the scan ends.
CONSTANTS
  t0 = t0  t1 = t1  t2 = t2
  h = h  e0 = e0  e1 = e1
  NoFile = NoFile  Torn = Torn
  Target <- MCTargetEarlier
  Loaded <- MCTarget
  Node <- MCNode
  Edge <- MCEdgeEarlier
  Ends <- MCEndsEarlier
  Yield <- MCYieldEarlier
  Threads = 2
  MaxCrashes = 1
  Periodic = TRUE
  Events <- LiveEvents
SPECIFICATION LiveSpec
INVARIANTS CompleteIsRecognised
PROPERTIES ScanCompletes

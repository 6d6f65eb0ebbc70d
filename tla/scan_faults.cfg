\* Every failure the code handles, one crash and resume.
CONSTANTS
  t0 = t0  t1 = t1  t2 = t2
  h = h  e0 = e0  e1 = e1
  NoFile = NoFile  Torn = Torn
  Target <- MCTarget
  Loaded <- MCTarget
  Node <- MCNode
  Edge <- MCEdge
  Ends <- MCEnds
  Yield <- MCYield
  Threads = 2
  MaxCrashes = 1
  Periodic = TRUE
  Events <- AllEvents
SPECIFICATION Spec
INVARIANTS TypeOK CheckpointSound ExportComplete ExportClosed
PROPERTIES CheckpointNeverRegresses DurableSpec

\* A signal while hosts hang: finished work is saved; so is all of it at the end.
CONSTANTS
  t0 = t0  t1 = t1  t2 = t2
  h = h  e0 = e0  e1 = e1
  NoFile = NoFile  Torn = Torn
  Target <- MCTarget
  Loaded <- MCTarget
  Node <- MCNode
  Edge <- MCEdge
  Ends <- MCEnds
  Yield <- MCYield
  Threads = 2
  MaxCrashes = 0
  Periodic = TRUE
  Events <- SignalEvents
SPECIFICATION HungSpec
INVARIANTS FinalSaveComplete
PROPERTIES SignalSaves

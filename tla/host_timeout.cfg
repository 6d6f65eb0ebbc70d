\* Three shares for two permits; failures, and a timeout at any point.
CONSTANTS
  s1 = s1  s2 = s2  s3 = s3  main = main
  NoSession = NoSession
  Share <- ThreeShares
  Proc <- ThreeProcs
  Main = main
  maxConnectionsPerHost = 2
  HostTimeout = TRUE
  Hangs <- ReadsHang
SPECIFICATION LiveSpec
INVARIANTS TypeOK InUseIsReachable SessionsNotShared ConnectionsBounded NothingLeftOpen Accounting
PROPERTIES HostCompletes SessionsAreLinks

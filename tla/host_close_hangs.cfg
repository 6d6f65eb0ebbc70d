\* A server that does not answer a logoff.
CONSTANTS
  s1 = s1  s2 = s2  s3 = s3  main = main
  NoSession = NoSession
  Share <- TwoShares
  Proc <- TwoProcs
  Main = main
  maxConnectionsPerHost = 2
  HostTimeout = TRUE
  Hangs <- ClosesHang
SPECIFICATION LiveSpec
PROPERTIES HostCompletes

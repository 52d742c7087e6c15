CONSTANTS
  p1 = p1
  p2 = p2
  x = x
  y = y
  Peers <- MCPeers
  Contents <- OneContent
  Addressee <- MCAddressee
  Deadline <- MCDeadline
  Forever = 9
  MaxRetries = 1
  MaxClock = 2
  MaxCrashes = 1
  MaxFailures = 2
  MaxFaults = 1
SPECIFICATION FairSpec
PROPERTIES
  EventuallySettled
CHECK_DEADLOCK FALSE

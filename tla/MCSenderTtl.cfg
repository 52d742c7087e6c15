CONSTANTS
  p1 = p1
  p2 = p2
  x = x
  y = y
  Peers <- MCPeers
  Contents <- MCContents
  Addressee <- MCAddressee
  Deadline <- MCDeadline
  Forever = 9
  MaxRetries = 1
  MaxClock = 2
  MaxCrashes = 1
  MaxFailures = 2
  MaxFaults = 0
SPECIFICATION Spec
PROPERTIES
  NoRetryAfterTtl
CHECK_DEADLOCK FALSE

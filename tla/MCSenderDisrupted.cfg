CONSTANTS
  p1 = p1
  p2 = p2
  x = x
  y = y
  Peers <- MCPeers
  Contents <- MCContents
  Addressee <- MCAddressee
  Deadline <- MCNever
  Forever = 9
  MaxRetries = 1
  MaxClock = 0
  MaxCrashes = 2
  MaxFailures = 1
  MaxFaults = 1
SPECIFICATION Spec
SYMMETRY Alike
INVARIANTS
  OneCopy
  RecoverySeesInFlight
  TrackedIsOutstanding
  RetryBudget
CHECK_DEADLOCK FALSE

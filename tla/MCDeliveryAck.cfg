CONSTANTS
  p1 = p1
  p2 = p2
  x = x
  y = y
  Peers <- TwoRecipients
  Contents <- MCContents
  Addressee <- MCAddressee
  Deadline <- MCDeadline
  Forever = 9
  MaxRetries = 1
  MaxClock = 0
  MaxCrashes = 0
  MaxFailures = 0
  MaxFaults = 0
  MaxSeq = 4
  MaxTracked = 2
  MaxConnections = 2
  MaxRestarts = 0
SPECIFICATION DeliverySpec
INVARIANTS
  AcknowledgedIsProcessed
CHECK_DEADLOCK FALSE

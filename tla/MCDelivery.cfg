CONSTANTS
  p1 = p1
  p2 = p2
  x = x
  y = y
  Peers <- OneRecipient
  Contents <- MCContents
  Addressee <- MCAddressee
  Deadline <- MCDeadline
  Forever = 9
  MaxRetries = 1
  MaxClock = 0
  MaxCrashes = 1
  MaxFailures = 2
  MaxFaults = 0
  MaxSeq = 4
  MaxTracked = 2
  MaxConnections = 2
  MaxRestarts = 1
SPECIFICATION DeliverySpec
INVARIANTS
  DeliveryTypeOK
  OncePerIdentity
  TwiceOnlyIfReissued
  FirstConnectionLosesNothing
CHECK_DEADLOCK FALSE
CONSTRAINT FewDisturbances

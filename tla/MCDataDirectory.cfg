CONSTANTS
  t1 = t1
  t2 = t2
  s1 = s1
  s2 = s2
  p1 = p1
  Daemon = Daemon
  Everyone = Everyone
  Local = Local
  Nobody = Nobody
  Terminals <- MCTerminals
  Services <- MCServices
  Peers <- MCPeers
  SafeId <- MCSafeId
  Announcements <- MCAnnouncements
  Freshness = 1
  MaxSkew = 1
  Sessions <- MCSessions
SPECIFICATION Spec
INVARIANTS
  DirectoryTypeOK
  KeptUnlessDisturbed
  LogsCoherent
  OnlineIsRecent
PROPERTIES
  IdentityWhole
  TornForever
SYMMETRY Interchangeable
CHECK_DEADLOCK FALSE

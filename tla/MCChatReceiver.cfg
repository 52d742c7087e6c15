CONSTANTS
  p1 = p1
  p2 = p2
  a = a
  b = b
  c = c
  d = d
  e = e
  Peers <- MCPeers
  Messages <- MCMessages
  MsgIds <- MCMsgIds
  MaxSeq = 3
  MaxTracked = 2
  MaxProcessed = 6
SPECIFICATION Spec
INVARIANTS
  TypeOK
  ReleasedInOrder
  BufferBehindGap
  SetMatchesQueue
  OncePerWindow
  ReleasedIsProcessed
PROPERTIES
  HeldUntilReleased
  Ordering

\* Two handlers, two receivers of one peer, and close; two messages per peer.
CONSTANTS
  p1 = p1
  p2 = p2
  r1 = r1
  r2 = r2
  Peer = {p1, p2}
  Receiver = {r1, r2}
  Src <- AllOnOne
  MaxSend = 2
SPECIFICATION FairSpec
INVARIANTS TypeOK FIFO EOFAfterDrain NoLostWakeup
PROPERTY Unblocks
CHECK_DEADLOCK FALSE

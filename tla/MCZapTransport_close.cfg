\* Two receivers of one peer; close at any time.
CONSTANTS
  p1 = p1
  p2 = p2
  r1 = r1
  r2 = r2
  Peer = {p1}
  Receiver = {r1, r2}
  Src <- AllOnOne
  MaxSend = 1
SPECIFICATION FairSpec
PROPERTY CloseUnblocks
CHECK_DEADLOCK FALSE

\* keyera keys (every share has the full-committee Lagrange coefficient),
\* t = 2 of 3: two parties sign.
CONSTANTS
  p1 = p1
  p2 = p2
  p3 = p3
  Party = {p1, p2, p3}
  Dealt = {p1, p2, p3}
  Threshold = 2
  Seeds <- DirectedSeeds
  Session = {1}
  SignerList <- SubsetLists
  Message = {m1}
  PRFKey = {k1}
  Nil = Nil
  MaxRound1 = 1
  MaxRound2 = 1
  MaxTamper = 0
  MaxRestart = 0
  MaxSigs = 1
SPECIFICATION Spec
INVARIANT QuorumSigns
CHECK_DEADLOCK FALSE

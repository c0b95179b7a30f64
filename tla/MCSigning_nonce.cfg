\* Round2 called twice after one Round1.
CONSTANTS
  p1 = p1
  p2 = p2
  p3 = p3
  Party = {p1, p2}
  Dealt = {p1, p2}
  Threshold = 2
  Seeds <- DirectedSeeds
  Session = {1}
  SignerList <- PairList
  Message = {m1, m2}
  PRFKey = {k1}
  Nil = Nil
  MaxRound1 = 1
  MaxRound2 = 2
  MaxTamper = 0
  MaxRestart = 0
  MaxSigs = 2
SPECIFICATION Spec
INVARIANT NonceSignsOnce
CHECK_DEADLOCK FALSE

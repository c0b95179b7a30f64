\* Three parties, so that two goroutines of a process race; one fault
\* at any point.
CONSTANTS
  Party = {0, 1, 2}
  Dealt = {0, 1, 2}
  Seeds <- DirectedSeeds
  Session = {1}
  SignerList <- AllRanks
  Message = {m1}
  PRFKey = {k1}
  Nil = Nil
  MaxRound1 = 1
  MaxRound2 = 1
  MaxTamper = 0
  MaxRestart = 0
  MaxSigs = 1
  Env <- Listings
  MaxDials = 1
  MaxFaults = 1
SPECIFICATION MainSpec
INVARIANT PrintsVerified
PROPERTY Terminates
CHECK_DEADLOCK FALSE

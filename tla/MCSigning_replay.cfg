\* Two signers and two sessions: each signer repeats Round1, one restarts or the
\* network corrupts a message, and stale Round1Data of one session reaches a
\* Round2 of the other.
CONSTANTS
  p1 = p1
  p2 = p2
  p3 = p3
  Party = {p1, p2}
  Dealt = {p1, p2}
  Threshold = 2
  Seeds <- DirectedSeeds
  Session = {1, 2}
  SignerList <- PairList
  Message = {m1}
  PRFKey = {k1}
  Nil = Nil
  MaxRound1 = 2
  MaxRound2 = 1
  MaxTamper = 1
  MaxRestart = 1
  MaxSigs = 1
SPECIFICATION Spec
CONSTRAINT OneFault
INVARIANTS TypeOK CommitmentsAuthentic NonceFresh SignedNoncesGenuine CommitteeSigns
PROPERTY ImplementsService
CHECK_DEADLOCK FALSE

\* A faulty dealer, and a faulty member that makes up a complaint and replays
\* those of an earlier invocation; a dealer can be disqualified and the three
\* left still qualify.
CONSTANTS
  d1 = d1
  d2 = d2
  d3 = d3
  d4 = d4
  m1 = m1
  m2 = m2
  m3 = m3
  Nil = Nil
  LocalTranscript = "current"
  Dealer = {d1, d2, d3, d4}
  Member = {m1, m2, m3}
  Faulty = {d4, m3}
  ThresholdOld = 3
  CertQuorum <- PairsWithFirst
  FaultyDelivery <- BadShareOrCommits
  OldComplaints <- EarlierComplaints
  MaxFalse = 1
  MaxLog = 2
SYMMETRY DealerSymmetry
SPECIFICATION Spec
CONSTRAINT FaultyKeepNoLog
INVARIANTS TypeOK ActivationAgreement ActivationBacked
INVARIANTS QuorumDeterministic HonestDealersKept
CHECK_DEADLOCK FALSE

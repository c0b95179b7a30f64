\* As many faulty members as the corruption bound t_old - 1 allows.
CONSTANTS
  d1 = d1
  d2 = d2
  d3 = d3
  d4 = d4
  m1 = m1
  m2 = m2
  m3 = m3
  Nil = Nil
  LocalTranscript = "current"
  Dealer = {d1, d2}
  Member = {m1, m2}
  Faulty = {m2}
  ThresholdOld = 2
  CertQuorum <- Everybody
  FaultyDelivery = {}
  OldComplaints = {}
  MaxFalse = 1
  MaxLog = 2
SPECIFICATION Spec
INVARIANT HonestDealersKept
CHECK_DEADLOCK FALSE

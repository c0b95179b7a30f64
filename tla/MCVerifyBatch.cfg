\* Batches of up to three tuples on two goroutines.  The longest frame body has
\* 8 cells; counts up to 2 are the ones encoded frames hold.
CONSTANTS
  MaxLatticeUintSliceLen = 4
  MaxFrameCells = 12
  Nil = Nil
  M = 1
  N = 1
  Q = 7
  QNu = 5
  Key <- MCKey
  Message = {"m1", "m2"}
  Issued <- MCIssued
  GOMAXPROCS = 2
  MaxBatch = 3
SPECIFICATION FairSpec
INVARIANTS ResultsComplete OnlyIssuedVerifies
PROPERTY BatchReturns
\* A call that has returned is over, and so is a process that has died.
CHECK_DEADLOCK FALSE

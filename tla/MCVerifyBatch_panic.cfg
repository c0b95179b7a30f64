\* One tuple on one goroutine: a group key whose BTilde has one polynomial more
\* than A has rows parses, and ends the process.
CONSTANTS
  MaxLatticeUintSliceLen = 4
  MaxFrameCells = 12
  Nil = Nil
  M = 1
  N = 1
  Q = 7
  QNu = 5
  Key <- MCKey
  Message = {"m1"}
  Issued <- MCIssued
  GOMAXPROCS = 1
  MaxBatch = 1
SPECIFICATION Spec
INVARIANT MalformedRefused
\* A call that has returned is over, and so is a process that has died.
CHECK_DEADLOCK FALSE

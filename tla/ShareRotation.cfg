\* Committees of up to three out of four party IDs over the field of five; two
\* bad deliveries, or one repeated or faulty Round1.
CONSTANTS
  Q = 5
  ID = {1, 2, 3, 4}
  MaxParties = 3
  Rand = {1, 3}
  MaxFaults = 2
  MaxExtra = 1
  MaxRotations = 2
  Nil = Nil
SPECIFICATION Spec
INVARIANTS TypeOK  BlameJustified PairKeysFormable
CHECK_DEADLOCK FALSE

\* Committees of one to three over the field of five, three epoch changes.
CONSTANTS
  Q = 5
  v1 = v1
  v2 = v2
  v3 = v3
  ValidatorList <- Committees
  GenesisEraID = {7}
  Suite = {SHA3, BLAKE3}
  DefaultSuite = SHA3
  LegacySuite = BLAKE3
  Rand = {1, 3}
  MaxEpoch = 3
  Nil = Nil
SPECIFICATION HandoverSpec
INVARIANTS Lineage SharesMatchKey PairKeysShared
PROPERTY ImplementsLineage
CHECK_DEADLOCK FALSE

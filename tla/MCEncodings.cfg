SPECIFICATION EncodeSpec
CONSTANTS
  MaxVar = 16
  PairwiseMax = 3
  Requests <- RequestsE
  Known = {0, 2, 6}
INVARIANTS
  EncodingExact
  AuxiliariesAreTheRange
CHECK_DEADLOCK FALSE

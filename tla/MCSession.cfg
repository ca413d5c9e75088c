SPECIFICATION Spec
CONSTANTS
  MaxVar = 7
  PairwiseMax = 2
  Formulas <- FormulasS
  Cardinalities <- CardinalitiesS
  Queries <- QueriesS
  MaxInterrupts = 1
INVARIANTS
  TypeOK
  RangesAscend
  NoSharedVariable
  FormulaMeansCalls
  AnswerMeetsCalls

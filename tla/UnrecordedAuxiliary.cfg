SPECIFICATION Spec
CONSTANTS
  MaxVar = 6
  PairwiseMax = 2
  Formulas <- FormulasI
  Cardinalities <- CardinalitiesI
  Queries <- QueriesI
  MaxInterrupts = 1
INVARIANT AuxiliariesAreRefused

SPECIFICATION Spec
CONSTANTS
  MaxVar = 2
  BoundedLimits = {"conflicts"}
  ClauseInputs <- ClausesShort
  AssumptionInputs <- AssumptionsShort
  ConstraintInputs <- ConstraintsShort
  OptionInputs <- OptionsPlain
INVARIANT ConstraintReachesNextSolve

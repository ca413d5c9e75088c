SPECIFICATION Spec
CONSTANTS
  MaxVar = 2
  BoundedLimits = {"conflicts"}
  ClauseInputs <- ClausesR
  AssumptionInputs <- AssumptionsR
  ConstraintInputs <- ConstraintsR
  OptionInputs <- OptionsR
PROPERTY ImplementsPromise

SPECIFICATION Spec
CONSTANTS
  MaxVar = 2
  BoundedLimits = {"conflicts"}
  ClauseInputs <- Clauses1
  AssumptionInputs <- Assumptions1
  ConstraintInputs <- Constraints1
  OptionInputs <- Options1
INVARIANT ErrorLeavesSolverAsItWas

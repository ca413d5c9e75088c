SPECIFICATION Spec
CONSTANTS
  MaxVar = 3
  NoVars = NoVars
  Formulas <- FormulasE
  Projections <- ProjectionsE
  Assumptions <- AssumptionsE
  Constraints <- ConstraintsE
  Limits <- LimitsE
INVARIANTS
  TypeOK
  RowsDistinct
  StatusTrue
  OnlyRowsBlocked
  ConstraintNotRetained
PROPERTIES
  ImplementsPromise
  Terminates

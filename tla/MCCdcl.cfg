CONSTANTS
  MaxVar = 5
  ChronoOptions <- Chronological
  MaxClauses = 14
  MaxReductions = 1
  Phases <- Positive
  Sessions <- SearchSessions
SPECIFICATION Spec
INVARIANTS
  TypeOK
  DerivedFollows
  IrredundantSuffices
  ReasonsExplain
  PropagationComplete
  ModelIsModel
  CoreFails
PROPERTY SearchEnds
CHECK_DEADLOCK FALSE

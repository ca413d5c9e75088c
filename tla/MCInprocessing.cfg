CONSTANTS
  MaxVar = 6
  UserVars = 5
  ElimBound = 0
  FastElimBound = 4
  LearnedSize = 2
  Sessions <- AllSessions
SPECIFICATION Spec
INVARIANTS
  ModelsExtend
  ClausesFollow
  OnlyActive
  GatesFollow
  EquivalencesIrredundant
CHECK_DEADLOCK FALSE

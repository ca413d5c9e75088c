CONSTANTS
  Value <- MCValue
  Text <- MCText
  MaxVar = 2
  Formulas <- MCFormulas
  Comments <- MCComments
  Damage = {"x", "3", "c3", "%2"}
  Percents = {"%", "%2"}
  CsAndPs = {"c", "p", "c3"}
  MaxEdits = 3
SPECIFICATION Spec
INVARIANTS FormulaSurvives DamageRefused
CHECK_DEADLOCK FALSE

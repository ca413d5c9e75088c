--------------------------------- MODULE Cnf ---------------------------------
(***************************************************************************)
(* Literals, clauses and what they mean.  A clause is the set of its       *)
(* literals; an assignment is the set of the variables it makes true.      *)
(***************************************************************************)
EXTENDS Integers

CONSTANT MaxVar  \* the largest variable index (ZUSAT_MAX_VAR)

ASSUME MaxVarAssumption == MaxVar \in Nat \ {0}

Var == 1..MaxVar
Lit == Var \cup {-v : v \in Var}
VarOf(lit) == IF lit < 0 THEN -lit ELSE lit

True(vars, lit)     == IF lit > 0 THEN lit \in vars ELSE -lit \notin vars
Holds(vars, clause) == \E lit \in clause : True(vars, lit)

\* vars is a model of the clauses in which the literals assumed are true.
IsModel(vars, clauses, assumed) ==
  /\ \A clause \in clauses : Holds(vars, clause)
  /\ \A lit \in assumed : True(vars, lit)

NoModel(clauses, assumed) ==
  \A vars \in SUBSET Var : ~IsModel(vars, clauses, assumed)
=============================================================================

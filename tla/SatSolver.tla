------------------------------ MODULE SatSolver ------------------------------
(***************************************************************************)
(* What a zusat_solver promises the R functions above it, one step per     *)
(* .Call: clauses accumulate, a constraint and the assumptions bound one   *)
(* search, and an answer can be read until the next change.  ZusatHandle   *)
(* implements this (MCRefinement); SolverSession and Enumerate build on it.*)
(***************************************************************************)
EXTENDS Cnf, FiniteSetsExt

VARIABLES
  clauses,  \* the formula
  pending,  \* {} or {c}: the constraint awaiting the next search
  n_vars,   \* sat_n_vars
  limited,  \* a resource limit is set
  answer    \* what can be read, with the question it answers

solver == <<clauses, pending, n_vars, limited, answer>>

NoAnswer ==
  [status |-> "none", vars |-> {}, assumed |-> {}, constrained |-> {}]

Answers ==
  [status : {"none", "sat", "unsat", "unknown"}, vars : SUBSET Var,
   assumed : SUBSET Lit, constrained : SUBSET SUBSET Lit]

SolverInit ==
  /\ clauses = {}
  /\ pending = {}
  /\ n_vars = 0
  /\ limited = FALSE
  /\ answer = NoAnswer

SolverTypeOK ==
  /\ clauses \subseteq SUBSET Lit
  /\ pending \subseteq SUBSET Lit
  /\ n_vars \in 0..MaxVar
  /\ limited \in BOOLEAN
  /\ answer \in Answers

\* The number of variables once those of lits are in use.
Using(lits) == Max({n_vars} \cup {VarOf(lit) : lit \in lits})

-----------------------------------------------------------------------------
AddClause(clause) ==
  /\ clauses' = clauses \cup {clause}
  /\ n_vars' = Using(clause)
  /\ answer' = NoAnswer
  /\ UNCHANGED <<pending, limited>>

SetConstraint(clause) ==
  /\ pending' = {clause}
  /\ n_vars' = Using(clause)
  /\ answer' = NoAnswer
  /\ UNCHANGED <<clauses, limited>>

\* A search has ended with status and the assignment vars.
Answer(status, vars, assumed, mayGiveUp) ==
  /\ \/ status = "sat" /\ IsModel(vars, clauses \cup pending, assumed)
     \/ status = "unsat" /\ vars = {} /\ NoModel(clauses \cup pending, assumed)
     \/ status = "unknown" /\ vars = {} /\ (mayGiveUp \/ limited)
  /\ answer' = [status |-> status, vars |-> vars,
                assumed |-> assumed, constrained |-> pending]
  /\ pending' = {}
  /\ limited' = FALSE
  /\ n_vars' = Using(assumed)
  /\ UNCHANGED clauses

Solve(assumed) ==
  \E status \in {"sat", "unsat", "unknown"}, vars \in SUBSET Var :
     Answer(status, vars, assumed, FALSE)

Simplify ==
  \E status \in {"sat", "unsat", "unknown"}, vars \in SUBSET Var :
     Answer(status, vars, {}, TRUE)

\* Ctrl-C: the search used up the constraint and the limits, and raised.
Interrupted(assumed) ==
  /\ answer' = NoAnswer
  /\ pending' = {}
  /\ limited' = FALSE
  /\ n_vars' = Using(assumed)
  /\ UNCHANGED clauses

\* sat_reserve; also a literal passed on by a .Call that has not ended.
Reserve(n) ==
  /\ n_vars' = IF n > n_vars THEN n ELSE n_vars
  /\ answer' = IF n > n_vars THEN NoAnswer ELSE answer
  /\ UNCHANGED <<clauses, pending, limited>>

\* A .Call that changes the solver has begun.
Forget == answer' = NoAnswer /\ UNCHANGED <<clauses, pending, n_vars, limited>>

SetLimit == limited' \in BOOLEAN /\ UNCHANGED <<clauses, pending, n_vars, answer>>

\* The handle was garbage collected.
Release ==
  /\ clauses' = {}
  /\ pending' = {}
  /\ n_vars' = 0
  /\ limited' = FALSE
  /\ answer' = NoAnswer

SolverNext ==
  \/ \E clause \in SUBSET Lit : AddClause(clause) \/ SetConstraint(clause)
  \/ \E assumed \in SUBSET Lit : Solve(assumed) \/ Interrupted(assumed)
  \/ Simplify
  \/ \E n \in Var : Reserve(n)
  \/ Forget \/ SetLimit \/ Release

SolverSpec == SolverInit /\ [][SolverNext]_solver
=============================================================================

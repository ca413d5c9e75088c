-------------------------- MODULE HandleRefinement ---------------------------
(***************************************************************************)
(* ZusatHandle implements SatSolver as long as the options are plain.      *)
(***************************************************************************)
EXTENDS ZusatHandle

\* What the promise calls the pending constraint: the old one while a new one
\* is being passed on.
Pending ==
  Clauses(IF call.op = "constrain" THEN told.constraint ELSE ConstraintKept)

CurrentAnswer ==
  [status |-> CASE handle.last_status = 10 -> "sat"
                [] handle.last_status = 20 -> "unsat"
                [] OTHER -> IF handle.concludable THEN "unknown" ELSE "none",
   vars |-> IF handle.last_status = 10 THEN model ELSE {},
   assumed |-> IF handle.concludable THEN told.assumed ELSE {},
   constrained |-> IF handle.concludable THEN Clauses(told.constrained) ELSE {}]

Nothing == [status |-> "none", vars |-> {}, assumed |-> {}, constrained |-> {}]

Promise == INSTANCE SatSolver WITH
  clauses <- IF alive THEN formula ELSE {},
  pending <- IF alive THEN Pending ELSE {},
  n_vars  <- IF alive THEN max_var ELSE 0,
  limited <- IF alive THEN limits # {} ELSE FALSE,
  answer  <- IF alive THEN CurrentAnswer ELSE Nothing

\* Every behaviour of the handle and CaDiCaL, with its half-passed clauses,
\* interrupts and cached flags, is one of the promised solver.
ImplementsPromise == Promise!SolverSpec
=============================================================================

------------------------------ MODULE Enumerate ------------------------------
(***************************************************************************)
(* sat_solutions() of R/enumerate.R on a solver: solve, report the model   *)
(* on the projected variables, block it, and solve again.  Steps are the   *)
(* .Calls of the loop; between them the handle is at rest, and Ctrl-C can  *)
(* end the call there as well as inside a solve.                           *)
(***************************************************************************)
EXTENDS SatSolver, Sequences

CONSTANTS
  Formulas,     \* the formula the solver holds beforehand
  Projections,  \* `vars': NoVars or a set of variables
  Assumptions,  \* `assumptions'
  Constraints,  \* `constraint': {} for NULL, or {c}
  Limits,       \* `limit'
  NoVars        \* `vars = NULL'

ASSUME EnumerateAssumption ==
  /\ Formulas \subseteq SUBSET SUBSET Lit
  /\ Projections \subseteq {NoVars} \cup SUBSET Var
  /\ Assumptions \subseteq SUBSET Lit
  /\ Constraints \subseteq {{}} \cup {{clause} : clause \in SUBSET Lit}
  /\ Limits \subseteq Nat

VARIABLES
  pc,         \* where the call is
  args,       \* its arguments
  found,      \* the rows found: each a set of variables, true ones of this_vars
  this_vars,  \* the variables the last row is about
  status,     \* the status reported
  stopped,    \* why the loop ended
  formula     \* the clauses before the call (history)

enumVars == <<pc, args, found, this_vars, status, stopped, formula>>
allVars == <<solver, enumVars>>

\* The caller added the formula, may have reserved more variables than it
\* uses, and may have left a constraint or a limit for the next solve.
Init ==
  /\ clauses \in Formulas
  /\ pending \in {{}} \cup Constraints
  /\ n_vars \in {n \in 0..MaxVar :
                   \A lit \in UNION (clauses \cup pending) : VarOf(lit) <= n}
  /\ limited \in BOOLEAN
  /\ answer = NoAnswer
  /\ pc = "call"
  /\ args \in [vars : Projections, assumptions : Assumptions,
               constraint : Constraints, limit : Limits]
  /\ found = <<>>
  /\ this_vars = {}
  /\ status = "unknown"
  /\ stopped = "limit"
  /\ formula = clauses

TypeOK ==
  /\ SolverTypeOK
  /\ pc \in {"call", "while", "solve", "block", "done", "raised"}
  /\ found \in Seq(SUBSET Var)
  /\ this_vars \subseteq Var
  /\ status \in {"sat", "unsat", "unknown"}
  /\ stopped \in {"limit", "exhausted", "unknown"}

-----------------------------------------------------------------------------
\* A pending constraint is refused: it would cover the first solve only.
sat_solutions ==
  /\ pc = "call"
  /\ pc' = IF pending # {} THEN "raised" ELSE "while"
  /\ UNCHANGED <<solver, args, found, this_vars, status, stopped, formula>>

\* mutant: the constraint is set before the loop condition is tested
WhileConstrainedFirst ==
  /\ pc = "while"
  /\ pc' = IF Len(found) < args.limit THEN "solve" ELSE "done"
  /\ IF args.constraint = {}
     THEN UNCHANGED solver
     ELSE \E clause \in args.constraint : SetConstraint(clause)
  /\ UNCHANGED <<args, found, this_vars, status, stopped, formula>>

\* The loop condition; the constraint is set again for every solve.
While ==
  /\ pc = "while"
  /\ IF Len(found) < args.limit
     THEN /\ pc' = "solve"
          /\ IF args.constraint = {}
             THEN UNCHANGED solver
             ELSE \E clause \in args.constraint : SetConstraint(clause)
     ELSE pc' = "done" /\ UNCHANGED solver
  /\ UNCHANGED <<args, found, this_vars, status, stopped, formula>>

\* mutant: the projection is fixed before the solve
this_vars_early == IF args.vars = NoVars THEN 1..n_vars ELSE args.vars

\* Once the solver has seen the whole question it knows how many variables
\* there are.
default_vars == IF args.vars = NoVars THEN 1..n_vars' ELSE args.vars

\* A variable the solver has never seen has no value, and is reported FALSE.
RowOf(vars) == answer'.vars \cap vars \cap 1..n_vars'

\* mutants: any end of the search counts as exhausted; the status is stored
StoppedAlways(s) == "exhausted"
StoppedStatus(s) == s

StoppedBy(s) == IF s = "unsat" THEN "exhausted" ELSE "unknown"

AfterSolveNoBreak(s) == IF s = "sat" THEN "block" ELSE "while"  \* mutant

AfterSolve(s) == IF s = "sat" THEN "block" ELSE "done"

StatusAlways(s) == s  \* mutant: the last solve decides the status

\* The first solve decides the status; a later "unsat" only means that the
\* models ran out.
StatusBy(s) == IF s = "sat" \/ found = <<>> THEN s ELSE status

\* sat_solve, and what the loop does with its answer.
SolveRound ==
  /\ pc = "solve"
  /\ Solve(args.assumptions)
  /\ pc' = AfterSolve(answer'.status)
  /\ status' = StatusBy(answer'.status)
  /\ IF answer'.status = "sat"
     THEN /\ this_vars' = default_vars
          /\ found' = Append(found, RowOf(default_vars))
          /\ UNCHANGED stopped
     ELSE /\ stopped' = StoppedBy(answer'.status)
          /\ UNCHANGED <<found, this_vars>>
  /\ UNCHANGED <<args, formula>>

\* mutant: only the true variables are blocked
BlockingTrueOnly(row) == {-v : v \in row}

\* At least one projected variable must differ from the row.
Blocking(row) == {IF v \in row THEN -v ELSE v : v \in this_vars}

\* With nothing to project onto there is one answer and nothing to block.
Block ==
  /\ pc = "block"
  /\ IF this_vars = {}
     THEN /\ pc' = "done"
          /\ stopped' = "exhausted"
          /\ UNCHANGED solver
     ELSE /\ AddClause(Blocking(found[Len(found)]))
          /\ pc' = "while"
          /\ UNCHANGED stopped
  /\ UNCHANGED <<args, found, this_vars, status, formula>>

\* Ctrl-C between two .Calls of the loop, or inside the solve.
CtrlC ==
  /\ pc \in {"while", "solve", "block"}
  /\ pc' = "raised"
  /\ \/ UNCHANGED solver
     \/ pc = "solve" /\ Interrupted(args.assumptions)
  /\ UNCHANGED <<args, found, this_vars, status, stopped, formula>>

\* The result is returned, or the error reported.
Returned == pc \in {"done", "raised"} /\ UNCHANGED allVars

Loop == While \/ SolveRound \/ Block

Next == sat_solutions \/ Loop \/ CtrlC \/ Returned

\* Every solve returns, and the R loop goes on.
Spec == Init /\ [][Next]_allVars /\ WF_allVars(sat_solutions \/ Loop)

-----------------------------------------------------------------------------
(* Properties. *)

\* The variables rows are about: by default all those the formula, the
\* assumptions and the constraint use.
Projected ==
  IF args.vars = NoVars
  THEN 1..Using(args.assumptions \cup UNION args.constraint)
  ELSE args.vars

\* Every row there is: the models under the assumptions and the constraint,
\* on the projected variables.
AllRows ==
  {vars \cap Projected :
     vars \in {m \in SUBSET Var :
                 IsModel(m, formula \cup args.constraint, args.assumptions)}}

Rows == {found[i] : i \in DOMAIN found}

\* No row is reported twice, even when a projected variable was unknown to the
\* solver at first and has values later, and all rows are about the same
\* variables, as new_solutions takes for granted.
RowsDistinct ==
  /\ \A i, j \in DOMAIN found : found[i] = found[j] => i = j
  /\ found # <<>> => this_vars = Projected

\* The status agrees with what there is: "unsat" only for a formula without
\* a model, never for an enumeration that was not allowed to solve.
StatusTrue ==
  pc = "done" => /\ status = "unsat" => AllRows = {}
                 /\ status = "sat" <=> found # <<>>

\* Between rounds, and when the call returns, the solver holds the formula
\* and what rules out exactly the rows found: no answer that has not been
\* reported is lost to this enumeration or to a later one.
OnlyRowsBlocked ==
  pc \in {"while", "solve", "done"} /\ (found # <<>> => this_vars # {}) =>
    \A vars \in SUBSET Var :
      IsModel(vars, clauses, {}) <=>
        IsModel(vars, formula, {}) /\ vars \cap Projected \notin Rows

\* The constraint of an enumeration does not outlive it when it returns.
ConstraintNotRetained == pc = "done" => pending = {}

\* Whatever the limit, the call ends: the blocking clauses use up the models.
Terminates == <>(pc \in {"done", "raised"})

\* The loop implements the promise of ModelEnumerator.
Promise == INSTANCE ModelEnumerator WITH
  Row     <- SUBSET Var,
  phase   <- IF pc \in {"done", "raised"} THEN pc ELSE "running",
  answers <- AllRows,
  limit   <- args.limit,
  given   <- Rows,
  reason  <- stopped

\* Rows are answers, at most `limit' of them, and sat_complete() is TRUE only
\* when there is no other: through every solve, block and interrupt.
ImplementsPromise == Promise!EnumSpec
=============================================================================

---------------------------- MODULE SolverSession ----------------------------
(***************************************************************************)
(* The R functions that build a formula (R/solver.R, R/cardinality.R,      *)
(* R/controls.R) on top of one solver: they refuse the auxiliary variables *)
(* of earlier encodings, allocate new ones above every variable in use,    *)
(* and record them once the encoding has been added.                       *)
(*                                                                         *)
(* add_clauses is an R loop with one .Call per clause, and Ctrl-C can end  *)
(* it between two of them: the clauses added so far stay, nothing else of  *)
(* the call happens.                                                       *)
(***************************************************************************)
EXTENDS SatSolver, CardinalityEncodings

CONSTANTS
  Formulas,      \* sets of clauses passed to sat_add
  Cardinalities, \* calls of sat_at_most, sat_at_least and sat_exactly
  Queries,       \* literal sets passed as assumptions or to sat_constrain
  MaxInterrupts  \* bound on how often Ctrl-C arrives in the loop of add_clauses

ASSUME SessionAssumption ==
  /\ Formulas \subseteq SUBSET SUBSET Int
  /\ \A call \in Cardinalities : call \in CardinalityCalls
  /\ Queries \subseteq SUBSET Int
  /\ MaxInterrupts \in Nat

VARIABLES
  aux,         \* solver_state(solver)$aux: the recorded ranges <<from, to>>
  loop,        \* add_clauses in progress
  introduced,  \* auxiliary variables some added clause mentions (history)
  asked,       \* the calls that returned (history)
  named,       \* the variables of those calls and of the queries, as far as
               \* the solver counts them (history)
  interrupts   \* how often Ctrl-C ended an add_clauses (history)

session == <<aux, loop, introduced, asked, named, interrupts>>
sessionVars == <<solver, session>>

\* No call is running: nothing to add, no range to record.
Rest == [busy |-> FALSE, todo |-> {}, floor |-> 0, top |-> 0, call |-> <<>>]

Init ==
  /\ SolverInit
  /\ aux = <<>>
  /\ loop = Rest
  /\ introduced = {}
  /\ asked = {}
  /\ named = {}
  /\ interrupts = 0

TypeOK ==
  /\ SolverTypeOK
  /\ aux \in Seq(Var \X Var)
  /\ loop.busy \in BOOLEAN /\ loop.todo \subseteq SUBSET Lit
  /\ introduced \subseteq Var
  /\ named \subseteq Var
  /\ interrupts \in 0..MaxInterrupts

-----------------------------------------------------------------------------
(* Checks made before anything is added. *)

as_literals_any(lits) == TRUE  \* mutant: any integer passes

as_literals(lits) == lits \subseteq Lit

\* findInterval: how many ranges start at or below v.
findInterval(v) == Cardinality({r \in DOMAIN aux : aux[r][1] <= v})

IsAux(v) == LET i == findInterval(v) IN i > 0 /\ v <= aux[i][2]

check_not_aux_never(lits) == TRUE  \* mutant: auxiliaries are not refused

check_not_aux(lits) == \A lit \in lits : ~IsAux(VarOf(lit))

-----------------------------------------------------------------------------
(* sat_add and the cardinality calls: check, encode, then add_clauses. *)

StartAdding(todo, floor, top, call) ==
  /\ loop' = [busy |-> TRUE, todo |-> todo, floor |-> floor, top |-> top, call |-> call]
  /\ UNCHANGED <<solver, aux, introduced, asked, named, interrupts>>

sat_add ==
  /\ ~loop.busy
  /\ \E formula \in Formulas :
       /\ as_literals(UNION formula)
       /\ check_not_aux(UNION formula)
       /\ StartAdding(formula, 0, 0, [op |-> "add", clauses |-> formula])

add_cardinality ==
  /\ ~loop.busy
  /\ \E call \in Cardinalities :
       LET literals == {call.literals[i] : i \in DOMAIN call.literals}
           floor    == aux_floor(n_vars, call.literals)
           enc      == encode(call, floor)
       IN  /\ as_literals(literals)
           /\ check_distinct(call.literals)
           /\ check_not_aux(literals)
           /\ enc.ok
           /\ StartAdding(enc.clauses, floor, enc.top, call)

\* One iteration of add_clauses.
AddNext ==
  /\ \E clause \in loop.todo :
       /\ AddClause(clause)
       /\ loop' = [loop EXCEPT !.todo = @ \ {clause}]
       /\ introduced' = introduced \cup (VarsIn({clause}) \cap (loop.floor + 1)..loop.top)
  /\ UNCHANGED <<aux, asked, named, interrupts>>

record_aux_low(from, to) == Append(aux, <<from - 1, to>>)  \* mutant: off by one

record_aux(from, to) == Append(aux, <<from, to>>)

\* The auxiliaries are recorded, and the call returns.  A call that requires
\* nothing adds no clause: its variables are not in use on its account.
EndAdding ==
  /\ loop.busy
  /\ loop.todo = {}
  /\ aux' = IF loop.top > loop.floor
            THEN record_aux(loop.floor + 1, loop.top)
            ELSE aux
  /\ loop' = Rest
  /\ asked' = asked \cup {loop.call}
  /\ named' = named \cup
       IF loop.call.op = "add"
       THEN VarsIn(loop.call.clauses)
       ELSE {VarOf(loop.call.literals[i]) : i \in DOMAIN loop.call.literals}
              \cap 1..n_vars
  /\ UNCHANGED <<solver, introduced, interrupts>>

Interrupt ==
  /\ interrupts < MaxInterrupts
  /\ loop.busy
  /\ loop' = Rest
  /\ interrupts' = interrupts + 1
  /\ UNCHANGED <<solver, aux, introduced, asked, named>>

-----------------------------------------------------------------------------
(* Calls that only put variables to use. *)

\* Refused when a recorded range starts at or below n.
sat_reserve ==
  /\ ~loop.busy
  /\ \E n \in 0..MaxVar :
       /\ \A r \in DOMAIN aux : aux[r][1] > n
       /\ Reserve(n)
       /\ named' = named \cup 1..n
  /\ UNCHANGED <<aux, loop, introduced, asked, interrupts>>

sat_constrain ==
  /\ ~loop.busy
  /\ \E lits \in Queries :
       /\ as_literals(lits)
       /\ check_not_aux(lits)
       /\ SetConstraint(lits)
       /\ named' = named \cup VarsIn({lits})
  /\ UNCHANGED <<aux, loop, introduced, asked, interrupts>>

sat_solve ==
  /\ ~loop.busy
  /\ \E assumed \in Queries :
       /\ as_literals(assumed)
       /\ check_not_aux(assumed)
       /\ Solve(assumed)
       /\ named' = named \cup VarsIn({assumed})
  /\ UNCHANGED <<aux, loop, introduced, asked, interrupts>>

Next ==
  \/ sat_add \/ add_cardinality \/ AddNext \/ EndAdding \/ Interrupt
  \/ sat_reserve \/ sat_constrain \/ sat_solve

Spec == Init /\ [][Next]_sessionVars

-----------------------------------------------------------------------------
(* Properties. *)

\* Recorded ranges are non-empty, in use, ascending and disjoint, whatever
\* was interrupted: the binary search of check_not_aux depends on it, and
\* findInterval stops with an error of its own on an unsorted vector.
RangesAscend ==
  \A r \in DOMAIN aux :
    /\ aux[r][1] <= aux[r][2]
    /\ aux[r][2] <= n_vars
    /\ r > 1 => aux[r - 1][2] < aux[r][1]

\* No variable in use serves both the caller and an encoding (check_not_aux
\* and aux_floor), whichever of the two used it first.
NoSharedVariable == interrupts = 0 => named \cap introduced = {}

\* The clauses that were asked for, and the counts.
Meets(call, vars) ==
  IF call.op = "add"
  THEN \A clause \in call.clauses : Holds(vars, clause)
  ELSE Requires(call, vars)

\* Between calls the formula means what the calls asked for, all of them
\* together: an assignment of the other variables extends to the auxiliary
\* ones exactly when it meets every call.
FormulaMeansCalls ==
  ~loop.busy /\ interrupts = 0 =>
    \A vars \in SUBSET (Var \ introduced) :
      (\A call \in asked : Meets(call, vars))
        <=> \E a \in SUBSET introduced : IsModel(vars \cup a, clauses, {})

\* An answer of sat_solve is about the calls: a model meets all of them, and
\* "unsat" means that no assignment meets them with the query of that solve.
AnswerMeetsCalls ==
  interrupts = 0 =>
    /\ answer.status = "sat" =>
         \A call \in asked : Meets(call, answer.vars \ introduced)
    /\ answer.status = "unsat" =>
         \A vars \in SUBSET (Var \ introduced) :
           ~ /\ \A call \in asked : Meets(call, vars)
             /\ IsModel(vars, answer.constrained, answer.assumed)

-----------------------------------------------------------------------------
(* What the documentation promises without regard to Ctrl-C. *)

\* "The solver remembers which variables are auxiliary and refuses them"
\* (cardinality).  After Ctrl-C in the loop of add_clauses it does not.
AuxiliariesAreRefused == ~loop.busy => \A v \in introduced : IsAux(v)
=============================================================================

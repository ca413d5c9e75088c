------------------------------- MODULE CaDiCaL -------------------------------
(***************************************************************************)
(* The bundled CaDiCaL solver as the package sees it: the states of its    *)
(* API (src/cadical/cadical.hpp), the contract each call REQUIREs and what *)
(* each call changes (solver.cpp, external.cpp).  The search itself is     *)
(* modelled by its specification: SATISFIED comes with a model of what was *)
(* asked, UNSATISFIED only when there is none, INCONCLUSIVE only when      *)
(* something may stop the search early.                                    *)
(*                                                                         *)
(* A contract is a predicate, a call is an action; the caller decides what *)
(* a broken contract does to it (an R error that leaves CaDiCaL as it is). *)
(***************************************************************************)
EXTENDS Cnf

CONSTANT BoundedLimits  \* the limits that can end a search early, e.g. "conflicts"

VARIABLES
  state,        \* Solver::_state
  max_var,      \* External::max_var
  ervars,       \* External::ervars, the extension variables `factor' made
  formula,      \* the clauses added so far, each a set of literals
  original,     \* Internal::original, the literals of an unterminated clause
  assumptions,  \* External::assumptions
  constraint,   \* External::constraint, holding 0 once it is terminated
  model,        \* the variables true in the model of a SATISFIED solver
  limits,       \* the search limits that are set
  opts,         \* the two options the contracts of add depend on
  terminator,   \* TRUE iff a terminator is connected
  tracer        \* the last proof tracer: "none", "open" or "closed"

cadVars == <<state, max_var, ervars, formula, original, assumptions,
             constraint, model, limits, opts, terminator, tracer>>

-----------------------------------------------------------------------------
(* States, and the sets of states the contracts are written with. *)

SOLVED == {"SATISFIED", "UNSATISFIED", "INCONCLUSIVE"}
READY  == {"CONFIGURING", "STEADY"} \cup SOLVED
VALID  == READY \cup {"ADDING"}

OptionRange == [factor |-> 0..1, factorcheck |-> 0..2]

CadTypeOK ==
  /\ state \in VALID \cup {"SOLVING", "DELETING"}
  /\ max_var \in 0..MaxVar
  /\ ervars \subseteq 1..max_var
  /\ formula \subseteq SUBSET Lit
  /\ original \subseteq Lit
  /\ assumptions \subseteq Lit
  /\ constraint \subseteq Lit \cup {0}
  /\ model \subseteq Var
  /\ limits \subseteq BoundedLimits
  /\ opts \in [factor : OptionRange.factor, factorcheck : OptionRange.factorcheck]
  /\ terminator \in BOOLEAN
  /\ tracer \in {"none", "open", "closed"}

CadInit ==
  /\ state = "CONFIGURING"
  /\ max_var = 0
  /\ ervars = {}
  /\ formula = {}
  /\ original = {}
  /\ assumptions = {}
  /\ constraint = {}
  /\ model = {}
  /\ limits = {}
  /\ opts = [factor |-> 0, factorcheck |-> 1]
  /\ terminator = FALSE
  /\ tracer = "none"

-----------------------------------------------------------------------------
(* Meaning of what a solve is asked. *)

\* The clause a constraint stands for; none is set while it is empty.
Clauses(cons) == IF cons = {} THEN {} ELSE {cons \ {0}}

Satisfies(vars, clauses, assumed, cons) ==
  IsModel(vars, clauses \cup Clauses(cons), assumed)

Unsatisfiable(clauses, assumed, cons) ==
  NoModel(clauses \cup Clauses(cons), assumed)

-----------------------------------------------------------------------------
(* transition_to_steady_state forgets the query of the last solve.  The    *)
(* state becomes STEADY from every other state, ADDING included, so the    *)
(* flags adding_clause and adding_constraint never decide it.              *)

AssumptionsAlwaysKept == assumptions  \* mutant: reset_assumptions forgotten

AssumptionsKept == IF state \in SOLVED THEN {} ELSE assumptions
ConstraintKept  == IF state \in SOLVED THEN {} ELSE constraint

\* External::internalize declares every variable up to the one it meets.
Declare(var) == max_var' = IF var > max_var THEN var ELSE max_var

\* REQUIRE_VALID_LIT: External::is_valid_input refuses extension variables.
ValidLit(lit) == VarOf(lit) \notin ervars

\* Undeclared variables are refused by add when these options say so.
DeclaredOnly ==
  \/ opts.factor = 1 /\ opts.factorcheck = 1
  \/ opts.factorcheck = 2

AddContract(lit) ==
  /\ state \in VALID
  /\ lit # 0 => /\ DeclaredOnly => VarOf(lit) <= max_var
                /\ ValidLit(lit)

Add(lit) ==
  /\ state' = IF lit = 0 THEN "STEADY" ELSE "ADDING"
  /\ original' = IF lit = 0 THEN {} ELSE original \cup {lit}
  /\ formula' = IF lit = 0 THEN formula \cup {original} ELSE formula
  /\ Declare(VarOf(lit))
  /\ assumptions' = AssumptionsKept
  /\ constraint' = ConstraintKept
  /\ UNCHANGED <<ervars, model, limits, opts, terminator, tracer>>

ConstrainContract(lit) == state \in VALID /\ (lit # 0 => ValidLit(lit))

\* A terminated constraint is replaced by the next one.
Constrain(lit) ==
  /\ state' = IF lit = 0 THEN "STEADY" ELSE "ADDING"
  /\ constraint' = {lit} \cup (IF 0 \in ConstraintKept THEN {} ELSE ConstraintKept)
  /\ Declare(VarOf(lit))
  /\ assumptions' = AssumptionsKept
  /\ UNCHANGED <<ervars, formula, original, model, limits, opts, terminator, tracer>>

AssumeContract(lit) == state \in VALID /\ ValidLit(lit)

Assume(lit) ==
  /\ state' = "STEADY"
  /\ assumptions' = AssumptionsKept \cup {lit}
  /\ Declare(VarOf(lit))
  /\ constraint' = ConstraintKept
  /\ UNCHANGED <<ervars, formula, original, model, limits, opts, terminator, tracer>>

DeclareContract == state \in VALID

DeclareMoreVariables(number) ==
  /\ state' = "STEADY"
  /\ max_var' = max_var + number
  /\ assumptions' = AssumptionsKept
  /\ constraint' = ConstraintKept
  /\ UNCHANGED <<ervars, formula, original, model, limits, opts, terminator, tracer>>

-----------------------------------------------------------------------------
(* solve and simplify, from connecting the terminator to disconnecting it. *)

SolveContract == state \in READY

SolveBegin ==
  /\ state' = "SOLVING"
  /\ terminator' = TRUE
  /\ assumptions' = AssumptionsKept
  /\ constraint' = ConstraintKept
  /\ UNCHANGED <<max_var, ervars, formula, original, model, limits, opts, tracer>>

\* The answer res with the model vars.  A full search gives up only when a
\* limit is set or the terminator fired; preprocessing alone may always.
\* With `factor' the solver may have defined extension variables; the model
\* does not say for which formulas it does.
SolveEnd(res, vars, mayGiveUp) ==
  /\ \/ res = 10 /\ Satisfies(vars, formula, assumptions, constraint)
     \/ res = 20 /\ vars = {} /\ Unsatisfiable(formula, assumptions, constraint)
     \/ res = 0  /\ vars = {} /\ (mayGiveUp \/ limits # {})
  /\ state' = CASE res = 10 -> "SATISFIED"
                [] res = 20 -> "UNSATISFIED"
                [] res = 0  -> "INCONCLUSIVE"
  /\ model' = vars
  /\ limits' = {}
  /\ terminator' = FALSE
  /\ \E n \in max_var .. (IF opts.factor = 1 THEN MaxVar ELSE max_var) :
        /\ max_var' = n
        /\ ervars' = ervars \cup (max_var + 1)..n
  /\ UNCHANGED <<formula, original, assumptions, constraint, opts, tracer>>

ValContract(lit)       == state = "SATISFIED" /\ ValidLit(lit)
FailedContract(lit)    == state = "UNSATISFIED" /\ ValidLit(lit)
ConstraintFailedContract == state = "UNSATISFIED"
FixedContract(lit)     == state \in VALID /\ ValidLit(lit)
ConcludeContract       == state \in SOLVED

-----------------------------------------------------------------------------
(* Options, limits and proof tracing. *)

SetContract == state = "CONFIGURING"

Set(name, value) ==
  /\ opts' = [opts EXCEPT ![name] = value]
  /\ UNCHANGED <<state, max_var, ervars, formula, original, assumptions,
                 constraint, model, limits, terminator, tracer>>

\* A negative value removes the bound.
Limit(name, value) ==
  /\ limits' = IF value < 0 THEN limits \ {name} ELSE limits \cup {name}
  /\ UNCHANGED <<state, max_var, ervars, formula, original, assumptions,
                 constraint, model, opts, terminator, tracer>>

TraceContract == state = "CONFIGURING"

Trace ==
  /\ tracer' = "open"
  /\ UNCHANGED <<state, max_var, ervars, formula, original, assumptions,
                 constraint, model, limits, opts, terminator>>

CloseTraceContract == state \in VALID /\ tracer = "open"

=============================================================================

--------------------------- MODULE EnumerateProofs ---------------------------
(***************************************************************************)
(* The theorems about sat_solutions: its invariants, for every formula,    *)
(* projection, constraint and limit, and that it implements the promise of *)
(* ModelEnumerator.  The argument is that a model of what the solver holds *)
(* is a model of the formula whose row has not been found (Blocked); that  *)
(* the row of an answer, cut to the variables the solver knows, is again   *)
(* the row of a model (Known); and that the rows are about one set of      *)
(* variables although the solver learns of variables on the way.           *)
(***************************************************************************)
EXTENDS Enumerate, CnfProofs

\* The arguments and the history have their types too.
Typed ==
  /\ TypeOK
  /\ args \in [vars : Projections, assumptions : Assumptions,
               constraint : Constraints, limit : Limits]
  /\ formula \subseteq SUBSET Lit

\* The solver counts every variable that its clauses use, and holds the formula.
Known ==
  /\ \A clause \in clauses \cup pending : \A lit \in clause : VarOf(lit) <= n_vars
  /\ formula \subseteq clauses

\* Every solve of the loop has this call's constraint, and nothing else does.
ConstraintOfCall ==
  /\ pc \in {"while", "block", "done"} => pending = {}
  /\ pc = "solve" => pending = args.constraint

\* All rows are about the projected variables.
RowsProjected ==
  /\ found # <<>> => this_vars = Projected
  /\ \A i \in DOMAIN found : found[i] \subseteq Projected

\* A row is found, then blocked; with no variables there is nothing to block.
Phases ==
  /\ pc = "call" => found = <<>>
  /\ pc = "block" => found # <<>>
  /\ pc \in {"while", "solve"} /\ found # <<>> => this_vars # {}

\* Every row comes from a model of the question.
RowsAnswer == \A i \in DOMAIN found : found[i] \in AllRows

\* The rows the solver rules out: the last one only once it has been blocked.
Ruled == {found[i] : i \in {j \in DOMAIN found : pc = "block" => j # Len(found)}}

\* A model of what the solver holds is one of the formula with a new row.
Blocked ==
  /\ pc \in {"call", "while", "solve", "block"}
       \/ (pc = "done" /\ (found # <<>> => this_vars # {}))
     => \A vars \in SUBSET Var :
          IsModel(vars, clauses, {}) <=>
            IsModel(vars, formula, {}) /\ vars \cap Projected \notin Ruled

\* Status, limit and reason as the loop goes.
Bookkeeping ==
  /\ found # <<>> <=> status = "sat"
  /\ pc \in {"call", "while", "solve"} /\ found = <<>> => status = "unknown"
  /\ pc = "done" /\ status = "unsat" => AllRows = {}
  /\ Len(found) <= args.limit
  /\ pc = "solve" => Len(found) < args.limit
  /\ pc # "done" => stopped = "limit"

EnumInv ==
  /\ Typed /\ Known /\ ConstraintOfCall /\ RowsProjected /\ Phases
  /\ RowsAnswer /\ Blocked /\ Bookkeeping /\ RowsDistinct

-----------------------------------------------------------------------------
(* The number of variables. *)

\* The literals of the question besides the formula.
AskedFor == args.assumptions \cup UNION args.constraint

\* Counting some of those literals first changes nothing.
LEMMA MaxVarOfStable ==
  ASSUME NEW n \in 0..MaxVar, NEW lits, lits \subseteq Lit, NEW m \in n..MaxVar,
         m <= Max({n} \cup {VarOf(lit) : lit \in lits})
  PROVE  Max({m} \cup {VarOf(lit) : lit \in lits})
           = Max({n} \cup {VarOf(lit) : lit \in lits})
<1> DEFINE V == {VarOf(lit) : lit \in lits}
           x == Max({n} \cup V)
           y == Max({m} \cup V)
<1>1. m \in 0..MaxVar
  BY MaxVarAssumption
<1>2. x \in n..MaxVar /\ x \in {n} \cup V /\ \A v \in V : v <= x
  BY MaxVarOf
<1>3. y \in m..MaxVar /\ y \in {m} \cup V /\ \A v \in V : v <= y
  BY <1>1, MaxVarOf
<1>4. y <= x
  BY <1>2, <1>3
<1>5. x <= y
  BY <1>2, <1>3
<1> HIDE DEF x, y
<1>6. x \in Int /\ y \in Int
  BY <1>2, <1>3, MaxVarAssumption
<1>7. x = y
  BY <1>4, <1>5, <1>6
<1> QED BY <1>7 DEF x, y

\* What Using promises.
LEMMA UsingFacts ==
  ASSUME SolverTypeOK, NEW lits, lits \subseteq Lit
  PROVE  /\ Using(lits) \in n_vars..MaxVar
         /\ Using(lits) \in {n_vars} \cup {VarOf(lit) : lit \in lits}
         /\ \A lit \in lits : VarOf(lit) <= Using(lits)
  BY MaxVarOf DEF SolverTypeOK, Using

\* More literals use no fewer variables.
LEMMA UsingMonotone ==
  ASSUME SolverTypeOK, NEW lits, NEW more, more \subseteq Lit, lits \subseteq more
  PROVE  Using(lits) <= Using(more)
<1>1. /\ Using(lits) \in {n_vars} \cup {VarOf(lit) : lit \in lits}
      /\ Using(lits) \in n_vars..MaxVar
  BY UsingFacts
<1>2. /\ Using(more) \in n_vars..MaxVar
      /\ \A lit \in more : VarOf(lit) <= Using(more)
  BY UsingFacts
<1> QED BY <1>1, <1>2 DEF SolverTypeOK

\* The arguments are literals and sets of variables.
LEMMA ArgsTyped ==
  ASSUME Typed
  PROVE  /\ args.assumptions \subseteq Lit
         /\ args.constraint \subseteq SUBSET Lit
         /\ \A c, d \in args.constraint : c = d
         /\ AskedFor \subseteq Lit
         /\ args.limit \in Nat
         /\ args.vars # NoVars => args.vars \subseteq Var
         /\ Projected \subseteq Var
<1>1. /\ args.vars \in Projections
      /\ args.assumptions \in Assumptions
      /\ args.constraint \in Constraints
      /\ args.limit \in Limits
  BY DEF Typed
<1>2. /\ args.assumptions \subseteq Lit
      /\ args.constraint \subseteq SUBSET Lit
      /\ \A c, d \in args.constraint : c = d
      /\ args.limit \in Nat
      /\ args.vars # NoVars => args.vars \subseteq Var
  <2>1. args.assumptions \subseteq Lit /\ args.limit \in Nat
    BY <1>1, EnumerateAssumption
  <2>2. args.vars # NoVars => args.vars \subseteq Var
    BY <1>1, EnumerateAssumption
  <2>3. args.constraint = {} \/ \E c \in SUBSET Lit : args.constraint = {c}
    BY <1>1, EnumerateAssumption
  <2>4. args.constraint \subseteq SUBSET Lit /\ \A c, d \in args.constraint : c = d
    BY <2>3
  <2> QED BY <2>1, <2>2, <2>4
<1>3. AskedFor \subseteq Lit
  BY <1>2 DEF AskedFor
<1>4. Projected \subseteq Var
  <2>1. Using(AskedFor) \in n_vars..MaxVar
    BY <1>3, UsingFacts DEF Typed, TypeOK
  <2>2. 1..Using(AskedFor) \subseteq Var
    BY <2>1, MaxVarAssumption DEF Typed, TypeOK, SolverTypeOK, Var
  <2> QED BY <1>2, <2>2 DEF Projected, AskedFor
<1> QED BY <1>2, <1>3, <1>4

\* A step of the loop counts more variables, never more than the question has
\* when every variable is reported.
LEMMA CountsOn ==
  ASSUME Typed, RowsProjected, Phases, Next
  PROVE  /\ n_vars' \in n_vars..MaxVar
         /\ args.vars = NoVars => n_vars' <= Using(AskedFor)
<1> USE DEF Typed, TypeOK
<1>1. /\ args.assumptions \subseteq Lit /\ args.constraint \subseteq SUBSET Lit
      /\ AskedFor \subseteq Lit /\ Projected \subseteq Var
  BY ArgsTyped
<1>2. n_vars \in 0..MaxVar /\ Using(AskedFor) \in n_vars..MaxVar
  BY <1>1, UsingFacts DEF SolverTypeOK
<1>3. CASE n_vars' = n_vars
  BY <1>2, <1>3, MaxVarAssumption
<1>4. ASSUME NEW lits, lits \subseteq AskedFor, n_vars' = Using(lits)
      PROVE  n_vars' \in n_vars..MaxVar /\ n_vars' <= Using(AskedFor)
  <2>1. lits \subseteq Lit
    BY <1>1, <1>4
  <2> QED BY <1>1, <1>4, <2>1, UsingFacts, UsingMonotone
<1>5. CASE sat_solutions
  BY <1>3, <1>5 DEF sat_solutions, solver
<1>6. CASE While
  <2>1. ASSUME NEW clause \in args.constraint, SetConstraint(clause)
        PROVE  n_vars' \in n_vars..MaxVar /\ n_vars' <= Using(AskedFor)
    BY <1>4, <2>1 DEF SetConstraint, AskedFor
  <2> QED BY <1>3, <1>6, <2>1 DEF While, solver
<1>7. CASE SolveRound
  <2>1. n_vars' = Using(args.assumptions)
    BY <1>7 DEF SolveRound, Solve, Answer
  <2> QED BY <1>4, <2>1 DEF AskedFor
<1>8. CASE Block
  <2>1. CASE this_vars = {}
    BY <1>3, <1>8, <2>1 DEF Block, solver
  <2>2. CASE this_vars # {}
    <3> DEFINE block == Blocking(found[Len(found)])
    <3>1. n_vars' = Using(block)
      BY <1>8, <2>2 DEF Block, AddClause
    <3>2. this_vars \subseteq Var
      OBVIOUS
    <3>3. ASSUME NEW lit \in block PROVE lit \in Lit /\ VarOf(lit) \in this_vars
      <4>1. PICK v \in this_vars : lit = IF v \in found[Len(found)] THEN -v ELSE v
        BY <3>3 DEF Blocking
      <4> QED BY <3>2, <4>1, VarFacts
    <3>4. /\ Using(block) \in n_vars..MaxVar
          /\ Using(block) \in {n_vars} \cup {VarOf(lit) : lit \in block}
      <4>1. block \subseteq Lit
        BY <3>3
      <4> HIDE DEF block
      <4> QED BY <4>1, UsingFacts
    <3>5. ASSUME args.vars = NoVars, Using(block) # n_vars
          PROVE  Using(block) <= Using(AskedFor)
      <4>1. this_vars = 1..Using(AskedFor)
        BY <1>8, <3>5 DEF Block, Phases, RowsProjected, Projected, AskedFor
      <4>2. Using(block) \in this_vars
        BY <3>3, <3>4, <3>5
      <4> QED BY <4>1, <4>2
    <3> HIDE DEF block
    <3> QED BY <1>2, <3>1, <3>4, <3>5
  <2> QED BY <2>1, <2>2
<1>9. CASE CtrlC
  <2>1. n_vars' = n_vars \/ n_vars' = Using(args.assumptions)
    BY <1>9 DEF CtrlC, Interrupted, solver
  <2> QED BY <1>3, <1>4, <2>1 DEF AskedFor
<1>10. CASE Returned
  BY <1>3, <1>10 DEF Returned, allVars, solver
<1> QED BY <1>5, <1>6, <1>7, <1>8, <1>9, <1>10 DEF Next, Loop

\* What is asked stays the same through the call, although the solver learns
\* of variables.
LEMMA QuestionKept ==
  ASSUME Typed, RowsProjected, Phases, [Next]_allVars
  PROVE  /\ UNCHANGED <<args, formula>>
         /\ UNCHANGED Projected
         /\ UNCHANGED AllRows
<1>1. UNCHANGED <<args, formula>>
  BY DEF Next, Loop, sat_solutions, While, SolveRound, Block, CtrlC, Returned,
         allVars, enumVars
<1>2. /\ n_vars' \in n_vars..MaxVar
      /\ args.vars = NoVars => n_vars' <= Using(AskedFor)
  <2>1. CASE Next
    BY <2>1, CountsOn
  <2>2. CASE UNCHANGED allVars
    <3>1. n_vars' = n_vars
      BY <2>2 DEF allVars, solver
    <3>2. AskedFor \subseteq Lit
      BY ArgsTyped
    <3>3. n_vars \in 0..MaxVar /\ Using(AskedFor) \in n_vars..MaxVar
      BY <3>2, UsingFacts DEF Typed, TypeOK, SolverTypeOK
    <3> QED BY <3>1, <3>3, MaxVarAssumption
  <2> QED BY <2>1, <2>2
<1>3. UNCHANGED AskedFor
  BY <1>1 DEF AskedFor
<1>4. args.vars = NoVars => UNCHANGED Using(AskedFor)
  <2>1. AskedFor \subseteq Lit /\ n_vars \in 0..MaxVar
    BY ArgsTyped DEF Typed, TypeOK, SolverTypeOK
  <2> QED BY <1>2, <1>3, <2>1, MaxVarOfStable DEF Using
<1>5. UNCHANGED Projected
  BY <1>1, <1>4 DEF Projected, AskedFor
<1> QED BY <1>1, <1>5 DEF AllRows

-----------------------------------------------------------------------------
(* Models, rows and blocking clauses. *)

\* A model of two sets of clauses under assumptions, in parts.
LEMMA ModelParts ==
  ASSUME NEW m, NEW F, NEW G, NEW A
  PROVE  IsModel(m, F \cup G, A) <=>
           IsModel(m, F, {}) /\ IsModel(m, G, {}) /\ IsModel(m, {}, A)
  BY DEF IsModel

\* The blocking clause rules out the assignments with that row, and no other.
LEMMA BlockingRules ==
  ASSUME NEW vars \in SUBSET Var, this_vars \in SUBSET Var,
         NEW row \in SUBSET this_vars
  PROVE  Holds(vars, Blocking(row)) <=> vars \cap this_vars # row
<1>1. ASSUME NEW v \in this_vars
      PROVE  True(vars, IF v \in row THEN -v ELSE v) <=> (v \in vars <=> v \notin row)
  <2>1. v \in Nat /\ v > 0
    BY VarFacts
  <2> QED BY <2>1 DEF True
<1>2. Holds(vars, Blocking(row)) <=>
        \E v \in this_vars : True(vars, IF v \in row THEN -v ELSE v)
  BY DEF Holds, Blocking
<1>3. vars \cap this_vars # row <=> \E v \in this_vars : (v \in vars <=> v \notin row)
  OBVIOUS
<1> QED BY <1>1, <1>2, <1>3

\* The blocking clause is a clause, and uses the variables of the row only.
LEMMA BlockingTyped ==
  ASSUME NEW row, this_vars \in SUBSET Var
  PROVE  /\ Blocking(row) \subseteq Lit
         /\ \A lit \in Blocking(row) : VarOf(lit) \in this_vars
<1>1. ASSUME NEW lit \in Blocking(row) PROVE lit \in Lit /\ VarOf(lit) \in this_vars
  <2>1. PICK v \in this_vars : lit = IF v \in row THEN -v ELSE v
    BY <1>1 DEF Blocking
  <2> QED BY <2>1, VarFacts
<1> QED BY <1>1

-----------------------------------------------------------------------------
(* The invariant. *)

\* Any formula, projection and limit can start; whatever is known is at rest.
LEMMA EnumStart == Init => EnumInv
<1> SUFFICES ASSUME Init PROVE EnumInv
  OBVIOUS
<1>1. /\ args \in [vars : Projections, assumptions : Assumptions,
                   constraint : Constraints, limit : Limits]
      /\ clauses \subseteq SUBSET Lit
      /\ pending \subseteq SUBSET Lit
      /\ formula = clauses
  <2>1. clauses \in Formulas /\ pending \in {{}} \cup Constraints
    BY DEF Init
  <2>2. pending = {} \/ \E c \in SUBSET Lit : pending = {c}
    BY <2>1, EnumerateAssumption
  <2> QED BY <2>1, <2>2, EnumerateAssumption DEF Init
<1>2. Typed
  BY <1>1 DEF Init, Typed, TypeOK, SolverTypeOK, NoAnswer, Answers
<1>3. Known
  BY <1>1 DEF Init, Known
<1>4. RowsProjected /\ Phases /\ RowsAnswer /\ RowsDistinct /\ ConstraintOfCall
  BY DEF Init, RowsProjected, Phases, RowsAnswer, RowsDistinct, ConstraintOfCall
<1>5. Ruled = {}
  BY DEF Init, Ruled
<1>6. Blocked
  BY <1>1, <1>5 DEF Blocked
<1>7. Bookkeeping
  <2>1. args.limit \in Nat
    BY <1>2, ArgsTyped
  <2> QED BY <2>1 DEF Init, Bookkeeping
<1> QED BY <1>2, <1>3, <1>4, <1>6, <1>7 DEF EnumInv

\* Refusing a constraint, or entering the loop.
LEMMA CallStep ==
  ASSUME EnumInv, sat_solutions
  PROVE  EnumInv'
<1>1. /\ UNCHANGED <<clauses, pending, n_vars, limited, answer, args, found,
                     this_vars, status, stopped, formula>>
      /\ pc = "call" /\ pc' \in {"raised", "while"} /\ found = <<>>
      /\ pc' = "while" => pending = {}
  BY DEF sat_solutions, solver, EnumInv, Phases
<1>2. Next
  BY DEF Next
<1>3. UNCHANGED Projected /\ UNCHANGED AllRows
  BY <1>2, QuestionKept DEF EnumInv
<1>4. Typed'
  BY <1>1 DEF EnumInv, Typed, TypeOK, SolverTypeOK
<1>5. Known' /\ ConstraintOfCall' /\ RowsProjected' /\ Phases' /\ RowsAnswer' /\ RowsDistinct'
  BY <1>1, <1>3 DEF EnumInv, Known, ConstraintOfCall, RowsProjected, Phases, RowsAnswer,
     RowsDistinct
<1>6. Ruled = {} /\ Ruled' = {}
  BY <1>1 DEF Ruled
<1>7. Blocked'
  BY <1>1, <1>3, <1>6 DEF EnumInv, Blocked
<1>8. Bookkeeping'
  BY <1>1, <1>3 DEF EnumInv, Bookkeeping
<1> QED BY <1>4, <1>5, <1>7, <1>8 DEF EnumInv

\* The loop condition, and the constraint of the next solve.
LEMMA WhileStep ==
  ASSUME EnumInv, While
  PROVE  EnumInv'
<1>1. /\ UNCHANGED <<clauses, limited, args, found, this_vars, status, stopped, formula>>
      /\ pc = "while" /\ pc' \in {"solve", "done"} /\ pending = {}
      /\ Len(found) < args.limit <=> pc' = "solve"
  BY DEF While, solver, SetConstraint, EnumInv, ConstraintOfCall
<1>2. Next
  BY DEF Next, Loop
<1>3. UNCHANGED Projected /\ UNCHANGED AllRows
  BY <1>2, QuestionKept DEF EnumInv
<1>a. /\ args.constraint \subseteq SUBSET Lit
      /\ \A c, d \in args.constraint : c = d
      /\ args.limit \in Nat
  BY ArgsTyped DEF EnumInv
<1>4. /\ pending' = IF pc' = "solve" THEN args.constraint ELSE {}
      /\ answer' \in {answer, NoAnswer}
      /\ \A clause \in pending' : \A lit \in clause : VarOf(lit) <= n_vars'
      /\ n_vars' \in n_vars..MaxVar
  <2>1. n_vars' \in n_vars..MaxVar
    BY <1>2, CountsOn DEF EnumInv
  <2>2. CASE UNCHANGED solver
    BY <1>1, <2>1, <2>2 DEF solver, While, SetConstraint
  <2>3. ASSUME NEW clause \in args.constraint, SetConstraint(clause), pc' = "solve"
        PROVE  /\ pending' = args.constraint
               /\ answer' = NoAnswer
               /\ \A c \in pending' : \A lit \in c : VarOf(lit) <= n_vars'
    <3>1. clause \subseteq Lit /\ args.constraint = {clause}
      BY <1>a
    <3>2. \A lit \in clause : VarOf(lit) <= Using(clause)
      BY <3>1, UsingFacts DEF EnumInv, Typed, TypeOK
    <3> QED BY <2>3, <3>1, <3>2 DEF SetConstraint
  <2>4. UNCHANGED solver \/ (pc' = "solve" /\ \E c \in args.constraint : SetConstraint(c))
    BY DEF While
  <2> QED BY <1>1, <2>1, <2>2, <2>3, <2>4
<1>5. Typed'
  BY <1>1, <1>4, <1>a DEF EnumInv, Typed, TypeOK, SolverTypeOK, NoAnswer, Answers
<1>6. Known'
  <2>1. ASSUME NEW clause \in clauses, NEW lit \in clause PROVE VarOf(lit) <= n_vars'
    <3>1. VarOf(lit) <= n_vars /\ lit \in Lit
      BY DEF EnumInv, Known, Typed, TypeOK, SolverTypeOK
    <3>2. VarOf(lit) \in Int
      BY <3>1, LitFacts
    <3> QED BY <3>1, <3>2, <1>4 DEF EnumInv, Typed, TypeOK, SolverTypeOK
  <2> QED BY <1>1, <1>4, <2>1 DEF EnumInv, Known
<1>7. ConstraintOfCall' /\ RowsProjected' /\ Phases' /\ RowsAnswer' /\ RowsDistinct'
  BY <1>1, <1>3, <1>4 DEF EnumInv, ConstraintOfCall, RowsProjected, Phases, RowsAnswer,
     RowsDistinct
<1>8. Ruled' = Ruled
  BY <1>1 DEF Ruled
<1>9. Blocked'
  BY <1>1, <1>3, <1>8 DEF EnumInv, Blocked
<1>10. Bookkeeping'
  BY <1>1, <1>3, <1>a DEF EnumInv, Bookkeeping
<1> QED BY <1>5, <1>6, <1>7, <1>9, <1>10 DEF EnumInv

\* A solve that finds a model finds a row that was not there before.
LEMMA SatStep ==
  ASSUME EnumInv, SolveRound, answer'.status = "sat"
  PROVE  EnumInv'
<1>1. PICK vars \in SUBSET Var : Answer("sat", vars, args.assumptions, FALSE)
  BY DEF SolveRound, Solve, Answer
<1>2. Next
  BY DEF Next, Loop
<1>3. UNCHANGED Projected /\ UNCHANGED AllRows
  BY <1>2, QuestionKept DEF EnumInv
<1>4. /\ UNCHANGED <<clauses, args, formula, stopped>>
      /\ pc = "solve" /\ pc' = "block" /\ pending' = {} /\ pending = args.constraint
      /\ limited' = FALSE /\ n_vars' = Using(args.assumptions)
      /\ status' = "sat" /\ answer'.vars = vars
      /\ answer' = [status |-> "sat", vars |-> vars,
                    assumed |-> args.assumptions, constrained |-> pending]
  BY <1>1 DEF SolveRound, Answer, AfterSolve, StatusBy, EnumInv, ConstraintOfCall
<1> DEFINE model == vars \cap 1..n_vars'
           row   == model \cap Projected
<1>a. /\ args.assumptions \subseteq Lit /\ args.constraint \subseteq SUBSET Lit
      /\ AskedFor \subseteq Lit /\ Projected \subseteq Var
      /\ args.limit \in Nat
      /\ clauses \subseteq SUBSET Lit /\ formula \subseteq SUBSET Lit
      /\ found \in Seq(SUBSET Var) /\ n_vars \in 0..MaxVar
  BY ArgsTyped DEF EnumInv, Typed, TypeOK, SolverTypeOK
<1>5. /\ n_vars' \in n_vars..MaxVar /\ n_vars' \in 0..MaxVar
      /\ \A lit \in args.assumptions : VarOf(lit) <= n_vars'
      /\ \A c \in clauses \cup pending : \A lit \in c : VarOf(lit) <= n_vars'
  <2>1. n_vars' \in n_vars..MaxVar /\ n_vars' \in 0..MaxVar
    BY <1>2, <1>a, CountsOn, MaxVarAssumption DEF EnumInv
  <2>2. \A lit \in args.assumptions : VarOf(lit) <= n_vars'
    BY <1>4, <1>a, UsingFacts DEF EnumInv, Typed, TypeOK
  <2>3. ASSUME NEW c \in clauses \cup pending, NEW lit \in c PROVE VarOf(lit) <= n_vars'
    <3>1. VarOf(lit) <= n_vars /\ lit \in Lit
      BY <1>4, <1>a DEF EnumInv, Known
    <3>2. VarOf(lit) \in Int
      BY <3>1, LitFacts
    <3> QED BY <2>1, <3>1, <3>2, <1>a
  <2> QED BY <2>1, <2>2, <2>3
<1>6. IsModel(model, clauses \cup pending, args.assumptions)
  <2>1. ASSUME NEW lit \in Lit, VarOf(lit) <= n_vars'
        PROVE  VarOf(lit) \in vars <=> VarOf(lit) \in model
    <3>1. VarOf(lit) \in Nat /\ VarOf(lit) >= 1
      BY LitFacts DEF Var
    <3> QED BY <1>5, <2>1, <3>1
  <2>2. clauses \cup pending \subseteq SUBSET Lit
    BY <1>4, <1>a
  <2>3. \A c \in clauses \cup pending : \A lit \in c : VarOf(lit) \in vars <=> VarOf(lit) \in model
    BY <1>5, <2>1, <2>2
  <2>4. \A lit \in args.assumptions : VarOf(lit) \in vars <=> VarOf(lit) \in model
    BY <1>5, <1>a, <2>1
  <2>5. IsModel(vars, clauses \cup pending, args.assumptions)
    BY <1>1 DEF Answer
  <2> HIDE DEF model
  <2> QED BY <2>2, <2>3, <2>4, <2>5, <1>a, ModelDepends
<1>7. model \in SUBSET Var
  OBVIOUS
<1>8. row \in AllRows
  <2>1. IsModel(model, formula \cup args.constraint, args.assumptions)
    BY <1>4, <1>6 DEF IsModel, EnumInv, Known
  <2> HIDE DEF model
  <2> QED BY <1>7, <2>1 DEF AllRows
<1>9. row \notin Rows
  <2>1. IsModel(model, clauses, {})
    BY <1>6 DEF IsModel
  <2>2. Ruled = Rows
    BY <1>4 DEF Ruled, Rows
  <2> HIDE DEF model
  <2> QED BY <1>4, <1>7, <2>1, <2>2 DEF EnumInv, Blocked
<1>10. default_vars = Projected
  <2>1. CASE args.vars = NoVars
    <3>1. AskedFor \subseteq Lit /\ n_vars' <= Using(AskedFor)
      BY <1>a, <1>2, <2>1, CountsOn DEF EnumInv
    <3>2. Using(AskedFor) \in {n_vars} \cup {VarOf(lit) : lit \in AskedFor}
      BY <3>1, UsingFacts DEF EnumInv, Typed, TypeOK
    <3>3. Using(AskedFor) <= n_vars'
      <4>1. \A lit \in AskedFor : VarOf(lit) <= n_vars'
        BY <1>4, <1>5 DEF AskedFor
      <4>2. n_vars <= n_vars'
        BY <1>5, <1>a
      <4> QED BY <3>2, <4>1, <4>2
    <3>4. Using(AskedFor) = n_vars'
      <4>1. Using(AskedFor) \in n_vars..MaxVar
        BY <3>1, UsingFacts DEF EnumInv, Typed, TypeOK
      <4> QED BY <3>1, <3>3, <4>1, <1>5, <1>a
    <3> QED BY <2>1, <3>4 DEF default_vars, Projected, AskedFor
  <2>2. CASE args.vars # NoVars
    BY <2>2 DEF default_vars, Projected
  <2> QED BY <2>1, <2>2
<1>11. /\ found' = Append(found, row) /\ this_vars' = Projected
       /\ row \subseteq Projected /\ row \in SUBSET Var
  <2>1. RowOf(Projected) = row
    BY <1>4 DEF RowOf
  <2> QED BY <1>10, <1>a, <2>1 DEF SolveRound
<1> HIDE DEF row
<1>12. /\ Len(found') = Len(found) + 1 /\ Len(found) \in Nat
       /\ DOMAIN found' = 1..(Len(found) + 1) /\ DOMAIN found = 1..Len(found)
       /\ found'[Len(found) + 1] = row
       /\ \A i \in 1..Len(found) : found'[i] = found[i]
       /\ found' # <<>> /\ found' \in Seq(SUBSET Var)
  BY <1>11, <1>a
<1>13. Typed'
  <2>1. answer' \in Answers
    BY <1>4, <1>a DEF Answers
  <2>2. SolverTypeOK'
    BY <1>4, <1>5, <1>a, <2>1 DEF SolverTypeOK
  <2> QED BY <1>4, <1>11, <1>12, <1>a, <2>2 DEF EnumInv, Typed, TypeOK
<1>14. Known' /\ ConstraintOfCall'
  BY <1>4, <1>5 DEF EnumInv, Known, ConstraintOfCall
<1>15. RowsProjected' /\ Phases' /\ RowsAnswer'
  <2>1. \A i \in DOMAIN found : found[i] \subseteq Projected /\ found[i] \in AllRows
    BY DEF EnumInv, RowsProjected, RowsAnswer
  <2>2. \A i \in DOMAIN found' : found'[i] \subseteq Projected /\ found'[i] \in AllRows
    BY <1>8, <1>11, <1>12, <2>1
  <2>3. RowsProjected' /\ RowsAnswer'
    BY <1>3, <1>11, <2>2 DEF RowsProjected, RowsAnswer
  <2> QED BY <1>4, <1>12, <2>3 DEF Phases
<1>16. RowsDistinct'
  <2>1. \A i \in 1..Len(found) : found[i] # row
    BY <1>9, <1>12 DEF Rows
  <2> QED BY <1>3, <1>11, <1>12, <2>1 DEF EnumInv, RowsDistinct
<1>17. Blocked'
  <2>1. Ruled' = Rows /\ Ruled = Rows
    BY <1>4, <1>12 DEF Ruled, Rows
  <2> QED BY <1>3, <1>4, <2>1 DEF EnumInv, Blocked
<1>18. Bookkeeping'
  BY <1>3, <1>4, <1>12, <1>a DEF EnumInv, Bookkeeping
<1> QED BY <1>13, <1>14, <1>15, <1>16, <1>17, <1>18 DEF EnumInv

\* A solve without a model ends the loop; when it is "unsat", every row there
\* is has been found.
LEMMA NoMoreRows ==
  ASSUME EnumInv, SolveRound, answer'.status = "unsat"
  PROVE  AllRows = Rows
<1>1. NoModel(clauses \cup pending, args.assumptions)
  BY DEF SolveRound, Solve, Answer
<1>2. pc = "solve" /\ pending = args.constraint
  BY DEF SolveRound, EnumInv, ConstraintOfCall
<1>3. Ruled = Rows
  BY <1>2 DEF Ruled, Rows
<1>4. ASSUME NEW m \in SUBSET Var,
             IsModel(m, formula \cup args.constraint, args.assumptions)
      PROVE  m \cap Projected \in Rows
  <2>1. ~IsModel(m, clauses, {})
    <3>1. ~IsModel(m, clauses \cup args.constraint, args.assumptions)
      BY <1>1, <1>2 DEF NoModel
    <3> QED BY <1>4, <3>1, ModelParts
  <2>2. IsModel(m, formula, {})
    BY <1>4, ModelParts
  <2> QED BY <1>2, <1>3, <2>1, <2>2 DEF EnumInv, Blocked
<1>5. AllRows \subseteq Rows
  BY <1>4 DEF AllRows
<1>6. Rows \subseteq AllRows
  BY DEF EnumInv, RowsAnswer, Rows
<1> QED BY <1>5, <1>6

\* A solve that finds no model ends the loop.
LEMMA NotSatStep ==
  ASSUME EnumInv, SolveRound, answer'.status # "sat"
  PROVE  EnumInv'
<1>1. PICK s \in {"unsat", "unknown"} : Answer(s, {}, args.assumptions, FALSE)
  BY DEF SolveRound, Solve, Answer
<1>2. Next
  BY DEF Next, Loop
<1>3. UNCHANGED Projected /\ UNCHANGED AllRows
  BY <1>2, QuestionKept DEF EnumInv
<1>a. /\ args.assumptions \subseteq Lit /\ args.constraint \subseteq SUBSET Lit
      /\ clauses \subseteq SUBSET Lit /\ n_vars \in 0..MaxVar
  BY ArgsTyped DEF EnumInv, Typed, TypeOK, SolverTypeOK
<1>4. /\ UNCHANGED <<clauses, args, formula, found, this_vars>>
      /\ pc = "solve" /\ pc' = "done" /\ pending' = {} /\ pending = args.constraint
      /\ limited' = FALSE /\ stopped' = StoppedBy(s)
      /\ status' = IF found = <<>> THEN s ELSE status
      /\ answer' = [status |-> s, vars |-> {},
                    assumed |-> args.assumptions, constrained |-> pending]
  BY <1>1 DEF SolveRound, Answer, AfterSolve, StatusBy, EnumInv, ConstraintOfCall
<1>5. n_vars' \in n_vars..MaxVar /\ n_vars' \in 0..MaxVar
  BY <1>2, <1>a, CountsOn, MaxVarAssumption DEF EnumInv
<1>6. Typed'
  BY <1>4, <1>5, <1>a DEF EnumInv, Typed, TypeOK, SolverTypeOK, Answers, StoppedBy
<1>7. Known'
  <2>1. ASSUME NEW c \in clauses, NEW lit \in c PROVE VarOf(lit) <= n_vars'
    <3>1. VarOf(lit) <= n_vars /\ lit \in Lit
      BY <1>a DEF EnumInv, Known
    <3>2. VarOf(lit) \in Int
      BY <3>1, LitFacts
    <3> QED BY <3>1, <3>2, <1>5, <1>a
  <2> QED BY <1>4, <2>1 DEF EnumInv, Known
<1>8. ConstraintOfCall' /\ RowsProjected' /\ Phases' /\ RowsAnswer' /\ RowsDistinct'
  BY <1>3, <1>4 DEF EnumInv, ConstraintOfCall, RowsProjected, Phases, RowsAnswer,
     RowsDistinct
<1>9. Blocked'
  <2>1. Ruled' = Ruled
    BY <1>4 DEF Ruled
  <2> QED BY <1>3, <1>4, <2>1 DEF EnumInv, Blocked
<1>10. Bookkeeping'
  <2>1. CASE s = "unsat" /\ found = <<>>
    <3>1. AllRows = Rows
      BY <1>4, <2>1, NoMoreRows
    <3>2. Rows = {}
      BY <2>1 DEF Rows
    <3> QED BY <1>3, <1>4, <2>1, <3>1, <3>2 DEF EnumInv, Bookkeeping
  <2>2. CASE s = "unknown" \/ found # <<>>
    BY <1>3, <1>4, <2>2 DEF EnumInv, Bookkeeping
  <2> QED BY <2>1, <2>2
<1> QED BY <1>6, <1>7, <1>8, <1>9, <1>10 DEF EnumInv

\* The row found is ruled out, or there is nothing to rule out and the call ends.
LEMMA BlockStep ==
  ASSUME EnumInv, Block
  PROVE  EnumInv'
<1>2. Next
  BY DEF Next, Loop
<1>3. UNCHANGED Projected /\ UNCHANGED AllRows
  BY <1>2, QuestionKept DEF EnumInv
<1>a. /\ clauses \subseteq SUBSET Lit /\ n_vars \in 0..MaxVar
      /\ Projected \subseteq Var /\ this_vars \subseteq Var
      /\ found \in Seq(SUBSET Var)
  BY ArgsTyped DEF EnumInv, Typed, TypeOK, SolverTypeOK
<1>4. /\ UNCHANGED <<args, found, this_vars, status, formula, pending, limited>>
      /\ pc = "block" /\ pending = {} /\ found # <<>> /\ this_vars = Projected
      /\ status = "sat"
  BY DEF Block, AddClause, solver, EnumInv, ConstraintOfCall, Phases, RowsProjected,
     Bookkeeping
<1>5. CASE this_vars = {}
  <2>1. /\ UNCHANGED <<clauses, n_vars, answer>>
        /\ pc' = "done" /\ stopped' = "exhausted"
    BY <1>5 DEF Block, solver
  <2>2. Typed'
    BY <1>4, <2>1 DEF EnumInv, Typed, TypeOK, SolverTypeOK
  <2>3. /\ Known' /\ ConstraintOfCall' /\ RowsProjected' /\ Phases' /\ RowsAnswer'
        /\ RowsDistinct' /\ Blocked' /\ Bookkeeping'
    BY <1>3, <1>4, <1>5, <2>1 DEF EnumInv, Known, ConstraintOfCall, RowsProjected, Phases,
       RowsAnswer, RowsDistinct, Blocked, Bookkeeping
  <2> QED BY <2>2, <2>3 DEF EnumInv
<1>6. CASE this_vars # {}
  <2> DEFINE row == found[Len(found)]
             block == Blocking(row)
  <2>1. /\ clauses' = clauses \cup {block} /\ n_vars' = Using(block)
        /\ answer' = NoAnswer /\ pc' = "while" /\ stopped' = stopped
    BY <1>6 DEF Block, AddClause
  <2>2. /\ Len(found) \in Nat \ {0} /\ DOMAIN found = 1..Len(found)
    BY <1>4, <1>a
  <2>3. row \subseteq this_vars
    BY <1>4, <2>2 DEF EnumInv, RowsProjected
  <2>4. block \subseteq Lit
    BY <1>a, BlockingTyped
  <2>5. \A vars \in SUBSET Var : Holds(vars, block) <=> vars \cap Projected # row
    BY <1>4, <1>a, <2>3, BlockingRules
  <2> HIDE DEF block
  <2>6. /\ n_vars' \in n_vars..MaxVar /\ n_vars' \in 0..MaxVar
        /\ \A lit \in block : VarOf(lit) <= n_vars'
    <3>1. n_vars' \in n_vars..MaxVar /\ n_vars' \in 0..MaxVar
      BY <1>2, <1>a, CountsOn, MaxVarAssumption DEF EnumInv
    <3> QED BY <3>1, <2>1, <2>4, UsingFacts DEF EnumInv, Typed, TypeOK
  <2>7. Typed'
    BY <1>4, <1>a, <2>1, <2>4, <2>6 DEF EnumInv, Typed, TypeOK, SolverTypeOK, NoAnswer, Answers
  <2>8. Known'
    <3>1. ASSUME NEW c \in clauses, NEW lit \in c PROVE VarOf(lit) <= n_vars'
      <4>1. VarOf(lit) <= n_vars /\ lit \in Lit
        BY <1>a DEF EnumInv, Known
      <4>2. VarOf(lit) \in Int
        BY <4>1, LitFacts
      <4> QED BY <4>1, <4>2, <2>6, <1>a
    <3> QED BY <1>4, <2>1, <2>6, <3>1 DEF EnumInv, Known
  <2>9. ConstraintOfCall' /\ RowsProjected' /\ Phases' /\ RowsAnswer' /\ RowsDistinct'
    BY <1>3, <1>4, <1>6, <2>1 DEF EnumInv, ConstraintOfCall, RowsProjected, Phases, RowsAnswer,
       RowsDistinct
  <2>10. Blocked'
    <3>1. Ruled' = Ruled \cup {row}
      BY <1>4, <2>1, <2>2 DEF Ruled
    <3>2. ASSUME NEW vars \in SUBSET Var
          PROVE  IsModel(vars, clauses', {}) <=>
                   IsModel(vars, formula, {}) /\ vars \cap Projected \notin Ruled \cup {row}
      <4>1. IsModel(vars, clauses', {}) <=> IsModel(vars, clauses, {}) /\ Holds(vars, block)
        BY <2>1 DEF IsModel
      <4>2. IsModel(vars, clauses, {}) <=>
              IsModel(vars, formula, {}) /\ vars \cap Projected \notin Ruled
        BY <1>4 DEF EnumInv, Blocked
      <4>3. Holds(vars, block) <=> vars \cap Projected # row
        BY <2>5
      <4> HIDE DEF row
      <4> QED BY <4>1, <4>2, <4>3
    <3> HIDE DEF row
    <3> QED BY <1>3, <1>4, <3>1, <3>2 DEF Blocked
  <2>11. Bookkeeping'
    BY <1>3, <1>4, <2>1 DEF EnumInv, Bookkeeping
  <2> QED BY <2>7, <2>8, <2>9, <2>10, <2>11 DEF EnumInv
<1> QED BY <1>5, <1>6

\* Ctrl-C leaves the rows found as they are; the solver may have counted the
\* assumptions and used up the constraint.
LEMMA CtrlCStep ==
  ASSUME EnumInv, CtrlC
  PROVE  EnumInv'
<1>2. Next
  BY DEF Next
<1>3. UNCHANGED Projected /\ UNCHANGED AllRows
  BY <1>2, QuestionKept DEF EnumInv
<1>a. clauses \subseteq SUBSET Lit /\ pending \subseteq SUBSET Lit /\ n_vars \in 0..MaxVar
  BY DEF EnumInv, Typed, TypeOK, SolverTypeOK
<1>4. /\ UNCHANGED <<args, found, this_vars, status, stopped, formula, clauses>>
      /\ pc \in {"while", "solve", "block"} /\ pc' = "raised"
      /\ pending' \in {pending, {}} /\ answer' \in {answer, NoAnswer}
      /\ limited' \in {limited, FALSE}
  BY DEF CtrlC, Interrupted, solver
<1>5. n_vars' \in n_vars..MaxVar /\ n_vars' \in 0..MaxVar
  BY <1>2, <1>a, CountsOn, MaxVarAssumption DEF EnumInv
<1>6. Typed'
  <2>1. answer' \in Answers
    BY <1>4 DEF EnumInv, Typed, TypeOK, SolverTypeOK, NoAnswer, Answers
  <2>2. SolverTypeOK'
    BY <1>4, <1>5, <1>a, <2>1 DEF EnumInv, Typed, TypeOK, SolverTypeOK
  <2> QED BY <1>4, <2>2 DEF EnumInv, Typed, TypeOK
<1>7. Known'
  <2>1. ASSUME NEW c \in clauses \cup pending, NEW lit \in c PROVE VarOf(lit) <= n_vars'
    <3>1. VarOf(lit) <= n_vars /\ lit \in Lit
      BY <1>a DEF EnumInv, Known
    <3>2. VarOf(lit) \in Int
      BY <3>1, LitFacts
    <3> QED BY <3>1, <3>2, <1>5, <1>a
  <2> QED BY <1>4, <2>1 DEF EnumInv, Known
<1>8. /\ ConstraintOfCall' /\ RowsProjected' /\ Phases' /\ RowsAnswer' /\ RowsDistinct'
      /\ Blocked' /\ Bookkeeping'
  BY <1>3, <1>4 DEF EnumInv, ConstraintOfCall, RowsProjected, Phases, RowsAnswer,
     RowsDistinct, Blocked, Bookkeeping
<1> QED BY <1>6, <1>7, <1>8 DEF EnumInv

\* A step that changes nothing keeps everything.
LEMMA EnumStutter ==
  ASSUME EnumInv, UNCHANGED allVars
  PROVE  EnumInv'
<1>1. UNCHANGED <<clauses, pending, n_vars, limited, answer, pc, args, found,
                  this_vars, status, stopped, formula>>
  BY DEF allVars, solver, enumVars
<1>2. UNCHANGED Projected /\ UNCHANGED AllRows
  BY QuestionKept DEF EnumInv
<1>3. Typed'
  BY <1>1 DEF EnumInv, Typed, TypeOK, SolverTypeOK
<1>4. UNCHANGED Ruled
  BY <1>1 DEF Ruled
<1>5. /\ Known' /\ ConstraintOfCall' /\ RowsProjected' /\ Phases' /\ RowsAnswer'
      /\ RowsDistinct' /\ Blocked' /\ Bookkeeping'
  BY <1>1, <1>2, <1>4 DEF EnumInv, Known, ConstraintOfCall, RowsProjected, Phases,
     RowsAnswer, RowsDistinct, Blocked, Bookkeeping
<1> QED BY <1>3, <1>5 DEF EnumInv

\* The invariant holds of every state of every call.
THEOREM EnumInvariant == Spec => []EnumInv
<1>1. EnumInv /\ [Next]_allVars => EnumInv'
  <2> SUFFICES ASSUME EnumInv, [Next]_allVars PROVE EnumInv'
    OBVIOUS
  <2>1. CASE sat_solutions
    BY <2>1, CallStep
  <2>2. CASE While
    BY <2>2, WhileStep
  <2>3. CASE SolveRound
    BY <2>3, SatStep, NotSatStep
  <2>4. CASE Block
    BY <2>4, BlockStep
  <2>5. CASE CtrlC
    BY <2>5, CtrlCStep
  <2>6. CASE Returned \/ UNCHANGED allVars
    BY <2>6, EnumStutter DEF Returned
  <2> QED BY <2>1, <2>2, <2>3, <2>4, <2>5, <2>6 DEF Next, Loop
<1> QED BY EnumStart, <1>1, PTL DEF Spec

-----------------------------------------------------------------------------
(* What the runs check. *)

\* Every variable of the call and of its solver keeps its type.
THEOREM EnumTypesHold == Spec => []TypeOK
<1>1. EnumInv => TypeOK
  BY DEF EnumInv, Typed
<1> QED BY EnumInvariant, <1>1, PTL

\* No row is reported twice and all are about the same variables, for every
\* projection and however many variables the solver learns of on the way.
THEOREM RowsStayDistinct == Spec => []RowsDistinct
<1>1. EnumInv => RowsDistinct
  BY DEF EnumInv
<1> QED BY EnumInvariant, <1>1, PTL

\* "unsat" is reported for questions without a model only, and "sat" exactly
\* when there is a row.
THEOREM StatusIsTrue == Spec => []StatusTrue
<1>1. EnumInv => StatusTrue
  BY DEF EnumInv, Bookkeeping, StatusTrue
<1> QED BY EnumInvariant, <1>1, PTL

\* The solver is left with the formula and what rules out the rows found.
THEOREM OnlyRowsAreBlocked == Spec => []OnlyRowsBlocked
<1>1. EnumInv => OnlyRowsBlocked
  <2> SUFFICES ASSUME EnumInv, pc \in {"while", "solve", "done"},
                      found # <<>> => this_vars # {}
               PROVE  \A vars \in SUBSET Var :
                        IsModel(vars, clauses, {}) <=>
                          IsModel(vars, formula, {}) /\ vars \cap Projected \notin Rows
    BY DEF OnlyRowsBlocked
  <2>1. Ruled = Rows
    BY DEF Ruled, Rows
  <2> QED BY <2>1 DEF EnumInv, Blocked
<1> QED BY EnumInvariant, <1>1, PTL

\* The constraint of an enumeration that returns is gone.
THEOREM ConstraintIsNotRetained == Spec => []ConstraintNotRetained
<1>1. EnumInv => ConstraintNotRetained
  BY DEF EnumInv, ConstraintOfCall, ConstraintNotRetained
<1> QED BY EnumInvariant, <1>1, PTL

-----------------------------------------------------------------------------
(* The refinement. *)

\* Rows are distinct, so that counting them is counting the rounds.
LEMMA RowsCounted ==
  ASSUME EnumInv
  PROVE  Cardinality(Rows) = Len(found)
<1>1. /\ found \in Seq(SUBSET Var) /\ DOMAIN found = 1..Len(found) /\ Len(found) \in Nat
      /\ \A i, j \in DOMAIN found : found[i] = found[j] => i = j
  BY DEF EnumInv, Typed, TypeOK, RowsDistinct
<1>2. found \in [1..Len(found) -> Rows]
  BY <1>1 DEF Rows
<1>3. found \in Bijection(1..Len(found), Rows)
  BY <1>1, <1>2 DEF Rows, Bijection, Injection, Surjection, IsInjective
<1> QED BY <1>1, <1>3, FS_CountingElements DEF ExistsBijection

\* A step of the loop is a step of the promise, or none.
LEMMA EnumStepRefines ==
  ASSUME EnumInv, [Next]_allVars
  PROVE  [Promise!EnumNext]_(Promise!enumerator)
<1>1. UNCHANGED <<args, formula>> /\ UNCHANGED AllRows
  BY QuestionKept DEF EnumInv
<1>2. Promise!Cardinality(Rows) = Len(found)
  <2>1. Cardinality(Rows) = Len(found)
    BY RowsCounted
  <2> QED BY <2>1 DEF Promise!Cardinality, Cardinality, Promise!IsFiniteSet, IsFiniteSet
<1>a. Len(found) \in Nat /\ args.limit \in Nat
  BY ArgsTyped DEF EnumInv, Typed, TypeOK
<1> DEFINE phase == IF pc \in {"done", "raised"} THEN pc ELSE "running"
<1>3. ASSUME UNCHANGED <<found, stopped>>, phase = "running", phase' = "raised"
      PROVE  Promise!Raise
  BY <1>1, <1>3 DEF Promise!Raise, Rows
<1>4. ASSUME UNCHANGED <<found, stopped>>, phase' = phase
      PROVE  UNCHANGED Promise!enumerator
  BY <1>1, <1>4 DEF Promise!enumerator, Rows
<1>5. ASSUME NEW why \in {"limit", "exhausted", "unknown"},
             UNCHANGED found, stopped' = why, phase = "running", phase' = "done",
             why = "exhausted" => Rows = AllRows,
             why = "limit" => Len(found) = args.limit
      PROVE  Promise!Stop(why)
  BY <1>1, <1>2, <1>5 DEF Promise!Stop, Rows
<1>6. CASE sat_solutions
  BY <1>3, <1>4, <1>6 DEF sat_solutions, Promise!EnumNext
<1>7. CASE While
  <2>1. pc = "while" /\ stopped = "limit" /\ UNCHANGED <<found, stopped>>
    BY <1>7 DEF While, EnumInv, Bookkeeping
  <2>2. CASE pc' = "solve"
    BY <1>4, <2>1, <2>2
  <2>3. CASE pc' = "done"
    <3>1. Len(found) = args.limit
      BY <1>7, <1>a, <2>3 DEF While, EnumInv, Bookkeeping
    <3> QED BY <1>5, <2>1, <2>3, <3>1 DEF Promise!EnumNext
  <2> QED BY <1>7, <2>2, <2>3 DEF While
<1>8. CASE SolveRound
  <2>1. pc = "solve" /\ Len(found) < args.limit
    BY <1>8 DEF SolveRound, EnumInv, Bookkeeping
  <2>2. CASE answer'.status = "sat"
    <3>1. EnumInv' /\ pc' = "block" /\ UNCHANGED stopped
      BY <1>8, <2>2, SatStep DEF SolveRound, AfterSolve
    <3>2. PICK row : found' = Append(found, row)
      BY <1>8, <2>2 DEF SolveRound
    <3>3. /\ found \in Seq(SUBSET Var)
          /\ found' \in Seq(SUBSET Var)
      BY <3>1 DEF EnumInv, Typed, TypeOK
    <3>4. /\ Len(found') = Len(found) + 1
          /\ DOMAIN found = 1..Len(found) /\ DOMAIN found' = 1..(Len(found) + 1)
          /\ found'[Len(found) + 1] = row
          /\ \A i \in 1..Len(found) : found'[i] = found[i]
      BY <3>2, <3>3, <1>a
    <3>5. Rows' = Rows \cup {row}
      BY <3>4, <1>a DEF Rows
    <3>6. row \in AllRows
      BY <1>1, <1>a, <3>1, <3>4 DEF EnumInv, RowsAnswer
    <3>7. row \notin Rows
      <4>1. \A i, j \in DOMAIN found' : found'[i] = found'[j] => i = j
        BY <3>1 DEF EnumInv, RowsDistinct
      <4> QED BY <3>4, <4>1, <1>a DEF Rows
    <3> QED BY <1>1, <1>2, <2>1, <3>1, <3>5, <3>6, <3>7
            DEF Promise!EnumNext, Promise!Give
  <2>3. CASE answer'.status = "unsat"
    <3>1. Rows = AllRows
      BY <1>8, <2>3, NoMoreRows
    <3>2. pc' = "done" /\ stopped' = "exhausted" /\ UNCHANGED found
      BY <1>8, <2>3 DEF SolveRound, AfterSolve, StoppedBy
    <3> QED BY <1>5, <2>1, <3>1, <3>2 DEF Promise!EnumNext
  <2>4. CASE answer'.status \notin {"sat", "unsat"}
    <3>1. pc' = "done" /\ stopped' = "unknown" /\ UNCHANGED found
      BY <1>8, <2>4 DEF SolveRound, AfterSolve, StoppedBy
    <3> QED BY <1>5, <2>1, <3>1 DEF Promise!EnumNext
  <2> QED BY <2>2, <2>3, <2>4
<1>9. CASE Block
  <2>1. pc = "block" /\ found # <<>> /\ UNCHANGED found /\ this_vars = Projected
    BY <1>9 DEF Block, EnumInv, Phases, RowsProjected
  <2>2. CASE this_vars = {}
    <3>1. pc' = "done" /\ stopped' = "exhausted"
      BY <1>9, <2>2 DEF Block
    <3>2. \A row \in AllRows : row = {}
      BY <2>1, <2>2 DEF AllRows
    <3>3. Rows \subseteq AllRows
      BY DEF Rows, EnumInv, RowsAnswer
    <3>4. Rows # {}
      <4>1. 1 \in DOMAIN found
        BY <2>1 DEF EnumInv, Typed, TypeOK
      <4> QED BY <4>1 DEF Rows
    <3>5. Rows = AllRows
      BY <3>2, <3>3, <3>4
    <3> QED BY <1>5, <2>1, <3>1, <3>5 DEF Promise!EnumNext
  <2>3. CASE this_vars # {}
    BY <1>4, <1>9, <2>1, <2>3 DEF Block
  <2> QED BY <2>2, <2>3
<1>10. CASE CtrlC
  BY <1>3, <1>10 DEF CtrlC, Promise!EnumNext
<1>11. CASE Returned \/ UNCHANGED allVars
  BY <1>4, <1>11 DEF Returned, allVars, enumVars
<1> QED BY <1>6, <1>7, <1>8, <1>9, <1>10, <1>11 DEF Next, Loop

\* sat_solutions implements the promise: distinct answers, none that is not
\* one, no more than the limit, and "exhausted" only when there is no other.
THEOREM EnumerateRefines == Spec => ImplementsPromise
<1>1. Init => Promise!EnumInit
  <2> SUFFICES ASSUME Init PROVE Promise!EnumInit
    OBVIOUS
  <2>1. EnumInv
    BY EnumStart
  <2>2. AllRows \in SUBSET SUBSET Var
    BY DEF AllRows
  <2>3. args.limit \in Limits
    BY DEF Init
  <2> QED BY <2>2, <2>3 DEF Init, Promise!EnumInit, Rows
<1>2. EnumInv /\ [Next]_allVars => [Promise!EnumNext]_(Promise!enumerator)
  BY EnumStepRefines
<1> QED BY EnumInvariant, <1>1, <1>2, PTL DEF Spec, ImplementsPromise, Promise!EnumSpec
=============================================================================

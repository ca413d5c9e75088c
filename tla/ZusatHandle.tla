----------------------------- MODULE ZusatHandle -----------------------------
(***************************************************************************)
(* The solver handle of src/zusat.c, composed with CaDiCaL: every .Call    *)
(* entry point that reads or changes the handle, step by CaDiCaL call.     *)
(*                                                                         *)
(* R is single-threaded, so a .Call runs to its end, but it can end early: *)
(* a broken CaDiCaL contract raises an R error (a longjmp) out of the      *)
(* middle of it, and Ctrl-C reaches a running solve through the terminator *)
(* callback.  The handle caches enough of CaDiCaL's state to refuse an     *)
(* illegal call before CaDiCaL sees it; the properties relate the cached   *)
(* flags, and what the caller was told, to the solver behind them.         *)
(***************************************************************************)
EXTENDS CaDiCaL, Sequences

CONSTANTS
  ClauseInputs,      \* literal vectors passed to sat_add
  AssumptionInputs,  \* literal vectors passed to sat_solve and sat_failed
  ConstraintInputs,  \* literal vectors passed to sat_constrain
  OptionInputs       \* <<name, value>> pairs passed to sat_option

ASSUME InputAssumption ==
  /\ ClauseInputs \subseteq Seq(Int)
  /\ AssumptionInputs \subseteq Seq(Int)
  /\ ConstraintInputs \subseteq Seq(Int)
  /\ OptionInputs \subseteq {"factor", "factorcheck"} \X Int

VARIABLES
  handle,   \* the zusat_handle the external pointer holds
  alive,    \* FALSE once the finalizer cleared the pointer
  call,     \* the .Call in progress and the literals it has yet to pass on
  files,    \* how many proof FILE*s are open
  aborted,  \* a CaDiCaL contract was violated on this handle
  told      \* what the caller is entitled to believe (history only)

handleVars == <<handle, alive, call, files, aborted, told>>
vars == <<cadVars, handleVars>>

Idle == [op |-> "idle", lits |-> <<>>, rest |-> <<>>]

Elements(lits) == {lits[i] : i \in DOMAIN lits}

\* A constraint as CaDiCaL stores one: its literals and the terminating 0.
Terminated(lits) == Elements(lits) \cup {0}

NewHandle ==
  [proof |-> FALSE, proof_traced |-> FALSE, interrupted |-> FALSE,
   configuring |-> TRUE, last_status |-> 0, concludable |-> FALSE,
   constraint_pending |-> FALSE]

\* clauses:    the clauses of the sat_add calls that returned
\* constraint: the constraint of the last sat_constrain that returned, until
\*             a solve or simplify used it
\* unsolved:   the same, until a sat_solve used it
\* assumed, constrained, documented: the question the last finished solve was
\*             asked -- its assumptions, `constraint' and `unsolved'
NothingTold ==
  [clauses |-> {}, constraint |-> {}, unsolved |-> {},
   assumed |-> {}, constrained |-> {}, documented |-> {}]

Handle ==
  [proof : BOOLEAN, proof_traced : BOOLEAN, interrupted : BOOLEAN,
   configuring : BOOLEAN, last_status : {0, 10, 20}, concludable : BOOLEAN,
   constraint_pending : BOOLEAN]

Call ==
  [op : {"idle", "add", "constrain", "assume", "solve", "simplify"},
   lits : Seq(Lit), rest : Seq(Lit)]

Told ==
  [clauses : SUBSET SUBSET Lit,
   constraint : SUBSET (Lit \cup {0}), unsolved : SUBSET (Lit \cup {0}),
   assumed : SUBSET Lit,
   constrained : SUBSET (Lit \cup {0}), documented : SUBSET (Lit \cup {0})]

HandleTypeOK ==
  /\ handle \in Handle
  /\ alive \in BOOLEAN
  /\ call \in Call
  /\ files \in Int
  /\ aborted \in BOOLEAN
  /\ told \in Told

TypeOK == CadTypeOK /\ HandleTypeOK

Init ==
  /\ CadInit
  /\ handle = NewHandle
  /\ alive = TRUE
  /\ call = Idle
  /\ files = 0
  /\ aborted = FALSE
  /\ told = NothingTold

-----------------------------------------------------------------------------
(* Pieces the entry points share. *)

\* mutants: one cached answer survives
InvalidatedButStatus(h)   == [h EXCEPT !.configuring = FALSE, !.concludable = FALSE]
InvalidatedButConclude(h) == [h EXCEPT !.configuring = FALSE, !.last_status = 0]

\* invalidate(h), called before every CaDiCaL call that can change its state.
Invalidated(h) ==
  [h EXCEPT !.configuring = FALSE, !.last_status = 0, !.concludable = FALSE]

CheckLitsNever(lits) == TRUE  \* mutant: any integer passes

\* check_lits: an R error before anything has happened otherwise.
CheckLits(lits) == \A i \in DOMAIN lits : lits[i] \in Lit

AtRest == alive /\ call = Idle

\* An R error raised by CaDiCaL: the .Call is left where it stands.
Raise ==
  /\ aborted' = TRUE
  /\ call' = Idle
  /\ UNCHANGED <<cadVars, handle, alive, files, told>>

\* A read-only .Call: all it can do to the session is break a contract.
ReadOnly(contract) ==
  /\ aborted' = (aborted \/ ~contract)
  /\ UNCHANGED <<cadVars, handle, alive, call, files, told>>

\* Enter a .Call that passes lits on to CaDiCaL one at a time.
Enter(op, lits) ==
  /\ AtRest
  /\ CheckLits(lits)
  /\ handle' = Invalidated(handle)
  /\ call' = [op |-> op, lits |-> lits, rest |-> lits]
  /\ UNCHANGED <<cadVars, alive, files, aborted, told>>

-----------------------------------------------------------------------------
(* zusat_add_clause *)

zusat_add_clause == \E lits \in ClauseInputs : Enter("add", lits)

AddLiteral ==
  /\ call.op = "add"
  /\ call.rest # <<>>
  /\ IF AddContract(Head(call.rest))
     THEN /\ Add(Head(call.rest))
          /\ call' = [call EXCEPT !.rest = Tail(@)]
          /\ UNCHANGED <<handle, alive, files, aborted, told>>
     ELSE Raise

\* mutant: an empty clause is not terminated, so it is never added
AddTerminatorUnlessEmpty ==
  /\ call.op = "add"
  /\ call.rest = <<>>
  /\ IF call.lits = <<>> THEN UNCHANGED cadVars ELSE Add(0)
  /\ call' = Idle
  /\ told' = [told EXCEPT !.clauses = @ \cup {Elements(call.lits)}]
  /\ UNCHANGED <<handle, alive, files, aborted>>

AddTerminator ==
  /\ call.op = "add"
  /\ call.rest = <<>>
  /\ IF AddContract(0)
     THEN /\ Add(0)
          /\ call' = Idle
          /\ told' = [told EXCEPT !.clauses = @ \cup {Elements(call.lits)}]
          /\ UNCHANGED <<handle, alive, files, aborted>>
     ELSE Raise

-----------------------------------------------------------------------------
(* zusat_constrain *)

zusat_constrain == \E lits \in ConstraintInputs : Enter("constrain", lits)

ConstrainLiteral ==
  /\ call.op = "constrain"
  /\ call.rest # <<>>
  /\ IF ConstrainContract(Head(call.rest))
     THEN /\ Constrain(Head(call.rest))
          /\ call' = [call EXCEPT !.rest = Tail(@)]
          /\ UNCHANGED <<handle, alive, files, aborted, told>>
     ELSE Raise

ConstrainTerminator ==
  /\ call.op = "constrain"
  /\ call.rest = <<>>
  /\ IF ConstrainContract(0)
     THEN /\ Constrain(0)
          /\ call' = Idle
          /\ handle' = [handle EXCEPT !.constraint_pending = TRUE]
          /\ told' = [told EXCEPT !.constraint = Terminated(call.lits),
                                  !.unsolved = Terminated(call.lits)]
          /\ UNCHANGED <<alive, files, aborted>>
     ELSE Raise

-----------------------------------------------------------------------------
(* zusat_solve: assume each literal, connect the terminator, solve,        *)
(* disconnect.  zusat_simplify is the same without assumptions.            *)

zusat_solve == \E lits \in AssumptionInputs : Enter("assume", lits)

AssumeLiteral ==
  /\ call.op = "assume"
  /\ call.rest # <<>>
  /\ IF AssumeContract(Head(call.rest))
     THEN /\ Assume(Head(call.rest))
          /\ call' = [call EXCEPT !.rest = Tail(@)]
          /\ UNCHANGED <<handle, alive, files, aborted, told>>
     ELSE Raise

\* Connect the terminator and start searching, with h the handle by now.  When
\* CaDiCaL refuses to solve, the error leaves the terminator connected.
StartSearch(h, running) ==
  /\ handle' = [h EXCEPT !.interrupted = FALSE]
  /\ \/ /\ SolveContract
        /\ SolveBegin
        /\ call' = running
        /\ aborted' = aborted
     \/ /\ ~SolveContract
        /\ terminator' = TRUE
        /\ call' = Idle
        /\ aborted' = TRUE
        /\ UNCHANGED <<state, max_var, ervars, formula, original, assumptions,
                       constraint, model, limits, opts, tracer>>
  /\ UNCHANGED <<alive, files, told>>

StartSolve ==
  /\ call.op = "assume"
  /\ call.rest = <<>>
  /\ StartSearch(handle, [call EXCEPT !.op = "solve"])

zusat_simplify ==
  /\ AtRest
  /\ StartSearch(Invalidated(handle), [Idle EXCEPT !.op = "simplify"])

\* CaDiCaL polls the terminator and a Ctrl-C is pending.
terminate_cb ==
  /\ state = "SOLVING"
  /\ terminator
  /\ handle' = [handle EXCEPT !.interrupted = TRUE]
  /\ UNCHANGED <<cadVars, alive, call, files, aborted, told>>

\* What the caller may believe once a search has ended.
ToldBySearch ==
  [told EXCEPT !.assumed = Elements(call.lits),
               !.constrained = told.constraint,
               !.documented = IF call.op = "solve" THEN told.unsolved ELSE {},
               !.constraint = {},
               !.unsolved = IF call.op = "solve" THEN {} ELSE told.unsolved]

\* mutant: the interrupt leaves before constraint_pending is cleared
AnsweredLate(h, res) ==
  IF h.interrupted
  THEN h
  ELSE [h EXCEPT !.constraint_pending = FALSE, !.last_status = res, !.concludable = TRUE]

\* The search consumed the constraint; an interrupted one raises instead of
\* answering.
Answered(h, res) ==
  IF h.interrupted
  THEN [h EXCEPT !.constraint_pending = FALSE]
  ELSE [h EXCEPT !.constraint_pending = FALSE, !.last_status = res, !.concludable = TRUE]

\* CaDiCaL returns.
FinishSearch ==
  /\ call.op \in {"solve", "simplify"}
  /\ state = "SOLVING"
  /\ \E res \in {0, 10, 20}, m \in SUBSET Var :
       /\ SolveEnd(res, m, handle.interrupted \/ call.op = "simplify")
       /\ handle' = Answered(handle, res)
  /\ call' = Idle
  /\ told' = ToldBySearch
  /\ UNCHANGED <<alive, files, aborted>>

-----------------------------------------------------------------------------
(* Reading results.  Each entry point is guarded by what the handle        *)
(* remembers, never by CaDiCaL's own state.                                *)

\* new_solution and sat_value read every variable up to sat_n_vars.
zusat_value ==
  /\ AtRest
  /\ handle.last_status = 10
  /\ ReadOnly(\A v \in 1..max_var : ValContract(v))

zusat_failed ==
  /\ AtRest
  /\ handle.last_status = 20
  /\ \E lits \in AssumptionInputs :
       /\ CheckLits(lits)
       /\ ReadOnly(\A i \in DOMAIN lits : FailedContract(lits[i]))

zusat_constraint_failed ==
  /\ AtRest
  /\ handle.last_status = 20
  /\ ReadOnly(ConstraintFailedContract)

zusat_fixed ==
  /\ AtRest
  /\ \E lits \in ClauseInputs :
       /\ CheckLits(lits)
       /\ ReadOnly(\A i \in DOMAIN lits : FixedContract(lits[i]))

zusat_conclude ==
  /\ AtRest
  /\ handle.concludable
  /\ ReadOnly(ConcludeContract)

-----------------------------------------------------------------------------
(* Options, limits, reserving variables. *)

\* sat_option checks the range and the handle before zusat_set_option.
sat_option ==
  /\ AtRest
  /\ handle.configuring
  /\ \E input \in OptionInputs :
       /\ input[2] \in OptionRange[input[1]]
       /\ IF SetContract
          THEN Set(input[1], input[2]) /\ UNCHANGED handleVars
          ELSE Raise

\* The contract of limit, a VALID state, holds whenever no call is running.
zusat_limit ==
  /\ AtRest
  /\ \E name \in BoundedLimits, value \in {-1, 1} : Limit(name, value)
  /\ UNCHANGED handleVars

zusat_reserve ==
  /\ AtRest
  /\ \E want \in 0..MaxVar :
       /\ want > max_var
       /\ handle' = Invalidated(handle)
       /\ IF DeclareContract
          THEN /\ DeclareMoreVariables(want - max_var)
               /\ UNCHANGED aborted
          ELSE /\ aborted' = TRUE
               /\ UNCHANGED cadVars
  /\ UNCHANGED <<alive, call, files, told>>

-----------------------------------------------------------------------------
(* Proof tracing.  CaDiCaL never closes the FILE*; the handle owns it. *)

\* The handle records the file before CaDiCaL can raise.  A file that cannot be
\* opened is an error that changes nothing, and CaDiCaL's trace_proof never
\* returns false for a FILE*.
zusat_trace_proof ==
  /\ AtRest
  /\ ~handle.proof
  /\ handle.configuring
  /\ files' = files + 1
  /\ handle' = [handle EXCEPT !.proof = TRUE, !.proof_traced = TraceContract]
  /\ IF TraceContract
     THEN Trace /\ UNCHANGED aborted
     ELSE aborted' = TRUE /\ UNCHANGED cadVars
  /\ UNCHANGED <<alive, call, told>>

\* mutant: the file stays open
CloseTracerOnly ==
  /\ tracer' = IF handle.proof_traced THEN "closed" ELSE tracer
  /\ files' = files

\* Close CaDiCaL's side, if it traces, then the file.
CloseProof ==
  /\ tracer' = IF handle.proof_traced THEN "closed" ELSE tracer
  /\ files' = files - 1

CloseRaises == handle.proof_traced /\ ~CloseTraceContract

zusat_close_proof ==
  /\ AtRest
  /\ handle.proof
  /\ IF CloseRaises
     THEN Raise
     ELSE /\ CloseProof
          /\ handle' = [handle EXCEPT !.proof = FALSE, !.proof_traced = FALSE]
          /\ UNCHANGED <<state, max_var, ervars, formula, original, assumptions,
                         constraint, model, limits, opts, terminator,
                         alive, call, aborted, told>>

\* Garbage collection: nothing refers to the pointer any more.
zusat_finalize ==
  /\ AtRest
  /\ IF handle.proof /\ CloseRaises
     THEN Raise
     ELSE /\ IF handle.proof THEN CloseProof ELSE UNCHANGED <<tracer, files>>
          /\ state' = "DELETING"
          /\ alive' = FALSE
          /\ UNCHANGED <<max_var, ervars, formula, original, assumptions,
                         constraint, model, limits, opts, terminator,
                         handle, call, aborted, told>>

\* The pointer is cleared: handle_from refuses every later call.
Collected ==
  /\ ~alive
  /\ UNCHANGED vars

-----------------------------------------------------------------------------
InsideCall ==
  \/ AddLiteral \/ AddTerminator
  \/ ConstrainLiteral \/ ConstrainTerminator
  \/ AssumeLiteral \/ StartSolve
  \/ FinishSearch

Next ==
  \/ zusat_add_clause \/ zusat_constrain \/ zusat_solve \/ zusat_simplify
  \/ InsideCall \/ terminate_cb
  \/ zusat_value \/ zusat_failed \/ zusat_constraint_failed
  \/ zusat_fixed \/ zusat_conclude
  \/ sat_option \/ zusat_limit \/ zusat_reserve
  \/ zusat_trace_proof \/ zusat_close_proof
  \/ zusat_finalize \/ Collected

Spec == Init /\ [][Next]_vars

-----------------------------------------------------------------------------
(* Properties. *)

\* With CaDiCaL's defaults add accepts undeclared variables and the solver
\* never defines variables of its own.
PlainOptions == opts.factor = 0 /\ opts.factorcheck # 2

\* The cached answers never outlive the state they describe (zusat.c,
\* invalidate): in every state, also in the middle of a .Call and whatever
\* options are set, a guard that passes means CaDiCaL's contract holds.
CacheSound ==
  alive => /\ handle.configuring => state = "CONFIGURING"
           /\ handle.last_status = 10 => state = "SATISFIED"
           /\ handle.last_status = 20 => state = "UNSATISFIED"
           /\ handle.concludable => state \in SOLVED

\* With plain options no sequence of calls and interrupts makes CaDiCaL
\* abort: every REQUIRE is covered by a check of the handle or of R.
NoContractViolation == PlainOptions => ~aborted

\* Between calls the solver holds exactly the clauses of the sat_add calls
\* that returned, and no half of one (zusat_add_clause).
FormulaIsTold ==
  AtRest /\ PlainOptions => formula = told.clauses /\ original = {}

\* Between calls constraint_pending is set exactly when the next solve would
\* be bounded by a constraint, and it is the one the caller set last.
PendingIsConstraint ==
  AtRest /\ PlainOptions =>
    /\ handle.constraint_pending <=> ConstraintKept # {}
    /\ ConstraintKept = told.constraint

\* An answer that can be read is an answer to the question asked: the model
\* satisfies every clause added, the assumptions and the constraint of the
\* last solve, and "unsat" is reported only when nothing does.  Assumptions
\* and constraints of earlier solves, finished or interrupted, play no part.
AnswerSound ==
  alive /\ PlainOptions =>
    /\ handle.last_status = 10 =>
         Satisfies(model, told.clauses, told.assumed, told.constrained)
    /\ handle.last_status = 20 =>
         Unsatisfiable(told.clauses, told.assumed, told.constrained)

\* The handle owns every open proof file, whatever raised in between: none
\* leaks, and CaDiCaL never traces to a file that has been closed.
ProofFileOwned ==
  /\ files = IF alive /\ handle.proof THEN 1 ELSE 0
  /\ alive => (handle.proof_traced <=> tracer = "open")
  /\ tracer = "open" => files = 1

-----------------------------------------------------------------------------
(* What the documentation promises without the condition PlainOptions, or   *)
(* beyond it.  The violation runs show that the code does not keep these.   *)

\* "Every clause is checked before any is added, so an error part-way through
\* a list leaves the solver as it was" (sat_add).  Whether CaDiCaL refuses an
\* undeclared variable is not among the checks, and it does so in the middle
\* of the clause.
ErrorLeavesSolverAsItWas ==
  AtRest => formula = told.clauses /\ original = {}

\* A constraint "applies to the next [sat_solve()] and is then discarded"
\* (sat_constrain).  A sat_simplify in between uses it up.
ConstraintReachesNextSolve ==
  alive /\ PlainOptions /\ handle.last_status = 10 =>
    \A clause \in Clauses(told.documented) : Holds(model, clause)
=============================================================================

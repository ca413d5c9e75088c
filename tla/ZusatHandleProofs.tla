-------------------------- MODULE ZusatHandleProofs --------------------------
(***************************************************************************)
(* Proofs about ZusatHandle, composed with CaDiCaL, for every number of    *)
(* variables and every set of inputs.  The first part: types, the cached   *)
(* answers and the proof file.  What the handle caches is not inductive by *)
(* itself: it has to be related to the .Call in progress as well           *)
(* (CallShape).                                                            *)
(***************************************************************************)
EXTENDS HandleRefinement, CnfProofs, SequenceTheorems, TLAPS

-----------------------------------------------------------------------------
(* Facts about literals and literal vectors. *)

\* Literals are non-zero integers whose variable lies within 1..MaxVar.
LEMMA LiteralFacts ==
  /\ Lit \subseteq Int
  /\ 0 \notin Lit
  /\ \A lit \in Lit : VarOf(lit) \in Var
  /\ VarOf(0) = 0
BY MaxVarAssumption DEF Lit, Var, VarOf

\* check_lits turns an integer vector into a vector of literals.
LEMMA CheckedAreLiterals ==
  ASSUME NEW lits \in Seq(Int), CheckLits(lits)
  PROVE  lits \in Seq(Lit)
<1>1. /\ Len(lits) \in Nat
      /\ DOMAIN lits = 1..Len(lits)
      /\ lits = [i \in 1..Len(lits) |-> lits[i]]
  BY LenProperties
<1>2. \A i \in 1..Len(lits) : lits[i] \in Lit
  BY <1>1 DEF CheckLits
<1>3. [i \in 1..Len(lits) |-> lits[i]] \in Seq(Lit)
  BY <1>1, <1>2, IsASeq
<1> QED
  BY <1>1, <1>3

\* Passing on the head of a vector moves exactly that literal.
LEMMA ElementsHeadTail ==
  ASSUME NEW lits \in Seq(Lit), lits # <<>>
  PROVE  /\ Head(lits) \in Lit
         /\ Tail(lits) \in Seq(Lit)
         /\ Elements(lits) = {Head(lits)} \cup Elements(Tail(lits))
<1>1. /\ Head(lits) \in Lit
      /\ Tail(lits) \in Seq(Lit)
      /\ Len(Tail(lits)) = Len(lits) - 1
      /\ \A i \in 1..Len(Tail(lits)) : Tail(lits)[i] = lits[i + 1]
  BY HeadTailProperties
<1>2. /\ DOMAIN lits = 1..Len(lits)
      /\ DOMAIN Tail(lits) = 1..Len(Tail(lits))
      /\ Len(lits) \in Nat \ {0}
      /\ Head(lits) = lits[1]
  BY <1>1, LenProperties, EmptySeq
<1>3. ASSUME NEW i \in DOMAIN lits
      PROVE  lits[i] = Head(lits) \/ \E j \in DOMAIN Tail(lits) : lits[i] = Tail(lits)[j]
  <2>1. CASE i = 1
    BY <2>1, <1>2
  <2>2. CASE i # 1
    <3>1. i - 1 \in DOMAIN Tail(lits) /\ lits[i] = Tail(lits)[i - 1]
      BY <2>2, <1>1, <1>2
    <3> QED
      BY <3>1
  <2> QED
    BY <2>1, <2>2
<1>4. ASSUME NEW j \in DOMAIN Tail(lits)
      PROVE  \E i \in DOMAIN lits : Tail(lits)[j] = lits[i]
  <2>1. j + 1 \in DOMAIN lits /\ Tail(lits)[j] = lits[j + 1]
    BY <1>1, <1>2
  <2> QED
    BY <2>1
<1>5. Elements(lits) = {Head(lits)} \cup Elements(Tail(lits))
  <2>1. ASSUME NEW lit \in Elements(lits)
        PROVE  lit \in {Head(lits)} \cup Elements(Tail(lits))
    BY <1>3 DEF Elements
  <2>2. ASSUME NEW lit \in Elements(Tail(lits))
        PROVE  lit \in Elements(lits)
    BY <1>4 DEF Elements
  <2>3. Head(lits) \in Elements(lits)
    BY <1>2 DEF Elements
  <2> QED
    BY <2>1, <2>2, <2>3
<1> QED
  BY <1>1, <1>5

\* The empty vector has no elements; a literal vector has only literals.
LEMMA ElementsFacts ==
  /\ Elements(<<>>) = {}
  /\ \A lits \in Seq(Lit) : Elements(lits) \subseteq Lit
BY LenProperties, ElementOfSeq DEF Elements

-----------------------------------------------------------------------------
(* Type correctness, first of the CaDiCaL calls. *)

\* The query kept by transition_to_steady_state is as well-typed as the last.
LEMMA KeptTypes ==
  ASSUME CadTypeOK
  PROVE  AssumptionsKept \subseteq Lit /\ ConstraintKept \subseteq Lit \cup {0}
BY DEF CadTypeOK, AssumptionsKept, ConstraintKept

\* Solver::add keeps CaDiCaL's state well-typed.
LEMMA AddTypes ==
  ASSUME CadTypeOK, NEW lit \in Lit \cup {0}, Add(lit)
  PROVE  CadTypeOK'
<1>1. formula' \subseteq SUBSET Lit /\ original' \subseteq Lit
  BY DEF CadTypeOK, Add
<1>2. max_var' \in 0..MaxVar /\ max_var' >= max_var
  BY LiteralFacts, MaxVarAssumption DEF CadTypeOK, Add, Declare, Var
<1>3. ervars' \subseteq 1..max_var'
  BY <1>2, MaxVarAssumption DEF CadTypeOK, Add
<1> QED
  BY <1>1, <1>2, <1>3, KeptTypes DEF CadTypeOK, Add, VALID, READY

\* So does Solver::constrain,
LEMMA ConstrainTypes ==
  ASSUME CadTypeOK, NEW lit \in Lit \cup {0}, Constrain(lit)
  PROVE  CadTypeOK'
BY KeptTypes, LiteralFacts, MaxVarAssumption
   DEF CadTypeOK, Constrain, Declare, VALID, READY, SOLVED, Var

\* Solver::assume,
LEMMA AssumeTypes ==
  ASSUME CadTypeOK, NEW lit \in Lit, Assume(lit)
  PROVE  CadTypeOK'
BY KeptTypes, LiteralFacts, MaxVarAssumption
   DEF CadTypeOK, Assume, Declare, VALID, READY, SOLVED, Var

\* entering a solve or simplify,
LEMMA SolveBeginTypes ==
  ASSUME CadTypeOK, SolveBegin
  PROVE  CadTypeOK'
BY KeptTypes DEF CadTypeOK, SolveBegin, VALID, READY, SOLVED

\* and returning from it, with or without new extension variables.
LEMMA SolveEndTypes ==
  ASSUME CadTypeOK, NEW res \in {0, 10, 20}, NEW m \in SUBSET Var,
         NEW giveUp, SolveEnd(res, m, giveUp)
  PROVE  CadTypeOK'
<1>1. PICK n \in max_var .. (IF opts.factor = 1 THEN MaxVar ELSE max_var) :
        max_var' = n /\ ervars' = ervars \cup (max_var + 1)..n
  BY DEF SolveEnd
<1>2. max_var' \in 0..MaxVar /\ ervars' \subseteq 1..max_var'
  BY <1>1, MaxVarAssumption DEF CadTypeOK
<1>3. state' \in SOLVED
  BY DEF SolveEnd, SOLVED
<1> QED
  BY <1>2, <1>3 DEF CadTypeOK, SolveEnd, VALID, READY

\* A step of a .Call passes a literal on, or ends the .Call.
LEMMA CallTypes ==
  ASSUME HandleTypeOK, call.rest # <<>>
  PROVE  /\ Head(call.rest) \in Lit
         /\ [call EXCEPT !.rest = Tail(@)] \in Call
<1>1. call.rest \in Seq(Lit)
  BY DEF HandleTypeOK, Call
<1>2. Head(call.rest) \in Lit /\ Tail(call.rest) \in Seq(Lit)
  BY <1>1, ElementsHeadTail
<1> QED
  BY <1>2 DEF HandleTypeOK, Call

\* Idle is a call.
LEMMA IdleType ==
  Idle \in Call
BY EmptySeq DEF Idle, Call

\* An R error out of CaDiCaL changes nothing but the call.
LEMMA RaiseTypes ==
  ASSUME TypeOK, Raise
  PROVE  TypeOK'
BY IdleType DEF TypeOK, CadTypeOK, HandleTypeOK, Raise, cadVars

\* Entering a .Call with literals that passed check_lits.
LEMMA EnterTypes ==
  ASSUME TypeOK, NEW op \in {"add", "constrain", "assume"},
         NEW lits \in Seq(Int), Enter(op, lits)
  PROVE  TypeOK'
<1>1. lits \in Seq(Lit)
  BY CheckedAreLiterals DEF Enter
<1>2. HandleTypeOK'
  BY <1>1 DEF TypeOK, HandleTypeOK, Handle, Call, Enter, Invalidated
<1> QED
  BY <1>2 DEF TypeOK, CadTypeOK, Enter, cadVars

\* Starting a search from a handle that is well-typed so far.
LEMMA StartSearchTypes ==
  ASSUME TypeOK,
         NEW h \in Handle, NEW running \in Call,
         StartSearch(h, running)
  PROVE  TypeOK'
<1>1. CadTypeOK'
  <2>1. CASE SolveBegin
    BY <2>1, SolveBeginTypes DEF TypeOK
  <2>2. CASE ~SolveContract
    BY <2>2 DEF TypeOK, CadTypeOK, StartSearch
  <2> QED
    BY <2>1, <2>2 DEF StartSearch
<1>2. HandleTypeOK'
  BY IdleType DEF TypeOK, HandleTypeOK, Handle, StartSearch
<1> QED
  BY <1>1, <1>2 DEF TypeOK

\* Every step of the handle keeps every variable well-typed.
LEMMA TypeStep ==
  ASSUME TypeOK, [Next]_vars
  PROVE  TypeOK'
<1> USE DEF TypeOK
<1>1. CASE zusat_add_clause
  BY <1>1, EnterTypes, InputAssumption DEF zusat_add_clause
<1>2. CASE zusat_constrain
  BY <1>2, EnterTypes, InputAssumption DEF zusat_constrain
<1>3. CASE zusat_solve
  BY <1>3, EnterTypes, InputAssumption DEF zusat_solve
<1>4. CASE zusat_simplify
  <2>1. Invalidated(handle) \in Handle
    BY DEF HandleTypeOK, Handle, Invalidated
  <2>2. [Idle EXCEPT !.op = "simplify"] \in Call
    BY EmptySeq DEF Idle, Call
  <2> QED
    BY <1>4, <2>1, <2>2, StartSearchTypes DEF zusat_simplify
<1>5. CASE AddLiteral
  <2>1. CASE AddContract(Head(call.rest))
    <3>1. CadTypeOK'
      BY <1>5, <2>1, CallTypes, AddTypes DEF AddLiteral
    <3>2. HandleTypeOK'
      BY <1>5, <2>1, CallTypes DEF AddLiteral, HandleTypeOK
    <3> QED
      BY <3>1, <3>2
  <2>2. CASE Raise
    BY <2>2, RaiseTypes
  <2> QED
    BY <1>5, <2>1, <2>2 DEF AddLiteral
<1>6. CASE AddTerminator
  <2>1. CASE AddContract(0)
    <3>1. CadTypeOK'
      BY <1>6, <2>1, AddTypes DEF AddTerminator
    <3>2. Elements(call.lits) \subseteq Lit
      BY ElementsFacts DEF HandleTypeOK, Call
    <3>3. told.clauses \cup {Elements(call.lits)} \in SUBSET SUBSET Lit
      BY <3>2 DEF HandleTypeOK, Told
    <3>4. told' \in Told
      BY <1>6, <2>1, <3>3 DEF AddTerminator, HandleTypeOK, Told
    <3>5. HandleTypeOK'
      BY <1>6, <2>1, <3>4, IdleType DEF AddTerminator, HandleTypeOK
    <3> QED
      BY <3>1, <3>5
  <2>2. CASE Raise
    BY <2>2, RaiseTypes
  <2> QED
    BY <1>6, <2>1, <2>2 DEF AddTerminator
<1>7. CASE ConstrainLiteral
  <2>1. CASE ConstrainContract(Head(call.rest))
    <3>1. CadTypeOK'
      BY <1>7, <2>1, CallTypes, ConstrainTypes DEF ConstrainLiteral
    <3>2. HandleTypeOK'
      BY <1>7, <2>1, CallTypes DEF ConstrainLiteral, HandleTypeOK
    <3> QED
      BY <3>1, <3>2
  <2>2. CASE Raise
    BY <2>2, RaiseTypes
  <2> QED
    BY <1>7, <2>1, <2>2 DEF ConstrainLiteral
<1>8. CASE ConstrainTerminator
  <2>1. CASE ConstrainContract(0)
    <3>1. CadTypeOK'
      BY <1>8, <2>1, ConstrainTypes DEF ConstrainTerminator
    <3>2. Terminated(call.lits) \subseteq Lit \cup {0}
      BY ElementsFacts DEF HandleTypeOK, Call, Terminated
    <3>3. handle' \in Handle
      BY <1>8, <2>1 DEF ConstrainTerminator, HandleTypeOK, Handle
    <3>4. told' \in Told
      <4>1. told' = [told EXCEPT !.constraint = Terminated(call.lits),
                                 !.unsolved = Terminated(call.lits)]
        BY <1>8, <2>1 DEF ConstrainTerminator
      <4>2. told \in Told
        BY DEF HandleTypeOK
      <4> QED
        BY <3>2, <4>1, <4>2 DEF Told
    <3>5. HandleTypeOK'
      BY <1>8, <2>1, <3>3, <3>4, IdleType DEF ConstrainTerminator, HandleTypeOK
    <3> QED
      BY <3>1, <3>5
  <2>2. CASE Raise
    BY <2>2, RaiseTypes
  <2> QED
    BY <1>8, <2>1, <2>2 DEF ConstrainTerminator
<1>9. CASE AssumeLiteral
  <2>1. CASE AssumeContract(Head(call.rest))
    <3>1. CadTypeOK'
      BY <1>9, <2>1, CallTypes, AssumeTypes DEF AssumeLiteral
    <3>2. HandleTypeOK'
      BY <1>9, <2>1, CallTypes DEF AssumeLiteral, HandleTypeOK
    <3> QED
      BY <3>1, <3>2
  <2>2. CASE Raise
    BY <2>2, RaiseTypes
  <2> QED
    BY <1>9, <2>1, <2>2 DEF AssumeLiteral
<1>10. CASE StartSolve
  <2>1. [call EXCEPT !.op = "solve"] \in Call
    BY DEF HandleTypeOK, Call
  <2> QED
    BY <1>10, <2>1, StartSearchTypes DEF StartSolve, HandleTypeOK
<1>11. CASE FinishSearch
  <2>1. PICK res \in {0, 10, 20}, m \in SUBSET Var :
          /\ SolveEnd(res, m, handle.interrupted \/ call.op = "simplify")
          /\ handle' = Answered(handle, res)
    BY <1>11 DEF FinishSearch
  <2>2. CadTypeOK'
    BY <2>1, SolveEndTypes
  <2>3. Elements(call.lits) \subseteq Lit
    BY ElementsFacts DEF HandleTypeOK, Call
  <2>4. handle' \in Handle
    BY <2>1 DEF HandleTypeOK, Handle, Answered
  <2>5. told' \in Told
    BY <1>11, <2>3 DEF FinishSearch, ToldBySearch, HandleTypeOK, Told
  <2> QED
    BY <1>11, <2>2, <2>4, <2>5, IdleType DEF FinishSearch, HandleTypeOK
<1>12. CASE terminate_cb
  BY <1>12 DEF terminate_cb, CadTypeOK, HandleTypeOK, Handle, cadVars
<1>13. CASE \/ zusat_value \/ zusat_failed \/ zusat_constraint_failed
            \/ zusat_fixed \/ zusat_conclude
  BY <1>13 DEF zusat_value, zusat_failed, zusat_constraint_failed, zusat_fixed,
               zusat_conclude, ReadOnly, CadTypeOK, HandleTypeOK, cadVars
<1>14. CASE sat_option
  <2>1. PICK input \in OptionInputs :
          /\ input[2] \in OptionRange[input[1]]
          /\ IF SetContract
             THEN Set(input[1], input[2]) /\ UNCHANGED handleVars
             ELSE Raise
    BY <1>14 DEF sat_option
  <2>2. input[1] \in {"factor", "factorcheck"}
    BY InputAssumption
  <2>3. CASE Set(input[1], input[2]) /\ UNCHANGED handleVars
    <3>1. opts' \in [factor : OptionRange.factor, factorcheck : OptionRange.factorcheck]
      BY <2>1, <2>2, <2>3 DEF Set, CadTypeOK, OptionRange
    <3> QED
      BY <2>3, <3>1 DEF Set, CadTypeOK, HandleTypeOK, handleVars
  <2>4. CASE Raise
    BY <2>4, RaiseTypes
  <2> QED
    BY <2>1, <2>3, <2>4
<1>15. CASE zusat_limit
  BY <1>15 DEF zusat_limit, Limit, CadTypeOK, HandleTypeOK, handleVars
<1>16. CASE zusat_reserve
  <2>1. HandleTypeOK'
    BY <1>16 DEF zusat_reserve, HandleTypeOK, Handle, Invalidated
  <2>2. CadTypeOK'
    <3>1. PICK want \in 0..MaxVar :
            /\ want > max_var
            /\ DeclareMoreVariables(want - max_var) \/ UNCHANGED cadVars
      BY <1>16 DEF zusat_reserve
    <3>2. CASE DeclareMoreVariables(want - max_var)
      BY <3>1, <3>2, KeptTypes, MaxVarAssumption
         DEF DeclareMoreVariables, CadTypeOK, VALID, READY
    <3>3. CASE UNCHANGED cadVars
      BY <3>3 DEF CadTypeOK, cadVars
    <3> QED
      BY <3>1, <3>2, <3>3
  <2> QED
    BY <2>1, <2>2
<1>17. CASE zusat_trace_proof
  <2>1. CadTypeOK'
    BY <1>17 DEF zusat_trace_proof, Trace, CadTypeOK, cadVars
  <2>2. handle' \in Handle
    BY <1>17 DEF zusat_trace_proof, TraceContract, HandleTypeOK, Handle
  <2>3. files' \in Int
    BY <1>17 DEF zusat_trace_proof, HandleTypeOK
  <2>4. aborted' \in BOOLEAN
    BY <1>17 DEF zusat_trace_proof, HandleTypeOK
  <2> QED
    BY <1>17, <2>1, <2>2, <2>3, <2>4 DEF zusat_trace_proof, HandleTypeOK
<1>18. CASE zusat_close_proof
  <2>1. CASE CloseRaises
    BY <1>18, <2>1, RaiseTypes DEF zusat_close_proof
  <2>2. CASE ~CloseRaises
    <3>1. CadTypeOK'
      BY <1>18, <2>2 DEF zusat_close_proof, CloseProof, CadTypeOK
    <3>2. handle' \in Handle
      BY <1>18, <2>2 DEF zusat_close_proof, HandleTypeOK, Handle
    <3> QED
      BY <1>18, <2>2, <3>1, <3>2 DEF zusat_close_proof, CloseProof, HandleTypeOK
  <2> QED
    BY <2>1, <2>2
<1>19. CASE zusat_finalize
  <2>1. CASE handle.proof /\ CloseRaises
    BY <1>19, <2>1, RaiseTypes DEF zusat_finalize
  <2>2. CASE ~(handle.proof /\ CloseRaises)
    <3>1. CadTypeOK'
      BY <1>19, <2>2 DEF zusat_finalize, CloseProof, CadTypeOK
    <3>2. files' \in Int
      BY <1>19, <2>2 DEF zusat_finalize, CloseProof, HandleTypeOK
    <3> QED
      BY <1>19, <2>2, <3>1, <3>2 DEF zusat_finalize, HandleTypeOK
  <2> QED
    BY <2>1, <2>2
<1>20. CASE UNCHANGED vars
  BY <1>20 DEF vars, cadVars, handleVars, CadTypeOK, HandleTypeOK
<1> QED
  BY <1>1, <1>2, <1>3, <1>4, <1>5, <1>6, <1>7, <1>8, <1>9, <1>10, <1>11, <1>12,
     <1>13, <1>14, <1>15, <1>16, <1>17, <1>18, <1>19, <1>20
     DEF Next, InsideCall, Collected

\* The handle and the solver behind it are well-typed in every reachable
\* state, whatever the inputs, errors and interrupts.
THEOREM TypeCorrect == Spec => []TypeOK
<1>1. Init => TypeOK
  <2>1. Init => CadTypeOK
    <3>1. [factor |-> 0, factorcheck |-> 1] \in
            [factor : OptionRange.factor, factorcheck : OptionRange.factorcheck]
      BY DEF OptionRange
    <3>2. Init => /\ state \in VALID
                  /\ max_var \in 0..MaxVar
                  /\ ervars \subseteq 1..max_var
      BY MaxVarAssumption DEF Init, CadInit, VALID, READY
    <3>3. Init => /\ formula \subseteq SUBSET Lit
                  /\ original \subseteq Lit
                  /\ assumptions \subseteq Lit
                  /\ constraint \subseteq Lit \cup {0}
                  /\ model \subseteq Var
                  /\ limits \subseteq BoundedLimits
      BY DEF Init, CadInit
    <3>4. Init => terminator \in BOOLEAN /\ tracer \in {"none", "open", "closed"}
      BY DEF Init, CadInit
    <3> QED
      BY <3>1, <3>2, <3>3, <3>4 DEF Init, CadInit, CadTypeOK
  <2>2. Init => HandleTypeOK
    <3>1. NewHandle \in Handle
      BY DEF NewHandle, Handle
    <3>2. NothingTold \in Told
      BY DEF NothingTold, Told
    <3>3. Init => alive \in BOOLEAN /\ aborted \in BOOLEAN
      BY DEF Init
    <3>4. Init => files \in Int
      BY DEF Init
    <3> QED
      BY <3>1, <3>2, <3>3, <3>4, IdleType DEF Init, HandleTypeOK
  <2> QED
    BY <2>1, <2>2 DEF TypeOK
<1>2. TypeOK /\ [Next]_vars => TypeOK'
  BY TypeStep
<1> QED
  BY <1>1, <1>2, PTL DEF Spec

-----------------------------------------------------------------------------
(* The cached answers. *)

\* CaDiCaL is SOLVING exactly inside a search, and every .Call that has begun
\* has invalidated the cached answers.
CallShape ==
  /\ call.op = "idle" => call = Idle
  /\ ~alive => call = Idle
  /\ alive => /\ state # "DELETING"
              /\ state = "SOLVING" <=> call.op \in {"solve", "simplify"}
  /\ call.op # "idle" => /\ handle.configuring = FALSE
                         /\ handle.last_status = 0
                         /\ handle.concludable = FALSE

CacheInv == CallShape /\ CacheSound

\* An R error out of CaDiCaL ends the .Call and keeps the cache sound.
LEMMA RaiseCache ==
  ASSUME TypeOK, CacheInv, Raise, state # "SOLVING" \/ ~alive
  PROVE  CacheInv'
BY DEF CacheInv, CallShape, CacheSound, Raise, cadVars, Idle

\* So does entering a .Call with a vector of literals.
LEMMA EnterCache ==
  ASSUME TypeOK, CacheInv, NEW op \in {"add", "constrain", "assume"}, NEW lits,
         Enter(op, lits)
  PROVE  CacheInv'
<1>1. handle.configuring' = FALSE /\ handle.last_status' = 0 /\ handle.concludable' = FALSE
  BY DEF Enter, Invalidated, TypeOK, HandleTypeOK, Handle
<1>2. alive /\ state # "SOLVING" /\ state # "DELETING" /\ UNCHANGED <<state, alive>> /\ call'.op = op
  BY DEF Enter, AtRest, CacheInv, CallShape, cadVars, Idle
<1> QED
  BY <1>1, <1>2 DEF CacheInv, CallShape, CacheSound

\* Starting a search invalidates the cache, whether or not CaDiCaL refuses.
LEMMA StartSearchCache ==
  ASSUME TypeOK, CacheInv, alive, state # "SOLVING",
         NEW h \in Handle, NEW running \in Call,
         h.configuring = FALSE, h.last_status = 0, h.concludable = FALSE,
         running.op \in {"solve", "simplify"},
         StartSearch(h, running)
  PROVE  CacheInv'
<1>1. handle.configuring' = FALSE /\ handle.last_status' = 0 /\ handle.concludable' = FALSE
  BY DEF StartSearch, Handle
<1>2. alive'
  BY DEF StartSearch
<1>3. CASE SolveBegin /\ call' = running
  BY <1>1, <1>2, <1>3 DEF SolveBegin, CacheInv, CallShape, CacheSound
<1>4. CASE ~SolveContract /\ call' = Idle /\ state' = state
  BY <1>1, <1>2, <1>4 DEF CacheInv, CallShape, CacheSound, Idle
<1> QED
  BY <1>3, <1>4 DEF StartSearch

\* A step inside a .Call that leaves the handle alone and moves CaDiCaL to a
\* state outside a search.
LEMMA PassOnCache ==
  ASSUME TypeOK, CacheInv, alive, call.op \in {"add", "constrain", "assume"},
         state' \in {"STEADY", "ADDING"}, UNCHANGED <<alive, handle>>,
         call' = Idle \/ call'.op = call.op
  PROVE  CacheInv'
BY DEF CacheInv, CallShape, CacheSound, Idle

\* Every step keeps the cached answers sound.
LEMMA CacheStep ==
  ASSUME TypeOK, CacheInv, [Next]_vars
  PROVE  CacheInv'
<1>1. CASE zusat_add_clause
  BY <1>1, EnterCache DEF zusat_add_clause
<1>2. CASE zusat_constrain
  BY <1>2, EnterCache DEF zusat_constrain
<1>3. CASE zusat_solve
  BY <1>3, EnterCache DEF zusat_solve
<1>4. CASE zusat_simplify
  <2>1. /\ Invalidated(handle) \in Handle
        /\ Invalidated(handle).configuring = FALSE
        /\ Invalidated(handle).last_status = 0
        /\ Invalidated(handle).concludable = FALSE
    BY DEF TypeOK, HandleTypeOK, Handle, Invalidated
  <2>2. /\ [Idle EXCEPT !.op = "simplify"] \in Call
        /\ [Idle EXCEPT !.op = "simplify"].op = "simplify"
    BY EmptySeq DEF Idle, Call
  <2>3. alive /\ state # "SOLVING"
    BY <1>4 DEF zusat_simplify, AtRest, CacheInv, CallShape, Idle
  <2> QED
    BY <1>4, <2>1, <2>2, <2>3, StartSearchCache DEF zusat_simplify
<1>5. CASE AddLiteral
  <2>1. alive /\ state # "SOLVING" /\ call.op = "add"
    BY <1>5 DEF AddLiteral, CacheInv, CallShape, Idle
  <2>2. CASE AddContract(Head(call.rest))
    <3>1. state' \in {"STEADY", "ADDING"} /\ UNCHANGED <<alive, handle>>
      BY <1>5, <2>2 DEF AddLiteral, Add
    <3>2. call'.op = call.op
      BY <1>5, <2>2 DEF AddLiteral, TypeOK, HandleTypeOK, Call
    <3> QED
      BY <2>1, <3>1, <3>2, PassOnCache
  <2>3. CASE Raise
    BY <2>1, <2>3, RaiseCache
  <2> QED
    BY <1>5, <2>2, <2>3 DEF AddLiteral
<1>6. CASE AddTerminator
  <2>1. alive /\ state # "SOLVING" /\ call.op = "add"
    BY <1>6 DEF AddTerminator, CacheInv, CallShape, Idle
  <2>2. CASE AddContract(0)
    <3>1. state' \in {"STEADY", "ADDING"} /\ UNCHANGED <<alive, handle>> /\ call' = Idle
      BY <1>6, <2>2 DEF AddTerminator, Add
    <3> QED
      BY <2>1, <3>1, PassOnCache
  <2>3. CASE Raise
    BY <2>1, <2>3, RaiseCache
  <2> QED
    BY <1>6, <2>2, <2>3 DEF AddTerminator
<1>7. CASE ConstrainLiteral
  <2>1. alive /\ state # "SOLVING" /\ call.op = "constrain"
    BY <1>7 DEF ConstrainLiteral, CacheInv, CallShape, Idle
  <2>2. CASE ConstrainContract(Head(call.rest))
    <3>1. state' \in {"STEADY", "ADDING"} /\ UNCHANGED <<alive, handle>>
      BY <1>7, <2>2 DEF ConstrainLiteral, Constrain
    <3>2. call'.op = call.op
      BY <1>7, <2>2 DEF ConstrainLiteral, TypeOK, HandleTypeOK, Call
    <3> QED
      BY <2>1, <3>1, <3>2, PassOnCache
  <2>3. CASE Raise
    BY <2>1, <2>3, RaiseCache
  <2> QED
    BY <1>7, <2>2, <2>3 DEF ConstrainLiteral
<1>8. CASE ConstrainTerminator
  <2>1. /\ alive /\ state # "SOLVING"
        /\ handle.configuring = FALSE /\ handle.last_status = 0 /\ handle.concludable = FALSE
    BY <1>8 DEF ConstrainTerminator, CacheInv, CallShape, Idle
  <2>2. CASE ConstrainContract(0)
    <3>1. state' = "STEADY" /\ alive' = alive /\ call' = Idle
      BY <1>8, <2>2 DEF ConstrainTerminator, Constrain
    <3>2. /\ handle.configuring' = FALSE
          /\ handle.last_status' = 0
          /\ handle.concludable' = FALSE
      BY <1>8, <2>1, <2>2 DEF ConstrainTerminator, TypeOK, HandleTypeOK, Handle
    <3> QED
      BY <2>1, <3>1, <3>2 DEF CacheInv, CallShape, CacheSound, Idle
  <2>3. CASE Raise
    BY <2>1, <2>3, RaiseCache
  <2> QED
    BY <1>8, <2>2, <2>3 DEF ConstrainTerminator
<1>9. CASE AssumeLiteral
  <2>1. alive /\ state # "SOLVING" /\ call.op = "assume"
    BY <1>9 DEF AssumeLiteral, CacheInv, CallShape, Idle
  <2>2. CASE AssumeContract(Head(call.rest))
    <3>1. state' \in {"STEADY", "ADDING"} /\ UNCHANGED <<alive, handle>>
      BY <1>9, <2>2 DEF AssumeLiteral, Assume
    <3>2. call'.op = call.op
      BY <1>9, <2>2 DEF AssumeLiteral, TypeOK, HandleTypeOK, Call
    <3> QED
      BY <2>1, <3>1, <3>2, PassOnCache
  <2>3. CASE Raise
    BY <2>1, <2>3, RaiseCache
  <2> QED
    BY <1>9, <2>2, <2>3 DEF AssumeLiteral
<1>10. CASE StartSolve
  <2>1. /\ [call EXCEPT !.op = "solve"] \in Call
        /\ [call EXCEPT !.op = "solve"].op = "solve"
    BY DEF TypeOK, HandleTypeOK, Call
  <2>2. /\ alive /\ state # "SOLVING"
        /\ handle.configuring = FALSE /\ handle.last_status = 0 /\ handle.concludable = FALSE
    BY <1>10 DEF StartSolve, CacheInv, CallShape, Idle
  <2>3. handle \in Handle
    BY DEF TypeOK, HandleTypeOK
  <2> QED
    BY <1>10, <2>1, <2>2, <2>3, StartSearchCache DEF StartSolve
<1>11. CASE FinishSearch
  <2>1. PICK res \in {0, 10, 20}, m \in SUBSET Var :
          /\ SolveEnd(res, m, handle.interrupted \/ call.op = "simplify")
          /\ handle' = Answered(handle, res)
    BY <1>11 DEF FinishSearch
  <2>2. alive /\ handle.configuring = FALSE /\ handle.last_status = 0 /\ handle.concludable = FALSE
    BY <1>11 DEF FinishSearch, CacheInv, CallShape, Idle
  <2>3. state' = CASE res = 10 -> "SATISFIED"
                   [] res = 20 -> "UNSATISFIED"
                   [] res = 0  -> "INCONCLUSIVE"
    BY <2>1 DEF SolveEnd
  <2>4. /\ handle.configuring' = FALSE
        /\ handle.last_status' \in {0, res}
    BY <2>1, <2>2 DEF Answered, TypeOK, HandleTypeOK, Handle
  <2>5. call' = Idle /\ alive' = alive
    BY <1>11 DEF FinishSearch
  <2> QED
    BY <2>2, <2>3, <2>4, <2>5 DEF CacheInv, CallShape, CacheSound, Idle, SOLVED
<1>12. CASE terminate_cb
  <2>1. UNCHANGED <<state, alive, call>>
    BY <1>12 DEF terminate_cb, cadVars
  <2>2. /\ handle.configuring' = handle.configuring
        /\ handle.last_status' = handle.last_status
        /\ handle.concludable' = handle.concludable
    BY <1>12 DEF terminate_cb, TypeOK, HandleTypeOK, Handle
  <2> QED
    BY <2>1, <2>2 DEF CacheInv, CallShape, CacheSound
<1>13. CASE \/ zusat_value \/ zusat_failed \/ zusat_constraint_failed
            \/ zusat_fixed \/ zusat_conclude
  <2>1. UNCHANGED <<state, alive, call, handle>>
    BY <1>13 DEF zusat_value, zusat_failed, zusat_constraint_failed, zusat_fixed,
                 zusat_conclude, ReadOnly, cadVars
  <2> QED
    BY <2>1 DEF CacheInv, CallShape, CacheSound
<1>14. CASE sat_option
  <2>1. state # "SOLVING"
    BY <1>14 DEF sat_option, AtRest, CacheInv, CallShape, Idle
  <2>2. CASE Raise
    BY <2>1, <2>2, RaiseCache
  <2>3. CASE UNCHANGED <<state, alive, call, handle>>
    BY <2>3 DEF CacheInv, CallShape, CacheSound
  <2> QED
    BY <1>14, <2>2, <2>3 DEF sat_option, Set, handleVars
<1>15. CASE zusat_limit
  <2>1. UNCHANGED <<state, alive, call, handle>>
    BY <1>15 DEF zusat_limit, Limit, handleVars
  <2> QED
    BY <2>1 DEF CacheInv, CallShape, CacheSound
<1>16. CASE zusat_reserve
  <2>1. /\ handle.configuring' = FALSE
        /\ handle.last_status' = 0
        /\ handle.concludable' = FALSE
    BY <1>16 DEF zusat_reserve, Invalidated, TypeOK, HandleTypeOK, Handle
  <2>2. state' \in {state, "STEADY"} /\ UNCHANGED <<alive, call>> /\ call = Idle /\ alive
    BY <1>16 DEF zusat_reserve, DeclareMoreVariables, AtRest, cadVars
  <2> QED
    BY <2>1, <2>2 DEF CacheInv, CallShape, CacheSound, Idle
<1>17. CASE zusat_trace_proof
  <2>1. /\ handle.configuring' = handle.configuring
        /\ handle.last_status' = handle.last_status
        /\ handle.concludable' = handle.concludable
    BY <1>17 DEF zusat_trace_proof, TypeOK, HandleTypeOK, Handle
  <2>2. UNCHANGED <<state, alive, call>>
    BY <1>17 DEF zusat_trace_proof, Trace, cadVars
  <2> QED
    BY <2>1, <2>2 DEF CacheInv, CallShape, CacheSound
<1>18. CASE zusat_close_proof
  <2>1. CASE Raise
    <3>1. state # "SOLVING"
      BY <1>18 DEF zusat_close_proof, AtRest, CacheInv, CallShape, Idle
    <3> QED
      BY <2>1, <3>1, RaiseCache
  <2>2. CASE ~CloseRaises
    <3>1. /\ handle.configuring' = handle.configuring
          /\ handle.last_status' = handle.last_status
          /\ handle.concludable' = handle.concludable
      BY <1>18, <2>2 DEF zusat_close_proof, TypeOK, HandleTypeOK, Handle
    <3>2. UNCHANGED <<state, alive, call>>
      BY <1>18, <2>2 DEF zusat_close_proof
    <3> QED
      BY <3>1, <3>2 DEF CacheInv, CallShape, CacheSound
  <2> QED
    BY <1>18, <2>1, <2>2 DEF zusat_close_proof
<1>19. CASE zusat_finalize
  <2>1. CASE Raise
    <3>1. state # "SOLVING"
      BY <1>19 DEF zusat_finalize, AtRest, CacheInv, CallShape, Idle
    <3> QED
      BY <2>1, <3>1, RaiseCache
  <2>2. CASE ~alive' /\ call' = call /\ call = Idle
    BY <2>2 DEF CacheInv, CallShape, CacheSound, Idle
  <2> QED
    BY <1>19, <2>1, <2>2 DEF zusat_finalize, AtRest
<1>20. CASE UNCHANGED vars
  BY <1>20 DEF vars, cadVars, handleVars, CacheInv, CallShape, CacheSound
<1> QED
  BY <1>1, <1>2, <1>3, <1>4, <1>5, <1>6, <1>7, <1>8, <1>9, <1>10, <1>11, <1>12,
     <1>13, <1>14, <1>15, <1>16, <1>17, <1>18, <1>19, <1>20
     DEF Next, InsideCall, Collected

\* The cache is sound together with the shape of the calls, always.
THEOREM CacheInductive == Spec => []CacheInv
<1>1. Init => CacheInv
  BY DEF Init, CadInit, NewHandle, CacheInv, CallShape, CacheSound, Idle
<1>2. TypeOK /\ CacheInv /\ [Next]_vars => CacheInv'
  BY CacheStep
<1> QED
  BY <1>1, <1>2, TypeCorrect, PTL DEF Spec

\* A guard of the handle that passes means that CaDiCaL is in the state its
\* contract asks for, for every sequence of calls, errors and interrupts.
THEOREM CacheCorrect == Spec => []CacheSound
<1>1. CacheInv => CacheSound
  BY DEF CacheInv
<1> QED
  BY <1>1, CacheInductive, PTL

-----------------------------------------------------------------------------
(* The proof file. *)

\* ProofFileOwned reads five variables; a step that keeps them, the handle up
\* to its other fields, keeps it.
LEMMA ProofFileKept ==
  ASSUME ProofFileOwned, UNCHANGED <<alive, files, tracer>>,
         handle.proof' = handle.proof, handle.proof_traced' = handle.proof_traced
  PROVE  ProofFileOwned'
BY DEF ProofFileOwned

\* The fields of the proof file survive everything but opening and closing it.
LEMMA ProofFieldsKept ==
  ASSUME NEW h \in Handle, NEW res \in {0, 10, 20}
  PROVE  /\ Invalidated(h).proof = h.proof
         /\ Invalidated(h).proof_traced = h.proof_traced
         /\ Answered(h, res).proof = h.proof
         /\ Answered(h, res).proof_traced = h.proof_traced
         /\ \A b \in BOOLEAN :
              /\ [h EXCEPT !.interrupted = b].proof = h.proof
              /\ [h EXCEPT !.interrupted = b].proof_traced = h.proof_traced
              /\ [h EXCEPT !.constraint_pending = b].proof = h.proof
              /\ [h EXCEPT !.constraint_pending = b].proof_traced = h.proof_traced
BY DEF Invalidated, Answered, Handle

\* Every step keeps the handle the only owner of the open file.
LEMMA ProofFileStep ==
  ASSUME TypeOK, ProofFileOwned, [Next]_vars
  PROVE  ProofFileOwned'
<1>h. handle \in Handle /\ handle.proof \in BOOLEAN /\ handle.proof_traced \in BOOLEAN
  BY DEF TypeOK, HandleTypeOK, Handle
<1>r. ASSUME Raise PROVE ProofFileOwned'
  BY <1>r, ProofFileKept DEF Raise, cadVars
<1>1. CASE zusat_add_clause \/ zusat_constrain \/ zusat_solve
  <2>1. UNCHANGED <<alive, files, tracer>> /\ handle' = Invalidated(handle)
    BY <1>1 DEF zusat_add_clause, zusat_constrain, zusat_solve, Enter, cadVars
  <2> QED
    BY <1>h, <2>1, ProofFieldsKept, ProofFileKept
<1>2. CASE zusat_simplify
  <2>1. /\ UNCHANGED <<alive, files, tracer>>
        /\ handle' = [Invalidated(handle) EXCEPT !.interrupted = FALSE]
    BY <1>2 DEF zusat_simplify, StartSearch, SolveBegin
  <2>2. Invalidated(handle) \in Handle
    BY <1>h DEF Handle, Invalidated
  <2> QED
    BY <1>h, <2>1, <2>2, ProofFieldsKept, ProofFileKept
<1>3. CASE AddLiteral \/ AddTerminator \/ ConstrainLiteral \/ AssumeLiteral
  <2>1. CASE Raise
    BY <2>1, <1>r
  <2>2. CASE UNCHANGED <<alive, files, tracer, handle>>
    BY <2>2, ProofFileKept
  <2> QED
    BY <1>3, <2>1, <2>2 DEF AddLiteral, AddTerminator, ConstrainLiteral, AssumeLiteral,
                            Add, Constrain, Assume
<1>4. CASE ConstrainTerminator
  <2>1. CASE Raise
    BY <2>1, <1>r
  <2>2. CASE ConstrainContract(0)
    <3>1. /\ UNCHANGED <<alive, files, tracer>>
          /\ handle' = [handle EXCEPT !.constraint_pending = TRUE]
      BY <1>4, <2>2 DEF ConstrainTerminator, Constrain
    <3> QED
      BY <1>h, <3>1, ProofFieldsKept, ProofFileKept
  <2> QED
    BY <1>4, <2>1, <2>2 DEF ConstrainTerminator
<1>5. CASE StartSolve \/ terminate_cb
  <2>1. /\ UNCHANGED <<alive, files, tracer>>
        /\ \E b \in BOOLEAN : handle' = [handle EXCEPT !.interrupted = b]
    BY <1>5 DEF StartSolve, terminate_cb, StartSearch, SolveBegin, cadVars
  <2> QED
    BY <1>h, <2>1, ProofFieldsKept, ProofFileKept
<1>6. CASE FinishSearch
  <2>1. /\ UNCHANGED <<alive, files, tracer>>
        /\ \E res \in {0, 10, 20} : handle' = Answered(handle, res)
    BY <1>6 DEF FinishSearch, SolveEnd
  <2> QED
    BY <1>h, <2>1, ProofFieldsKept, ProofFileKept
<1>7. CASE \/ zusat_value \/ zusat_failed \/ zusat_constraint_failed
           \/ zusat_fixed \/ zusat_conclude \/ zusat_limit
  <2>1. UNCHANGED <<alive, files, tracer, handle>>
    BY <1>7 DEF zusat_value, zusat_failed, zusat_constraint_failed, zusat_fixed,
                zusat_conclude, zusat_limit, Limit, ReadOnly, cadVars, handleVars
  <2> QED
    BY <2>1, ProofFileKept
<1>8. CASE sat_option
  <2>1. CASE Raise
    BY <2>1, <1>r
  <2>2. CASE UNCHANGED <<alive, files, tracer, handle>>
    BY <2>2, ProofFileKept
  <2> QED
    BY <1>8, <2>1, <2>2 DEF sat_option, Set, handleVars
<1>9. CASE zusat_reserve
  <2>1. UNCHANGED <<alive, files, tracer>> /\ handle' = Invalidated(handle)
    BY <1>9 DEF zusat_reserve, DeclareMoreVariables, cadVars
  <2> QED
    BY <1>h, <2>1, ProofFieldsKept, ProofFileKept
<1>10. CASE zusat_trace_proof
  <2>1. alive /\ handle.proof = FALSE
    BY <1>10, <1>h DEF zusat_trace_proof, AtRest
  <2>2. files = 0 /\ tracer # "open"
    BY <2>1 DEF ProofFileOwned
  <2>3. /\ alive' /\ files' = 1
        /\ handle'.proof = TRUE
        /\ handle'.proof_traced <=> TraceContract
    BY <1>10, <1>h, <2>1, <2>2 DEF zusat_trace_proof, Handle, TraceContract
  <2>4. tracer' = IF TraceContract THEN "open" ELSE tracer
    BY <1>10 DEF zusat_trace_proof, Trace, cadVars
  <2> QED
    BY <2>2, <2>3, <2>4 DEF ProofFileOwned
<1>11. CASE zusat_close_proof
  <2>1. CASE CloseRaises
    BY <1>11, <2>1, <1>r DEF zusat_close_proof
  <2>2. CASE ~CloseRaises
    <3>1. alive /\ alive' /\ handle.proof /\ files = 1
      BY <1>11, <2>2 DEF zusat_close_proof, AtRest, ProofFileOwned
    <3>2. files' = 0 /\ tracer' # "open"
      BY <1>11, <2>2, <3>1 DEF zusat_close_proof, CloseProof, ProofFileOwned
    <3>3. handle'.proof = FALSE /\ handle'.proof_traced = FALSE
      BY <1>11, <2>2, <1>h DEF zusat_close_proof, Handle
    <3> QED
      BY <3>1, <3>2, <3>3 DEF ProofFileOwned
  <2> QED
    BY <2>1, <2>2
<1>12. CASE zusat_finalize
  <2>1. CASE handle.proof /\ CloseRaises
    BY <1>12, <2>1, <1>r DEF zusat_finalize
  <2>2. CASE ~(handle.proof /\ CloseRaises)
    <3>1. alive /\ ~alive'
      BY <1>12, <2>2 DEF zusat_finalize, AtRest
    <3>2. files' = 0 /\ tracer' # "open"
      BY <1>12, <2>2, <3>1 DEF zusat_finalize, CloseProof, ProofFileOwned
    <3> QED
      BY <3>1, <3>2 DEF ProofFileOwned
  <2> QED
    BY <2>1, <2>2
<1>13. CASE UNCHANGED vars
  BY <1>13, ProofFileKept DEF vars, cadVars, handleVars
<1> QED
  BY <1>1, <1>2, <1>3, <1>4, <1>5, <1>6, <1>7, <1>8, <1>9, <1>10, <1>11, <1>12, <1>13
     DEF Next, InsideCall, Collected

\* No proof file leaks or is closed under CaDiCaL's feet, whatever raised in
\* between (zusat_trace_proof, zusat_close_proof, zusat_finalize).
THEOREM ProofFileCorrect == Spec => []ProofFileOwned
<1>1. Init => ProofFileOwned
  BY DEF Init, CadInit, NewHandle, ProofFileOwned
<1>2. TypeOK /\ ProofFileOwned /\ [Next]_vars => ProofFileOwned'
  BY ProofFileStep
<1> QED
  BY <1>1, <1>2, TypeCorrect, PTL DEF Spec

-----------------------------------------------------------------------------
(***************************************************************************)
(* With plain options CaDiCaL never raises, the solver holds what the      *)
(* caller was told it holds, and every answer is one to the question the   *)
(* caller asked.                                                           *)
(*                                                                         *)
(* The invariants follow a vector of literals through the .Call that       *)
(* passes it on: what CaDiCaL has received and what is still to come make  *)
(* up the vector.  They need Unwritten because the options may become      *)
(* plain only later, as long as nothing but options has been set.          *)
(***************************************************************************)

(* The inductive invariant. *)

\* While the handle says that it is still being configured, nothing has
\* happened.
Unwritten ==
  alive /\ handle.configuring =>
    /\ aborted = FALSE
    /\ ervars = {}
    /\ formula = {} /\ original = {} /\ told.clauses = {}
    /\ constraint = {} /\ told.constraint = {} /\ handle.constraint_pending = FALSE
    /\ assumptions = {}

NeverRaised ==
  PlainOptions => /\ aborted = FALSE
                  /\ ervars = {}
                  /\ state = "ADDING" => call.op \in {"add", "constrain"}

FormulaTracked ==
  PlainOptions =>
    /\ formula = told.clauses
    /\ call.op = "add" => original \cup Elements(call.rest) = Elements(call.lits)
    /\ call.op # "add" => original = {}

\* A terminated constraint counts for nothing when the next one begins.
Open(cons) == IF 0 \in cons THEN {} ELSE cons

ConstraintTracked ==
  alive /\ PlainOptions =>
    /\ told.constraint # {} => 0 \in told.constraint
    /\ handle.constraint_pending <=> told.constraint # {}
    /\ call.op = "constrain" =>
         Open(ConstraintKept) \cup Elements(call.rest) = Elements(call.lits)
    /\ call.op # "constrain" => ConstraintKept = told.constraint

AssumptionsTracked ==
  alive /\ PlainOptions =>
    /\ call.op = "assume" =>
         AssumptionsKept \cup Elements(call.rest) = Elements(call.lits)
    /\ call.op \in {"solve", "simplify"} => AssumptionsKept = Elements(call.lits)
    /\ call.op \in {"idle", "add", "constrain"} => AssumptionsKept = {}

\* What the steps below rest on.
Base == TypeOK /\ CacheInv /\ ProofFileOwned /\ Unwritten /\ NeverRaised

-----------------------------------------------------------------------------
(* No REQUIRE of CaDiCaL fails. *)

\* Only sat_option changes an option, and only before anything else.
LEMMA OptionsStep ==
  ASSUME [Next]_vars, ~sat_option
  PROVE  opts' = opts
BY DEF Next, InsideCall, vars, cadVars, handleVars, zusat_add_clause, zusat_constrain,
       zusat_solve, zusat_simplify, Enter, StartSearch, SolveBegin, AddLiteral,
       AddTerminator, ConstrainLiteral, ConstrainTerminator, AssumeLiteral, StartSolve,
       FinishSearch, SolveEnd, Add, Constrain, Assume, Raise, terminate_cb, zusat_value,
       zusat_failed, zusat_constraint_failed, zusat_fixed, zusat_conclude, ReadOnly,
       zusat_limit, Limit, zusat_reserve, DeclareMoreVariables, zusat_trace_proof, Trace,
       zusat_close_proof, zusat_finalize, Collected

\* sat_option sets the option it was asked to set, on an unwritten solver.
LEMMA OptionStep ==
  ASSUME Base, sat_option
  PROVE  /\ alive /\ handle.configuring /\ call = Idle /\ state = "CONFIGURING"
         /\ UNCHANGED <<state, max_var, ervars, formula, original, assumptions,
                        constraint, model, limits, terminator, tracer>>
         /\ UNCHANGED <<handle, alive, call, files, aborted, told>>
<1>1. alive /\ handle.configuring /\ call = Idle
  BY DEF sat_option, AtRest
<1>2. SetContract
  BY <1>1 DEF Base, CacheInv, CacheSound, SetContract
<1> QED
  BY <1>1, <1>2 DEF sat_option, Set, SetContract, handleVars

\* Outside a search CaDiCaL accepts every call the handle lets through, if
\* there are no extension variables and no undeclared variable is refused.
LEMMA Contracts ==
  ASSUME Base, PlainOptions \/ handle.configuring, alive,
         call.op \notin {"solve", "simplify"}
  PROVE  /\ state \in VALID
         /\ PlainOptions => \A lit \in Lit \cup {0} : AddContract(lit)
         /\ \A lit \in Lit \cup {0} : ConstrainContract(lit)
         /\ \A lit \in Lit : AssumeContract(lit) /\ FixedContract(lit)
         /\ call.op \notin {"add", "constrain"} => SolveContract
         /\ ~CloseRaises
<1>1. ervars = {}
  BY DEF Base, Unwritten, NeverRaised
<1>2. state \in VALID
  BY DEF Base, TypeOK, CadTypeOK, CacheInv, CallShape
<1>3. PlainOptions => ~DeclaredOnly
  BY DEF PlainOptions, DeclaredOnly, Base, TypeOK, CadTypeOK, OptionRange
<1>4. call.op \notin {"add", "constrain"} => state # "ADDING"
  BY DEF Base, NeverRaised, CacheInv, CacheSound
<1>5. ~CloseRaises
  BY <1>2 DEF CloseRaises, CloseTraceContract, Base, ProofFileOwned
<1> QED
  BY <1>1, <1>2, <1>3, <1>4, <1>5
     DEF ValidLit, AddContract, ConstrainContract, AssumeContract, FixedContract,
         SolveContract, VALID

\* The next literal of the vector that is being passed on.
LEMMA NextLiteral ==
  ASSUME TypeOK, call.rest # <<>>
  PROVE  /\ Head(call.rest) \in Lit
         /\ Elements(call.rest) = {Head(call.rest)} \cup Elements(Tail(call.rest))
         /\ [call EXCEPT !.rest = Tail(@)].op = call.op
         /\ [call EXCEPT !.rest = Tail(@)].lits = call.lits
         /\ [call EXCEPT !.rest = Tail(@)].rest = Tail(call.rest)
<1>1. call \in Call /\ call.rest \in Seq(Lit)
  BY DEF TypeOK, HandleTypeOK, Call
<1>2. /\ Head(call.rest) \in Lit
      /\ Elements(call.rest) = {Head(call.rest)} \cup Elements(Tail(call.rest))
  BY <1>1, ElementsHeadTail
<1>3. /\ [call EXCEPT !.rest = Tail(@)].op = call.op
      /\ [call EXCEPT !.rest = Tail(@)].lits = call.lits
      /\ [call EXCEPT !.rest = Tail(@)].rest = Tail(call.rest)
  BY <1>1 DEF Call
<1> QED
  BY <1>2, <1>3

\* Reading a result breaks no contract either.
LEMMA ReadsStep ==
  ASSUME Base, PlainOptions \/ handle.configuring,
         \/ zusat_value \/ zusat_failed \/ zusat_constraint_failed
         \/ zusat_fixed \/ zusat_conclude
  PROVE  aborted' = aborted /\ UNCHANGED <<cadVars, handle, alive, call, files, told>>
<1>0. AtRest
  BY DEF zusat_value, zusat_failed, zusat_constraint_failed, zusat_fixed, zusat_conclude
<1>1. alive /\ call.op = "idle"
  BY <1>0 DEF AtRest, Idle
<1>2. ervars = {} /\ aborted \in BOOLEAN
  BY <1>1 DEF Base, Unwritten, NeverRaised, TypeOK, HandleTypeOK
<1>3. CASE zusat_value
  <2>1. \A v \in 1..max_var : ValContract(v)
    BY <1>1, <1>2, <1>3 DEF zusat_value, Base, CacheInv, CacheSound, ValContract, ValidLit
  <2> QED
    BY <1>2, <1>3, <2>1 DEF zusat_value, ReadOnly
<1>4. CASE zusat_failed
  <2>1. \A lit : FailedContract(lit)
    BY <1>1, <1>2, <1>4 DEF zusat_failed, Base, CacheInv, CacheSound, FailedContract, ValidLit
  <2> QED
    BY <1>2, <1>4, <2>1 DEF zusat_failed, ReadOnly
<1>5. CASE zusat_constraint_failed
  <2>1. ConstraintFailedContract
    BY <1>1, <1>5 DEF zusat_constraint_failed, Base, CacheInv, CacheSound,
                      ConstraintFailedContract
  <2> QED
    BY <1>2, <1>5, <2>1 DEF zusat_constraint_failed, ReadOnly
<1>6. CASE zusat_fixed
  <2>1. \A lit \in Lit : FixedContract(lit)
    BY <1>1, Contracts
  <2>2. PICK lits \in ClauseInputs :
          CheckLits(lits) /\ ReadOnly(\A i \in DOMAIN lits : FixedContract(lits[i]))
    BY <1>6 DEF zusat_fixed
  <2>3. \A i \in DOMAIN lits : FixedContract(lits[i])
    BY <2>1, <2>2 DEF CheckLits
  <2> QED
    BY <1>2, <2>2, <2>3 DEF ReadOnly
<1>7. CASE zusat_conclude
  <2>1. ConcludeContract
    BY <1>1, <1>7 DEF zusat_conclude, Base, CacheInv, CacheSound, ConcludeContract
  <2> QED
    BY <1>2, <1>7, <2>1 DEF zusat_conclude, ReadOnly
<1> QED
  BY <1>3, <1>4, <1>5, <1>6, <1>7

\* Every .Call that has begun, and every one that changes CaDiCaL, is past
\* the configuration.
LEMMA ConfiguringStep ==
  ASSUME Base, [Next]_vars, alive', handle.configuring'
  PROVE  /\ alive /\ handle.configuring
         /\ \/ zusat_value \/ zusat_failed \/ zusat_constraint_failed
            \/ zusat_fixed \/ zusat_conclude
            \/ sat_option \/ zusat_limit \/ zusat_trace_proof \/ zusat_close_proof
            \/ zusat_finalize /\ Raise
            \/ UNCHANGED vars
<1>h. handle \in Handle
  BY DEF Base, TypeOK, HandleTypeOK
<1>1. Invalidated(handle).configuring = FALSE
  BY <1>h DEF Invalidated, Handle
<1>2. ~(zusat_add_clause \/ zusat_constrain \/ zusat_solve)
  BY <1>1 DEF zusat_add_clause, zusat_constrain, zusat_solve, Enter
<1>3. ~zusat_simplify
  <2>1. Invalidated(handle) \in Handle
    BY <1>h DEF Invalidated, Handle
  <2>2. [Invalidated(handle) EXCEPT !.interrupted = FALSE].configuring = FALSE
    BY <1>1, <2>1 DEF Handle
  <2> QED
    BY <2>2 DEF zusat_simplify, StartSearch
<1>4. ~zusat_reserve
  BY <1>1 DEF zusat_reserve
<1>5. ASSUME call.op # "idle"
      PROVE  /\ handle.configuring = FALSE
             /\ [handle EXCEPT !.constraint_pending = TRUE].configuring = FALSE
             /\ \A b \in BOOLEAN : [handle EXCEPT !.interrupted = b].configuring = FALSE
             /\ \A res \in {0, 10, 20} : Answered(handle, res).configuring = FALSE
  BY <1>5, <1>h DEF Base, CacheInv, CallShape, Handle, Answered
<1>6. ~(AddLiteral \/ AddTerminator \/ ConstrainLiteral \/ AssumeLiteral)
  BY <1>5 DEF AddLiteral, AddTerminator, ConstrainLiteral, AssumeLiteral, Raise
<1>7. ~ConstrainTerminator
  BY <1>5 DEF ConstrainTerminator, Raise
<1>8. ~StartSolve
  BY <1>5 DEF StartSolve, StartSearch
<1>9. ~FinishSearch
  BY <1>5 DEF FinishSearch
<1>10. ~terminate_cb
  <2>1. SUFFICES ASSUME terminate_cb PROVE FALSE
    OBVIOUS
  <2>2. alive /\ call.op # "idle"
    BY <2>1 DEF terminate_cb, Base, CacheInv, CallShape
  <2> QED
    BY <1>5, <2>1, <2>2 DEF terminate_cb
<1>11. zusat_finalize => Raise
  BY DEF zusat_finalize
<1>12. \/ zusat_value \/ zusat_failed \/ zusat_constraint_failed
       \/ zusat_fixed \/ zusat_conclude
       \/ sat_option \/ zusat_limit \/ zusat_trace_proof \/ zusat_close_proof
       \/ zusat_finalize /\ Raise
       \/ UNCHANGED vars
  BY <1>2, <1>3, <1>4, <1>6, <1>7, <1>8, <1>9, <1>10, <1>11
     DEF Next, InsideCall, Collected
<1>13. CASE \/ zusat_value \/ zusat_failed \/ zusat_constraint_failed
            \/ zusat_fixed \/ zusat_conclude
  BY <1>12, <1>13 DEF zusat_value, zusat_failed, zusat_constraint_failed, zusat_fixed,
                      zusat_conclude, ReadOnly
<1>14. CASE sat_option \/ zusat_limit
  BY <1>12, <1>14 DEF sat_option, zusat_limit, handleVars, Raise
<1>15. CASE zusat_trace_proof
  BY <1>12, <1>15 DEF zusat_trace_proof, AtRest
<1>16. CASE zusat_close_proof
  <2>1. CASE Raise
    BY <1>12, <2>1 DEF Raise
  <2>2. CASE handle' = [handle EXCEPT !.proof = FALSE, !.proof_traced = FALSE]
    BY <1>h, <1>12, <1>16, <2>2 DEF zusat_close_proof, Handle, AtRest
  <2> QED
    BY <1>16, <2>1, <2>2 DEF zusat_close_proof
<1>17. CASE zusat_finalize /\ Raise
  BY <1>12, <1>17 DEF Raise
<1>18. CASE UNCHANGED vars
  BY <1>12, <1>18 DEF vars, handleVars
<1> QED
  BY <1>12, <1>13, <1>14, <1>15, <1>16, <1>17, <1>18

\* Configuring an unwritten solver leaves it unwritten.
LEMMA UnwrittenStep ==
  ASSUME Base, [Next]_vars
  PROVE  Unwritten'
<1>1. SUFFICES ASSUME alive', handle.configuring'
               PROVE  /\ aborted' = FALSE
                      /\ UNCHANGED <<ervars, formula, original, constraint, assumptions, told>>
                      /\ handle.constraint_pending' = handle.constraint_pending
  <2>1. ASSUME alive', handle.configuring' PROVE alive /\ handle.configuring
    BY <2>1, ConfiguringStep
  <2> QED
    BY <2>1 DEF Base, Unwritten
<1>2. alive /\ handle.configuring /\ aborted = FALSE
  BY <1>1, ConfiguringStep DEF Base, Unwritten
<1>3. call = Idle /\ state = "CONFIGURING"
  BY <1>2 DEF Base, CacheInv, CallShape, CacheSound, TypeOK, HandleTypeOK, Call
<1>4. ~CloseRaises
  BY <1>2, <1>3, Contracts DEF Idle
<1>5. CASE \/ zusat_value \/ zusat_failed \/ zusat_constraint_failed
           \/ zusat_fixed \/ zusat_conclude
  BY <1>2, <1>5, ReadsStep DEF cadVars
<1>6. CASE sat_option
  BY <1>2, <1>6, OptionStep
<1>7. CASE zusat_limit
  BY <1>2, <1>7 DEF zusat_limit, Limit, handleVars
<1>8. CASE zusat_trace_proof
  <2>1. Trace /\ aborted' = aborted /\ told' = told
    BY <1>3, <1>8 DEF zusat_trace_proof, TraceContract
  <2>2. handle.constraint_pending' = handle.constraint_pending
    BY <1>8 DEF zusat_trace_proof, Base, TypeOK, HandleTypeOK, Handle
  <2> QED
    BY <1>2, <2>1, <2>2 DEF Trace
<1>9. CASE zusat_close_proof
  <2>1. handle.constraint_pending' = handle.constraint_pending
    BY <1>4, <1>9 DEF zusat_close_proof, Base, TypeOK, HandleTypeOK, Handle
  <2> QED
    BY <1>2, <1>4, <1>9, <2>1 DEF zusat_close_proof
<1>10. ~(zusat_finalize /\ Raise)
  BY <1>1, <1>4 DEF zusat_finalize
<1>11. CASE UNCHANGED vars
  BY <1>2, <1>11 DEF vars, cadVars, handleVars
<1> QED
  BY <1>1, <1>5, <1>6, <1>7, <1>8, <1>9, <1>10, <1>11, ConfiguringStep

\* No call of CaDiCaL is refused, and it is ADDING only inside a .Call.
LEMMA NeverRaisedStep ==
  ASSUME Base, [Next]_vars
  PROVE  NeverRaised'
<1>1. CASE sat_option
  BY <1>1, OptionStep DEF Base, Unwritten, NeverRaised
<1>2. SUFFICES ASSUME ~sat_option, PlainOptions
               PROVE  /\ aborted' = FALSE
                      /\ ervars' = {}
                      /\ state' = "ADDING" => call'.op \in {"add", "constrain"}
  BY <1>1, OptionsStep DEF NeverRaised, PlainOptions
<1>3. /\ aborted = FALSE
      /\ ervars = {}
      /\ state = "ADDING" => call.op \in {"add", "constrain"}
  BY <1>2 DEF Base, NeverRaised
<1>4. CASE zusat_add_clause \/ zusat_constrain \/ zusat_solve
  <2>1. UNCHANGED <<state, ervars, aborted>> /\ call = Idle
    BY <1>4 DEF zusat_add_clause, zusat_constrain, zusat_solve, Enter, AtRest, cadVars
  <2> QED
    BY <1>3, <2>1 DEF Idle
<1>5. CASE zusat_simplify
  <2>1. SolveContract
    BY <1>2, <1>5, Contracts DEF zusat_simplify, AtRest, Idle
  <2> QED
    BY <1>3, <1>5, <2>1 DEF zusat_simplify, StartSearch, SolveBegin
<1>6. CASE AddLiteral
  <2>1. /\ alive /\ call.op = "add"
        /\ Head(call.rest) \in Lit
        /\ [call EXCEPT !.rest = Tail(@)].op = call.op
    BY <1>6, NextLiteral DEF AddLiteral, Base, CacheInv, CallShape, Idle
  <2>2. AddContract(Head(call.rest))
    BY <1>2, <2>1, Contracts
  <2> QED
    BY <1>3, <1>6, <2>1, <2>2 DEF AddLiteral, Add
<1>7. CASE AddTerminator
  <2>1. alive /\ call.op = "add"
    BY <1>7 DEF AddTerminator, Base, CacheInv, CallShape, Idle
  <2>2. AddContract(0)
    BY <1>2, <2>1, Contracts
  <2> QED
    BY <1>3, <1>7, <2>2 DEF AddTerminator, Add
<1>8. CASE ConstrainLiteral
  <2>1. /\ alive /\ call.op = "constrain"
        /\ Head(call.rest) \in Lit
        /\ [call EXCEPT !.rest = Tail(@)].op = call.op
    BY <1>8, NextLiteral DEF ConstrainLiteral, Base, CacheInv, CallShape, Idle
  <2>2. ConstrainContract(Head(call.rest))
    BY <1>2, <2>1, Contracts
  <2> QED
    BY <1>3, <1>8, <2>1, <2>2 DEF ConstrainLiteral, Constrain
<1>9. CASE ConstrainTerminator
  <2>1. alive /\ call.op = "constrain"
    BY <1>9 DEF ConstrainTerminator, Base, CacheInv, CallShape, Idle
  <2>2. ConstrainContract(0)
    BY <1>2, <2>1, Contracts
  <2> QED
    BY <1>3, <1>9, <2>2 DEF ConstrainTerminator, Constrain
<1>10. CASE AssumeLiteral
  <2>1. alive /\ call.op = "assume" /\ Head(call.rest) \in Lit
    BY <1>10, NextLiteral DEF AssumeLiteral, Base, CacheInv, CallShape, Idle
  <2>2. AssumeContract(Head(call.rest))
    BY <1>2, <2>1, Contracts
  <2> QED
    BY <1>3, <1>10, <2>2 DEF AssumeLiteral, Assume
<1>11. CASE StartSolve
  <2>1. alive /\ call.op = "assume"
    BY <1>11 DEF StartSolve, Base, CacheInv, CallShape, Idle
  <2>2. SolveContract
    BY <1>2, <2>1, Contracts
  <2> QED
    BY <1>3, <1>11, <2>2 DEF StartSolve, StartSearch, SolveBegin
<1>12. CASE FinishSearch
  <2>1. PICK res \in {0, 10, 20}, m \in SUBSET Var :
          SolveEnd(res, m, handle.interrupted \/ call.op = "simplify")
    BY <1>12 DEF FinishSearch
  <2>2. PICK n \in max_var .. (IF opts.factor = 1 THEN MaxVar ELSE max_var) :
          ervars' = ervars \cup (max_var + 1)..n
    BY <2>1 DEF SolveEnd
  <2>3. ervars' = {}
    BY <1>2, <1>3, <2>2, MaxVarAssumption DEF PlainOptions, Base, TypeOK, CadTypeOK
  <2>4. state' # "ADDING"
    BY <2>1 DEF SolveEnd
  <2>5. aborted' = aborted
    BY <1>12 DEF FinishSearch
  <2> QED
    BY <1>3, <2>3, <2>4, <2>5
<1>13. CASE terminate_cb
  BY <1>3, <1>13 DEF terminate_cb, cadVars
<1>14. CASE \/ zusat_value \/ zusat_failed \/ zusat_constraint_failed
            \/ zusat_fixed \/ zusat_conclude
  BY <1>2, <1>3, <1>14, ReadsStep DEF cadVars
<1>15. CASE zusat_limit
  BY <1>3, <1>15 DEF zusat_limit, Limit, handleVars
<1>16. CASE zusat_reserve
  <2>1. state \in VALID
    BY <1>2, <1>16, Contracts DEF zusat_reserve, AtRest, Idle
  <2> QED
    BY <1>3, <1>16, <2>1 DEF zusat_reserve, DeclareContract, DeclareMoreVariables
<1>17. CASE zusat_trace_proof
  <2>1. TraceContract
    BY <1>17 DEF zusat_trace_proof, AtRest, Base, CacheInv, CacheSound, TraceContract
  <2> QED
    BY <1>3, <1>17, <2>1 DEF zusat_trace_proof, Trace
<1>18. CASE zusat_close_proof
  <2>1. ~CloseRaises
    BY <1>2, <1>18, Contracts DEF zusat_close_proof, AtRest, Idle
  <2> QED
    BY <1>3, <1>18, <2>1 DEF zusat_close_proof
<1>19. CASE zusat_finalize
  <2>1. ~CloseRaises
    BY <1>2, <1>19, Contracts DEF zusat_finalize, AtRest, Idle
  <2> QED
    BY <1>3, <1>19, <2>1 DEF zusat_finalize
<1>20. CASE UNCHANGED vars
  BY <1>3, <1>20 DEF vars, cadVars, handleVars
<1> QED
  BY <1>2, <1>4, <1>5, <1>6, <1>7, <1>8, <1>9, <1>10, <1>11, <1>12, <1>13, <1>14,
     <1>15, <1>16, <1>17, <1>18, <1>19, <1>20
     DEF Next, InsideCall, Collected

\* What the steps rest on is inductive.
THEOREM BaseInductive == Spec => []Base
<1>1. Init => Unwritten /\ NeverRaised
  BY DEF Init, CadInit, NewHandle, NothingTold, Unwritten, NeverRaised
<1>2. TypeOK /\ CacheInv /\ ProofFileOwned /\ Unwritten /\ NeverRaised /\ [Next]_vars
        => Unwritten' /\ NeverRaised'
  BY UnwrittenStep, NeverRaisedStep DEF Base
<1>3. TypeOK /\ CacheInv /\ ProofFileOwned /\ Unwritten /\ NeverRaised <=> Base
  BY DEF Base
<1> QED
  BY <1>1, <1>2, <1>3, TypeCorrect, CacheInductive, ProofFileCorrect, PTL DEF Spec

\* With plain options no sequence of calls, errors and interrupts makes
\* CaDiCaL abort (the REQUIREs of solver.cpp).
THEOREM ContractsKept == Spec => []NoContractViolation
<1>1. Base => NoContractViolation
  BY DEF Base, NeverRaised, NoContractViolation
<1> QED
  BY <1>1, BaseInductive, PTL

-----------------------------------------------------------------------------
(* The formula. *)

\* A step that is not one of zusat_add_clause leaves clauses alone.
LEMMA FormulaKept ==
  ASSUME FormulaTracked, UNCHANGED <<opts, formula, original>>,
         told'.clauses = told.clauses,
         call' = call \/ (call.op # "add" /\ call'.op # "add")
  PROVE  FormulaTracked'
BY DEF FormulaTracked, PlainOptions

\* Every step keeps the formula equal to what the caller was told.
LEMMA FormulaStep ==
  ASSUME Base, FormulaTracked, [Next]_vars
  PROVE  FormulaTracked'
<1>t. told \in Told /\ call \in Call
  BY DEF Base, TypeOK, HandleTypeOK
<1>1. CASE sat_option
  <2>1. formula' = {} /\ told'.clauses = {} /\ original' = {}
    BY <1>1, OptionStep DEF Base, Unwritten
  <2>2. call'.op = "idle"
    BY <1>1, OptionStep DEF Idle
  <2> QED
    BY <2>1, <2>2 DEF FormulaTracked
<1>2. SUFFICES ASSUME ~sat_option, PlainOptions, aborted' = FALSE, opts' = opts
               PROVE  FormulaTracked'
  <2>1. ASSUME ~sat_option, PlainOptions' PROVE PlainOptions /\ aborted' = FALSE /\ opts' = opts
    BY <2>1, OptionsStep, NeverRaisedStep DEF PlainOptions, NeverRaised
  <2> QED
    BY <1>1, <2>1 DEF FormulaTracked
<1>3. /\ formula = told.clauses
      /\ call.op = "add" => original \cup Elements(call.rest) = Elements(call.lits)
      /\ call.op # "add" => original = {}
  BY <1>2 DEF FormulaTracked
<1>4. CASE zusat_add_clause
  <2>1. PICK lits \in ClauseInputs : Enter("add", lits)
    BY <1>4 DEF zusat_add_clause
  <2>2. /\ call.op = "idle" /\ call'.op = "add" /\ call'.lits = lits /\ call'.rest = lits
        /\ UNCHANGED <<formula, original, told>>
    BY <2>1 DEF Enter, AtRest, Idle, cadVars
  <2>3. original' \cup Elements(call'.rest) = Elements(call'.lits)
    BY <1>3, <2>2
  <2> QED
    BY <1>3, <2>2, <2>3 DEF FormulaTracked
<1>5. CASE zusat_constrain \/ zusat_solve
  <2>1. /\ call.op # "add" /\ call'.op # "add"
        /\ UNCHANGED <<formula, original, told>>
    BY <1>5 DEF zusat_constrain, zusat_solve, Enter, AtRest, Idle, cadVars
  <2> QED
    BY <1>2, <2>1, FormulaKept
<1>6. CASE zusat_simplify
  <2>1. /\ call.op # "add" /\ call'.op # "add"
        /\ UNCHANGED <<formula, original, told>>
    BY <1>6 DEF zusat_simplify, StartSearch, SolveBegin, AtRest, Idle
  <2> QED
    BY <1>2, <2>1, FormulaKept
<1>7. CASE AddLiteral
  <2>1. /\ call.op = "add"
        /\ original' = original \cup {Head(call.rest)}
        /\ UNCHANGED <<formula, told>>
        /\ call' = [call EXCEPT !.rest = Tail(@)]
    BY <1>2, <1>7, NextLiteral, LiteralFacts DEF AddLiteral, Add, Raise, Base
  <2>2. /\ Elements(call.rest) = {Head(call.rest)} \cup Elements(Tail(call.rest))
        /\ call'.op = "add" /\ call'.lits = call.lits /\ call'.rest = Tail(call.rest)
    BY <1>7, <2>1, NextLiteral DEF AddLiteral, Base
  <2>3. original' \cup Elements(call'.rest) = Elements(call'.lits)
    BY <1>3, <2>1, <2>2
  <2> QED
    BY <1>3, <2>1, <2>2, <2>3 DEF FormulaTracked
<1>8. CASE AddTerminator
  <2>1. /\ call.op = "add" /\ call.rest = <<>>
        /\ original' = {}
        /\ formula' = formula \cup {original}
        /\ told' = [told EXCEPT !.clauses = @ \cup {Elements(call.lits)}]
        /\ call' = Idle
    BY <1>2, <1>8 DEF AddTerminator, Add, Raise
  <2>2. original = Elements(call.lits)
    BY <1>3, <2>1, ElementsFacts
  <2>3. told'.clauses = told.clauses \cup {Elements(call.lits)}
    BY <1>t, <2>1 DEF Told
  <2> QED
    BY <1>3, <2>1, <2>2, <2>3 DEF FormulaTracked, Idle
<1>9. CASE ConstrainLiteral \/ AssumeLiteral
  <2>1. /\ call.rest # <<>>
        /\ call.op # "add"
        /\ call' = [call EXCEPT !.rest = Tail(@)]
        /\ UNCHANGED <<formula, original, told>>
    BY <1>2, <1>9 DEF ConstrainLiteral, AssumeLiteral, Constrain, Assume, Raise
  <2>2. call'.op # "add"
    BY <2>1, NextLiteral DEF Base
  <2> QED
    BY <1>2, <2>1, <2>2, FormulaKept
<1>10. CASE ConstrainTerminator
  <2>1. /\ call.op # "add" /\ call' = Idle
        /\ UNCHANGED <<formula, original>>
        /\ told' = [told EXCEPT !.constraint = Terminated(call.lits),
                                !.unsolved = Terminated(call.lits)]
    BY <1>2, <1>10 DEF ConstrainTerminator, Constrain, Raise
  <2>2. told'.clauses = told.clauses
    BY <1>t, <2>1 DEF Told
  <2> QED
    BY <1>2, <2>1, <2>2, FormulaKept DEF Idle
<1>11. CASE StartSolve
  <2>1. /\ call.op # "add"
        /\ call' = [call EXCEPT !.op = "solve"]
        /\ UNCHANGED <<formula, original, told>>
    BY <1>2, <1>11 DEF StartSolve, StartSearch, SolveBegin
  <2>2. call'.op = "solve"
    BY <1>t, <2>1 DEF Call
  <2> QED
    BY <1>2, <2>1, <2>2, FormulaKept
<1>12. CASE FinishSearch
  <2>1. /\ call.op # "add" /\ call' = Idle
        /\ UNCHANGED <<formula, original>>
        /\ told' = ToldBySearch
    BY <1>12 DEF FinishSearch, SolveEnd
  <2>2. told'.clauses = told.clauses
    BY <1>t, <2>1 DEF ToldBySearch, Told
  <2> QED
    BY <1>2, <2>1, <2>2, FormulaKept DEF Idle
<1>13. CASE \/ terminate_cb \/ zusat_value \/ zusat_failed \/ zusat_constraint_failed
            \/ zusat_fixed \/ zusat_conclude \/ zusat_limit \/ zusat_reserve
            \/ zusat_trace_proof \/ zusat_close_proof \/ zusat_finalize
  <2>1. UNCHANGED <<formula, original, told, call>>
    BY <1>2, <1>13
       DEF terminate_cb, zusat_value, zusat_failed, zusat_constraint_failed, zusat_fixed,
           zusat_conclude, ReadOnly, zusat_limit, Limit, zusat_reserve,
           DeclareMoreVariables, zusat_trace_proof, Trace, zusat_close_proof,
           zusat_finalize, Raise, cadVars, handleVars
  <2> QED
    BY <1>2, <2>1, FormulaKept
<1>14. CASE UNCHANGED vars
  BY <1>14, FormulaKept DEF vars, cadVars, handleVars
<1> QED
  BY <1>2, <1>4, <1>5, <1>6, <1>7, <1>8, <1>9, <1>10, <1>11, <1>12, <1>13, <1>14
     DEF Next, InsideCall, Collected

\* Between calls the solver holds exactly the clauses of the zusat_add_clause
\* calls that returned, with plain options.
THEOREM FormulaCorrect == Spec => []FormulaIsTold
<1>1. Init => FormulaTracked
  BY DEF Init, CadInit, NothingTold, FormulaTracked, Idle
<1>2. Base /\ FormulaTracked /\ [Next]_vars => FormulaTracked'
  BY FormulaStep
<1>3. FormulaTracked => FormulaIsTold
  BY DEF FormulaTracked, FormulaIsTold, AtRest, Idle
<1> QED
  BY <1>1, <1>2, <1>3, BaseInductive, PTL DEF Spec

-----------------------------------------------------------------------------
(* The query of a solve: its constraint and its assumptions. *)

\* A step outside a search that reaches CaDiCaL keeps what is pending, and
\* forgets what the last search used.
LEMMA KeptAgain ==
  ASSUME state' \notin SOLVED
  PROVE  /\ constraint' = ConstraintKept => ConstraintKept' = ConstraintKept
         /\ assumptions' = AssumptionsKept => AssumptionsKept' = AssumptionsKept
BY DEF ConstraintKept, AssumptionsKept

\* So does one that does not reach it.
LEMMA KeptUnchanged ==
  ASSUME UNCHANGED <<state, constraint, assumptions>>
  PROVE  ConstraintKept' = ConstraintKept /\ AssumptionsKept' = AssumptionsKept
BY DEF ConstraintKept, AssumptionsKept

\* The constraint_pending field survives everything but a constrain and a search.
LEMMA PendingFieldKept ==
  ASSUME NEW h \in Handle
  PROVE  /\ Invalidated(h).constraint_pending = h.constraint_pending
         /\ \A b \in BOOLEAN :
              [h EXCEPT !.interrupted = b].constraint_pending = h.constraint_pending
         /\ [Invalidated(h) EXCEPT !.interrupted = FALSE].constraint_pending
              = h.constraint_pending
         /\ \A b \in BOOLEAN :
              [h EXCEPT !.proof = TRUE, !.proof_traced = b].constraint_pending
                = h.constraint_pending
         /\ [h EXCEPT !.proof = FALSE, !.proof_traced = FALSE].constraint_pending
              = h.constraint_pending
BY DEF Invalidated, Handle

\* What every step but those of a constrain, an assume and a search does with
\* the query: nothing.
LEMMA QueryKept ==
  ASSUME Base, PlainOptions, [Next]_vars, alive', aborted' = FALSE,
         \/ zusat_add_clause \/ AddLiteral \/ AddTerminator
         \/ terminate_cb \/ zusat_value \/ zusat_failed \/ zusat_constraint_failed
         \/ zusat_fixed \/ zusat_conclude \/ zusat_limit \/ zusat_reserve
         \/ zusat_trace_proof \/ zusat_close_proof \/ zusat_finalize
         \/ UNCHANGED vars
  PROVE  /\ alive
         /\ ConstraintKept' = ConstraintKept
         /\ AssumptionsKept' = AssumptionsKept
         /\ handle'.constraint_pending = handle.constraint_pending
         /\ told'.constraint = told.constraint
         /\ \/ call' = call
            \/ call.op \in {"idle", "add"} /\ call'.op \in {"idle", "add"}
<1>h. handle \in Handle /\ told \in Told
  BY DEF Base, TypeOK, HandleTypeOK
<1>1. CASE zusat_add_clause
  <2>1. PICK lits \in ClauseInputs : Enter("add", lits)
    BY <1>1 DEF zusat_add_clause
  <2>2. /\ alive /\ call.op = "idle" /\ call'.op = "add"
        /\ UNCHANGED <<state, constraint, assumptions, told>>
        /\ handle' = Invalidated(handle)
    BY <2>1 DEF Enter, AtRest, Idle, cadVars
  <2> QED
    BY <1>h, <2>2, KeptUnchanged, PendingFieldKept
<1>2. CASE AddLiteral
  <2>1. /\ call.op = "add" /\ call.rest # <<>>
        /\ state' \notin SOLVED
        /\ constraint' = ConstraintKept
        /\ assumptions' = AssumptionsKept
        /\ UNCHANGED <<handle, alive, told>>
        /\ call' = [call EXCEPT !.rest = Tail(@)]
    BY <1>2 DEF AddLiteral, Add, Raise, SOLVED
  <2>2. call'.op = "add"
    BY <2>1, NextLiteral DEF Base
  <2> QED
    BY <2>1, <2>2, KeptAgain
<1>3. CASE AddTerminator
  <2>1. /\ call.op = "add" /\ call' = Idle
        /\ state' \notin SOLVED
        /\ constraint' = ConstraintKept
        /\ assumptions' = AssumptionsKept
        /\ UNCHANGED <<handle, alive>>
        /\ told' = [told EXCEPT !.clauses = @ \cup {Elements(call.lits)}]
    BY <1>3 DEF AddTerminator, Add, Raise, SOLVED
  <2>2. told'.constraint = told.constraint
    BY <1>h, <2>1 DEF Told
  <2>3. call'.op = "idle"
    BY <2>1 DEF Idle
  <2> QED
    BY <2>1, <2>2, <2>3, KeptAgain
<1>4. CASE terminate_cb
  <2>1. /\ UNCHANGED <<state, constraint, assumptions, alive, told, call>>
        /\ handle' = [handle EXCEPT !.interrupted = TRUE]
    BY <1>4 DEF terminate_cb, cadVars
  <2> QED
    BY <1>h, <2>1, KeptUnchanged, PendingFieldKept
<1>5. CASE \/ zusat_value \/ zusat_failed \/ zusat_constraint_failed
           \/ zusat_fixed \/ zusat_conclude \/ zusat_limit
  <2>1. UNCHANGED <<state, constraint, assumptions, handle, alive, told, call>>
    BY <1>5 DEF zusat_value, zusat_failed, zusat_constraint_failed, zusat_fixed,
                zusat_conclude, ReadOnly, zusat_limit, Limit, cadVars, handleVars
  <2> QED
    BY <2>1, KeptUnchanged
<1>6. CASE zusat_reserve
  <2>1. PICK want \in 0..MaxVar : DeclareMoreVariables(want - max_var)
    BY <1>6 DEF zusat_reserve
  <2>2. /\ state' \notin SOLVED
        /\ constraint' = ConstraintKept
        /\ assumptions' = AssumptionsKept
    BY <2>1 DEF DeclareMoreVariables, SOLVED
  <2>3. UNCHANGED <<alive, told, call>> /\ handle' = Invalidated(handle)
    BY <1>6 DEF zusat_reserve
  <2> QED
    BY <1>h, <2>2, <2>3, KeptAgain, PendingFieldKept
<1>7. CASE zusat_trace_proof
  <2>1. /\ UNCHANGED <<state, constraint, assumptions, alive, told, call>>
        /\ handle' = [handle EXCEPT !.proof = TRUE, !.proof_traced = TraceContract]
        /\ TraceContract \in BOOLEAN
    BY <1>7 DEF zusat_trace_proof, Trace, TraceContract, cadVars
  <2> QED
    BY <1>h, <2>1, KeptUnchanged, PendingFieldKept
<1>8. CASE zusat_close_proof
  <2>1. /\ UNCHANGED <<state, constraint, assumptions, alive, told, call>>
        /\ handle' = [handle EXCEPT !.proof = FALSE, !.proof_traced = FALSE]
    BY <1>8 DEF zusat_close_proof, Raise
  <2> QED
    BY <1>h, <2>1, KeptUnchanged, PendingFieldKept
<1>9. ~zusat_finalize
  BY DEF zusat_finalize, Raise
<1>10. CASE UNCHANGED vars
  BY <1>10, KeptUnchanged DEF vars, cadVars, handleVars
<1> QED
  BY <1>1, <1>2, <1>3, <1>4, <1>5, <1>6, <1>7, <1>8, <1>9, <1>10

\* Every step follows the constraint from the caller to CaDiCaL, and forgets
\* it with the search that used it.
LEMMA ConstraintStep ==
  ASSUME Base, ConstraintTracked, [Next]_vars
  PROVE  ConstraintTracked'
<1>t. told \in Told /\ call \in Call /\ handle \in Handle
  BY DEF Base, TypeOK, HandleTypeOK
<1>1. CASE sat_option
  <2>1. /\ told'.constraint = {} /\ handle'.constraint_pending = FALSE
        /\ constraint' = {}
    BY <1>1, OptionStep DEF Base, Unwritten
  <2>2. call'.op = "idle"
    BY <1>1, OptionStep DEF Idle
  <2> QED
    BY <2>1, <2>2 DEF ConstraintTracked, ConstraintKept
<1>2. SUFFICES ASSUME ~sat_option, alive', PlainOptions, aborted' = FALSE
               PROVE  ConstraintTracked'
  <2>1. ASSUME ~sat_option, PlainOptions' PROVE PlainOptions /\ aborted' = FALSE
    BY <2>1, OptionsStep, NeverRaisedStep DEF PlainOptions, NeverRaised
  <2> QED
    BY <1>1, <2>1 DEF ConstraintTracked
<1>3. ASSUME alive
      PROVE  /\ told.constraint # {} => 0 \in told.constraint
             /\ handle.constraint_pending <=> told.constraint # {}
             /\ call.op = "constrain" =>
                  Open(ConstraintKept) \cup Elements(call.rest) = Elements(call.lits)
             /\ call.op # "constrain" => ConstraintKept = told.constraint
  BY <1>2, <1>3 DEF ConstraintTracked
<1>4. CASE \/ zusat_add_clause \/ AddLiteral \/ AddTerminator
           \/ terminate_cb \/ zusat_value \/ zusat_failed \/ zusat_constraint_failed
           \/ zusat_fixed \/ zusat_conclude \/ zusat_limit \/ zusat_reserve
           \/ zusat_trace_proof \/ zusat_close_proof \/ zusat_finalize
           \/ UNCHANGED vars
  <2>1. /\ alive
        /\ ConstraintKept' = ConstraintKept
        /\ handle'.constraint_pending = handle.constraint_pending
        /\ told'.constraint = told.constraint
        /\ \/ call' = call
           \/ call.op \in {"idle", "add"} /\ call'.op \in {"idle", "add"}
    BY <1>2, <1>4, QueryKept
  <2> QED
    BY <1>3, <2>1 DEF ConstraintTracked
<1>5. CASE zusat_constrain
  <2>1. PICK lits \in ConstraintInputs : Enter("constrain", lits)
    BY <1>5 DEF zusat_constrain
  <2>2. /\ alive /\ call.op = "idle"
        /\ call'.op = "constrain" /\ call'.lits = lits /\ call'.rest = lits
        /\ UNCHANGED <<state, constraint, assumptions, told>>
        /\ handle' = Invalidated(handle)
    BY <2>1 DEF Enter, AtRest, Idle, cadVars
  <2>3. Open(ConstraintKept') = {}
    BY <1>3, <2>2, KeptUnchanged DEF Open
  <2>4. handle'.constraint_pending = handle.constraint_pending
    BY <1>t, <2>2, PendingFieldKept
  <2> QED
    BY <1>3, <2>2, <2>3, <2>4 DEF ConstraintTracked
<1>6. CASE zusat_solve
  <2>1. PICK lits \in AssumptionInputs : Enter("assume", lits)
    BY <1>6 DEF zusat_solve
  <2>2. /\ alive /\ call.op = "idle" /\ call'.op = "assume"
        /\ UNCHANGED <<state, constraint, assumptions, told>>
        /\ handle' = Invalidated(handle)
    BY <2>1 DEF Enter, AtRest, Idle, cadVars
  <2>3. handle'.constraint_pending = handle.constraint_pending
    BY <1>t, <2>2, PendingFieldKept
  <2> QED
    BY <1>3, <2>2, <2>3, KeptUnchanged DEF ConstraintTracked
<1>7. CASE ConstrainLiteral
  <2>1. /\ alive /\ call.op = "constrain" /\ call.rest # <<>>
        /\ state' \notin SOLVED
        /\ constraint' = {Head(call.rest)} \cup Open(ConstraintKept)
        /\ UNCHANGED <<handle, told>>
        /\ call' = [call EXCEPT !.rest = Tail(@)]
    BY <1>2, <1>7, NextLiteral, LiteralFacts
       DEF ConstrainLiteral, Constrain, Raise, SOLVED, Open, Base
  <2>2. /\ Head(call.rest) \in Lit
        /\ Elements(call.rest) = {Head(call.rest)} \cup Elements(Tail(call.rest))
        /\ call'.op = "constrain" /\ call'.lits = call.lits /\ call'.rest = Tail(call.rest)
    BY <2>1, NextLiteral DEF Base
  <2>3. ConstraintKept' = constraint' /\ 0 \notin constraint'
    BY <2>1, <2>2, LiteralFacts DEF ConstraintKept, Open
  <2>4. Open(ConstraintKept') \cup Elements(call'.rest) = Elements(call'.lits)
    BY <1>3, <2>1, <2>2, <2>3 DEF Open
  <2> QED
    BY <1>3, <2>1, <2>2, <2>4 DEF ConstraintTracked
<1>8. CASE ConstrainTerminator
  <2>1. /\ alive /\ call.op = "constrain" /\ call.rest = <<>>
        /\ state' \notin SOLVED
        /\ constraint' = {0} \cup Open(ConstraintKept)
        /\ handle' = [handle EXCEPT !.constraint_pending = TRUE]
        /\ told' = [told EXCEPT !.constraint = Terminated(call.lits),
                                !.unsolved = Terminated(call.lits)]
        /\ call' = Idle
    BY <1>2, <1>8 DEF ConstrainTerminator, Constrain, Raise, SOLVED, Open
  <2>2. Open(ConstraintKept) = Elements(call.lits)
    BY <1>3, <2>1, ElementsFacts
  <2>3. ConstraintKept' = Terminated(call.lits)
    BY <2>1, <2>2 DEF ConstraintKept, Terminated
  <2>4. told'.constraint = Terminated(call.lits) /\ 0 \in Terminated(call.lits)
    BY <1>t, <2>1 DEF Told, Terminated
  <2>5. handle'.constraint_pending = TRUE
    BY <1>t, <2>1 DEF Handle
  <2>6. call'.op = "idle"
    BY <2>1 DEF Idle
  <2> QED
    BY <2>3, <2>4, <2>5, <2>6 DEF ConstraintTracked
<1>9. CASE AssumeLiteral
  <2>1. /\ alive /\ call.op = "assume" /\ call.rest # <<>>
        /\ state' \notin SOLVED
        /\ constraint' = ConstraintKept
        /\ UNCHANGED <<handle, told>>
        /\ call' = [call EXCEPT !.rest = Tail(@)]
    BY <1>2, <1>9 DEF AssumeLiteral, Assume, Raise, SOLVED
  <2>2. call'.op = "assume"
    BY <2>1, NextLiteral DEF Base
  <2> QED
    BY <1>3, <2>1, <2>2, KeptAgain DEF ConstraintTracked
<1>10. CASE zusat_simplify \/ StartSolve
  <2>0. call.op # "constrain"
    BY <1>10 DEF zusat_simplify, StartSolve, AtRest, Idle
  <2>1. /\ alive
        /\ state' \notin SOLVED
        /\ constraint' = ConstraintKept
        /\ told' = told
    BY <1>2, <1>10 DEF zusat_simplify, StartSolve, StartSearch, SolveBegin, SOLVED
  <2>2. call'.op # "constrain"
    BY <1>t, <1>2, <1>10 DEF zusat_simplify, StartSolve, StartSearch, Call, Idle
  <2>3. handle'.constraint_pending = handle.constraint_pending
    BY <1>t, <1>10, PendingFieldKept DEF zusat_simplify, StartSolve, StartSearch
  <2> QED
    BY <1>3, <2>0, <2>1, <2>2, <2>3, KeptAgain DEF ConstraintTracked
<1>11. CASE FinishSearch
  <2>1. PICK res \in {0, 10, 20}, m \in SUBSET Var :
          /\ SolveEnd(res, m, handle.interrupted \/ call.op = "simplify")
          /\ handle' = Answered(handle, res)
    BY <1>11 DEF FinishSearch
  <2>2. ConstraintKept' = {}
    BY <2>1 DEF SolveEnd, ConstraintKept, SOLVED
  <2>3. told'.constraint = {}
    BY <1>t, <1>11 DEF FinishSearch, ToldBySearch, Told
  <2>4. handle'.constraint_pending = FALSE
    BY <1>t, <2>1 DEF Answered, Handle
  <2>5. call'.op = "idle"
    BY <1>11 DEF FinishSearch, Idle
  <2> QED
    BY <2>2, <2>3, <2>4, <2>5 DEF ConstraintTracked
<1> QED
  BY <1>2, <1>4, <1>5, <1>6, <1>7, <1>8, <1>9, <1>10, <1>11
     DEF Next, InsideCall, Collected

\* Every step follows the assumptions from the caller to CaDiCaL, and forgets
\* them with the search that used them.
LEMMA AssumptionsStep ==
  ASSUME Base, AssumptionsTracked, [Next]_vars
  PROVE  AssumptionsTracked'
<1>t. call \in Call
  BY DEF Base, TypeOK, HandleTypeOK
<1>1. CASE sat_option
  <2>1. assumptions' = {}
    BY <1>1, OptionStep DEF Base, Unwritten
  <2>2. call'.op = "idle"
    BY <1>1, OptionStep DEF Idle
  <2> QED
    BY <2>1, <2>2 DEF AssumptionsTracked, AssumptionsKept
<1>2. SUFFICES ASSUME ~sat_option, alive', PlainOptions, aborted' = FALSE
               PROVE  AssumptionsTracked'
  <2>1. ASSUME ~sat_option, PlainOptions' PROVE PlainOptions /\ aborted' = FALSE
    BY <2>1, OptionsStep, NeverRaisedStep DEF PlainOptions, NeverRaised
  <2> QED
    BY <1>1, <2>1 DEF AssumptionsTracked
<1>3. ASSUME alive
      PROVE  /\ call.op = "assume" =>
                  AssumptionsKept \cup Elements(call.rest) = Elements(call.lits)
             /\ call.op \in {"solve", "simplify"} => AssumptionsKept = Elements(call.lits)
             /\ call.op \in {"idle", "add", "constrain"} => AssumptionsKept = {}
  BY <1>2, <1>3 DEF AssumptionsTracked
<1>4. CASE \/ zusat_add_clause \/ AddLiteral \/ AddTerminator
           \/ terminate_cb \/ zusat_value \/ zusat_failed \/ zusat_constraint_failed
           \/ zusat_fixed \/ zusat_conclude \/ zusat_limit \/ zusat_reserve
           \/ zusat_trace_proof \/ zusat_close_proof \/ zusat_finalize
           \/ UNCHANGED vars
  <2>1. /\ alive
        /\ AssumptionsKept' = AssumptionsKept
        /\ \/ call' = call
           \/ call.op \in {"idle", "add"} /\ call'.op \in {"idle", "add"}
    BY <1>2, <1>4, QueryKept
  <2> QED
    BY <1>3, <2>1 DEF AssumptionsTracked
<1>5. CASE zusat_constrain
  <2>1. PICK lits \in ConstraintInputs : Enter("constrain", lits)
    BY <1>5 DEF zusat_constrain
  <2>2. /\ alive /\ call.op = "idle" /\ call'.op = "constrain"
        /\ UNCHANGED <<state, constraint, assumptions>>
    BY <2>1 DEF Enter, AtRest, Idle, cadVars
  <2> QED
    BY <1>3, <2>2, KeptUnchanged DEF AssumptionsTracked
<1>6. CASE zusat_solve
  <2>1. PICK lits \in AssumptionInputs : Enter("assume", lits)
    BY <1>6 DEF zusat_solve
  <2>2. /\ alive /\ call.op = "idle"
        /\ call'.op = "assume" /\ call'.lits = lits /\ call'.rest = lits
        /\ UNCHANGED <<state, constraint, assumptions>>
    BY <2>1 DEF Enter, AtRest, Idle, cadVars
  <2>3. AssumptionsKept' \cup Elements(call'.rest) = Elements(call'.lits)
    BY <1>3, <2>2, KeptUnchanged
  <2> QED
    BY <2>2, <2>3 DEF AssumptionsTracked
<1>7. CASE ConstrainLiteral
  <2>1. /\ alive /\ call.op = "constrain" /\ call.rest # <<>>
        /\ state' \notin SOLVED
        /\ assumptions' = AssumptionsKept
        /\ call' = [call EXCEPT !.rest = Tail(@)]
    BY <1>2, <1>7 DEF ConstrainLiteral, Constrain, Raise, SOLVED
  <2>2. call'.op = "constrain"
    BY <2>1, NextLiteral DEF Base
  <2> QED
    BY <1>3, <2>1, <2>2, KeptAgain DEF AssumptionsTracked
<1>8. CASE ConstrainTerminator
  <2>1. /\ alive /\ call.op = "constrain"
        /\ state' \notin SOLVED
        /\ assumptions' = AssumptionsKept
        /\ call' = Idle
    BY <1>2, <1>8 DEF ConstrainTerminator, Constrain, Raise, SOLVED
  <2>2. call'.op = "idle"
    BY <2>1 DEF Idle
  <2> QED
    BY <1>3, <2>1, <2>2, KeptAgain DEF AssumptionsTracked
<1>9. CASE AssumeLiteral
  <2>1. /\ alive /\ call.op = "assume" /\ call.rest # <<>>
        /\ state' \notin SOLVED
        /\ assumptions' = AssumptionsKept \cup {Head(call.rest)}
        /\ call' = [call EXCEPT !.rest = Tail(@)]
    BY <1>2, <1>9 DEF AssumeLiteral, Assume, Raise, SOLVED
  <2>2. /\ Elements(call.rest) = {Head(call.rest)} \cup Elements(Tail(call.rest))
        /\ call'.op = "assume" /\ call'.lits = call.lits /\ call'.rest = Tail(call.rest)
    BY <2>1, NextLiteral DEF Base
  <2>3. AssumptionsKept' = assumptions'
    BY <2>1 DEF AssumptionsKept
  <2>4. AssumptionsKept' \cup Elements(call'.rest) = Elements(call'.lits)
    BY <1>3, <2>1, <2>2, <2>3
  <2> QED
    BY <2>2, <2>4 DEF AssumptionsTracked
<1>10. CASE zusat_simplify
  <2>1. /\ alive /\ call.op = "idle"
        /\ state' \notin SOLVED
        /\ assumptions' = AssumptionsKept
        /\ call' = [Idle EXCEPT !.op = "simplify"]
    BY <1>2, <1>10 DEF zusat_simplify, StartSearch, SolveBegin, SOLVED, AtRest, Idle
  <2>2. call'.op = "simplify" /\ call'.lits = <<>>
    BY <2>1 DEF Idle
  <2>3. AssumptionsKept' = Elements(call'.lits)
    BY <1>3, <2>1, <2>2, KeptAgain, ElementsFacts
  <2> QED
    BY <2>2, <2>3 DEF AssumptionsTracked
<1>11. CASE StartSolve
  <2>1. /\ alive /\ call.op = "assume" /\ call.rest = <<>>
        /\ state' \notin SOLVED
        /\ assumptions' = AssumptionsKept
        /\ call' = [call EXCEPT !.op = "solve"]
    BY <1>2, <1>11 DEF StartSolve, StartSearch, SolveBegin, SOLVED
  <2>2. call'.op = "solve" /\ call'.lits = call.lits
    BY <1>t, <2>1 DEF Call
  <2>3. AssumptionsKept' = Elements(call'.lits)
    BY <1>3, <2>1, <2>2, KeptAgain, ElementsFacts
  <2> QED
    BY <2>2, <2>3 DEF AssumptionsTracked
<1>12. CASE FinishSearch
  <2>1. PICK res \in {0, 10, 20}, m \in SUBSET Var :
          SolveEnd(res, m, handle.interrupted \/ call.op = "simplify")
    BY <1>12 DEF FinishSearch
  <2>2. AssumptionsKept' = {}
    BY <2>1 DEF SolveEnd, AssumptionsKept, SOLVED
  <2>3. call'.op = "idle"
    BY <1>12 DEF FinishSearch, Idle
  <2> QED
    BY <2>2, <2>3 DEF AssumptionsTracked
<1> QED
  BY <1>2, <1>4, <1>5, <1>6, <1>7, <1>8, <1>9, <1>10, <1>11, <1>12
     DEF Next, InsideCall, Collected

\* constraint_pending is set exactly when the next search is bounded by a
\* constraint, and it is the one the caller set last, with plain options.
THEOREM PendingCorrect == Spec => []PendingIsConstraint
<1>1. Init => ConstraintTracked
  BY DEF Init, CadInit, NewHandle, NothingTold, ConstraintTracked, ConstraintKept, Idle
<1>2. Base /\ ConstraintTracked /\ [Next]_vars => ConstraintTracked'
  BY ConstraintStep
<1>3. ConstraintTracked => PendingIsConstraint
  BY DEF ConstraintTracked, PendingIsConstraint, AtRest, Idle
<1> QED
  BY <1>1, <1>2, <1>3, BaseInductive, PTL DEF Spec

-----------------------------------------------------------------------------
(* The answers. *)

Tracked == Base /\ FormulaTracked /\ ConstraintTracked /\ AssumptionsTracked

\* A step that leaves the model and what was told about it alone, and does not
\* invent an answer.
LEMMA AnswerKept ==
  ASSUME AnswerSound, opts' = opts, alive' => alive,
         \/ handle'.last_status = 0
         \/ /\ UNCHANGED <<model, told>>
            /\ handle'.last_status = handle.last_status
  PROVE  AnswerSound'
<1>1. SUFFICES ASSUME alive', PlainOptions, UNCHANGED <<model, told>>,
                      handle'.last_status = handle.last_status
               PROVE  AnswerSound'
  BY DEF AnswerSound, PlainOptions
<1> QED
  BY <1>1 DEF AnswerSound, PlainOptions, Satisfies, Unsatisfiable, Clauses

\* CaDiCaL answered the question the caller asked.
LEMMA AnswerFinished ==
  ASSUME Tracked, PlainOptions, FinishSearch
  PROVE  AnswerSound'
<1>t. told \in Told /\ handle \in Handle
  BY DEF Tracked, Base, TypeOK, HandleTypeOK
<1>1. PICK res \in {0, 10, 20}, m \in SUBSET Var :
        /\ SolveEnd(res, m, handle.interrupted \/ call.op = "simplify")
        /\ handle' = Answered(handle, res)
  BY DEF FinishSearch
<1>2. alive /\ state = "SOLVING" /\ handle.last_status = 0
  BY DEF Tracked, Base, CacheInv, CallShape, FinishSearch, Idle
<1>3. formula = told.clauses /\ constraint = told.constraint /\ assumptions = Elements(call.lits)
  BY <1>2 DEF Tracked, FormulaTracked, ConstraintTracked, AssumptionsTracked, FinishSearch,
              ConstraintKept, AssumptionsKept, SOLVED
<1>4. /\ told'.clauses = told.clauses
      /\ told'.assumed = Elements(call.lits)
      /\ told'.constrained = told.constraint
  BY <1>t DEF FinishSearch, ToldBySearch, Told
<1>5. handle'.last_status \in {0, res}
  BY <1>t, <1>1, <1>2 DEF Answered, Handle
<1>6. CASE res = 10
  <2>1. model' = m /\ Satisfies(m, formula, assumptions, constraint)
    BY <1>1, <1>6 DEF SolveEnd
  <2>2. Satisfies(model', told'.clauses, told'.assumed, told'.constrained)
    BY <1>3, <1>4, <2>1
  <2> QED
    BY <1>5, <1>6, <2>2 DEF AnswerSound, Satisfies, Clauses
<1>7. CASE res = 20
  <2>1. Unsatisfiable(formula, assumptions, constraint)
    BY <1>1, <1>7 DEF SolveEnd
  <2>2. Unsatisfiable(told'.clauses, told'.assumed, told'.constrained)
    BY <1>3, <1>4, <2>1
  <2> QED
    BY <1>5, <1>7, <2>2 DEF AnswerSound, Unsatisfiable, Clauses
<1>8. CASE res = 0
  BY <1>5, <1>8 DEF AnswerSound
<1> QED
  BY <1>6, <1>7, <1>8

\* The status survives what does not touch the answer.
LEMMA StatusKept ==
  ASSUME NEW h \in Handle
  PROVE  /\ Invalidated(h).last_status = 0
         /\ [Invalidated(h) EXCEPT !.interrupted = FALSE].last_status = 0
         /\ \A b \in BOOLEAN : [h EXCEPT !.interrupted = b].last_status = h.last_status
         /\ [h EXCEPT !.constraint_pending = TRUE].last_status = h.last_status
         /\ \A b \in BOOLEAN :
              [h EXCEPT !.proof = TRUE, !.proof_traced = b].last_status = h.last_status
         /\ [h EXCEPT !.proof = FALSE, !.proof_traced = FALSE].last_status = h.last_status
BY DEF Invalidated, Handle

\* Every step keeps an answer that can be read an answer to the question.
LEMMA AnswerStep ==
  ASSUME Tracked, AnswerSound, [Next]_vars
  PROVE  AnswerSound'
<1>h. handle \in Handle
  BY DEF Tracked, Base, TypeOK, HandleTypeOK
<1>1. CASE sat_option
  <2>1. handle' = handle /\ alive /\ state = "CONFIGURING"
    BY <1>1, OptionStep DEF Tracked
  <2>2. handle.last_status # 10 /\ handle.last_status # 20
    BY <2>1 DEF Tracked, Base, CacheInv, CacheSound
  <2> QED
    BY <2>1, <2>2 DEF AnswerSound
<1>2. SUFFICES ASSUME ~sat_option, opts' = opts PROVE AnswerSound'
  BY <1>1, OptionsStep
<1>3. CASE zusat_add_clause \/ zusat_constrain \/ zusat_solve \/ zusat_reserve
  <2>1. alive /\ handle' = Invalidated(handle)
    BY <1>3 DEF zusat_add_clause, zusat_constrain, zusat_solve, Enter, zusat_reserve, AtRest
  <2> QED
    BY <1>h, <1>2, <2>1, StatusKept, AnswerKept
<1>4. CASE zusat_simplify
  <2>1. alive /\ handle' = [Invalidated(handle) EXCEPT !.interrupted = FALSE]
    BY <1>4 DEF zusat_simplify, StartSearch, AtRest
  <2> QED
    BY <1>h, <1>2, <2>1, StatusKept, AnswerKept
<1>5. CASE AddLiteral \/ AddTerminator \/ ConstrainLiteral \/ ConstrainTerminator
           \/ AssumeLiteral \/ StartSolve
  <2>1. call.op # "idle"
    BY <1>5 DEF AddLiteral, AddTerminator, ConstrainLiteral, ConstrainTerminator,
                AssumeLiteral, StartSolve
  <2>2. alive /\ handle.last_status = 0
    BY <2>1 DEF Tracked, Base, CacheInv, CallShape, Idle
  <2>3. \/ handle' = handle
        \/ handle' = [handle EXCEPT !.constraint_pending = TRUE]
        \/ handle' = [handle EXCEPT !.interrupted = FALSE]
    BY <1>5 DEF AddLiteral, AddTerminator, ConstrainLiteral, ConstrainTerminator,
                AssumeLiteral, StartSolve, StartSearch, Raise
  <2>4. handle'.last_status = 0
    BY <1>h, <2>2, <2>3 DEF Handle
  <2> QED
    BY <1>2, <2>2, <2>4, AnswerKept
<1>6. CASE FinishSearch
  <2>1. CASE PlainOptions
    BY <1>6, <2>1, AnswerFinished
  <2>2. CASE ~PlainOptions
    BY <1>2, <2>2 DEF AnswerSound, PlainOptions
  <2> QED
    BY <2>1, <2>2
<1>7. CASE terminate_cb
  <2>1. UNCHANGED <<model, told, alive>> /\ handle' = [handle EXCEPT !.interrupted = TRUE]
    BY <1>7 DEF terminate_cb, cadVars
  <2> QED
    BY <1>h, <1>2, <2>1, StatusKept, AnswerKept
<1>8. CASE \/ zusat_value \/ zusat_failed \/ zusat_constraint_failed
           \/ zusat_fixed \/ zusat_conclude \/ zusat_limit
  <2>1. UNCHANGED <<model, told, alive, handle>>
    BY <1>8 DEF zusat_value, zusat_failed, zusat_constraint_failed, zusat_fixed,
                zusat_conclude, ReadOnly, zusat_limit, Limit, cadVars, handleVars
  <2> QED
    BY <1>2, <2>1, AnswerKept
<1>9. CASE zusat_trace_proof
  <2>1. /\ UNCHANGED <<model, told, alive>>
        /\ handle' = [handle EXCEPT !.proof = TRUE, !.proof_traced = TraceContract]
        /\ TraceContract \in BOOLEAN
    BY <1>9 DEF zusat_trace_proof, Trace, TraceContract, cadVars
  <2> QED
    BY <1>h, <1>2, <2>1, StatusKept, AnswerKept
<1>10. CASE zusat_close_proof
  <2>1. /\ UNCHANGED <<model, told, alive>>
        /\ \/ handle' = handle
           \/ handle' = [handle EXCEPT !.proof = FALSE, !.proof_traced = FALSE]
    BY <1>10 DEF zusat_close_proof, Raise, cadVars
  <2> QED
    BY <1>h, <1>2, <2>1, StatusKept, AnswerKept
<1>11. CASE zusat_finalize
  <2>1. UNCHANGED <<model, told, handle>> /\ (alive' => alive)
    BY <1>11 DEF zusat_finalize, Raise, cadVars, AtRest
  <2> QED
    BY <1>2, <2>1, AnswerKept
<1>12. CASE UNCHANGED vars
  <2>1. UNCHANGED <<model, told, alive, handle>>
    BY <1>12 DEF vars, cadVars, handleVars
  <2> QED
    BY <1>2, <2>1, AnswerKept
<1> QED
  BY <1>2, <1>3, <1>4, <1>5, <1>6, <1>7, <1>8, <1>9, <1>10, <1>11, <1>12
     DEF Next, InsideCall, Collected

\* "sat" comes with a model of the clauses, the assumptions and the constraint
\* of the last solve, and "unsat" means that there is none, with plain options
\* and whatever was solved, interrupted or refused before.
THEOREM AnswersCorrect == Spec => []AnswerSound
<1>1. Init => FormulaTracked /\ ConstraintTracked /\ AssumptionsTracked /\ AnswerSound
  <2>1. Init => FormulaTracked
    BY DEF Init, CadInit, NothingTold, FormulaTracked, Idle
  <2>2. Init => ConstraintTracked
    BY DEF Init, CadInit, NewHandle, NothingTold, ConstraintTracked, ConstraintKept, Idle
  <2>3. Init => AssumptionsTracked
    <3>1. Init => call.op = "idle"
      BY DEF Init, Idle
    <3>2. Init => AssumptionsKept = {}
      BY DEF Init, CadInit, AssumptionsKept
    <3> QED
      BY <3>1, <3>2 DEF AssumptionsTracked
  <2>4. Init => AnswerSound
    BY DEF Init, NewHandle, AnswerSound
  <2> QED
    BY <2>1, <2>2, <2>3, <2>4
<1>2. Base /\ FormulaTracked /\ ConstraintTracked /\ AssumptionsTracked /\ AnswerSound
        /\ [Next]_vars
        => FormulaTracked' /\ ConstraintTracked' /\ AssumptionsTracked' /\ AnswerSound'
  BY FormulaStep, ConstraintStep, AssumptionsStep, AnswerStep DEF Tracked
<1> QED
  BY <1>1, <1>2, BaseInductive, PTL DEF Spec

-----------------------------------------------------------------------------
(***************************************************************************)
(* ZusatHandle, composed with CaDiCaL, implements SatSolver: for every     *)
(* number of variables, all inputs, interrupts and limits, as long as the  *)
(* options stay plain.                                                     *)
(*                                                                         *)
(* A literal that is passed on reserves its variable, and the terminating  *)
(* 0 adds the clause; that it then uses no further variable is what the    *)
(* invariant Declared is for.  A search that ends is an answer, or forgets *)
(* the question when Ctrl-C ended it.                                      *)
(***************************************************************************)

\* Every variable that a literal was passed on for is declared, and a simplify
\* assumes nothing.
DeclaredLits == \A lit \in original \cup constraint \cup assumptions : VarOf(lit) <= max_var

Declared ==
  /\ DeclaredLits
  /\ call.op = "simplify" => call.lits = <<>>

-----------------------------------------------------------------------------
(* The promise in terms of the handle. *)

\* What the promised solver consists of.
PClauses == IF alive THEN formula ELSE {}
PPending == IF alive THEN Pending ELSE {}
PVars    == IF alive THEN max_var ELSE 0
PLimited == IF alive THEN limits # {} ELSE FALSE
PAnswer  == IF alive THEN CurrentAnswer ELSE Nothing

PromisedState == <<PClauses, PPending, PVars, PLimited, PAnswer>>

\* Literals and models mean the same in both.
LEMMA SameMeaning ==
  /\ Promise!Var = Var /\ Promise!Lit = Lit
  /\ \A F, A, m : Promise!IsModel(m, F, A) <=> IsModel(m, F, A)
  /\ \A F, A : Promise!NoModel(F, A) <=> NoModel(F, A)
  /\ \A lits : Promise!Using(lits) = Max({PVars} \cup {VarOf(lit) : lit \in lits})
  /\ Promise!NoAnswer = Nothing
  /\ Promise!solver = PromisedState
<1>1. Promise!Var = Var /\ Promise!Lit = Lit
  BY DEF Promise!Var, Promise!Lit, Var, Lit
<1>2. ASSUME NEW m, NEW lit PROVE Promise!True(m, lit) <=> True(m, lit)
  BY DEF Promise!True, True
<1>3. ASSUME NEW F, NEW A, NEW m PROVE Promise!IsModel(m, F, A) <=> IsModel(m, F, A)
  BY <1>2 DEF Promise!IsModel, IsModel, Promise!Holds, Holds
<1>4. ASSUME NEW F, NEW A PROVE Promise!NoModel(F, A) <=> NoModel(F, A)
  BY <1>1, <1>3 DEF Promise!NoModel, NoModel
<1>5. ASSUME NEW lits
      PROVE  Promise!Using(lits) = Max({PVars} \cup {VarOf(lit) : lit \in lits})
  BY DEF Promise!Using, Promise!Max, Max, Promise!VarOf, VarOf, PVars
<1>6. Promise!NoAnswer = Nothing
  BY DEF Promise!NoAnswer, Nothing
<1>7. Promise!solver = PromisedState
  BY DEF Promise!solver, PromisedState, PClauses, PPending, PVars, PLimited, PAnswer
<1> QED BY <1>1, <1>3, <1>4, <1>5, <1>6, <1>7

\* Each step of the promised solver, in these terms.
LEMMA Forgets ==
  ASSUME PAnswer' = Nothing, UNCHANGED <<PClauses, PPending, PVars, PLimited>>
  PROVE  Promise!SolverNext
<1>1. Promise!Forget
  BY SameMeaning DEF Promise!Forget, PClauses, PPending, PVars, PLimited, PAnswer
<1> QED BY <1>1 DEF Promise!SolverNext

LEMMA Reserves ==
  ASSUME NEW n \in Var, PVars' = (IF n > PVars THEN n ELSE PVars),
         PAnswer' = (IF n > PVars THEN Nothing ELSE PAnswer),
         UNCHANGED <<PClauses, PPending, PLimited>>
  PROVE  Promise!SolverNext
<1>1. Promise!Reserve(n)
  BY SameMeaning DEF Promise!Reserve, PClauses, PPending, PVars, PLimited, PAnswer
<1> QED BY <1>1, SameMeaning DEF Promise!SolverNext

LEMMA AddsClause ==
  ASSUME NEW clause \in SUBSET Lit, PClauses' = PClauses \cup {clause},
         PVars' = Max({PVars} \cup {VarOf(lit) : lit \in clause}),
         PAnswer' = Nothing, UNCHANGED <<PPending, PLimited>>
  PROVE  Promise!SolverNext
<1>1. Promise!AddClause(clause)
  BY SameMeaning DEF Promise!AddClause, PClauses, PPending, PVars, PLimited, PAnswer
<1> QED BY <1>1, SameMeaning DEF Promise!SolverNext

LEMMA SetsConstraint ==
  ASSUME NEW clause \in SUBSET Lit, PPending' = {clause},
         PVars' = Max({PVars} \cup {VarOf(lit) : lit \in clause}),
         PAnswer' = Nothing, UNCHANGED <<PClauses, PLimited>>
  PROVE  Promise!SolverNext
<1>1. Promise!SetConstraint(clause)
  BY SameMeaning DEF Promise!SetConstraint, PClauses, PPending, PVars, PLimited, PAnswer
<1> QED BY <1>1, SameMeaning DEF Promise!SolverNext

LEMMA SetsLimit ==
  ASSUME PLimited' \in BOOLEAN, UNCHANGED <<PClauses, PPending, PVars, PAnswer>>
  PROVE  Promise!SolverNext
<1>1. Promise!SetLimit
  BY DEF Promise!SetLimit, PClauses, PPending, PVars, PLimited, PAnswer
<1> QED BY <1>1 DEF Promise!SolverNext

LEMMA Releases ==
  ASSUME alive' = FALSE
  PROVE  Promise!SolverNext
<1>1. Promise!Release
  BY SameMeaning DEF Promise!Release
<1> QED BY <1>1 DEF Promise!SolverNext

LEMMA IsInterrupted ==
  ASSUME NEW assumed \in SUBSET Lit, PAnswer' = Nothing, PPending' = {}, PLimited' = FALSE,
         PVars' = Max({PVars} \cup {VarOf(lit) : lit \in assumed}), PClauses' = PClauses
  PROVE  Promise!SolverNext
<1>1. Promise!Interrupted(assumed)
  BY SameMeaning DEF Promise!Interrupted, PClauses, PPending, PVars, PLimited, PAnswer
<1> QED BY <1>1, SameMeaning DEF Promise!SolverNext

\* Simplify is a search without assumptions that may always give up.
LEMMA GivesAnswer ==
  ASSUME NEW assumed \in SUBSET Lit, NEW status \in {"sat", "unsat", "unknown"},
         NEW m \in SUBSET Var, NEW mayGiveUp \in BOOLEAN, mayGiveUp => assumed = {},
         \/ status = "sat" /\ IsModel(m, PClauses \cup PPending, assumed)
         \/ status = "unsat" /\ m = {} /\ NoModel(PClauses \cup PPending, assumed)
         \/ status = "unknown" /\ m = {} /\ (mayGiveUp \/ PLimited),
         PAnswer' = [status |-> status, vars |-> m, assumed |-> assumed,
                     constrained |-> PPending],
         PPending' = {}, PLimited' = FALSE,
         PVars' = Max({PVars} \cup {VarOf(lit) : lit \in assumed}), PClauses' = PClauses
  PROVE  Promise!SolverNext
<1>1. Promise!Answer(status, m, assumed, mayGiveUp)
  BY SameMeaning DEF Promise!Answer, PClauses, PPending, PVars, PLimited, PAnswer
<1>2. CASE mayGiveUp
  <2>1. Promise!Simplify
    BY <1>1, <1>2, SameMeaning DEF Promise!Simplify
  <2> QED BY <2>1 DEF Promise!SolverNext
<1>3. CASE ~mayGiveUp
  <2>1. Promise!Solve(assumed)
    BY <1>1, <1>3, SameMeaning DEF Promise!Solve
  <2> QED BY <2>1, SameMeaning DEF Promise!SolverNext
<1> QED BY <1>2, <1>3

-----------------------------------------------------------------------------
(* Declared variables. *)

\* A call of CaDiCaL declares the variables of what it stores.
LEMMA CallsDeclare ==
  ASSUME CadTypeOK, DeclaredLits, NEW lit \in Lit \cup {0},
         \/ Add(lit) \/ Constrain(lit) \/ Assume(lit)
  PROVE  DeclaredLits' /\ max_var' \in Nat /\ max_var <= max_var'
<1>1. /\ original' \subseteq original \cup {lit}
      /\ constraint' \subseteq constraint \cup {lit}
      /\ assumptions' \subseteq assumptions \cup {lit}
      /\ Declare(VarOf(lit))
  BY DEF Add, Constrain, Assume, AssumptionsKept, ConstraintKept
<1>2. VarOf(lit) \in Nat /\ max_var \in Nat
  BY LiteralFacts, MaxVarAssumption DEF CadTypeOK, Var
<1>3. max_var' \in Nat /\ max_var <= max_var' /\ VarOf(lit) <= max_var'
  BY <1>1, <1>2 DEF Declare
<1>4. ASSUME NEW other \in original \cup constraint \cup assumptions
      PROVE  VarOf(other) <= max_var'
  <2>1. other \in Lit \cup {0}
    BY DEF CadTypeOK
  <2>2. VarOf(other) \in Nat
    BY <2>1, LiteralFacts, MaxVarAssumption DEF Var
  <2>3. VarOf(other) <= max_var
    BY DEF DeclaredLits
  <2> QED BY <1>2, <1>3, <2>2, <2>3
<1> QED BY <1>1, <1>3, <1>4 DEF DeclaredLits

\* So do the steps that store nothing new, and declare no fewer variables.
LEMMA DeclaredKept ==
  ASSUME CadTypeOK, DeclaredLits, max_var' \in Nat, max_var <= max_var',
         original' \subseteq original, constraint' \subseteq constraint,
         assumptions' \subseteq assumptions
  PROVE  DeclaredLits'
<1>1. ASSUME NEW other \in original \cup constraint \cup assumptions
      PROVE  VarOf(other) <= max_var'
  <2>1. other \in Lit \cup {0}
    BY DEF CadTypeOK
  <2>2. VarOf(other) \in Nat
    BY <2>1, LiteralFacts, MaxVarAssumption DEF Var
  <2>3. VarOf(other) <= max_var /\ max_var \in Nat
    BY MaxVarAssumption DEF DeclaredLits, CadTypeOK
  <2> QED BY <2>2, <2>3
<1> QED BY <1>1 DEF DeclaredLits

LEMMA DeclaredStep ==
  ASSUME TypeOK, Declared, [Next]_vars
  PROVE  Declared'
<1>0. CadTypeOK /\ DeclaredLits /\ max_var \in Nat /\ max_var <= max_var /\ call \in Call
  BY MaxVarAssumption DEF TypeOK, CadTypeOK, HandleTypeOK, Declared, DeclaredLits
<1>k. ASSUME UNCHANGED <<max_var, original, constraint, assumptions>> PROVE DeclaredLits'
  BY <1>0, <1>k, DeclaredKept
<1>b. ASSUME SolveBegin PROVE DeclaredLits'
  BY <1>0, <1>b, DeclaredKept DEF SolveBegin, AssumptionsKept, ConstraintKept
<1>1. DeclaredLits'
  <2>1. CASE zusat_add_clause \/ zusat_constrain \/ zusat_solve
    BY <1>k, <2>1 DEF zusat_add_clause, zusat_constrain, zusat_solve, Enter, cadVars
  <2>2. CASE AddLiteral \/ ConstrainLiteral \/ AssumeLiteral
    <3>1. CASE Raise
      BY <1>k, <3>1 DEF Raise, cadVars
    <3>2. CASE ~Raise
      <4>1. Head(call.rest) \in Lit
        BY <2>2, NextLiteral DEF AddLiteral, ConstrainLiteral, AssumeLiteral
      <4>2. \/ Add(Head(call.rest)) \/ Constrain(Head(call.rest)) \/ Assume(Head(call.rest))
        BY <2>2, <3>2 DEF AddLiteral, ConstrainLiteral, AssumeLiteral
      <4> QED BY <1>0, <4>1, <4>2, CallsDeclare
    <3> QED BY <3>1, <3>2
  <2>3. CASE AddTerminator \/ ConstrainTerminator
    <3>1. CASE Raise
      BY <1>k, <3>1 DEF Raise, cadVars
    <3>2. CASE ~Raise
      <4>1. Add(0) \/ Constrain(0)
        BY <2>3, <3>2 DEF AddTerminator, ConstrainTerminator
      <4> QED BY <1>0, <4>1, CallsDeclare
    <3> QED BY <3>1, <3>2
  <2>4. CASE StartSolve \/ zusat_simplify
    BY <1>b, <1>k, <2>4 DEF StartSolve, zusat_simplify, StartSearch
  <2>5. CASE FinishSearch
    <3>1. PICK res, m : SolveEnd(res, m, handle.interrupted \/ call.op = "simplify")
      BY <2>5 DEF FinishSearch
    <3>2. max_var' \in Nat /\ max_var <= max_var'
      BY <1>0, <3>1, MaxVarAssumption DEF SolveEnd
    <3>3. UNCHANGED <<original, assumptions, constraint>>
      BY <3>1 DEF SolveEnd
    <3> QED BY <1>0, <3>2, <3>3, DeclaredKept
  <2>6. CASE \/ zusat_value \/ zusat_failed \/ zusat_constraint_failed
             \/ zusat_fixed \/ zusat_conclude \/ terminate_cb
    BY <1>k, <2>6 DEF zusat_value, zusat_failed, zusat_constraint_failed, zusat_fixed,
                      zusat_conclude, ReadOnly, terminate_cb, cadVars
  <2>7. CASE sat_option \/ zusat_limit
    BY <1>k, <2>7 DEF sat_option, Set, Raise, cadVars, zusat_limit, Limit
  <2>8. CASE zusat_reserve
    <3>1. PICK want \in 0..MaxVar :
            /\ want > max_var
            /\ IF DeclareContract
               THEN DeclareMoreVariables(want - max_var) /\ UNCHANGED aborted
               ELSE aborted' = TRUE /\ UNCHANGED cadVars
      BY <2>8 DEF zusat_reserve
    <3>2. CASE DeclareContract
      <4>1. max_var' = max_var + (want - max_var)
        BY <3>1, <3>2 DEF DeclareMoreVariables
      <4>2. max_var' \in Nat /\ max_var <= max_var'
        BY <1>0, <3>1, <4>1, MaxVarAssumption
      <4>3. /\ original' = original /\ constraint' = ConstraintKept
            /\ assumptions' = AssumptionsKept
        BY <3>1, <3>2 DEF DeclareMoreVariables
      <4> QED BY <1>0, <4>2, <4>3, DeclaredKept DEF AssumptionsKept, ConstraintKept
    <3>3. CASE ~DeclareContract
      BY <1>k, <3>1, <3>3 DEF cadVars
    <3> QED BY <3>2, <3>3
  <2>9. CASE zusat_trace_proof
    BY <1>k, <2>9 DEF zusat_trace_proof, Trace, cadVars
  <2>10. CASE zusat_close_proof \/ zusat_finalize
    BY <1>k, <2>10 DEF zusat_close_proof, zusat_finalize, Raise, cadVars
  <2>11. CASE UNCHANGED vars
    BY <1>k, <2>11 DEF vars, cadVars
  <2> QED BY <2>1, <2>2, <2>3, <2>4, <2>5, <2>6, <2>7, <2>8, <2>9, <2>10, <2>11
             DEF Next, InsideCall, Collected
<1>2. (call.op = "simplify" => call.lits = <<>>)'
  <2>1. CASE call' = call \/ call' = Idle
    BY <2>1 DEF Declared, Idle
  <2>2. CASE zusat_add_clause \/ zusat_constrain \/ zusat_solve
    BY <2>2 DEF zusat_add_clause, zusat_constrain, zusat_solve, Enter
  <2>3. CASE AddLiteral \/ ConstrainLiteral \/ AssumeLiteral
    <3>1. call.rest # <<>> /\ call.op # "simplify"
      BY <2>3 DEF AddLiteral, ConstrainLiteral, AssumeLiteral
    <3>2. call' = Idle \/ call' = [call EXCEPT !.rest = Tail(@)]
      BY <2>3 DEF AddLiteral, ConstrainLiteral, AssumeLiteral, Raise
    <3> QED BY <1>0, <3>1, <3>2 DEF Idle, Call
  <2>4. CASE StartSolve
    <3>1. call' = Idle \/ call' = [call EXCEPT !.op = "solve"]
      BY <2>4 DEF StartSolve, StartSearch
    <3> QED BY <1>0, <3>1 DEF Idle, Call
  <2>5. CASE zusat_simplify
    <3>1. call' = Idle \/ call' = [Idle EXCEPT !.op = "simplify"]
      BY <2>5 DEF zusat_simplify, StartSearch
    <3> QED BY <3>1 DEF Idle
  <2>6. \/ call' = call \/ call' = Idle
        \/ zusat_add_clause \/ zusat_constrain \/ zusat_solve \/ zusat_simplify
        \/ AddLiteral \/ ConstrainLiteral \/ AssumeLiteral \/ StartSolve
    BY DEF Next, InsideCall, Collected, vars, handleVars, AddTerminator, ConstrainTerminator,
           FinishSearch, Raise, terminate_cb, zusat_value, zusat_failed,
           zusat_constraint_failed, zusat_fixed, zusat_conclude, ReadOnly, sat_option,
           zusat_limit, zusat_reserve, zusat_trace_proof, zusat_close_proof, zusat_finalize
  <2> QED BY <2>1, <2>2, <2>3, <2>4, <2>5, <2>6
<1> QED BY <1>1, <1>2 DEF Declared, DeclaredLits

-----------------------------------------------------------------------------
(* The steps. *)

\* A .Call that has begun has made the last answer unreadable.
LEMMA NothingReadable ==
  ASSUME handle.last_status = 0, handle.concludable = FALSE
  PROVE  CurrentAnswer = Nothing
BY DEF CurrentAnswer, Nothing

\* The answer that can be read depends on few things.
LEMMA SameAnswer ==
  ASSUME UNCHANGED <<model, told>>, handle'.last_status = handle.last_status,
         handle'.concludable = handle.concludable
  PROVE  CurrentAnswer' = CurrentAnswer
BY DEF CurrentAnswer, Clauses

\* Literals that are all declared use no further variable.
LEMMA NoneNew ==
  ASSUME max_var \in Nat, NEW lits, lits \subseteq Lit,
         \A lit \in lits : VarOf(lit) <= max_var
  PROVE  Max({max_var} \cup {VarOf(lit) : lit \in lits}) = max_var
<1> DEFINE S == {max_var} \cup {VarOf(lit) : lit \in lits}
<1>1. \A lit \in lits : VarOf(lit) \in Nat
  BY LiteralFacts, MaxVarAssumption DEF Var
<1>2. S \subseteq Int /\ max_var \in S /\ \A x \in S : x <= max_var
  BY <1>1
<1> HIDE DEF S
<1>3. Max(S) = max_var
  BY <1>2, MaxIs
<1> QED BY <1>3 DEF S

\* Fields of the handle that the answer depends on.
LEMMA AnswerFields ==
  ASSUME NEW h \in Handle
  PROVE  /\ Invalidated(h).last_status = 0 /\ Invalidated(h).concludable = FALSE
         /\ [Invalidated(h) EXCEPT !.interrupted = FALSE].last_status = 0
         /\ [Invalidated(h) EXCEPT !.interrupted = FALSE].concludable = FALSE
         /\ \A b \in BOOLEAN :
              /\ [h EXCEPT !.interrupted = b].last_status = h.last_status
              /\ [h EXCEPT !.interrupted = b].concludable = h.concludable
              /\ [h EXCEPT !.proof = TRUE, !.proof_traced = b].last_status = h.last_status
              /\ [h EXCEPT !.proof = TRUE, !.proof_traced = b].concludable = h.concludable
         /\ [h EXCEPT !.constraint_pending = TRUE].last_status = h.last_status
         /\ [h EXCEPT !.constraint_pending = TRUE].concludable = h.concludable
         /\ [h EXCEPT !.proof = FALSE, !.proof_traced = FALSE].last_status = h.last_status
         /\ [h EXCEPT !.proof = FALSE, !.proof_traced = FALSE].concludable = h.concludable
BY DEF Invalidated, Handle

\* What a step of a handle that is alive, with plain options, starts from.
Ready == Tracked /\ Declared /\ PlainOptions /\ alive

LEMMA ReadyFacts ==
  ASSUME Ready
  PROVE  /\ handle \in Handle /\ call \in Call /\ told \in Told
         /\ max_var \in Nat /\ max_var <= MaxVar /\ aborted = FALSE
         /\ PClauses = formula /\ PPending = Pending /\ PVars = max_var
         /\ PLimited = (limits # {}) /\ PAnswer = CurrentAnswer
         /\ call.op # "idle" => handle.last_status = 0 /\ handle.concludable = FALSE
         /\ call.op # "idle" => PAnswer = Nothing
         /\ call.op # "constrain" => ConstraintKept = told.constraint
         /\ Pending = Clauses(told.constraint)
<1>1. /\ handle \in Handle /\ call \in Call /\ told \in Told
      /\ max_var \in Nat /\ max_var <= MaxVar /\ aborted = FALSE
  BY MaxVarAssumption DEF Ready, Tracked, Base, TypeOK, CadTypeOK, HandleTypeOK, NeverRaised
<1>2. /\ PClauses = formula /\ PPending = Pending /\ PVars = max_var
      /\ PLimited = (limits # {}) /\ PAnswer = CurrentAnswer
  BY DEF Ready, PClauses, PPending, PVars, PLimited, PAnswer
<1>3. call.op # "idle" => handle.last_status = 0 /\ handle.concludable = FALSE
  BY DEF Ready, Tracked, Base, CacheInv, CallShape
<1>4. call.op # "constrain" => ConstraintKept = told.constraint
  BY DEF Ready, Tracked, ConstraintTracked
<1>5. Pending = Clauses(told.constraint)
  BY <1>4 DEF Pending, Clauses
<1> QED BY <1>1, <1>2, <1>3, <1>4, <1>5, NothingReadable

\* The same after the step.
LEMMA ReadyNext ==
  ASSUME Ready'
  PROVE  /\ PClauses' = formula' /\ PVars' = max_var'
         /\ PLimited' = (limits' # {}) /\ PAnswer' = CurrentAnswer'
         /\ PPending' = Clauses(told'.constraint)
         /\ handle'.last_status = 0 /\ handle'.concludable = FALSE => PAnswer' = Nothing
<1>1. Pending' = Clauses(told'.constraint)
  <2>1. (call.op # "constrain" => ConstraintKept = told.constraint)'
    BY DEF Ready, Tracked, ConstraintTracked
  <2> QED BY <2>1 DEF Pending, Clauses
<1>2. handle'.last_status = 0 /\ handle'.concludable = FALSE => CurrentAnswer' = Nothing
  BY DEF CurrentAnswer, Nothing
<1> QED BY <1>1, <1>2 DEF Ready, PClauses, PPending, PVars, PLimited, PAnswer

\* A .Call begins, or sat_simplify starts to search: the answer is forgotten.
LEMMA BeginRefines ==
  ASSUME Ready, Ready',
         zusat_add_clause \/ zusat_constrain \/ zusat_solve \/ zusat_simplify
  PROVE  Promise!SolverNext
<1>1. handle'.last_status = 0 /\ handle'.concludable = FALSE
  BY ReadyFacts, AnswerFields
     DEF zusat_add_clause, zusat_constrain, zusat_solve, Enter, zusat_simplify, StartSearch
<1>2. UNCHANGED <<formula, max_var, limits, told>>
  BY DEF zusat_add_clause, zusat_constrain, zusat_solve, Enter, zusat_simplify, StartSearch,
         SolveBegin, cadVars
<1> QED BY <1>1, <1>2, ReadyFacts, ReadyNext, Forgets DEF Clauses

\* A literal is passed on: its variable is reserved.
LEMMA LiteralRefines ==
  ASSUME Ready, Ready', AddLiteral \/ ConstrainLiteral \/ AssumeLiteral
  PROVE  Promise!SolverNext
<1> DEFINE lit == Head(call.rest)
<1>1. call.op # "idle" /\ lit \in Lit
  BY ReadyFacts, NextLiteral
     DEF AddLiteral, ConstrainLiteral, AssumeLiteral, Ready, Tracked, Base
<1>2. aborted' = FALSE
  BY DEF Ready, Tracked, Base, NeverRaised
<1>3. (Add(lit) /\ lit # 0) \/ Constrain(lit) \/ Assume(lit)
  BY <1>1, <1>2, LiteralFacts DEF AddLiteral, ConstrainLiteral, AssumeLiteral, Raise
<1>4. UNCHANGED <<handle, told>>
  BY DEF AddLiteral, ConstrainLiteral, AssumeLiteral, Raise
<1>5. UNCHANGED <<formula, limits>> /\ Declare(VarOf(lit))
  BY <1>3 DEF Add, Constrain, Assume
<1>6. VarOf(lit) \in Var
  BY <1>1, LiteralFacts
<1>7. handle'.last_status = 0 /\ handle'.concludable = FALSE
  BY <1>1, <1>4, ReadyFacts
<1>8. PVars' = IF VarOf(lit) > PVars THEN VarOf(lit) ELSE PVars
  BY <1>5, ReadyFacts, ReadyNext DEF Declare
<1>9. PAnswer' = Nothing /\ PAnswer = Nothing
  BY <1>1, <1>7, ReadyFacts, ReadyNext
<1>10. UNCHANGED <<PClauses, PPending, PLimited>>
  BY <1>4, <1>5, ReadyFacts, ReadyNext DEF Clauses
<1> HIDE DEF lit
<1> QED BY <1>6, <1>8, <1>9, <1>10, Reserves

\* The terminating 0: the clause is added, and all its variables are known.
LEMMA AddRefines ==
  ASSUME Ready, Ready', AddTerminator
  PROVE  Promise!SolverNext
<1>1. call.op = "add" /\ call.rest = <<>>
  BY DEF AddTerminator
<1>2. aborted' = FALSE
  BY DEF Ready, Tracked, Base, NeverRaised
<1>3. /\ Add(0) /\ UNCHANGED handle
      /\ told' = [told EXCEPT !.clauses = @ \cup {Elements(call.lits)}]
  BY <1>2 DEF AddTerminator, Raise
<1>4. original = Elements(call.lits)
  BY <1>1, ElementsFacts DEF Ready, Tracked, FormulaTracked
<1>5. original \in SUBSET Lit /\ \A lit \in original : VarOf(lit) <= max_var
  BY DEF Ready, Tracked, Base, TypeOK, CadTypeOK, Declared, DeclaredLits
<1>6. /\ formula' = formula \cup {original} /\ limits' = limits
      /\ max_var' = IF VarOf(0) > max_var THEN VarOf(0) ELSE max_var
  BY <1>3 DEF Add, Declare
<1>7. max_var' = max_var
  BY <1>6, LiteralFacts, ReadyFacts
<1>8. told'.constraint = told.constraint
  BY <1>3, ReadyFacts DEF Told
<1>9. handle'.last_status = 0 /\ handle'.concludable = FALSE
  BY <1>1, <1>3, ReadyFacts
<1>10. PVars' = Max({PVars} \cup {VarOf(lit) : lit \in original})
  BY <1>5, <1>7, ReadyFacts, ReadyNext, NoneNew
<1>11. PClauses' = PClauses \cup {original} /\ PAnswer' = Nothing
  BY <1>6, <1>9, ReadyFacts, ReadyNext
<1>12. UNCHANGED <<PPending, PLimited>>
  BY <1>6, <1>8, ReadyFacts, ReadyNext DEF Clauses
<1> QED BY <1>5, <1>10, <1>11, <1>12, AddsClause

\* So is the constraint, in the place of the one before.
LEMMA ConstrainRefines ==
  ASSUME Ready, Ready', ConstrainTerminator
  PROVE  Promise!SolverNext
<1> DEFINE clause == Elements(call.lits)
<1>1. call.op = "constrain" /\ call.rest = <<>>
  BY DEF ConstrainTerminator
<1>2. aborted' = FALSE
  BY DEF Ready, Tracked, Base, NeverRaised
<1>3. /\ Constrain(0)
      /\ handle' = [handle EXCEPT !.constraint_pending = TRUE]
      /\ told' = [told EXCEPT !.constraint = Terminated(call.lits),
                              !.unsolved = Terminated(call.lits)]
  BY <1>2 DEF ConstrainTerminator, Raise
<1>4. Open(ConstraintKept) = clause
  BY <1>1, ElementsFacts DEF Ready, Tracked, ConstraintTracked
<1>5. clause \in SUBSET Lit
  BY ReadyFacts, ElementsFacts DEF Call
<1>6. \A lit \in clause : VarOf(lit) <= max_var
  BY <1>4 DEF Open, ConstraintKept, Ready, Declared, DeclaredLits
<1>7. /\ UNCHANGED <<formula, limits>>
      /\ max_var' = IF VarOf(0) > max_var THEN VarOf(0) ELSE max_var
  BY <1>3 DEF Constrain, Declare
<1>8. max_var' = max_var
  BY <1>7, LiteralFacts, ReadyFacts
<1>9. told'.constraint = clause \cup {0}
  BY <1>3, ReadyFacts DEF Told, Terminated
<1>10. handle'.last_status = 0 /\ handle'.concludable = FALSE
  BY <1>1, <1>3, ReadyFacts, AnswerFields
<1> HIDE DEF clause
<1>11. Clauses(told'.constraint) = {clause}
  <2>1. 0 \notin clause
    BY <1>5, LiteralFacts
  <2>2. clause \cup {0} # {} /\ (clause \cup {0}) \ {0} = clause
    BY <2>1
  <2> QED BY <1>9, <2>2 DEF Clauses
<1>12. PVars' = Max({PVars} \cup {VarOf(lit) : lit \in clause})
  BY <1>5, <1>6, <1>8, ReadyFacts, ReadyNext, NoneNew
<1>13. PPending' = {clause} /\ PAnswer' = Nothing /\ UNCHANGED <<PClauses, PLimited>>
  BY <1>7, <1>10, <1>11, ReadyFacts, ReadyNext
<1> QED BY <1>5, <1>12, <1>13, SetsConstraint

\* The search ends: an answer to the question, or Ctrl-C and none.
LEMMA FinishRefines ==
  ASSUME Ready, Ready', FinishSearch
  PROVE  Promise!SolverNext
<1> DEFINE assumed == Elements(call.lits)
           mayGiveUp == call.op = "simplify"
<1>1. PICK res \in {0, 10, 20}, m \in SUBSET Var :
        /\ SolveEnd(res, m, handle.interrupted \/ call.op = "simplify")
        /\ handle' = Answered(handle, res)
  BY DEF FinishSearch
<1>2. call.op \in {"solve", "simplify"} /\ state = "SOLVING" /\ told' = ToldBySearch
  BY DEF FinishSearch
<1>3. handle.last_status = 0 /\ handle.concludable = FALSE
  BY <1>2, ReadyFacts
<1>4. constraint = told.constraint /\ assumptions = assumed
  BY <1>2 DEF Ready, Tracked, ConstraintTracked, AssumptionsTracked, ConstraintKept,
              AssumptionsKept, SOLVED
<1>5. assumed \in SUBSET Lit /\ \A lit \in assumed : VarOf(lit) <= max_var
  BY <1>4, ReadyFacts, ElementsFacts DEF Call, Ready, Declared, DeclaredLits
<1>6. /\ told'.assumed = assumed /\ told'.constrained = told.constraint /\ told'.constraint = {}
  BY <1>2, ReadyFacts DEF ToldBySearch, Told
<1>7. /\ formula' = formula /\ limits' = {} /\ model' = m
      /\ \/ res = 10 /\ Satisfies(m, formula, assumptions, constraint)
         \/ res = 20 /\ m = {} /\ Unsatisfiable(formula, assumptions, constraint)
         \/ res = 0 /\ m = {} /\ (handle.interrupted \/ mayGiveUp \/ limits # {})
  BY <1>1 DEF SolveEnd
<1>8. max_var' = max_var
  <2>1. PICK n \in max_var .. (IF opts.factor = 1 THEN MaxVar ELSE max_var) : max_var' = n
    BY <1>1 DEF SolveEnd
  <2>2. opts.factor = 0
    BY DEF Ready, PlainOptions
  <2> QED BY <2>1, <2>2, ReadyFacts
<1>9. mayGiveUp => assumed = {}
  BY ElementsFacts DEF Ready, Declared
<1> HIDE DEF assumed
<1>10. PVars' = Max({PVars} \cup {VarOf(lit) : lit \in assumed})
  BY <1>5, <1>8, ReadyFacts, ReadyNext, NoneNew
<1>11. PPending' = {} /\ PLimited' = FALSE /\ PClauses' = PClauses
  BY <1>6, <1>7, ReadyFacts, ReadyNext DEF Clauses
<1>12. PPending = Clauses(constraint) /\ PClauses = formula /\ (PLimited <=> limits # {})
  BY <1>4, ReadyFacts
<1>13. CASE handle.interrupted
  <2>1. handle'.last_status = 0 /\ handle'.concludable = FALSE
    BY <1>1, <1>3, <1>13, ReadyFacts DEF Answered, Handle
  <2>2. PAnswer' = Nothing
    BY <2>1, ReadyNext
  <2> QED BY <1>5, <1>10, <1>11, <2>2, IsInterrupted
<1>14. CASE ~handle.interrupted
  <2>1. handle'.last_status = res /\ handle'.concludable = TRUE
    BY <1>1, <1>14, ReadyFacts DEF Answered, Handle
  <2> DEFINE status == CASE res = 10 -> "sat" [] res = 20 -> "unsat" [] OTHER -> "unknown"
  <2>2. Clauses(told'.constrained) = PPending
    BY <1>6, <1>4, <1>12
  <2>3. CurrentAnswer' = [status |-> status, vars |-> m, assumed |-> assumed,
                          constrained |-> PPending]
    <3>1. CurrentAnswer' =
            [status |-> status, vars |-> IF res = 10 THEN m ELSE {},
             assumed |-> told'.assumed, constrained |-> Clauses(told'.constrained)]
      BY <1>1, <1>7, <2>1 DEF CurrentAnswer, Clauses
    <3>2. (IF res = 10 THEN m ELSE {}) = m
      BY <1>7
    <3> QED BY <1>6, <2>2, <3>1, <3>2
  <2>4. PAnswer' = [status |-> status, vars |-> m, assumed |-> assumed,
                    constrained |-> PPending]
    BY <2>3, ReadyNext
  <2>5. status \in {"sat", "unsat", "unknown"}
    OBVIOUS
  <2>6. \/ status = "sat" /\ IsModel(m, PClauses \cup PPending, assumed)
        \/ status = "unsat" /\ m = {} /\ NoModel(PClauses \cup PPending, assumed)
        \/ status = "unknown" /\ m = {} /\ (mayGiveUp \/ PLimited)
    BY <1>4, <1>7, <1>12, <1>14 DEF Satisfies, Unsatisfiable
  <2>7. mayGiveUp \in BOOLEAN
    OBVIOUS
  <2> HIDE DEF status, mayGiveUp
  <2> QED BY <1>5, <1>9, <1>10, <1>11, <2>4, <2>5, <2>6, <2>7, GivesAnswer
<1> QED BY <1>13, <1>14

LEMMA Stutters ==
  ASSUME UNCHANGED <<PClauses, PPending, PVars, PLimited, PAnswer>>
  PROVE  UNCHANGED Promise!solver
BY DEF Promise!solver, PClauses, PPending, PVars, PLimited, PAnswer

\* Steps the promised solver does not see.
LEMMA HiddenRefines ==
  ASSUME Ready, Ready',
         \/ StartSolve \/ terminate_cb \/ zusat_value \/ zusat_failed
         \/ zusat_constraint_failed \/ zusat_fixed \/ zusat_conclude \/ sat_option
         \/ zusat_trace_proof \/ zusat_close_proof \/ UNCHANGED vars
  PROVE  UNCHANGED Promise!solver
<1>h. handle \in Handle
  BY ReadyFacts
<1>1. UNCHANGED <<formula, max_var, limits, told, model>>
  BY DEF StartSolve, StartSearch, SolveBegin, terminate_cb, zusat_value, zusat_failed,
         zusat_constraint_failed, zusat_fixed, zusat_conclude, ReadOnly, sat_option, Set,
         Raise, zusat_trace_proof, Trace, zusat_close_proof, cadVars, handleVars, vars
<1>2. /\ handle'.last_status = handle.last_status
      /\ handle'.concludable = handle.concludable
  <2>1. CASE StartSolve \/ terminate_cb
    <3>1. PICK b \in BOOLEAN : handle' = [handle EXCEPT !.interrupted = b]
      BY <2>1 DEF StartSolve, StartSearch, terminate_cb
    <3> QED BY <1>h, <3>1, AnswerFields
  <2>2. CASE zusat_trace_proof
    <3>1. /\ TraceContract \in BOOLEAN
          /\ handle' = [handle EXCEPT !.proof = TRUE, !.proof_traced = TraceContract]
      BY <2>2 DEF zusat_trace_proof, TraceContract
    <3> QED BY <1>h, <3>1, AnswerFields
  <2>3. CASE zusat_close_proof
    <3>1. \/ handle' = handle
          \/ handle' = [handle EXCEPT !.proof = FALSE, !.proof_traced = FALSE]
      BY <2>3 DEF zusat_close_proof, Raise
    <3> QED BY <1>h, <3>1, AnswerFields
  <2>4. CASE \/ zusat_value \/ zusat_failed \/ zusat_constraint_failed \/ zusat_fixed
             \/ zusat_conclude \/ sat_option \/ UNCHANGED vars
    BY <2>4 DEF zusat_value, zusat_failed, zusat_constraint_failed, zusat_fixed,
                zusat_conclude, ReadOnly, sat_option, Raise, handleVars, vars
  <2> QED BY <2>1, <2>2, <2>3, <2>4
<1>3. CurrentAnswer' = CurrentAnswer
  BY <1>1, <1>2, SameAnswer
<1>4. UNCHANGED <<PClauses, PPending, PVars, PLimited, PAnswer>>
  BY <1>1, <1>3, ReadyFacts, ReadyNext DEF Clauses
<1> QED BY <1>4, Stutters

\* Limits and reserved variables.
LEMMA LimitRefines ==
  ASSUME Ready, Ready', zusat_limit
  PROVE  Promise!SolverNext
<1>1. UNCHANGED <<formula, max_var, told, model, handle>>
  BY DEF zusat_limit, Limit, handleVars
<1>2. CurrentAnswer' = CurrentAnswer
  BY <1>1, SameAnswer
<1>3. UNCHANGED <<PClauses, PPending, PVars, PAnswer>> /\ PLimited' \in BOOLEAN
  BY <1>1, <1>2, ReadyFacts, ReadyNext DEF Clauses
<1> QED BY <1>3, SetsLimit

LEMMA ReserveRefines ==
  ASSUME Ready, Ready', zusat_reserve
  PROVE  Promise!SolverNext
<1>1. PICK want \in 0..MaxVar :
        /\ want > max_var
        /\ handle' = Invalidated(handle)
        /\ IF DeclareContract
           THEN DeclareMoreVariables(want - max_var) /\ UNCHANGED aborted
           ELSE aborted' = TRUE /\ UNCHANGED cadVars
  BY DEF zusat_reserve
<1>2. aborted' = FALSE /\ told' = told
  BY DEF zusat_reserve, Ready, Tracked, Base, NeverRaised
<1>3. max_var' = max_var + (want - max_var) /\ UNCHANGED <<formula, limits>>
  BY <1>1, <1>2 DEF DeclareMoreVariables
<1>4. want \in Var /\ max_var' = want
  BY <1>1, <1>3, ReadyFacts, MaxVarAssumption DEF Var
<1>5. handle'.last_status = 0 /\ handle'.concludable = FALSE
  BY <1>1, ReadyFacts, AnswerFields
<1>6. /\ PVars' = (IF want > PVars THEN want ELSE PVars)
      /\ PAnswer' = (IF want > PVars THEN Nothing ELSE PAnswer)
  BY <1>1, <1>4, <1>5, ReadyFacts, ReadyNext
<1>7. UNCHANGED <<PClauses, PPending, PLimited>>
  BY <1>2, <1>3, ReadyFacts, ReadyNext DEF Clauses
<1> QED BY <1>4, <1>6, <1>7, Reserves

\* Every step of the handle is a step of the promised solver, or none.
LEMMA StepRefines ==
  ASSUME Tracked, Declared, PlainOptions, Tracked', Declared', PlainOptions', [Next]_vars
  PROVE  [Promise!SolverNext]_(Promise!solver)
<1>1. CASE ~alive
  <2>1. ~alive'
    BY <1>1 DEF Next, InsideCall, Collected, vars, handleVars, zusat_add_clause,
                zusat_constrain, zusat_solve, zusat_simplify, Enter, AtRest, StartSearch,
                AddLiteral, AddTerminator, ConstrainLiteral, ConstrainTerminator,
                AssumeLiteral, StartSolve, FinishSearch, Raise, terminate_cb, zusat_value,
                zusat_failed, zusat_constraint_failed, zusat_fixed, zusat_conclude,
                ReadOnly, sat_option, zusat_limit, zusat_reserve, zusat_trace_proof,
                zusat_close_proof, zusat_finalize
  <2>2. UNCHANGED <<PClauses, PPending, PVars, PLimited, PAnswer>>
    BY <1>1, <2>1 DEF PClauses, PPending, PVars, PLimited, PAnswer, Nothing
  <2> QED BY <2>2, Stutters
<1>2. CASE alive /\ ~alive'
  <2>1. alive' = FALSE
    BY <1>2 DEF Tracked, Base, TypeOK, HandleTypeOK
  <2> QED BY <2>1, Releases
<1>3. CASE alive /\ alive'
  <2>1. Ready /\ Ready'
    BY <1>3 DEF Ready
  <2>2. CASE zusat_add_clause \/ zusat_constrain \/ zusat_solve \/ zusat_simplify
    BY <2>1, <2>2, BeginRefines
  <2>3. CASE AddLiteral \/ ConstrainLiteral \/ AssumeLiteral
    BY <2>1, <2>3, LiteralRefines
  <2>4. CASE AddTerminator
    BY <2>1, <2>4, AddRefines
  <2>5. CASE ConstrainTerminator
    BY <2>1, <2>5, ConstrainRefines
  <2>6. CASE FinishSearch
    BY <2>1, <2>6, FinishRefines
  <2>7. CASE \/ StartSolve \/ terminate_cb \/ zusat_value \/ zusat_failed
             \/ zusat_constraint_failed \/ zusat_fixed \/ zusat_conclude \/ sat_option
             \/ zusat_trace_proof \/ zusat_close_proof \/ UNCHANGED vars
    BY <2>1, <2>7, HiddenRefines
  <2>8. CASE zusat_limit
    BY <2>1, <2>8, LimitRefines
  <2>9. CASE zusat_reserve
    BY <2>1, <2>9, ReserveRefines
  <2>10. CASE zusat_finalize
    <3>1. aborted' = TRUE \/ alive' = FALSE
      BY <2>10 DEF zusat_finalize, Raise
    <3>2. aborted' = FALSE
      BY DEF Tracked, Base, NeverRaised
    <3> QED BY <1>3, <3>1, <3>2
  <2>11. CASE Collected
    BY <1>3, <2>11 DEF Collected
  <2> QED BY <2>2, <2>3, <2>4, <2>5, <2>6, <2>7, <2>8, <2>9, <2>10, <2>11
             DEF Next, InsideCall
<1> QED BY <1>1, <1>2, <1>3

\* All that the steps rest on holds in every state.
LEMMA TrackedAlways == Spec => []Tracked
<1>1. Init => FormulaTracked /\ ConstraintTracked /\ AssumptionsTracked
  <2>1. Init => FormulaTracked
    BY DEF Init, CadInit, NothingTold, FormulaTracked, Idle
  <2>2. Init => ConstraintTracked
    BY DEF Init, CadInit, NewHandle, NothingTold, ConstraintTracked, ConstraintKept, Idle
  <2>3. Init => call.op = "idle" /\ AssumptionsKept = {}
    BY DEF Init, CadInit, Idle, AssumptionsKept
  <2> QED BY <2>1, <2>2, <2>3 DEF AssumptionsTracked
<1>2. Base /\ FormulaTracked /\ ConstraintTracked /\ AssumptionsTracked /\ [Next]_vars
        => FormulaTracked' /\ ConstraintTracked' /\ AssumptionsTracked'
  BY FormulaStep, ConstraintStep, AssumptionsStep
<1>3. Base /\ FormulaTracked /\ ConstraintTracked /\ AssumptionsTracked => Tracked
  BY DEF Tracked
<1> QED BY <1>1, <1>2, <1>3, BaseInductive, PTL DEF Spec

LEMMA DeclaredAlways == Spec => []Declared
<1>1. Init => Declared
  <2>1. Init => original = {} /\ constraint = {} /\ assumptions = {} /\ call.op = "idle"
    BY DEF Init, CadInit, Idle
  <2> QED BY <2>1 DEF Declared, DeclaredLits
<1>2. TypeOK /\ Declared /\ [Next]_vars => Declared'
  BY DeclaredStep
<1> QED BY <1>1, <1>2, TypeCorrect, PTL DEF Spec

\* With plain options every behaviour of the handle and CaDiCaL, with its
\* half-passed clauses, interrupts and cached flags, is one of the promised
\* solver.
THEOREM HandleImplementsPromise == Spec /\ []PlainOptions => ImplementsPromise
<1>1. Init => Promise!SolverInit
  <2> SUFFICES ASSUME Init PROVE Promise!SolverInit
    OBVIOUS
  <2>1. /\ alive = TRUE /\ formula = {} /\ max_var = 0 /\ limits = {} /\ constraint = {}
        /\ call.op = "idle" /\ handle.last_status = 0 /\ handle.concludable = FALSE
    BY DEF Init, CadInit, Idle, NewHandle
  <2>2. CurrentAnswer = Nothing
    BY <2>1, NothingReadable
  <2>3. Pending = {}
    BY <2>1 DEF Pending, Clauses, ConstraintKept
  <2> QED BY <2>1, <2>2, <2>3, SameMeaning DEF Promise!SolverInit
<1>2. Tracked /\ Declared /\ PlainOptions /\ Tracked' /\ Declared' /\ PlainOptions' /\ [Next]_vars
        => [Promise!SolverNext]_(Promise!solver)
  BY StepRefines
<1> QED BY <1>1, <1>2, TrackedAlways, DeclaredAlways, PTL
           DEF Spec, ImplementsPromise, Promise!SolverSpec
=============================================================================

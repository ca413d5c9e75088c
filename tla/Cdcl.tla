-------------------------------- MODULE Cdcl --------------------------------
(***************************************************************************)
(* CaDiCaL's search: conflict-driven clause learning with two watched      *)
(* literals, chronological backtracking, on-the-fly strengthening, clause  *)
(* shrinking, eager subsumption, restarts, reduction of learned clauses,   *)
(* assumptions, a constraint and incremental use.                          *)
(*                                                                         *)
(* One step is one visit of a watched clause, one resolution of conflict   *)
(* analysis, or one branch of the main loop.  Heuristics (decision order,  *)
(* phases, scores, restart and reduce schedules) are choices: whatever     *)
(* they choose, the properties below must hold.                            *)
(***************************************************************************)
EXTENDS Trail

CONSTANTS
  ChronoOptions, \* settings of the options chrono (0 off, 1 on, 2 also
                 \* re-watches) and chronoalways
  MaxClauses,    \* bound: clauses in memory
  MaxReductions, \* bound: how often learned clauses are reduced
  Phases,        \* bound: the literals the search may decide on
  Sessions       \* the sequences of API calls considered

\* A call of the API; what is assumed is a single literal.
CallType ==
  {call \in [op : {"add", "assume", "constrain", "solve"}, lits : Seq(Lit)] :
     call.op = "assume" => Len(call.lits) = 1}

ASSUME SearchAssumption ==
  /\ ChronoOptions \subseteq [chrono : 0..2, always : BOOLEAN]
  /\ MaxClauses \in Nat /\ MaxReductions \in Nat
  /\ Phases \subseteq Lit /\ \A v \in Var : v \in Phases \/ -v \in Phases
  /\ Sessions \subseteq Seq(CallType)

VARIABLES
  opts,        \* the options of this solver
  calls,       \* the API calls still to come
  formula,     \* the clauses added so far, as the user wrote them
  used,        \* the variables that occurred in a call
  db,          \* clauses in memory: literals, watches, redundant, garbage
  t,           \* the trail
  visiting,    \* clauses left in the watch list being traversed
  conflict,    \* the falsified clause, 0 for none
  analysis,    \* conflict analysis: resolvent and sizes
  assumptions, constraint,
  unsat, unsatConstraint,
  pc,          \* what the solver is doing
  caller,      \* who called propagate
  core,        \* the failed assumptions
  restartable, reducible, reductions

clauseVars == <<formula, used, db>>
queryVars  == <<calls, assumptions, constraint, core>>
limitVars  == <<restartable, reducible, reductions>>
vars == <<opts, clauseVars, queryVars, limitVars, t, visiting, conflict, analysis,
          unsat, unsatConstraint, pc, caller>>

Lits(id)     == db[id].lits
Watches(lit) == {id \in DOMAIN db : lit \in db[id].watch}
NoAnalysis   == [lits |-> {}, conflictSize |-> 0, first |-> TRUE]
Answered     == {"sat", "unsat", "unknown"}

\* A clause takes the first free place in memory.
FreeIds == (1..MaxClauses) \ DOMAIN db
With(id, c) == [i \in DOMAIN db \cup {id} |-> IF i = id THEN c ELSE db[i]]
NewClause(lits, watch, redundant) ==
  [lits |-> lits, watch |-> watch, redundant |-> redundant,
   garbage |-> FALSE]
Rewatched(c, watch) ==
  [lits |-> c.lits, watch |-> watch, redundant |-> c.redundant,
   garbage |-> c.garbage]
Shortened(c, lits, watch) ==
  [lits |-> lits, watch |-> watch, redundant |-> c.redundant,
   garbage |-> c.garbage]
Discarded(c) ==
  [lits |-> c.lits, watch |-> c.watch, redundant |-> c.redundant,
   garbage |-> TRUE]

Init ==
  /\ opts \in ChronoOptions /\ calls \in Sessions
  /\ formula = {} /\ used = {} /\ db = <<>>
  /\ t = EmptyTrail /\ visiting = {} /\ conflict = 0 /\ analysis = NoAnalysis
  /\ assumptions = <<>> /\ constraint = {}
  /\ unsat = FALSE /\ unsatConstraint = FALSE
  /\ pc = "ready" /\ caller = "none" /\ core = {}
  /\ restartable = FALSE /\ reducible = FALSE /\ reductions = 0

-----------------------------------------------------------------------------
(***************************************************************************)
(* The calls between two searches.                                         *)
(***************************************************************************)
Call(op) ==
  /\ pc = "ready" /\ calls # <<>>
  /\ Head(calls).op = op
  /\ calls' = Tail(calls)

Internalize(lits) == used' = used \cup {VarOf(lit) : lit \in lits}

\* add_new_original_clause: a clause that holds at the root level is skipped,
\* falsified and repeated literals are removed.
Add ==
  LET lits == Head(calls).lits
      root == Backtrack(t, 0)
      kept == {i \in DOMAIN lits :
                 ~IsFalse(root, lits[i]) /\ \A j \in 1..(i - 1) : lits[j] # lits[i]}
      rest == {lits[i] : i \in kept}
      watch == {lits[i] : i \in {k \in kept :
                                   Cardinality({j \in kept : j < k}) < 2}}
      skip == unsat \/ \E lit \in ToSet(lits) :
                         IsTrue(root, lit) \/ -lit \in ToSet(lits)
  IN  /\ Call("add")
      /\ formula' = formula \cup {ToSet(lits)}
      /\ Internalize(ToSet(lits))
      /\ \/ /\ skip
            /\ t' = root /\ UNCHANGED <<db, unsat, pc, caller>>
         \/ /\ ~skip /\ rest = {}
            /\ unsat' = TRUE /\ t' = root /\ UNCHANGED <<db, pc, caller>>
         \/ /\ ~skip
            /\ \E lit \in rest :
                 /\ rest = {lit}
                 /\ t' = AssignUnit(root, lit)
                 /\ pc' = "propagate" /\ caller' = "add"
                 /\ UNCHANGED <<db, unsat>>
         \/ /\ ~skip /\ Cardinality(rest) > 1 /\ FreeIds # {}
            /\ db' = With(Min(FreeIds), NewClause(rest, watch, FALSE))
            /\ t' = root /\ UNCHANGED <<unsat, pc, caller>>
      /\ UNCHANGED <<limitVars, visiting, conflict, analysis, assumptions,
                     constraint, core, unsatConstraint>>

Assume ==
  LET lit == Head(calls).lits[1]
  IN  /\ Call("assume")
      /\ t' = Backtrack(t, 0)
      /\ assumptions' = IF Contains(assumptions, lit) THEN assumptions
                        ELSE Append(assumptions, lit)
      /\ Internalize({lit})
      /\ UNCHANGED <<limitVars, formula, db, visiting, conflict, analysis,
                     constraint, core, unsat, unsatConstraint, pc, caller>>

Constrain ==
  LET lits == ToSet(Head(calls).lits)
      root == Backtrack(t, 0)
      rest == {lit \in lits : ~IsFalse(root, lit)}
      holds == \E lit \in lits : IsTrue(root, lit) \/ -lit \in lits
  IN  /\ Call("constrain")
      /\ t' = root
      /\ constraint' = IF holds THEN {} ELSE rest
      /\ unsatConstraint' = (~holds /\ rest = {})
      /\ Internalize(lits)
      /\ UNCHANGED <<limitVars, formula, db, visiting, conflict, analysis,
                     assumptions, core, unsat, pc, caller>>

\* solve and already_solved.
Solve ==
  /\ Call("solve")
  /\ IF unsat \/ unsatConstraint
     THEN /\ pc' = "unsat" /\ UNCHANGED <<t, caller>>
     ELSE /\ pc' = "propagate" /\ caller' = "solve" /\ t' = Backtrack(t, 0)
  /\ UNCHANGED <<clauseVars, limitVars, visiting, conflict, analysis,
                 assumptions, constraint, core, unsat, unsatConstraint>>

\* The next call after an answer drops assumptions and constraint first.
Release ==
  /\ pc \in Answered /\ calls # <<>>
  /\ pc' = "ready" /\ assumptions' = <<>> /\ constraint' = {}
  /\ unsatConstraint' = FALSE /\ core' = {}
  /\ UNCHANGED <<clauseVars, limitVars, calls, t, visiting, conflict,
                 analysis, unsat, caller>>

-----------------------------------------------------------------------------
(***************************************************************************)
(* propagate                                                               *)
(***************************************************************************)
PropagationUnchanged ==
  UNCHANGED <<formula, used, queryVars, limitVars, analysis, unsat,
              unsatConstraint, caller>>

NextLiteral ==
  /\ pc = "propagate" /\ visiting = {} /\ conflict = 0
  /\ t.propagated < Len(t.trail)
  /\ t' = [t EXCEPT !.propagated = @ + 1]
  /\ visiting' = Watches(-t.trail[t.propagated + 1])
  /\ UNCHANGED <<db, conflict, pc>> /\ PropagationUnchanged

Falsified == -t.trail[t.propagated]  \* the watched literal being visited
OtherWatch(id) == CHOOSE lit \in db[id].watch : lit # Falsified

\* A binary clause is not looked at: a conflict does not stop the traversal.
VisitBinary(id) ==
  LET other == OtherWatch(id)
  IN  /\ Cardinality(Lits(id)) = 2
      /\ visiting' = visiting \ {id}
      /\ conflict' = IF IsFalse(t, other) THEN id ELSE conflict
      /\ t' = IF IsOpen(t, other) THEN Imply(t, other, id, Lits(id)) ELSE t
      /\ UNCHANGED db

\* The blocking literal is some literal of the clause; it, the other watch or
\* the literal found in the clause is true.
KeepWatch(id) ==
  /\ \/ \E lit \in Lits(id) : IsTrue(t, lit)
     \/ conflict = 0 /\ db[id].garbage
  /\ visiting' = visiting \ {id}
  /\ UNCHANGED <<db, t, conflict>>

\* A binary conflict stops the traversal at the next long clause.
StopAtLong ==
  /\ conflict # 0
  /\ visiting' = {}
  /\ UNCHANGED <<db, t, conflict>>

ReplaceWatch(id) ==
  /\ conflict = 0 /\ ~db[id].garbage
  /\ ~IsTrue(t, OtherWatch(id))
  /\ \E lit \in Lits(id) \ db[id].watch :
       /\ IsOpen(t, lit)
       /\ db' = With(id, Rewatched(db[id], {OtherWatch(id), lit}))
  /\ visiting' = visiting \ {id}
  /\ UNCHANGED <<t, conflict>>

Unit(id) ==
  LET other == OtherWatch(id)
      implied == Imply(t, other, id, Lits(id))
      level == LevelOf(implied, other)
  IN  /\ conflict = 0 /\ ~db[id].garbage
      /\ IsOpen(t, other)
      /\ \A lit \in Lits(id) \ {other} : IsFalse(t, lit)
      /\ t' = implied
      /\ IF opts.chrono > 1 /\ level > LevelOf(t, Falsified)
         THEN \E lit \in Lits(id) \ {other} :
                /\ LevelOf(t, lit) = level
                /\ db' = With(id, Rewatched(db[id], {other, lit}))
         ELSE UNCHANGED db
      /\ visiting' = visiting \ {id}
      /\ UNCHANGED conflict

FalsifiedClause(id) ==
  /\ conflict = 0 /\ ~db[id].garbage
  /\ \A lit \in Lits(id) : IsFalse(t, lit)
  /\ conflict' = id /\ visiting' = {}
  /\ UNCHANGED <<db, t>>

Visit ==
  /\ pc = "propagate"
  /\ \E id \in visiting :
       \/ VisitBinary(id)
       \/ /\ Cardinality(Lits(id)) > 2
          /\ \/ KeepWatch(id) \/ StopAtLong \/ ReplaceWatch(id)
             \/ Unit(id) \/ FalsifiedClause(id)
  /\ UNCHANGED pc /\ PropagationUnchanged

\* propagate returns.  Outside the search loop a conflict at the root level
\* is the empty clause.
Propagated ==
  /\ pc = "propagate" /\ visiting = {}
  /\ conflict # 0 \/ t.propagated = Len(t.trail)
  /\ unsat' = (unsat \/ (conflict # 0 /\ caller # "search"))
  /\ conflict' = IF caller = "search" THEN conflict ELSE 0
  /\ caller' = "none"
  /\ pc' = CASE conflict # 0 /\ caller = "search" -> "analyze"
             [] conflict # 0 /\ caller = "add" -> "ready"
             [] conflict # 0 /\ caller \in {"solve", "reduce"} -> "unsat"
             [] conflict = 0 /\ caller = "add" -> "ready"
             [] conflict = 0 /\ caller = "reduce" -> "collect"
             [] OTHER -> "loop"
  /\ restartable' = (restartable \/ (conflict # 0 /\ caller = "search"))
  /\ reducible' = (reducible \/ (conflict # 0 /\ caller = "search"))
  /\ UNCHANGED <<clauseVars, queryVars, reductions, t, visiting, analysis,
                 unsatConstraint>>

-----------------------------------------------------------------------------
(***************************************************************************)
(* analyze                                                                 *)
(***************************************************************************)
AnalysisUnchanged ==
  UNCHANGED <<formula, used, queryVars, limitVars, visiting,
              unsatConstraint>>

Search == pc' = "propagate" /\ caller' = "search"

AtLevel(lits, level) == {lit \in lits : LevelOf(t, lit) = level}

\* The two literals of highest level become the watches; a watch that is
\* among the highest already stays.
HighestWatches(lits, watch) ==
  LET best == {w \in SUBSET lits :
                 /\ Cardinality(w) = 2
                 /\ \A a \in w, b \in lits \ w : LevelOf(t, a) >= LevelOf(t, b)}
  IN  {w \in best : \A other \in best :
         Cardinality(w \cap watch) >= Cardinality(other \cap watch)}

\* find_conflict_level and what follows from it.  A single literal on the
\* conflict level is flipped by the conflict itself, without learning.
Analyze ==
  LET lits  == Lits(conflict)
      level == HighestLevel(t, lits)
      top   == AtLevel(lits, level)
      nonroot == {lit \in lits : LevelOf(t, lit) > 0}
  IN  /\ pc = "analyze"
      /\ \E watch \in HighestWatches(lits, db[conflict].watch) :
           db' = With(conflict, Rewatched(db[conflict], watch))
      /\ \/ \E forced \in top :
              /\ level > 0 /\ top = {forced}
              /\ t' = Imply(Backtrack(t, level - 1), forced, conflict, lits)
              /\ conflict' = 0 /\ Search /\ UNCHANGED <<analysis, unsat>>
         \/ /\ level = 0
            /\ t' = Backtrack(t, 0) /\ unsat' = TRUE
            /\ conflict' = 0 /\ pc' = "unsat"
            /\ UNCHANGED <<analysis, caller>>
         \/ /\ level > 0 /\ Cardinality(top) > 1
            /\ t' = Backtrack(t, level)
            /\ analysis' = [lits |-> nonroot, first |-> TRUE,
                            conflictSize |-> Cardinality(nonroot)]
            /\ pc' = "resolve" /\ UNCHANGED <<conflict, unsat, caller>>
      /\ AnalysisUnchanged

OpenLits == AtLevel(analysis.lits, DecisionLevel(t))
LastOpen ==
  CHOOSE a \in OpenLits :
    \A b \in OpenLits : Position(t, a) >= Position(t, b)

\* The next reason and its resolvent with the literals collected so far.
Uip        == -LastOpen
Reason     == ReasonOf(t, Uip)
Antecedent == {lit \in Lits(Reason) : lit = Uip \/ LevelOf(t, lit) > 0}
Resolvent  == (analysis.lits \ {-Uip}) \cup (Antecedent \ {Uip})

\* The resolvent has fewer literals than the reason: it is the reason without
\* the literal resolved upon.
Strengthens ==
  Cardinality(Antecedent) > 2 /\ Cardinality(Resolvent) < Cardinality(Antecedent)

Resolve ==
  /\ pc = "resolve" /\ Cardinality(OpenLits) > 1 /\ ~Strengthens
  /\ analysis' = [lits |-> Resolvent, first |-> FALSE,
                  conflictSize |-> analysis.conflictSize]
  /\ UNCHANGED <<db, t, conflict, unsat, pc, caller>> /\ AnalysisUnchanged

\* determine_actual_backtrack_level.  Reusing the trail picks some level
\* between the jump level and the one below the conflict.
BacktrackLevels(jump) ==
  LET level == DecisionLevel(t)
  IN  IF opts.chrono = 0 THEN {jump}
      ELSE IF opts.always THEN {level - 1}
      ELSE IF jump >= level - 1 \/ jump < Len(assumptions) THEN {jump}
      ELSE (jump + 1)..(level - 1)

\* Mutant: the subsuming clause stays redundant.
SubsumeRedundant(clauses, subsuming, subsumed) ==
  [i \in DOMAIN clauses |->
     IF i = subsumed THEN Discarded(clauses[i]) ELSE clauses[i]]

\* otfs_subsume_clause: the conflict is subsumed by the strengthened reason,
\* which takes its place in the formula.
Subsume(clauses, subsuming, subsumed) ==
  [i \in DOMAIN clauses |->
     LET c == clauses[i]
     IN  IF i = subsumed THEN Discarded(c)
         ELSE IF i = subsuming
         THEN [lits |-> c.lits, watch |-> c.watch, garbage |-> c.garbage,
               redundant |-> c.redundant /\ clauses[subsumed].redundant]
         ELSE c]

Strengthen ==
  LET open == AtLevel(Resolvent, DecisionLevel(t))
      jump == HighestLevel(t, Resolvent \ open)
  IN  /\ pc = "resolve" /\ Cardinality(OpenLits) > 1 /\ Strengthens
      /\ \E watch \in HighestWatches(Resolvent, {}) :
           LET stronger == With(Reason, Shortened(db[Reason], Resolvent, watch))
           IN  db' = IF /\ analysis.first
                        /\ Cardinality(Resolvent) < analysis.conflictSize
                     THEN Subsume(stronger, Reason, conflict)
                     ELSE stronger
      /\ \/ \E forced \in open, level \in BacktrackLevels(jump) :
              /\ open = {forced}
              /\ t' = Imply(Backtrack(t, level), forced, Reason, Resolvent)
              /\ conflict' = 0 /\ analysis' = NoAnalysis /\ Search
         \/ /\ Cardinality(open) > 1
            /\ conflict' = Reason
            /\ analysis' = [lits |-> Resolvent, first |-> TRUE,
                            conflictSize |-> Cardinality(Resolvent)]
            /\ UNCHANGED <<t, pc, caller>>
      /\ UNCHANGED unsat /\ AnalysisUnchanged

\* eagerly_subsume_recently_learned_clauses
EagerlySubsume(clauses, id) ==
  [i \in DOMAIN clauses |->
     IF /\ i # id /\ clauses[i].redundant
        /\ clauses[id].lits \subseteq clauses[i].lits
     THEN Discarded(clauses[i])
     ELSE clauses[i]]

\* The first UIP is found: shrink the clause, learn it, backtrack and assign
\* the flipped literal.
Learn ==
  LET lits  == ShrunkenClause(t, analysis.lits, [id \in DOMAIN db |-> Lits(id)])
      uip   == LastOpen
      watch == {uip, Highest(t, lits \ {uip})}
      jump  == HighestLevel(t, lits \ {uip})
      id    == Min(FreeIds)
  IN  /\ pc = "resolve" /\ Cardinality(OpenLits) = 1
      /\ \E level \in BacktrackLevels(jump) :
           \/ /\ lits = {uip}
              /\ t' = AssignUnit(Backtrack(t, level), uip)
              /\ UNCHANGED db
           \/ /\ lits # {uip} /\ FreeIds # {}
              /\ t' = Imply(Backtrack(t, level), uip, id, lits)
              /\ db' = EagerlySubsume(With(id, NewClause(lits, watch, TRUE)),
                                      id)
      /\ conflict' = 0 /\ analysis' = NoAnalysis /\ Search
      /\ UNCHANGED unsat /\ AnalysisUnchanged

-----------------------------------------------------------------------------
(***************************************************************************)
(* The other branches of cdcl_loop_with_inprocessing, taken after a        *)
(* propagation without conflict.                                           *)
(***************************************************************************)
LoopUnchanged ==
  UNCHANGED <<clauseVars, calls, assumptions, constraint, visiting, conflict,
              analysis, unsat>>

\* Mutant: assumptions and constraint need not be decided.
SatisfiedAtAnyLevel == \A v \in used : ~IsOpen(t, v)

Satisfied ==
  /\ DecisionLevel(t) >= Len(assumptions) + (IF constraint = {} THEN 0 ELSE 1)
  /\ \A v \in used : ~IsOpen(t, v)

FoundModel ==
  /\ pc = "loop" /\ Satisfied
  /\ pc' = "sat"
  /\ UNCHANGED <<limitVars, t, core, unsatConstraint, caller>>
  /\ LoopUnchanged

\* A limit is hit or the terminator asks to stop.
GiveUp ==
  /\ pc = "loop"
  /\ pc' = "unknown"
  /\ UNCHANGED <<limitVars, t, core, unsatConstraint, caller>>
  /\ LoopUnchanged

TrivialDecisions ==
  Len(assumptions) +
    IF t.control[Len(assumptions) + 1].decision = 0 THEN 1 ELSE 0

\* Mutant: the restart limit is not moved.
RestartAgain ==
  /\ pc = "loop" /\ ~Satisfied /\ restartable
  /\ DecisionLevel(t) >= Len(assumptions) + 2
  /\ \E level \in TrivialDecisions..DecisionLevel(t) : t' = Backtrack(t, level)
  /\ Search
  /\ UNCHANGED <<limitVars, core, unsatConstraint>>
  /\ LoopUnchanged

Restart ==
  /\ pc = "loop" /\ ~Satisfied /\ restartable
  /\ DecisionLevel(t) >= Len(assumptions) + 2
  /\ \E level \in TrivialDecisions..DecisionLevel(t) : t' = Backtrack(t, level)
  /\ restartable' = FALSE /\ Search
  /\ UNCHANGED <<reducible, reductions, core, unsatConstraint>>
  /\ LoopUnchanged

\* Mutant: units assigned out of order are not propagated first.
ReduceAtOnce ==
  /\ pc = "loop" /\ ~Satisfied /\ reducible
  /\ reductions < MaxReductions
  /\ \E id \in DOMAIN db : db[id].redundant /\ ~db[id].garbage
  /\ reducible' = FALSE /\ reductions' = reductions + 1
  /\ pc' = "collect"
  /\ UNCHANGED <<t, caller, restartable, core, unsatConstraint>>
  /\ LoopUnchanged

\* reduce, up to propagate_out_of_order_units.
Reduce ==
  LET outOfOrder ==
        /\ DecisionLevel(t) > 0
        /\ \E i \in (t.control[1].trail + 1)..Len(t.trail) :
             LevelOf(t, t.trail[i]) = 0
  IN  /\ pc = "loop" /\ ~Satisfied /\ reducible
      /\ reductions < MaxReductions
      /\ \E id \in DOMAIN db : db[id].redundant /\ ~db[id].garbage
      /\ reducible' = FALSE /\ reductions' = reductions + 1
      /\ IF outOfOrder
         THEN /\ pc' = "propagate" /\ caller' = "reduce"
              /\ t' = Backtrack(t, 0)
         ELSE pc' = "collect" /\ UNCHANGED <<t, caller>>
      /\ UNCHANGED <<restartable, core, unsatConstraint>>
      /\ LoopUnchanged

\* The rest of reduce: clauses satisfied at the root level are garbage,
\* falsified literals are flushed, some learned clauses that are no reason
\* are given up, and garbage that is no reason is freed.
\* Mutant: reasons are not protected.
NoReason(id) == FALSE

IsReason(id) == \E v \in Var : t.reason[v] = id

Flushed(id) ==
  LET units == RootUnits(t)
      lits  == Lits(id) \ {-lit : lit \in units}
  IN  IF db[id].garbage THEN db[id]
      ELSE IF Lits(id) \cap units # {}
      THEN Discarded(db[id])
      ELSE IF Cardinality(lits) < 2 THEN db[id]
      ELSE Shortened(db[id], lits, db[id].watch \cap lits)

Collect ==
  LET flushed == [id \in DOMAIN db |-> Flushed(id)]
      useless == {id \in DOMAIN db : /\ flushed[id].redundant
                                     /\ ~IsReason(id)}
  IN  /\ pc = "collect"
      /\ \E given \in SUBSET useless :
           db' = [id \in {i \in DOMAIN db :
                            \/ IsReason(i)
                            \/ ~flushed[i].garbage /\ i \notin given} |->
                    flushed[id]]
      /\ Search
      /\ UNCHANGED <<formula, used, queryVars, limitVars, t, visiting,
                     conflict, analysis, unsat, unsatConstraint>>

\* failing: the assumptions that the falsified one, or the falsified
\* constraint, was derived from.
Decisions(lits) ==
  LET cone[i \in 0..Len(t.trail)] ==
        \* the literals among the last i of the trail that the search for
        \* reasons reaches
        IF i = 0 THEN lits
        ELSE LET reached == cone[i - 1]
                 lit == t.trail[Len(t.trail) - i + 1]
             IN  IF lit \in reached /\ ReasonOf(t, lit) # 0
                 THEN reached \cup {-other : other \in Lits(ReasonOf(t, lit)) \ {lit}}
                 ELSE reached
  IN  {lit \in cone[Len(t.trail)] :
         LevelOf(t, lit) > 0 /\ ReasonOf(t, lit) = 0}

\* Mutant: only the assumptions the falsified one was derived from.
FailedWithoutFirst ==
  Decisions({-lit : lit \in {a \in ToSet(assumptions) : IsFalse(t, a)}})

Failed ==
  LET falsified == {lit \in ToSet(assumptions) : IsFalse(t, lit)}
      units == {lit \in falsified : LevelOf(t, lit) = 0}
      clashing == {lit \in falsified \ units : ReasonOf(t, lit) = 0}
      Earliest(lits) ==
        assumptions[Min({i \in DOMAIN assumptions : assumptions[i] \in lits})]
      lowest == {lit \in falsified :
                   \A other \in falsified : LevelOf(t, lit) <= LevelOf(t, other)}
  IN  IF units # {} THEN {Earliest(units)}
      ELSE IF clashing # {}
      THEN {Earliest(clashing), -Earliest(clashing)}
      ELSE {Earliest(lowest)} \cup Decisions({-Earliest(lowest)})

FailAssumption ==
  /\ pc = "loop" /\ ~Satisfied
  /\ DecisionLevel(t) < Len(assumptions)
  /\ IsFalse(t, assumptions[DecisionLevel(t) + 1])
  /\ pc' = "unsat" /\ core' = Failed
  /\ UNCHANGED <<limitVars, t, unsatConstraint, caller>>
  /\ LoopUnchanged

FailConstraint ==
  /\ pc = "loop" /\ ~Satisfied
  /\ DecisionLevel(t) = Len(assumptions) /\ constraint # {}
  /\ \A lit \in constraint : IsFalse(t, lit)
  /\ pc' = "unsat" /\ unsatConstraint' = TRUE
  /\ core' = Decisions({-lit : lit \in constraint})
  /\ UNCHANGED <<limitVars, t, caller>>
  /\ LoopUnchanged

\* decide: assumptions first, then the constraint, then any variable.  What
\* holds already gets a pseudo decision level.
Decide ==
  LET level == DecisionLevel(t)
  IN  /\ pc = "loop" /\ ~Satisfied
      /\ \/ /\ level < Len(assumptions)
            /\ ~IsFalse(t, assumptions[level + 1])
            /\ t' = IF IsTrue(t, assumptions[level + 1])
                    THEN NewTrailLevel(t, 0)
                    ELSE AssumeDecision(t, assumptions[level + 1])
         \/ /\ level = Len(assumptions) /\ constraint # {}
            /\ \/ /\ \E lit \in constraint : IsTrue(t, lit)
                  /\ t' = NewTrailLevel(t, 0)
               \/ /\ \A lit \in constraint : ~IsTrue(t, lit)
                  /\ \E lit \in constraint :
                       IsOpen(t, lit) /\ t' = AssumeDecision(t, lit)
         \/ /\ level > Len(assumptions) \/ (level = Len(assumptions)
                                            /\ constraint = {})
            /\ \E lit \in Phases :
                 /\ VarOf(lit) \in used /\ IsOpen(t, lit)
                 /\ t' = AssumeDecision(t, lit)
      /\ Search
      /\ UNCHANGED <<limitVars, core, unsatConstraint>>
      /\ LoopUnchanged

Next ==
  /\ \/ Add \/ Assume \/ Constrain \/ Solve \/ Release
     \/ NextLiteral \/ Visit \/ Propagated
     \/ Analyze \/ Resolve \/ Strengthen \/ Learn
     \/ FoundModel \/ GiveUp \/ Restart \/ Reduce \/ Collect
     \/ FailAssumption \/ FailConstraint \/ Decide
  /\ UNCHANGED opts

Spec == Init /\ [][Next]_vars /\ WF_vars(Next)

-----------------------------------------------------------------------------
(***************************************************************************)
(* Properties                                                              *)
(***************************************************************************)
Ids == 1..MaxClauses

\* Every variable has its type; two different literals of a clause are
\* watched, also after its literals changed (propagate.cpp, collect.cpp FW1).
TypeOK ==
  /\ formula \subseteq SUBSET Lit /\ used \subseteq Var
  /\ DOMAIN db \subseteq Ids
  /\ \A id \in DOMAIN db :
       /\ db[id].lits \subseteq Lit /\ db[id].watch \subseteq db[id].lits
       /\ Cardinality(db[id].watch) = 2
       /\ db[id].redundant \in BOOLEAN /\ db[id].garbage \in BOOLEAN
  /\ t.trail \in Seq(Lit) /\ t.propagated \in 0..Len(t.trail)
  /\ t.level \in [Var -> 0..DecisionLevel(t)]
  /\ t.reason \in [Var -> Ids \cup {0}]
  /\ visiting \subseteq Ids /\ conflict \in Ids \cup {0}
  /\ analysis.lits \subseteq Lit
  /\ assumptions \in Seq(Lit) /\ constraint \subseteq Lit
  /\ unsat \in BOOLEAN /\ unsatConstraint \in BOOLEAN
  /\ pc \in Answered \cup {"ready", "propagate", "analyze", "resolve",
                            "loop", "collect"}
  /\ caller \in {"none", "add", "solve", "search", "reduce"}
  /\ core \subseteq Lit /\ reductions \in 0..MaxReductions

Models(clauses) == {m \in SUBSET Var : IsModel(m, clauses, {})}

\* Everything derived follows from the clauses the user added: clauses that
\* are learned, strengthened on the fly or flushed, units of the root level
\* and the empty clause (analyze.cpp, collect.cpp).
DerivedFollows ==
  \A m \in Models(formula) :
    /\ IsModel(m, {Lits(id) : id \in DOMAIN db}, RootUnits(t))
    /\ ~unsat

\* Redundant clauses can be dropped at any time: what is irredundant and not
\* garbage, with the units of the root level, has no model the formula does
\* not have (otfs_subsume_clause, mark_satisfied_clauses_as_garbage).
IrredundantSuffices ==
  LET kept == {Lits(id) : id \in {i \in DOMAIN db : ~db[i].redundant
                                                    /\ ~db[i].garbage}}
  IN  unsat \/ \A m \in Models(kept) :
        IsModel(m, {}, RootUnits(t)) => IsModel(m, formula, {})

\* What conflict analysis relies on: a reason is a clause in memory which has
\* the literal it implied, its other literals were false before, its level is
\* their highest level, and a reason of more than two literals is no garbage
\* (eager subsumption and reduction spare the reasons).
ReasonsExplain ==
  pc \notin {"resolve"} =>
    \A i \in DOMAIN t.trail :
      LET lit == t.trail[i]
          id  == ReasonOf(t, lit)
      IN  id # 0 =>
            /\ id \in DOMAIN db /\ lit \in Lits(id)
            /\ \A other \in Lits(id) \ {lit} :
                 \E j \in 1..(i - 1) : t.trail[j] = -other
            /\ LevelOf(t, lit) = HighestLevel(t, Lits(id) \ {lit})
            /\ LevelOf(t, lit) > 0
            /\ Cardinality(Lits(id)) > 2 => ~db[id].garbage

\* Two watches suffice: when propagation ends without a conflict, no clause
\* is falsified and none has a single literal left that is not assigned,
\* although backtracking keeps literals assigned out of order and does not
\* visit the others again.
PropagationComplete ==
  pc = "loop" =>
    \A id \in DOMAIN db :
      \/ db[id].garbage
      \/ \E lit \in Lits(id) : IsTrue(t, lit)
      \/ Cardinality({lit \in Lits(id) : IsOpen(t, lit)}) > 1

\* A model satisfies the formula, every assumption and the constraint.
ModelIsModel ==
  pc = "sat" =>
    IsModel({v \in Var : IsTrue(t, v)},
            formula \cup (IF constraint = {} THEN {} ELSE {constraint}),
            ToSet(assumptions))

\* Unsatisfiable: the failed assumptions are assumptions and cannot hold
\* together with the formula, or with the formula and the constraint when
\* the constraint failed (assume.cpp, failing).
CoreFails ==
  pc = "unsat" =>
    /\ core \subseteq ToSet(assumptions)
    /\ NoModel(formula \cup (IF unsatConstraint THEN {constraint} ELSE {}), core)

\* Every search ends with an answer.
SearchEnds == (pc = "loop") ~> (pc \in Answered)
=============================================================================

-------------------------------- MODULE Trail --------------------------------
(***************************************************************************)
(* The partial assignment of CaDiCaL's search and the operations on it.    *)
(* A trail t is a record:                                                  *)
(*                                                                         *)
(*   trail      - the true literals, in the order they were assigned       *)
(*   control    - per decision level its decision (0 for a pseudo level)   *)
(*                and the height of the trail below it                     *)
(*   level      - the assignment level of each variable                    *)
(*   reason     - the clause that implied each variable, 0 for none        *)
(*   propagated - how many literals of the trail have been propagated      *)
(*                                                                         *)
(* With chronological backtracking the assignment level of a literal may   *)
(* be lower than the decision level it was assigned on: the levels along   *)
(* the trail need not ascend.  A variable that is not assigned has level   *)
(* and reason 0.                                                           *)
(***************************************************************************)
EXTENDS Cnf, Sequences, SequencesExt, FiniteSetsExt

EmptyTrail ==
  [trail |-> <<>>, control |-> <<>>, level |-> [v \in Var |-> 0],
   reason |-> [v \in Var |-> 0], propagated |-> 0]

IsTrue(t, lit)   == Contains(t.trail, lit)
IsFalse(t, lit)  == Contains(t.trail, -lit)
IsOpen(t, lit)   == ~IsTrue(t, lit) /\ ~IsFalse(t, lit)
LevelOf(t, lit)  == t.level[VarOf(lit)]
ReasonOf(t, lit) == t.reason[VarOf(lit)]
Position(t, lit) ==
  CHOOSE i \in DOMAIN t.trail : VarOf(t.trail[i]) = VarOf(lit)
DecisionLevel(t) == Len(t.control)

\* The literals true at the root level; they hold in every model.
RootUnits(t) == {lit \in ToSet(t.trail) : LevelOf(t, lit) = 0}

HighestLevel(t, lits) == Max({LevelOf(t, lit) : lit \in lits} \cup {0})

\* search_assign: lit becomes true at a level, which may be lower than the
\* decision level.
SearchAssign(t, lit, level, reason) ==
  [trail      |-> Append(t.trail, lit),
   control    |-> t.control,
   level      |-> [t.level EXCEPT ![VarOf(lit)] = level],
   reason     |-> [t.reason EXCEPT ![VarOf(lit)] = reason],
   propagated |-> t.propagated]

\* A clause implies lit: the assignment level is the highest level of the
\* other literals, and at level 0 the reason is dropped.
Imply(t, lit, id, clause) ==
  LET level == HighestLevel(t, clause \ {lit})
  IN  SearchAssign(t, lit, level, IF level = 0 THEN 0 ELSE id)

\* A unit, whatever the decision level is.
AssignUnit(t, lit) == SearchAssign(t, lit, 0, 0)

NewTrailLevel(t, decision) ==
  [trail      |-> t.trail,
   control    |-> Append(t.control,
                         [decision |-> decision, trail |-> Len(t.trail)]),
   level      |-> t.level,
   reason     |-> t.reason,
   propagated |-> t.propagated]

AssumeDecision(t, lit) ==
  LET up == NewTrailLevel(t, lit)
  IN  SearchAssign(up, lit, DecisionLevel(up), 0)

\* The literals that stay, in their order: those below the first level that
\* goes, and above it those assigned out of order.
Kept(t, newLevel) ==
  LET assigned == t.control[newLevel + 1].trail
      kept[i \in 0..Len(t.trail)] ==
        IF i = 0 THEN <<>>
        ELSE IF i <= assigned \/ LevelOf(t, t.trail[i]) <= newLevel
        THEN Append(kept[i - 1], t.trail[i])
        ELSE kept[i - 1]
  IN  kept[Len(t.trail)]

\* Mutant: what was propagated before backtracking is not propagated again.
BacktrackKeepingPropagated(t, newLevel) ==
  LET kept == Kept(t, newLevel)
      Stays(v) == \E lit \in ToSet(kept) : VarOf(lit) = v
  IN  IF newLevel = DecisionLevel(t) THEN t
      ELSE [trail      |-> kept,
            control    |-> SubSeq(t.control, 1, newLevel),
            level      |-> [v \in Var |-> IF Stays(v) THEN t.level[v] ELSE 0],
            reason     |-> [v \in Var |-> IF Stays(v) THEN t.reason[v] ELSE 0],
            propagated |-> Min({t.propagated, Len(kept)})]

\* Literals above the new level are unassigned; those assigned out of order
\* stay, and are propagated again.
Backtrack(t, newLevel) ==
  LET kept == Kept(t, newLevel)
      Stays(v) == \E lit \in ToSet(kept) : VarOf(lit) = v
      assigned == t.control[newLevel + 1].trail
  IN  IF newLevel = DecisionLevel(t) THEN t
      ELSE [trail      |-> kept,
            control    |-> SubSeq(t.control, 1, newLevel),
            level      |-> [v \in Var |-> IF Stays(v) THEN t.level[v] ELSE 0],
            reason     |-> [v \in Var |-> IF Stays(v) THEN t.reason[v] ELSE 0],
            propagated |-> IF assigned < t.propagated THEN assigned
                                                      ELSE t.propagated]

\* Literals compared by assignment level, then by position on the trail.
Above(t, a, b) ==
  \/ LevelOf(t, a) > LevelOf(t, b)
  \/ LevelOf(t, a) = LevelOf(t, b) /\ Position(t, a) > Position(t, b)

\* The highest of lits.
Highest(t, lits) == CHOOSE a \in lits : \A b \in lits \ {a} : Above(t, a, b)

-----------------------------------------------------------------------------
(***************************************************************************)
(* Minimizing a learned clause.  In what follows lits[id] is the set of    *)
(* literals of clause id and the literals of a set kept are false.         *)
(***************************************************************************)
Antecedents(t, lit, lits) == lits[ReasonOf(t, lit)] \ {lit}

\* minimize_literal: lit follows from root-level units, from kept literals or
\* from literals that do.
MinimizeLiteral(t, lit, kept, implied, lits) ==
  \/ LevelOf(t, lit) = 0
  \/ -lit \in kept
  \/ /\ ReasonOf(t, lit) # 0
     /\ LevelOf(t, lit) # DecisionLevel(t)
     /\ \A other \in Antecedents(t, lit, lits) : -other \in implied

\* The literals of the trail that follow, found in its order.
Implied(t, kept, lits) ==
  LET implied[i \in 0..Len(t.trail)] ==
        IF i = 0 THEN {}
        ELSE IF MinimizeLiteral(t, t.trail[i], kept, implied[i - 1], lits)
        THEN implied[i - 1] \cup {t.trail[i]}
        ELSE implied[i - 1]
  IN  implied[Len(t.trail)]

\* Mutant: literals of lower levels are taken to be implied.
ShrinkUnchecked(t, lit, open, level, implied, lits) ==
  LET same == {other \in Antecedents(t, lit, lits) : LevelOf(t, other) = level}
  IN  (open \ {-lit}) \cup same

\* shrink_along_reason: resolve with the reason of lit, and fail on a literal
\* of a lower level that is not implied.
ShrinkAlongReason(t, lit, open, level, implied, lits) ==
  LET others == Antecedents(t, lit, lits)
      same   == {other \in others : LevelOf(t, other) = level}
  IN  IF \E other \in others \ same : -other \notin implied THEN {}
      ELSE (open \ {-lit}) \cup same

\* shrink_block: going down the trail, resolve the literals of one level, the
\* latest first, until a single one is left.  The result is that literal, or
\* none after a failure.
ShrinkBlock(t, block, kept, lits) ==
  LET implied == Implied(t, kept, lits)
      level   == HighestLevel(t, block)
      open[i \in 0..Len(t.trail)] ==
        LET lit == t.trail[Len(t.trail) - i + 1]
        IN  IF i = 0 THEN block
            ELSE IF -lit \notin open[i - 1] \/ open[i - 1] = {-lit}
            THEN open[i - 1]
            ELSE ShrinkAlongReason(t, lit, open[i - 1], level, implied, lits)
  IN  open[Len(t.trail)]

\* shrunken_block_no_uip: drop the literals that the rest of the block and
\* the lower levels imply.
MinimizedBlock(t, block, kept, lits) ==
  LET implied == Implied(t, kept \cup block, lits)
  IN  {lit \in block :
         \/ ReasonOf(t, lit) = 0
         \/ \E other \in Antecedents(t, -lit, lits) :
               -other \notin implied}

\* minimize_and_shrink_block: what becomes of the literals of one level.
ShrunkenBlock(t, block, kept, lits) ==
  LET uip == ShrinkBlock(t, block, kept, lits)
  IN  IF Cardinality(block) < 2 THEN block
      ELSE IF uip # {} THEN uip
      ELSE MinimizedBlock(t, block, kept, lits)

\* shrink_and_minimize_clause: the blocks below the decision level, from the
\* lowest level up; the literal uip on the decision level stays.
ShrunkenClause(t, clause, lits) ==
  LET Block(l) == {lit \in clause : LevelOf(t, lit) = l}
      kept[l \in 0..(DecisionLevel(t) - 1)] ==
        IF l = 0 THEN {}
        ELSE kept[l - 1] \cup ShrunkenBlock(t, Block(l), kept[l - 1], lits)
  IN  Block(DecisionLevel(t)) \cup kept[DecisionLevel(t) - 1]
=============================================================================

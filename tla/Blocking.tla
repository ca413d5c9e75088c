------------------------------ MODULE Blocking -------------------------------
(***************************************************************************)
(* Clauses that are taken from the formula although they do not follow     *)
(* from the rest: blocked, covered and globally blocked clauses.  Each one *)
(* goes on the extension stack with the literals that repair it.           *)
(***************************************************************************)
EXTENDS ClauseDatabase

\* mark_satisfied_clauses_as_garbage
DropSatisfied(s) == Drop(s, {c \in Clauses(s) : SatisfiedBy(s.units, c)})

\* block_schedule: the literals that can block a clause.
block_schedule(s, frozen) ==
  {lit \in Lit : Active(s, lit) /\ VarOf(lit) \notin frozen}

Clash(c, d, lit) == \E other \in c \ {lit} : -other \in d

\* block_candidates: the clauses with lit that clash with some clause with -lit.
block_candidates(s, lit) ==
  {c \in Occs(s.irr, lit) : \E d \in Occs(s.irr, -lit) : Clash(c, d, lit)}

\* block_impossible: a clause with -lit clashes with no candidate.
block_impossible(s, lit, candidates) ==
  \E d \in Occs(s.irr, -lit) : \A c \in candidates : ~Clash(c, d, lit)

is_blocked_clause(s, c, lit) == \A d \in Occs(s.irr, -lit) : Clash(c, d, lit)

\* block_pure_literal
BlockPure(s, lit) ==
  SetStatus(Weaken(s, {lit}, Occs(s.irr, lit)), lit, "pure")

\* block_literal_with_one_negative_occ
BlockOne(s, lit) ==
  LET d == CHOOSE e \in Occs(s.irr, -lit) : TRUE
  IN  Weaken(s, {lit}, {c \in Occs(s.irr, lit) : Clash(c, d, lit)})

\* block_literal_with_at_least_two_negative_occs
BlockMany(s, lit) ==
  LET candidates == block_candidates(s, lit)
      blocked    == {c \in candidates : is_blocked_clause(s, c, lit)}
  IN  IF Cardinality(candidates) > 1 /\ block_impossible(s, lit, candidates)
      THEN s ELSE Weaken(s, {lit}, blocked)

\* block_literal, of a literal that is active and not frozen.
block_literal(s, lit) ==
  LET negative == Cardinality(Occs(s.irr, -lit))
  IN  CASE negative = 0 -> BlockPure(s, lit)
        [] negative = 1 -> BlockOne(s, lit)
        [] OTHER -> BlockMany(s, lit)

-----------------------------------------------------------------------------
(* Covered clauses: a clause c is extended, by literals whose addition keeps *)
(* the formula (asymmetric) and by those that all resolution candidates of  *)
(* one of its literals share (covered), until it is tautological.           *)

CoverJob(s, c) ==
  [name |-> "cover", phase |-> "extend", clause |-> c,
   added |-> Unfalsified(s.units, c), covered |-> Unfalsified(s.units, c),
   entries |-> <<>>]

\* cover_propagate_asymmetric, of all literals added: the true literals.
Asymmetric(s, job) ==
  Propagation(s.irr \ {job.clause}, s.units \cup Negated(job.added))

\* The clause got a literal and its negation, or one that is subsumed.
Tautological(s, job) ==
  Conflicting(s.irr \ {job.clause}, Asymmetric(s, job))

AsymmetricAddition(s, job) ==
  [job EXCEPT !.added = Negated(Asymmetric(s, job) \ s.units)]

\* cover_propagate_covered: the clauses with -lit whose resolvent with the
\* extended clause is not a tautology, and what they share.
Candidates(s, job, lit) ==
  {d \in Occs(s.irr, -lit) :
     (d \ {-lit}) \cap (s.units \cup Negated(job.added)) = {}}

Intersection(s, job, lit) ==
  {other \in Lit \ (job.added \cup Negated(s.units) \cup {-lit}) :
     \A d \in Candidates(s, job, lit) : other \in d}

\* cover_push_extension
CoverEntry(s, job, lit) == Entry({lit}, job.covered \cup job.clause)

\* covered_literal_addition
CoveredAddition(s, job, lit) ==
  LET shared == Intersection(s, job, lit)
  IN  [job EXCEPT !.added = @ \cup shared, !.covered = @ \cup shared,
                  !.entries = Append(@, CoverEntry(s, job, lit))]

\* The end of cover_clause: a clause that is only an asymmetric tautology
\* stays; else the steps that removed it go on the extension stack.
RemoveCovered(s, c, entries) ==
  IF entries = <<>> THEN s ELSE Drop(Push(s, entries), {c})

-----------------------------------------------------------------------------
(* Globally blocked clauses.  The true literals of an assignment are split  *)
(* in a conditional part and an autarky, which satisfies every clause that  *)
(* it touches while the conditional part holds.                             *)

\* Literals that an assignment can give the condition procedure as true.
Assignment(s, frozen) ==
  LET free == {v \in Actives(s) : v \notin frozen}
  IN  {pos \cup {-v : v \in free \ pos} : pos \in SUBSET free}

\* The true literals that clauses with no true literal falsify.
Conditional(clauses, true) ==
  {lit \in Lit : \E c \in clauses : c \cap true = {} /\ -lit \in c}

\* condition_round for candidate c: conditional literals not needed to falsify
\* c are unassigned, which makes more of the autarky conditional.
Autarky(clauses, assignment, c) ==
  LET conditional[i \in 0..MaxVar] ==
        IF i = 0 THEN assignment \cap Conditional(clauses, assignment)
        ELSE LET known == conditional[i - 1]
                 true  == {lit \in assignment : lit \in known => -lit \in c}
             IN  known \cup (assignment \cap Conditional(clauses, true))
  IN  assignment \ conditional[MaxVar]

\* One candidate of condition_round.  Root-satisfied clauses are ignored.
Condition(s, assignment, c) ==
  LET open    == {d \in s.irr : ~SatisfiedBy(s.units, d)}
      autarky == Autarky(open, assignment, c)
  IN  IF c \notin open \/ autarky \cap c = {} THEN s ELSE Weaken(s, autarky, {c})
=============================================================================

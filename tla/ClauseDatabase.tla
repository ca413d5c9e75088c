--------------------------- MODULE ClauseDatabase ----------------------------
(***************************************************************************)
(* The clauses CaDiCaL keeps, as its inprocessing techniques see them, and *)
(* what connects them to the clauses the user added: root-level units, the *)
(* status of variables and the extension stack.  A database is a record    *)
(*                                                                         *)
(*   irr, red  irredundant and redundant clauses of two or more literals   *)
(*   units     the literals assigned at the root level                     *)
(*   unsat     the empty clause was derived                                *)
(*   status    unused, active, eliminated, pure or substituted; a variable *)
(*             that is active and assigned counts as fixed                 *)
(*   stack     the extension stack: clauses taken from the formula, each   *)
(*             with the literals (witness) that repair it in a model       *)
(*   tainted   literals used by the user against a witness                 *)
(*                                                                         *)
(* Clauses are sets, so equal clauses are one.  Operators take a database  *)
(* and return the next one.                                                *)
(***************************************************************************)
EXTENDS Cnf, FiniteSets, Sequences, FiniteSetsExt, SequencesExt

CONSTANT ElimBound  \* lim.elimbound: clauses a change of variables may add

Clause == SUBSET Lit
Status == {"unused", "active", "eliminated", "pure", "substituted"}

Negated(lits) == {-lit : lit \in lits}
Vars(lits)    == {VarOf(lit) : lit \in lits}

Database ==
  [irr : SUBSET Clause, red : SUBSET Clause, units : SUBSET Lit,
   unsat : BOOLEAN, status : [Var -> Status],
   stack : Seq([witness : SUBSET Lit, clause : Clause]), tainted : SUBSET Lit]

EmptyDatabase ==
  [irr |-> {}, red |-> {}, units |-> {}, unsat |-> FALSE,
   status |-> [v \in Var |-> "unused"], stack |-> <<>>, tainted |-> {}]

Clauses(s)     == s.irr \cup s.red
Fixed(s, lit)  == lit \in s.units \/ -lit \in s.units
Active(s, lit) == s.status[VarOf(lit)] = "active" /\ ~Fixed(s, lit)
Actives(s)     == {v \in Var : Active(s, v)}
Occs(clauses, lit) == {c \in clauses : lit \in c}
SatisfiedBy(units, c) == c \cap units # {}
Unfalsified(units, c) == c \ Negated(units)

\* mark_active, mark_eliminated, mark_pure, mark_substituted, reactivate
SetStatus(s, lit, status) == [s EXCEPT !.status[VarOf(lit)] = status]

-----------------------------------------------------------------------------
(* Propagation. *)

\* The literals of lits and all those that unit propagation of them implies.
Propagation(clauses, lits) ==
  LET round[i \in 0..MaxVar] ==
        IF i = 0 THEN lits
        ELSE LET known == round[i - 1]
                 rests == {Unfalsified(known, c) : c \in clauses}
             IN  known \cup UNION {r \in rests : Cardinality(r) = 1}
  IN  round[MaxVar]

\* The literals of work and what follows from them, without another look at
\* the clauses that only older units propagate through.
NewUnits(clauses, units, work) ==
  LET round[i \in 0..MaxVar] ==
        IF i = 0 THEN work
        ELSE LET known == round[i - 1]
                 seen  == {c \in clauses : c \cap Negated(known) # {}}
                 rests == {Unfalsified(units \cup known, c) : c \in seen}
             IN  known \cup UNION {r \in rests : Cardinality(r) = 1}
  IN  round[MaxVar]

Conflicting(clauses, lits) ==
  \/ \E lit \in lits : -lit \in lits
  \/ \E c \in clauses : c \subseteq Negated(lits)

\* Unit propagation of the negation of c runs into a conflict: the clauses
\* have c as a consequence that a checker of proofs accepts.
Rup(clauses, units, c) ==
  Conflicting(clauses, Propagation(clauses, units \cup Negated(c)))

Unsat(s) == [s EXCEPT !.unsat = TRUE]

\* propagate at the root level, learn_empty_clause on a conflict.
Propagate(s) ==
  LET lits == Propagation(Clauses(s), s.units)
  IN  IF s.unsat THEN s
      ELSE IF Conflicting(Clauses(s), lits) THEN Unsat(s)
      ELSE [s EXCEPT !.units = lits]

Propagated(s) == s.unsat \/ Propagate(s) = s

\* assign_unit: the literal is assigned, and not yet propagated.
AssignUnit(s, lit) == [s EXCEPT !.units = @ \cup {lit}]

\* A derived clause: the empty clause, a unit or a clause of kind k, that is
\* "irr" or "red".
Derive(s, c, k) ==
  CASE c = {} -> Unsat(s)
    [] Cardinality(c) = 1 -> [s EXCEPT !.units = @ \cup c]
    [] OTHER -> [s EXCEPT ![k] = @ \cup {c}]

\* mark_garbage: of clauses whatever their kind, and of one clause of kind k.
Drop(s, cs) == [s EXCEPT !.irr = @ \ cs, !.red = @ \ cs]
MarkGarbage(s, c, k) == [s EXCEPT ![k] = @ \ {c}]

\* new_clause_as, strengthen_clause: d takes the place of c and its kind.
Replace(s, c, d, k) == Derive(MarkGarbage(s, c, k), d, k)

\* A redundant clause becomes irredundant.
Promote(s, c) ==
  IF c \in s.irr THEN s
  ELSE [s EXCEPT !.irr = @ \cup {c}, !.red = @ \ {c}]

\* garbage_collection: root-satisfied clauses go and falsified literals are
\* removed from the others.
Collected(units, cs) ==
  {Unfalsified(units, c) : c \in {d \in cs : ~SatisfiedBy(units, d)}}

Collect(s) ==
  [s EXCEPT !.irr = Collected(s.units, @), !.red = Collected(s.units, @)]

-----------------------------------------------------------------------------
(* The extension stack. *)

\* push_clause_on_extension_stack, for every clause of a sequence.
Push(s, entries) == [s EXCEPT !.stack = @ \o entries]
Entry(witness, c) == [witness |-> witness, clause |-> c]

\* The entries of the clauses cs with the same witness, in some order.
Entries(witness, cs) ==
  FoldSet(LAMBDA c, entries : Append(entries, Entry(witness, c)), <<>>, cs)

Weaken(s, witness, cs) == Drop(Push(s, Entries(witness, cs)), cs)

Witness(s) == UNION {e.witness : e \in ToSet(s.stack)}

\* External::extend: from the last entry to the first, an unsatisfied clause
\* has all its witness literals made true.
Flip(vars, lits) ==
  (vars \cup {lit \in lits : lit > 0}) \ {-lit : lit \in {l \in lits : l < 0}}

Extend(s, vars) ==
  FoldRight(LAMBDA e, m : IF Holds(m, e.clause) THEN m ELSE Flip(m, e.witness),
            s.stack, vars)

-----------------------------------------------------------------------------
(* What the user does. *)

\* Mutant: only a new variable is activated.
InternalizeNew(s, lit) ==
  [s EXCEPT !.status[VarOf(lit)] = IF @ = "unused" THEN "active" ELSE @,
            !.tainted = IF -lit \in Witness(s) THEN @ \cup {lit} ELSE @]

\* External::internalize: use of a literal activates its variable, and taints
\* the literal when its negation is a witness.
Internalize(s, lit) ==
  [SetStatus(s, lit, "active") EXCEPT
     !.tainted = IF -lit \in Witness(s) THEN @ \cup {lit} ELSE @]

InternalizeAll(s, lits) == FoldSet(LAMBDA lit, t : Internalize(t, lit), s, lits)

\* add_new_original_clause, for a new clause or for one restored.
AddOriginal(s, c) ==
  LET t    == InternalizeAll(s, c)
      rest == Unfalsified(t.units, c)
  IN  IF t.unsat \/ SatisfiedBy(t.units, c) \/ (\E lit \in c : -lit \in c)
      THEN t
      ELSE IF Cardinality(rest) = 1 THEN Propagate(Derive(t, rest, "irr"))
      ELSE Derive(t, rest, "irr")

\* Mutant: the literals of a restored clause taint no others.
RestoreUntainted(t, e) ==
  IF Negated(e.witness) \cap t.tainted = {} THEN [t EXCEPT !.keep = Append(@, e)]
  ELSE [t EXCEPT !.s = AddOriginal(@, e.clause)]

\* External::restore_clauses: forward over the stack, entries with a witness
\* literal whose negation is tainted are added again, which may taint more.
\* The witnesses are those of the whole stack until the end.
RestoreEntry(t, e) ==
  IF Negated(e.witness) \cap t.tainted = {} THEN [t EXCEPT !.keep = Append(@, e)]
  ELSE [t EXCEPT !.s = AddOriginal(@, e.clause),
                 !.tainted = @ \cup (e.clause \cap Negated(Witness(t.s)))]

RestoreClauses(s) ==
  LET t == FoldLeft(RestoreEntry,
                    [s |-> s, keep |-> <<>>, tainted |-> s.tainted], s.stack)
  IN  [t.s EXCEPT !.stack = t.keep, !.tainted = {}]

Restore(s) == IF s.tainted = {} THEN s ELSE Propagate(RestoreClauses(s))
=============================================================================

----------------------------- MODULE Elimination -----------------------------
(***************************************************************************)
(* Bounded variable elimination: gates of the variable to eliminate, its   *)
(* resolvents, and the clauses that go on the extension stack.             *)
(***************************************************************************)
EXTENDS ClauseDatabase

CONSTANT FastElimBound  \* fastelimbound: clauses a fast elimination may add

\* elim_propagate: irredundant clauses only, from the literal just assigned;
\* clauses it finds satisfied are dropped.
ElimPropagate(s, root) ==
  LET lits    == NewUnits(s.irr, s.units, {root})
      touched == {c \in s.irr : c \cap (lits \cup Negated(lits)) # {}}
      t       == [s EXCEPT !.units = @ \cup lits]
  IN  IF Conflicting(touched, t.units) THEN Unsat(s)
      ELSE [t EXCEPT !.irr = {c \in @ : c \notin touched
                                          \/ ~SatisfiedBy(t.units, c)}]

ElimUnit(s, lit) == ElimPropagate(AssignUnit(s, lit), lit)

-----------------------------------------------------------------------------
(* Gates.  Clauses are seen without their falsified literals. *)

Open(s, c) == ~SatisfiedBy(s.units, c)
Seen(s, c) == Unfalsified(s.units, c)

\* second_literal_in_binary_clause
Binaries(s, first) ==
  {c \in Occs(s.irr, first) : Open(s, c) /\ Cardinality(Seen(s, c)) = 2}
Second(s, c, first) == CHOOSE lit \in Seen(s, c) : lit # first
Seconds(s, first)   == {Second(s, c, first) : c \in Binaries(s, first)}

\* mark_binary_literals: satisfied clauses and repeated binary ones go; two
\* with clashing literals make the literal a unit.
MarkBinaries(s, first) ==
  LET keep  == {CHOOSE c \in Binaries(s, first) : Second(s, c, first) = lit :
                  lit \in Seconds(s, first)}
      gone  == (Binaries(s, first) \ keep)
                 \cup {c \in Occs(s.irr, first) : ~Open(s, c)}
      clash == \E lit \in Seconds(s, first) : -lit \in Seconds(s, first)
  IN  IF s.unsat \/ Fixed(s, first) THEN s
      ELSE IF clash THEN ElimUnit(s, first)
      ELSE [s EXCEPT !.irr = @ \ gone]

\* find_equivalence, one clause c with -pivot: the marks are those of the start
\* of the search, also when units were found since.
EquivalenceUnit(s, c, pivot, marks) ==
  {lit \in marks : c \in Binaries(s, -pivot) /\ lit = Second(s, c, -pivot)}

EquivalenceGate(s, c, pivot, marks) ==
  {{c, d} : d \in {e \in Binaries(s, pivot) :
                     /\ c \in Binaries(s, -pivot)
                     /\ -Second(s, c, -pivot) = Second(s, e, pivot)
                     /\ Second(s, e, pivot) \in marks}}

find_and_gate(s, pivot) ==
  LET Inputs(c) == Seen(s, c) \ {-pivot}
      bases == {c \in Occs(s.irr, -pivot) :
                  /\ Cardinality(c) >= 3 /\ Open(s, c)
                  /\ Negated(Inputs(c)) \subseteq Seconds(s, pivot)}
  IN  {{c} \cup {d \in Binaries(s, pivot) :
                   -Second(s, d, pivot) \in Inputs(c)} : c \in bases}

\* get_ternary_clause: literals with a value, true or false, are skipped.
Ternary(s, lits) == {c \in s.irr : {lit \in c : ~Fixed(s, lit)} = lits}

find_if_then_else(s, pivot) ==
  LET others == Lit \ {pivot, -pivot}
      Gates(b, x, y) ==
        {{p[1], p[2], p[3], p[4]} :
           p \in Ternary(s, {pivot, b, x}) \X Ternary(s, {pivot, -b, y})
                   \X Ternary(s, {-pivot, b, -x}) \X Ternary(s, {-pivot, -b, -y})}
  IN  UNION {Gates(q[1], q[2], q[3]) :
               q \in {r \in others \X others \X others :
                        Cardinality(Vars({r[1], r[2], r[3]})) = 3}}

\* All clauses with an even number of the literals of one negated.
find_xor_gate(s, pivot) ==
  LET Flips(lits) == {(lits \ odd) \cup Negated(odd) :
                        odd \in {o \in SUBSET lits : Cardinality(o) % 2 = 0}}
      Find(lits)  == {c \in s.irr : Open(s, c) /\ Seen(s, c) = lits}
      bases       == {c \in Occs(s.irr, pivot) :
                        Open(s, c) /\ Cardinality(Seen(s, c)) >= 3}
  IN  {{CHOOSE c \in Find(lits) : TRUE : lits \in Flips(Seen(s, b))} :
         b \in {c \in bases : \A lits \in Flips(Seen(s, c)) : Find(lits) # {}}}

\* find_definition: with the pivot left out the clauses are unsatisfiable; the
\* gate is any core of them (kitten need not find a smallest one).
find_definition(s, pivot) ==
  LET clauses == Occs(s.irr, pivot) \cup Occs(s.irr, -pivot)
      Core(g) == NoModel({c \ {pivot, -pivot} : c \in g}, {})
  IN  {g \in SUBSET clauses : Core(g)}

\* find_gate_clauses, after the equivalences: the first kind of gate there is.
find_gate_clauses(s, pivot) ==
  LET kinds == << find_and_gate(s, pivot), find_and_gate(s, -pivot),
                  find_if_then_else(s, pivot), find_xor_gate(s, pivot) >>
      found == {i \in DOMAIN kinds : kinds[i] # {}}
  IN  IF found = {} THEN {} ELSE kinds[Min(found)]

-----------------------------------------------------------------------------
(* Resolution. *)

\* elim_on_the_fly_self_subsumption: c loses the pivot and falsified literals.
SelfSubsume(s, c, pivot) ==
  [s EXCEPT !.irr = (@ \ {c}) \cup {Seen(s, c) \ {pivot}}]

Resolvent(s, c, d, pivot) ==
  (Seen(s, c) \ {pivot}) \cup (Seen(s, d) \ {-pivot})

\* resolve_clauses: the database afterwards and, as a set of at most one, the
\* resolvent that counts.  c and d are clauses with pivot and -pivot.
resolve_clauses(s, c, d, pivot, eagerly) ==
  LET r       == Resolvent(s, c, d, pivot)
      size    == Cardinality(r)
      shorter == IF Cardinality(c) > Cardinality(d) THEN d ELSE c
      Only(t) == [s |-> t, resolvent |-> {}]
      cuts(e) == Cardinality(Seen(s, e)) > size
      unit    == CHOOSE lit \in r : TRUE
  IN  IF {c, d} \cap s.irr # {c, d} THEN Only(s)
      ELSE IF ~Open(s, shorter) THEN Only(Drop(s, {shorter}))
      ELSE IF ~Open(s, c) \/ ~Open(s, d) THEN Only(Drop(s, {c, d} \ {shorter}))
      ELSE IF \E lit \in r : -lit \in r THEN Only(s)
      ELSE IF size = 0 THEN Only(Unsat(s))
      ELSE IF size = 1
      THEN Only(IF eagerly THEN ElimUnit(s, unit) ELSE AssignUnit(s, unit))
      ELSE IF cuts(c) /\ cuts(d)
      THEN Only(SelfSubsume([s EXCEPT !.irr = @ \ {d}], c, pivot))
      ELSE IF cuts(c) THEN Only(SelfSubsume(s, c, pivot))
      ELSE IF cuts(d) THEN Only(SelfSubsume(s, d, -pivot))
      ELSE [s |-> s, resolvent |-> {r}]

-----------------------------------------------------------------------------
(* An elimination attempt, as a record job, pair by pair. *)

NoJob == [name |-> "none"]

\* The sign of the pivot that occurs less often.
PivotOf(s, v) ==
  IF Cardinality(Occs(s.irr, v)) > Cardinality(Occs(s.irr, -v)) THEN -v ELSE v

\* Pairs to resolve: with a gate that is not a definition only a gate clause
\* with another clause.
Pairs(s, pivot, gates, definition) ==
  {p \in Occs(s.irr, pivot) \X Occs(s.irr, -pivot) :
     gates = {} \/ definition \/ (p[1] \in gates) # (p[2] \in gates)}

Round(technique) ==
  [name |-> "elim", phase |-> "round", technique |-> technique]

\* The search for equivalences in the clauses with -pivot.
EquivalenceJob(s, pivot) ==
  [name |-> "elim", phase |-> "equivalence", technique |-> "elim", pivot |-> pivot,
   marks |-> Seconds(s, pivot), todo |-> Occs(s.irr, -pivot)]

TryJob(s, pivot, gates, definition) ==
  [name |-> "elim", phase |-> "count", technique |-> "elim", pivot |-> pivot,
   gates |-> gates, definition |-> definition,
   pairs |-> Pairs(s, pivot, gates, definition), resolvents |-> 0, queue |-> {},
   bound |-> Cardinality(Occs(s.irr, pivot))
               + Cardinality(Occs(s.irr, -pivot)) + ElimBound]

\* try_to_fasteliminate_variable: no gates, a bound of its own, and nothing to
\* count when all the pairs are within it.
TryFastJob(s, pivot) ==
  LET pos   == Cardinality(Occs(s.irr, pivot))
      neg   == Cardinality(Occs(s.irr, -pivot))
      bound == Min({FastElimBound, pos + neg})
  IN  [TryJob(s, pivot, {}, FALSE) EXCEPT
         !.technique = "elimfast", !.bound = bound,
         !.phase = IF pos * neg <= bound THEN "add" ELSE "count"]

\* Occurrence lists are sorted by clause size; which of two clauses of the
\* same size comes first is left to CHOOSE.
Shortest(cs) == CHOOSE c \in cs : \A d \in cs : Cardinality(c) <= Cardinality(d)

NextPair(pairs) ==
  LET c == Shortest({p[1] : p \in pairs})
  IN  <<c, Shortest({p[2] : p \in {q \in pairs : q[1] = c}})>>

\* elim_resolvents_are_bounded, one pair: the attempt fails when there are too
\* many resolvents, and ends when the pivot gets a value.
CountPair(s, job, pair) ==
  LET r == resolve_clauses(s, pair[1], pair[2], job.pivot, TRUE)
      n == job.resolvents + Cardinality(r.resolvent)
  IN  [s   |-> r.s,
       job |-> IF n > job.bound \/ r.s.unsat \/ Fixed(r.s, job.pivot)
               THEN [job EXCEPT !.phase = "backward"]
               ELSE [job EXCEPT !.pairs = @ \ {pair}, !.resolvents = n]]

StartAdding(s, job) ==
  [job EXCEPT !.phase = "add",
              !.pairs = Pairs(s, job.pivot, job.gates, job.definition)]

\* elim_add_resolvents, one pair.  Units are not propagated here.
AddPair(s, job, pair) ==
  LET r == resolve_clauses(s, pair[1], pair[2], job.pivot, FALSE)
  IN  [s   |-> [r.s EXCEPT !.irr = @ \cup r.resolvent],
       job |-> IF r.s.unsat THEN [job EXCEPT !.phase = "backward"]
               ELSE [job EXCEPT !.pairs = @ \ {pair},
                                !.queue = @ \cup r.resolvent]]

\* mark_eliminated_clauses_as_garbage: the clauses, or only the gate's, go on
\* the extension stack, those with the pivot first.
FinishElimination(s, job) ==
  LET ps == Occs(s.irr, job.pivot)
      ns == Occs(s.irr, -job.pivot)
      Pushed(cs) == IF job.gates = {} THEN cs ELSE cs \cap job.gates
      t  == Push(s, Entries({job.pivot}, Pushed(ps))
                      \o Entries({-job.pivot}, Pushed(ns)))
      u  == [t EXCEPT !.irr = @ \ (ps \cup ns)]
  IN  IF Active(s, job.pivot) THEN SetStatus(u, job.pivot, "eliminated") ELSE u

\* elim_backward_clause: clauses that share a literal with c and are subsumed
\* by it go, those that c strengthens lose the literal; a unit ends it, and so
\* does a clause with two negated literals.
BackwardPair(c, r, d) ==
  LET s       == r.s
      lits    == Seen(s, c)
      negated == {lit \in Seen(s, d) : -lit \in lits}
      covers  == lits \ Negated(negated) \subseteq d
      rest    == Seen(s, d) \ negated
  IN  IF r.stop \/ d \notin s.irr \/ d = c \/ Cardinality(d) < Cardinality(lits) THEN r
      ELSE IF ~Open(s, d) THEN [r EXCEPT !.s = Drop(s, {d})]
      ELSE IF Cardinality(negated) > 1 THEN [r EXCEPT !.stop = TRUE]
      ELSE IF ~covers THEN r
      ELSE IF negated = {} THEN [r EXCEPT !.s = [s EXCEPT !.irr = @ \ {d}]]
      ELSE IF Cardinality(rest) = 1
      THEN [r EXCEPT !.s = ElimUnit(s, CHOOSE lit \in rest : TRUE), !.stop = TRUE]
      ELSE [r EXCEPT !.s = [s EXCEPT !.irr = (@ \ {d}) \cup {d \ negated}],
                     !.queue = @ \cup {d \ negated}]

BackwardClause(s, c, best) ==
  IF ~Open(s, c) THEN [s |-> Drop(s, {c}), queue |-> {}, stop |-> FALSE]
  ELSE FoldSet(LAMBDA d, r : BackwardPair(c, r, d),
               [s |-> s, queue |-> {}, stop |-> FALSE], Occs(s.irr, best))

\* mark_redundant_clauses_with_eliminated_variables_as_garbage
DropEliminated(s) ==
  LET gone == {v \in Var : s.status[v] \in {"eliminated", "pure"}}
  IN  [s EXCEPT !.red = {c \in @ : Vars(c) \cap gone = {}}]

EndElim(s) == Propagate(DropEliminated(s))
=============================================================================

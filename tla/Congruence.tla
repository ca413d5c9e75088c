------------------------------ MODULE Congruence -----------------------------
(***************************************************************************)
(* Congruence closure: definitions of literals (gates) are extracted from  *)
(* the clauses, two gates with the same inputs make their outputs          *)
(* equivalent, and an equivalence is put into the inputs of all gates,     *)
(* where it can make more of them equal.  Each equivalence is learned as   *)
(* two irredundant binary clauses, so clauses may be removed because of it.*)
(*                                                                         *)
(* The operators work on a record t of the database s and the closure job: *)
(*                                                                         *)
(*   gates     the gates that are not garbage                              *)
(*   reprs     the representative of every literal                         *)
(*   schedule  merged literals whose gates are still to be rewritten       *)
(*   watched   the binary clauses watched while AND gates are extracted    *)
(*   units     root-level literals whose gates were simplified             *)
(*   merged    some equivalence was propagated                             *)
(*                                                                         *)
(* The chains of clauses that justify these steps in an LRAT proof are     *)
(* left out: lrat is off, as it is unless such a proof is traced.          *)
(***************************************************************************)
EXTENDS Subsumption

\* A gate: lhs is the conjunction or the parity of rhs, or it is ite[1] ?
\* ite[2] : ite[3].  A degenerate AND gate has its lhs among its inputs.
Gate(tag, lhs, rhs, ite) ==
  [tag |-> tag, lhs |-> lhs, rhs |-> rhs, ite |-> ite, degenerate |-> FALSE]
And(lhs, rhs) == Gate("and", lhs, rhs, <<>>)
Xor(lhs, rhs) == Gate("xor", lhs, rhs, <<>>)

Inputs(g) == g.rhs \cup ToSet(g.ite)

\* init_closure
Closure(s) ==
  [name |-> "congruence", phase |-> "and", gates |-> {},
   reprs |-> [lit \in Lit |-> lit], schedule |-> <<>>,
   watched |-> BinaryClauses(Clauses(s)), units |-> s.units, merged |-> FALSE]

IsTrue(t, lit)  == lit \in t.s.units
IsFalse(t, lit) == -lit \in t.s.units
Value(t, lit)   == IF IsTrue(t, lit) THEN 1 ELSE IF IsFalse(t, lit) THEN -1 ELSE 0

-----------------------------------------------------------------------------
(* Units, binary clauses and equivalences. *)

\* The clauses that propagation sees: not all are watched during extraction.
Watched(t) ==
  CASE t.job.phase = "and" -> t.job.watched
    [] t.job.phase \in {"xor", "ite"} -> {}
    [] OTHER -> Clauses(t.s)

\* fully_propagate, of a new unit.
fully_propagate(t, lit) ==
  LET lits == t.s.units \cup NewUnits(Watched(t), t.s.units, {lit})
  IN  [t EXCEPT !.s = IF Conflicting(Watched(t), lits) THEN Unsat(@)
                      ELSE [@ EXCEPT !.units = lits]]

learn_congruence_unit(t, lit) ==
  IF t.s.unsat \/ IsTrue(t, lit) THEN t
  ELSE IF IsFalse(t, lit) THEN [t EXCEPT !.s = Unsat(@)]
  ELSE fully_propagate([t EXCEPT !.s = AssignUnit(@, lit)], lit)

maybe_add_binary_clause(t, a, b) ==
  LET open == {lit \in {a, b} : Value(t, lit) = 0}
  IN  IF t.s.unsat \/ a = -b \/ IsTrue(t, a) \/ IsTrue(t, b) THEN t
      ELSE IF a = b THEN learn_congruence_unit(t, a)
      ELSE IF Cardinality(open) = 1 THEN learn_congruence_unit(t, CHOOSE lit \in open : TRUE)
      ELSE [t EXCEPT !.s = Derive(@, {a, b}, "irr")]

\* find_representative
Repr(t, lit) == t.job.reprs[lit]

\* The literal of the larger variable gets the other one as representative,
\* and is scheduled to be rewritten.
Represent(t, larger, smaller) ==
  LET Moved(r) == CASE r = larger -> smaller [] r = -larger -> -smaller [] OTHER -> r
  IN  [t EXCEPT !.job.reprs = [lit \in Lit |-> Moved(@[lit])],
                !.job.schedule = Append(@, larger)]

\* really_merge_literals, on representatives that differ.
MergeRepresentatives(t, a, b) ==
  LET larger  == IF VarOf(a) > VarOf(b) THEN a ELSE b
      smaller == IF larger = a THEN b ELSE a
      u       == maybe_add_binary_clause(t, -larger, smaller)
  IN  Represent(maybe_add_binary_clause(u, larger, -smaller), larger, smaller)

\* One of the two has a value: the other one gets the same, if it has none.
MergeAssigned(t, lit, other) ==
  LET x == Value(t, lit)
      y == Value(t, other)
  IN  IF x * y = -1 THEN [t EXCEPT !.s = Unsat(@)]
      ELSE learn_congruence_unit(t, x * other + y * lit)

merge_literals(t, lit, other) ==
  LET a == Repr(t, lit)
      b == Repr(t, other)
      x == Value(t, lit)
      y == Value(t, other)
  IN  IF t.s.unsat \/ a = b \/ (x # 0 /\ x = y) THEN t
      ELSE IF lit = -other \/ a = -b THEN [t EXCEPT !.s = Unsat(@)]
      ELSE IF x # 0 \/ y # 0 THEN MergeAssigned(t, lit, other)
      ELSE MergeRepresentatives(t, a, b)

\* Mutant: a redundant clause stays redundant.
Unpromoted(t, c) == t

\* promote_clause: the clauses of an equivalence must not be redundant.
promote_clause(t, c) == [t EXCEPT !.s = Promote(@, c)]

\* The clauses of the equivalence are there already; those of the
\* representatives are learned when they are others.
merge_literals_equivalence(t, lit, other) ==
  LET a == Repr(t, lit)
      b == Repr(t, other)
      x == Value(t, lit)
      y == Value(t, other)
      u == promote_clause(promote_clause(t, {lit, -other}), {-lit, other})
      larger  == IF VarOf(a) > VarOf(b) THEN a ELSE b
      smaller == IF larger = a THEN b ELSE a
  IN  IF a = b \/ (x # 0 /\ x = y) THEN t
      ELSE IF x # 0 \/ y # 0 THEN MergeAssigned(t, lit, other)
      ELSE IF a = -b THEN [t EXCEPT !.s = Unsat(@)]
      ELSE IF <<a, b>> # <<lit, other>> THEN MergeRepresentatives(u, a, b)
      ELSE Represent(u, larger, smaller)

-----------------------------------------------------------------------------
(* The table of gates. *)

\* find_gate_lits: gates with the inputs of g.
Matching(t, g) ==
  {h \in t.job.gates : h.tag = g.tag /\ h.rhs = g.rhs /\ h.ite = g.ite}

\* mark_garbage
RemoveGate(t, g) == [t EXCEPT !.job.gates = @ \ {g}]

\* A gate with the inputs of another one makes their outputs equivalent.
IndexGate(t, g) ==
  IF Matching(t, g) = {} THEN [t EXCEPT !.job.gates = @ \cup {g}]
  ELSE merge_literals(t, g.lhs, (CHOOSE h \in Matching(t, g) : TRUE).lhs)

\* update_and_gate and update_xor_gate with a single input left.
UnaryGate(t, lhs, input) ==
  CASE Value(t, lhs) = 0 -> merge_literals(t, lhs, input)
    [] OTHER -> learn_congruence_unit(t, Value(t, lhs) * input)

update_and_gate(t, g) ==
  IF Cardinality(g.rhs) = 1
  THEN UnaryGate(t, g.lhs, CHOOSE lit \in g.rhs : TRUE)
  ELSE IndexGate(t, g)

update_xor_gate(t, g) ==
  CASE g.rhs = {} -> learn_congruence_unit(t, -g.lhs)
    [] Cardinality(g.rhs) = 1 -> UnaryGate(t, g.lhs, CHOOSE lit \in g.rhs : TRUE)
    [] OTHER -> IndexGate(t, g)

-----------------------------------------------------------------------------
(* Rewriting src by dst in the inputs of a gate g, and simplifying it when *)
(* an input was assigned.  The gate was taken from the table before.       *)

Move(lit, src, dst) ==
  CASE lit = src -> dst [] lit = -src -> -dst [] OTHER -> lit

AndLhs(t, g) == IF g.degenerate THEN Repr(t, g.lhs) ELSE g.lhs

\* true inputs go; a false one makes the output false, and so does the
\* negated output.
simplify_and_gate(t, g) ==
  LET lhs  == AndLhs(t, g)
      rest == g.rhs \ t.s.units
      u    == update_and_gate(t, [g EXCEPT !.lhs = lhs, !.rhs = rest,
                !.degenerate = @ \/ {lhs, -lhs} \cap rest # {}])
  IN  IF IsTrue(t, g.lhs) THEN t
      ELSE IF \E lit \in g.rhs : IsFalse(t, lit) THEN learn_congruence_unit(t, -lhs)
      ELSE IF -lhs \in rest THEN learn_congruence_unit(u, -lhs)
      ELSE u

\* An input that is false, or clashes with another one or with the output,
\* makes the output false.
rewrite_and_gate(t, g, src, dst) ==
  LET lhs  == AndLhs(t, g)
      lits == {IF lit = src THEN dst ELSE lit : lit \in g.rhs}
      contradictory ==
        \E lit \in lits : IsFalse(t, lit) \/ -lit \in lits \/ lit = -lhs
  IN  IF IsTrue(t, g.lhs) THEN t
      ELSE IF Value(t, src) # 0 THEN simplify_and_gate(t, g)
      ELSE IF contradictory THEN learn_congruence_unit(t, Move(-lhs, src, dst))
      ELSE update_and_gate(t, [g EXCEPT !.lhs = lhs, !.rhs = lits \ t.s.units,
                                        !.degenerate = @ \/ lhs \in lits])

\* rewrite_xor_gate, and simplify_xor_gate with no src: the inputs are
\* positive; one that is true or is rewritten by a negative literal flips
\* the output, and two equal ones cancel.
rewrite_xor_gate(t, g, src, dst) ==
  LET Moved(v) == IF v = src THEN VarOf(dst) ELSE v
      flips == Cardinality({v \in g.rhs : IsTrue(t, Moved(v))})
                 + IF dst < 0 THEN 1 ELSE 0
      rest  == {Moved(v) : v \in {w \in g.rhs :
                  /\ Value(t, Moved(w)) = 0
                  /\ \A u \in g.rhs \ {w} : Moved(u) # Moved(w)}}
      lhs   == IF flips % 2 = 1 THEN -g.lhs ELSE g.lhs
  IN  IF VarOf(dst) = VarOf(g.lhs) THEN t
      ELSE update_xor_gate(t, [g EXCEPT !.lhs = lhs, !.rhs = rest])

simplify_xor_gate(t, g) == rewrite_xor_gate(t, g, 0, 0)

\* Mutant: a negative then-literal does not negate the output.
UnflippedIte(lhs, ite) ==
  LET pos == IF ite[1] > 0 THEN ite ELSE << -ite[1], ite[3], ite[2] >>
  IN  IF pos[2] > 0 THEN Gate("ite", lhs, {}, pos)
      ELSE Gate("ite", lhs, {}, << pos[1], -pos[2], -pos[3] >>)

\* normalize_ite_lits_gate: condition and then-literal are positive.
NormalIte(lhs, ite) ==
  LET pos == IF ite[1] > 0 THEN ite ELSE << -ite[1], ite[3], ite[2] >>
  IN  IF pos[2] > 0 THEN Gate("ite", lhs, {}, pos)
      ELSE Gate("ite", -lhs, {}, << pos[1], -pos[2], -pos[3] >>)

\* An ITE gate that has become lhs = a xor b, with literals of any sign.
TurnXor(t, lhs, a, b) ==
  LET flips == Cardinality({lit \in {a, b} : lit < 0})
      out   == IF flips = 1 THEN -lhs ELSE lhs
      vars  == {VarOf(a), VarOf(b)}
      rest  == CHOOSE v \in vars : v # VarOf(out)
      free  == {v \in vars : Value(t, v) = 0}
  IN  IF -out \in vars THEN learn_congruence_unit(t, rest)
      ELSE IF out \in vars THEN learn_congruence_unit(t, -rest)
      ELSE IF Cardinality(free) < 2 THEN t
      ELSE IndexGate(t, Xor(out, vars))

\* An ITE gate that has become lhs = a and b: of a true output the inputs are
\* learned, first the one of the variable that was rewritten.
TrueAnd(t, a, b, dst) ==
  LET first  == IF VarOf(a) = VarOf(dst) THEN a ELSE b
      second == IF first = a THEN b ELSE a
      u == IF IsTrue(t, a) THEN t
           ELSE IF IsFalse(t, a) THEN [t EXCEPT !.s = Unsat(@)]
           ELSE learn_congruence_unit(t, first)
  IN  IF u.s.unsat \/ IsTrue(u, b) THEN u
      ELSE IF IsFalse(u, b) THEN [u EXCEPT !.s = Unsat(@)]
      ELSE learn_congruence_unit(u, second)

rewrite_ite_gate_to_and(t, lhs, a, b, src, dst) ==
  LET out == Move(lhs, src, dst)
      g   == And(out, {a, b})
  IN  IF IsTrue(t, lhs) THEN TrueAnd(t, a, b, dst)
      ELSE IF Matching(t, g) # {} THEN IndexGate(t, g)
      ELSE maybe_add_binary_clause(maybe_add_binary_clause(IndexGate(t, g), -out, a),
                                   -out, b)

\* lhs = a or b, unless lhs is one of the two.
TurnOr(t, lhs, a, b, src, dst) ==
  IF lhs \in {a, b} THEN t
  ELSE rewrite_ite_gate_to_and(t, -lhs, -a, -b, src, dst)

\* The gate is still an ITE gate, with other inputs.
ReindexIte(t, lhs, ite) == IndexGate(t, NormalIte(lhs, ite))

\* rewrite_ite_gate by the input that is rewritten.
RewriteCondition(t, g, src, dst) ==
  LET then == g.ite[2]
      else == g.ite[3]
  IN  IF dst \in {then, -else} THEN TurnOr(t, g.lhs, then, else, src, dst)
      ELSE IF dst \in {-then, else} THEN rewrite_ite_gate_to_and(t, g.lhs, then, else, src, dst)
      ELSE ReindexIte(t, g.lhs, << dst, then, else >>)

RewriteThen(t, g, src, dst) ==
  LET cond == g.ite[1]
      else == g.ite[3]
  IN  IF dst = -g.lhs THEN learn_congruence_unit(merge_literals(t, g.lhs, else), -cond)
      ELSE IF dst = cond THEN TurnOr(t, g.lhs, cond, else, src, dst)
      ELSE IF dst = -cond THEN rewrite_ite_gate_to_and(t, g.lhs, -cond, else, src, dst)
      ELSE IF dst = else THEN merge_literals(t, g.lhs, else)
      ELSE IF dst = -else /\ g.lhs = cond THEN learn_congruence_unit(t, -else)
      ELSE IF dst = -else THEN TurnXor(t, g.lhs, cond, else)
      ELSE ReindexIte(t, g.lhs, << cond, dst, else >>)

RewriteElse(t, g, src, dst) ==
  LET cond == g.ite[1]
      then == g.ite[2]
  IN  IF dst = -g.lhs THEN learn_congruence_unit(merge_literals(t, g.lhs, then), cond)
      ELSE IF dst = cond THEN rewrite_ite_gate_to_and(t, g.lhs, cond, then, src, dst)
      ELSE IF dst = -cond /\ g.lhs \in {then, cond} THEN t
      ELSE IF dst = -cond THEN rewrite_ite_gate_to_and(t, -g.lhs, cond, -then, src, dst)
      ELSE IF dst = then THEN merge_literals(t, g.lhs, then)
      ELSE IF dst = -then /\ g.lhs = cond THEN learn_congruence_unit(t, then)
      ELSE IF dst = -then /\ g.lhs = -cond THEN learn_congruence_unit(t, -then)
      ELSE IF dst = -then /\ g.lhs = -then THEN learn_congruence_unit(t, cond)
      ELSE IF dst = -then THEN TurnXor(t, -g.lhs, cond, then)
      ELSE ReindexIte(t, g.lhs, << cond, then, dst >>)

rewrite_ite_gate(t, g, src, dst) ==
  IF \/ \A i \in 1..3 : Value(t, g.ite[i]) # 0
     \/ Value(t, g.lhs) # 0 /\ Value(t, g.ite[1]) # 0 THEN t
  ELSE IF src = g.ite[1] THEN RewriteCondition(t, g, src, dst)
  ELSE IF src = g.ite[2] THEN RewriteThen(t, g, src, dst)
  ELSE RewriteElse(t, g, src, dst)

\* simplify_ite_gate_to_and, for an ITE gate with then or else assigned.
SimplifyToAnd(t, lhs, a, b) ==
  LET g == And(lhs, {a, b})
      u == IF -lhs \in g.rhs THEN learn_congruence_unit(t, -lhs) ELSE t
  IN  IF u.s.unsat \/ Matching(u, g) # {} \/ -lhs \notin g.rhs
      THEN IndexGate(u, g)
      ELSE simplify_and_gate(u, g)

SimplifyCondition(t, g) ==
  merge_literals(t, g.lhs, IF IsTrue(t, g.ite[1]) THEN g.ite[2] ELSE g.ite[3])

\* Equal values are that of the output, different ones make it the condition
\* or its negation.
SimplifyBranches(t, g) ==
  LET then == Value(t, g.ite[2])
  IN  IF then = Value(t, g.ite[3]) THEN learn_congruence_unit(t, then * g.lhs)
      ELSE merge_literals(t, g.lhs, then * g.ite[1])

simplify_ite_gate(t, g) ==
  LET cond == g.ite[1]
      then == g.ite[2]
      else == g.ite[3]
      Set(lit) == Value(t, lit) # 0
  IN  IF Set(cond) /\ Set(then) /\ Set(else) THEN t
      ELSE IF Set(cond) THEN SimplifyCondition(t, g)
      ELSE IF Set(then) /\ Set(else) THEN SimplifyBranches(t, g)
      ELSE IF IsTrue(t, then)  THEN SimplifyToAnd(t, -g.lhs, -cond, -else)
      ELSE IF IsFalse(t, then) THEN SimplifyToAnd(t, g.lhs, -cond, else)
      ELSE IF IsTrue(t, else)  THEN SimplifyToAnd(t, -g.lhs, -then, cond)
      ELSE SimplifyToAnd(t, g.lhs, then, cond)

-----------------------------------------------------------------------------
(* Extraction of gates.  A clause counts without its falsified literals,   *)
(* and a satisfied one does not.                                           *)

OpenClauses(s) == Collected(s.units, {c \in s.irr : Cardinality(c) > 2})

DropSatisfiedLarge(s) ==
  Drop(s, {c \in s.irr : Cardinality(c) > 2 /\ SatisfiedBy(s.units, c)})

\* extract_binaries: a ternary clause that a binary one strengthens.
Strengthened(s, c) ==
  {c \ {lit} : lit \in {l \in c :
     \E other \in c \ {l} : {-l, other} \in Clauses(s)}}

extract_binaries(s) ==
  LET ternary == {c \in s.irr : /\ Cardinality(c) = 3 /\ Unassigned(s, c)
                                /\ Strengthened(s, c) # {}}
      new     == {(CHOOSE b \in Strengthened(s, c) : TRUE) : c \in ternary}
  IN  DuplicateBinary([s EXCEPT !.irr = @ \cup new])

\* find_first_and_gate, find_remaining_and_gate: base clause c, output lhs.
AndGate(t, c, lhs) ==
  IF /\ ~t.s.unsat /\ c \in OpenClauses(t.s) /\ Cardinality(c) > 2
     /\ \A lit \in c \ {lhs} : {-lhs, -lit} \in t.job.watched
  THEN IndexGate(t, And(lhs, Negated(c \ {lhs})))
  ELSE t

extract_and_gates(t) ==
  LET bases == {p \in OpenClauses(t.s) \X Lit : p[2] \in p[1]}
  IN  FoldSet(LAMBDA p, u : AndGate(u, p[1], p[2]),
              [t EXCEPT !.s = DropSatisfiedLarge(@)], bases)

\* find_large_xor_side_clause: all clauses over the same variables with as
\* many negative literals, modulo two.
Odd(c) == Cardinality({lit \in c : lit < 0}) % 2 = 1
Sides(c) ==
  {d \in SUBSET (c \cup Negated(c)) :
     /\ Cardinality(d) = Cardinality(c) /\ Vars(d) = Vars(c)
     /\ Odd(d) = Odd(c)}

\* The base clause has only its largest variable negated, if any.
XorBases(s) ==
  {c \in OpenClauses(s) :
     /\ Cardinality(c) > 2 /\ Sides(c) \subseteq OpenClauses(s)
     /\ \A lit \in c : lit < 0 => -lit = Max(Vars(c))}

XorGate(t, c, v) ==
  IF t.s.unsat \/ c \notin OpenClauses(t.s) THEN t
  ELSE IndexGate(t, Xor(IF Odd(c) THEN v ELSE -v, Vars(c) \ {v}))

extract_xor_gates(t) ==
  LET bases == {p \in XorBases(t.s) \X Var : p[2] \in Vars(p[1])}
  IN  FoldSet(LAMBDA p, u : XorGate(u, p[1], p[2]),
              [t EXCEPT !.s = DropSatisfiedLarge(@)], bases)

\* find_conditional_equivalences: v = lit in two ternary clauses, if cond.
ConditionalEquivalences(s, cond) ==
  {p \in Var \X Lit :
     /\ Cardinality({p[1], VarOf(p[2]), VarOf(cond)}) = 3
     /\ {{-cond, -p[1], p[2]}, {-cond, p[1], -p[2]}} \subseteq OpenClauses(s)}

new_ite_gate(t, lhs, cond, then, else) ==
  IF else = -then THEN t
  ELSE IF else = then THEN merge_literals(t, lhs, then)
  ELSE IndexGate(t, NormalIte(lhs, << cond, then, else >>))

\* merge_condeq
IteGate(t, p) ==
  IF /\ ~t.s.unsat /\ Active(t.s, p.cond)
     /\ << p.lhs, p.then >> \in ConditionalEquivalences(t.s, p.cond)
     /\ << p.lhs, p.else >> \in ConditionalEquivalences(t.s, -p.cond)
  THEN new_ite_gate(t, p.lhs, p.cond, p.then, p.else)
  ELSE t

extract_ite_gates(t) ==
  LET Gates(cond) ==
        {[cond |-> cond, lhs |-> p[1][1], then |-> p[1][2], else |-> p[2][2]] :
           p \in {q \in ConditionalEquivalences(t.s, cond)
                          \X ConditionalEquivalences(t.s, -cond) :
                    q[1][1] = q[2][1]}}
  IN  FoldSet(LAMBDA p, u : IteGate(u, p),
              [t EXCEPT !.s = DropSatisfiedLarge(@)],
              UNION {Gates(cond) : cond \in Actives(t.s)})

-----------------------------------------------------------------------------
(* The closure. *)

\* Two clauses that clash in one literal make the other one a unit.
find_units(t) == FoldSet(LAMBDA lit, u : learn_congruence_unit(u, lit), t, HyperUnary(t.s))

find_equivalences(t) ==
  LET pairs == {p \in Var \X Lit :
                  /\ p[1] < VarOf(p[2])
                  /\ {{p[1], -p[2]}, {-p[1], p[2]}} \subseteq Clauses(t.s)}
      Promoted(u, p) == promote_clause(promote_clause(u, {p[1], -p[2]}), {-p[1], p[2]})
      Found(u, p) ==
        IF u.s.unsat \/ ~Active(u.s, p[1]) \/ Repr(u, p[1]) = Repr(u, p[2]) THEN u
        ELSE merge_literals_equivalence(Promoted(u, p), p[1], p[2])
  IN  FoldSet(LAMBDA p, u : Found(u, p), t, pairs)

\* simplify_gates, for a unit.
propagate_unit(t, lit) ==
  LET Simplified(u, g) ==
        LET v == RemoveGate(u, g)
        IN  IF u.s.unsat THEN u
            ELSE IF g.tag = "and" THEN simplify_and_gate(v, g)
            ELSE IF g.tag = "xor" THEN simplify_xor_gate(v, g)
            ELSE simplify_ite_gate(v, g)
  IN  FoldSet(LAMBDA g, u : Simplified(u, g), [t EXCEPT !.job.units = @ \cup {lit}],
              {g \in t.job.gates : Inputs(g) \cap {lit, -lit} # {}})

\* rewrite_gates, by both signs of an equivalence.
rewrite_gates(t, src, dst) ==
  LET Rewritten(u, g) ==
        LET v == RemoveGate(u, g)
        IN  IF u.s.unsat THEN u
            ELSE IF g.tag = "and" THEN rewrite_and_gate(v, g, src, dst)
            ELSE IF g.tag = "xor" THEN rewrite_xor_gate(v, g, src, dst)
            ELSE rewrite_ite_gate(v, g, src, dst)
  IN  FoldSet(LAMBDA g, u : Rewritten(u, g), t,
              {g \in t.job.gates : src \in Inputs(g)})

propagate_equivalence(t) ==
  LET lit == Head(t.job.schedule)
      u   == [t EXCEPT !.job.schedule = Tail(@), !.job.merged = TRUE]
  IN  IF Value(t, lit) # 0 THEN u
      ELSE FoldLeft(LAMBDA v, src : rewrite_gates(v, src, Repr(v, src)), u, <<lit, -lit>>)

\* forward_subsume_matching_clauses: modulo representatives, tautologies and
\* clauses that another one subsumes are removed.
Represented(t, c) == {Repr(t, lit) : lit \in Unfalsified(t.s.units, c)}

Matchable(t) ==
  UNION {{v, VarOf(Repr(t, v))} : v \in {w \in Actives(t.s) : Repr(t, w) # w}}

find_subsuming_clause(t, c) ==
  \E d \in t.s.irr \ {c} :
    /\ Cardinality(d) \in 3..Cardinality(c) /\ Vars(d) \cap Matchable(t) # {}
    /\ Represented(t, d) \subseteq Represented(t, c)

forward_subsume_matching_clauses(t) ==
  LET large == {c \in t.s.irr : Cardinality(c) > 2}
      Tautological(c) == \E lit \in Represented(t, c) : -lit \in Represented(t, c)
      gone  == {c \in large : SatisfiedBy(t.s.units, c) \/ Tautological(c)}
      Step(u, c) == IF find_subsuming_clause(u, c)
                    THEN [u EXCEPT !.s = MarkGarbage(@, c, "irr")] ELSE u
  IN  FoldSet(LAMBDA c, u : Step(u, c), [t EXCEPT !.s = Drop(@, gone)],
              {c \in large \ gone : Vars(c) \cap Matchable(t) # {}})
=============================================================================

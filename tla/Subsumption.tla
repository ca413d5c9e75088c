----------------------------- MODULE Subsumption -----------------------------
(***************************************************************************)
(* Techniques on pairs of clauses and on the graph of binary clauses:      *)
(* subsumption, duplicates, transitive reduction, ternary resolution and   *)
(* equivalent literals.  Clauses of both kinds are used, and a redundant   *)
(* clause must not take the place of an irredundant one unnoticed.         *)
(***************************************************************************)
EXTENDS ClauseDatabase

Unassigned(s, c) == \A lit \in c : ~Fixed(s, lit)

-----------------------------------------------------------------------------
(* Forward subsumption. *)

\* subsume_check of d against c: the literals of d negated in c, when all the
\* others are in c.
Flipped(d, c) == {lit \in d : -lit \in c}
Subsumes(d, c) == d \subseteq c
Strengthens(d, c) ==
  Cardinality(Flipped(d, c)) = 1 /\ d \ Flipped(d, c) \subseteq c

\* subsume_clause: a redundant clause that subsumes an irredundant one is
\* irredundant from then on.
subsume_clause(s, d, c, k) ==
  MarkGarbage(IF k = "irr" THEN Promote(s, d) ELSE s, c, k)

\* Candidates of subsume_round, and what can subsume or strengthen them.
SubsumeCandidates(s, k) ==
  {c \in s[k] : Cardinality(c) > 2 /\ Unassigned(s, c)}
Subsuming(s, c) ==
  {d \in Clauses(s) \ {c} :
     Cardinality(d) <= Cardinality(c) /\ Unassigned(s, d)}

\* try_to_subsume_clause: the databases it can lead to.
try_to_subsume_clause(s, c, k) ==
  {subsume_clause(s, d, c, k) : d \in {e \in Subsuming(s, c) : Subsumes(e, c)}}
    \cup {Replace(s, c, c \ Negated(Flipped(d, c)), k) :
            d \in {e \in Subsuming(s, c) : Strengthens(e, c)}}

-----------------------------------------------------------------------------
(* Binary clauses as a graph of implications. *)

BinaryClauses(clauses) == {c \in clauses : Cardinality(c) = 2}

\* The literals that lit implies through the binary clauses among clauses.
Implied(clauses, lit) ==
  LET reach[i \in 0..(2 * MaxVar)] ==
        IF i = 0 THEN {lit}
        ELSE LET known == reach[i - 1]
             IN  known \cup {other \in Lit : \E l \in known : {-l, other} \in clauses}
  IN  reach[2 * MaxVar]

\* Of two equal binary clauses the irredundant one stays; two that clash in
\* one literal yield the other as a unit.
DuplicateBinary(s) ==
  [s EXCEPT !.red = @ \ BinaryClauses(s.irr)]

HyperUnary(s) ==
  {lit \in Lit : /\ Active(s, lit)
                 /\ \E other \in Lit \ {lit, -lit} :
                      {{lit, other}, {lit, -other}} \subseteq Clauses(s)}

mark_duplicated_binary_clauses_as_garbage(s) ==
  Propagate([DuplicateBinary(s) EXCEPT !.units = @ \cup HyperUnary(s)])

\* deduplicate_all_clauses
DeduplicateAll(s) == LET t == Collect(s) IN [t EXCEPT !.red = @ \ t.irr]

\* transred of clause c of kind k = {-src, dst}: an irredundant clause is only
\* removed because of irredundant ones.
Others(s, c, k) == IF k = "irr" THEN s.irr \ {c} ELSE s.irr \cup (s.red \ {c})

Transitive(s, c, k) ==
  LET graph == BinaryClauses(Others(s, c, k))
  IN  \E lit \in c : c \ {lit} \subseteq Implied(graph, -lit)

FailedSources(s, c, k) ==
  LET graph == BinaryClauses(Others(s, c, k))
  IN  {lit \in c : LET implied == Implied(graph, -lit)
                   IN  \E other \in implied : -other \in implied}

TransredCandidates(s, k) ==
  {c \in BinaryClauses(s[k]) : Unassigned(s, c)}

-----------------------------------------------------------------------------
(* Hyper ternary resolution. *)

\* ternary_find_binary_clause, ternary_find_ternary_clause
ternary_find(s, r) == \E c \in Clauses(s) : Cardinality(c) <= 3 /\ c \subseteq r

\* hyper_ternary_resolve: a set with the resolvent, or empty.
hyper_ternary_resolve(s, c, pivot, d) ==
  LET r == (c \ {pivot}) \cup (d \ {-pivot})
  IN  {x \in {r} : /\ \A lit \in r : -lit \notin r
                   /\ Cardinality(r) <= 3
                   /\ ~ternary_find(s, r)}

\* ternary_lit, one pair: a ternary resolvent is redundant; a binary one
\* replaces its antecedents, and is redundant when both are.
TernaryResolve(s, c, ck, d, dk, r) ==
  IF Cardinality(r) = 3 THEN Derive(s, r, "red")
  ELSE Derive(MarkGarbage(MarkGarbage(s, c, ck), d, dk), r,
              IF ck = "red" /\ dk = "red" THEN "red" ELSE "irr")

TernaryCandidates(s, pivot, k) ==
  {c \in Occs(s[k], pivot) : Cardinality(c) = 3 /\ Unassigned(s, c)}

-----------------------------------------------------------------------------
(* Equivalent literals. *)

\* decompose_round: strongly connected components of the graph of all binary
\* clauses of active literals.
ActiveBinaries(s) ==
  {c \in BinaryClauses(Clauses(s)) : \A lit \in c : Active(s, lit)}

Component(s, lit) ==
  {other \in Implied(ActiveBinaries(s), lit) :
     lit \in Implied(ActiveBinaries(s), other)}

Contradictory(s) == \E v \in Actives(s) : -v \in Component(s, v)

\* The literal of smallest variable; frozen literals represent themselves.
Representative(s, frozen, lit) ==
  LET scc == Component(s, lit)
  IN  IF ~Active(s, lit) \/ VarOf(lit) \in frozen THEN lit
      ELSE CHOOSE r \in scc : \A other \in scc : VarOf(r) <= VarOf(other)

\* The equivalences go on the extension stack in the order of the variables.
EquivalenceEntries(s, reprs) ==
  LET Both(v) == IF reprs[v] = v THEN <<>>
                 ELSE << Entry({-v}, {-v, reprs[v]}), Entry({v}, {v, -reprs[v]}) >>
  IN  FoldLeft(LAMBDA entries, v : entries \o Both(v), <<>>,
               [v \in 1..MaxVar |-> v])

\* A clause with a literal that has another representative is replaced.
Substitute(s, reprs, c, k) ==
  LET rest == {reprs[lit] : lit \in Unfalsified(s.units, c)} \ Negated(s.units)
      satisfied == \/ SatisfiedBy(s.units, c \cup rest)
                   \/ \E lit \in rest : -lit \in rest
  IN  IF \A lit \in c : reprs[lit] = lit THEN s
      ELSE IF satisfied THEN MarkGarbage(s, c, k)
      ELSE Replace(s, c, rest, k)

SubstituteAll(s, reprs) ==
  LET t == FoldSet(LAMBDA c, u : Substitute(u, reprs, c, "irr"), s, s.irr)
  IN  FoldSet(LAMBDA c, u : Substitute(u, reprs, c, "red"), t, t.red)

decompose_round(s, frozen) ==
  LET reprs == [lit \in Lit |-> Representative(s, frozen, lit)]
      t     == Propagate(SubstituteAll(Push(s, EquivalenceEntries(s, reprs)), reprs))
      Gone(v) == Active(t, v) /\ reprs[v] # v /\ ~Fixed(t, reprs[v])
  IN  IF Contradictory(s) THEN Unsat(s)
      ELSE IF t.unsat THEN t
      ELSE [t EXCEPT !.status = [v \in Var |-> IF Gone(v) THEN "substituted"
                                               ELSE @[v]]]
=============================================================================

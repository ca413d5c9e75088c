------------------------------- MODULE Probing -------------------------------
(***************************************************************************)
(* Techniques that assume literals and look at what propagation makes of   *)
(* them: failed literals with hyper binary resolution, the backbone of the *)
(* binary clauses, vivification and instantiation.                         *)
(***************************************************************************)
EXTENDS Subsumption

-----------------------------------------------------------------------------
(* Failed literals.  The literals true on decision level one are a tree,   *)
(* kept as the function that gives each one its parent, and the probe 0.   *)

\* generate_probes: literals that only occur negatively in binary clauses.
generate_probes(s) ==
  LET open == {Unfalsified(s.units, c) :
                 c \in {d \in Clauses(s) : ~SatisfiedBy(s.units, d)}}
      lits == UNION BinaryClauses(open)
  IN  {lit \in Lit : Active(s, lit) /\ -lit \in lits /\ lit \notin lits}

ProbeJob(probe) ==
  [name |-> "probe", phase |-> "propagate", probe |-> probe,
   parent |-> [lit \in {probe} |-> 0]]

TrueIn(s, job)  == s.units \cup DOMAIN job.parent
FalseIn(s, job) == Negated(TrueIn(s, job))

\* Clauses with one unassigned literal and no true one, and falsified ones.
Forcing(s, job, clauses) ==
  {c \in clauses : /\ c \cap TrueIn(s, job) = {}
                   /\ Cardinality(c \ FalseIn(s, job)) = 1}
Falsified(s, job) == {c \in Clauses(s) : c \subseteq FalseIn(s, job)}

Forced(s, job, c) == CHOOSE lit \in c : lit \notin FalseIn(s, job)

\* The literals of the tree that c has negated.
Reasons(job, c) == Negated(c) \cap DOMAIN job.parent

ProbeAssign(job, lit, parent) ==
  [job EXCEPT !.parent = [l \in DOMAIN @ \cup {lit} |-> IF l = lit THEN parent ELSE @[l]]]

\* The way from lit up to the probe.
Path(job, lit) ==
  LET up[i \in 0..(2 * MaxVar)] ==
        IF i = 0 THEN <<lit>>
        ELSE LET path == up[i - 1]
                 top  == job.parent[Last(path)]
             IN  IF top = 0 THEN path ELSE Append(path, top)
  IN  up[2 * MaxVar]

\* Mutant: one of the literals stands for all.
AnyReason(job, lits) == CHOOSE lit \in lits : TRUE

\* probe_dominator, of all the literals of lits.
Dominator(job, lits) ==
  LET Above(lit) == ToSet(Path(job, lit))
      common     == {d \in DOMAIN job.parent : \A lit \in lits : d \in Above(lit)}
  IN  CHOOSE d \in common : common \subseteq Above(d)

\* hyper_binary_resolve: the new binary clause is irredundant when it takes
\* the place of an irredundant reason.
hyper_binary_resolve(s, job, c, k) ==
  LET dom == Dominator(job, Reasons(job, c))
      new == {-dom, Forced(s, job, c)}
  IN  IF Cardinality(Reasons(job, c)) = 1 THEN s
      ELSE IF -dom \in c THEN Replace(s, c, new, k)
      ELSE Derive(s, new, "red")

\* failed_literal: the dominator of the conflict is false, and so is every
\* literal above it, one after the other.
FailParent(s, lit) ==
  IF s.unsat \/ -lit \in s.units THEN s
  ELSE IF lit \in s.units THEN Unsat(s)
  ELSE Propagate(AssignUnit(s, -lit))

failed_literal(s, job, conflict) ==
  FoldLeft(FailParent, s, Path(job, Dominator(job, Reasons(job, conflict))))

-----------------------------------------------------------------------------
(* Backbone of the binary clauses. *)

\* backbone_analyze: literals that imply a literal and its negation.
BackboneFailed(s) ==
  LET graph == ActiveBinaries(s)
  IN  {lit \in Lit : /\ Active(s, lit)
                     /\ \E other \in Implied(graph, lit) :
                          -other \in Implied(graph, lit)}

\* compute_backbone_round gives up when the unit leads to another conflict.
Backbone(s, failed) ==
  LET implied == Implied(ActiveBinaries(s), -failed)
  IN  IF \E lit \in implied : -lit \in implied THEN s
      ELSE Propagate(AssignUnit(s, -failed))

-----------------------------------------------------------------------------
(* Vivification of a clause c of kind k. *)

VivifyCandidates(s, k) ==
  {c \in s[k] : Cardinality(Unfalsified(s.units, c)) > 2 \/ SatisfiedBy(s.units, c)}

\* vivify_analyze finds a reason all of whose literals are in c.
VivifySubsuming(s, c, k) ==
  {d \in Clauses(MarkGarbage(s, c, k)) : Unfalsified(s.units, d) \subseteq c}

\* A redundant clause that subsumes an irredundant one takes its place.
vivify_subsume_clause(s, d, c, k) == subsume_clause(s, d, c, k)

\* vivify_shrinkable: the decisions among the negated literals of c that a
\* conflict, or the value of another literal, rests on.
VivifyShrunken(s, c) ==
  LET open == Unfalsified(s.units, c)
  IN  {lits \in SUBSET open : lits # open /\ Rup(Clauses(s), s.units, lits)}

\* vivify_instantiate: with all its other literals false, a conflict follows
\* from one literal of c.
VivifyInstantiated(s, c) ==
  LET open == Unfalsified(s.units, c)
      Fails(lit) == Rup(Clauses(s), s.units, {-lit} \cup (open \ {lit}))
  IN  {open \ {lit} : lit \in {l \in open : Fails(l)}}

\* The new clause takes the place of c; a unit is propagated.
vivify_strengthen(s, c, lits, k) == Propagate(Replace(s, c, lits, k))

\* Negating the literals of c implies one of them, or is in conflict, without
\* c.  An irredundant clause must not go because of redundant ones.
VivifyImplied(s, c, k) ==
  LET open   == Unfalsified(s.units, c)
      others == Clauses(MarkGarbage(s, c, "red"))
  IN  IF k = "irr" THEN Rup(s.irr \ {c}, s.units, open)
      ELSE \E lit \in open :
             lit \in Propagation(others, s.units \cup Negated(open \ {lit}))

vivify_clause(s, c, k) ==
  IF SatisfiedBy(s.units, c) THEN {MarkGarbage(s, c, k)}
  ELSE {vivify_subsume_clause(s, d, c, k) : d \in VivifySubsuming(s, c, k)}
         \cup {vivify_strengthen(s, c, lits, k) :
                 lits \in VivifyShrunken(s, c) \cup VivifyInstantiated(s, c)}
         \cup IF VivifyImplied(s, c, k) THEN {MarkGarbage(s, c, k)} ELSE {}

-----------------------------------------------------------------------------
(* Instantiation. *)

\* collect_instantiation_candidates: clause c and its literal lit.
InstantiateCandidate(s, c, lit) ==
  /\ Active(s, lit) /\ ~SatisfiedBy(s.units, c)
  /\ Cardinality(Unfalsified(s.units, c)) >= 3

\* inst_assign, inst_propagate: lit is true and the others are false.
inst_propagate(s, c, lit) ==
  Propagation(Clauses(s), s.units \cup {lit} \cup Negated(c \ {lit}))

\* instantiate_candidate: with lit true and the others false there is a
\* conflict, so c loses lit.
instantiate_candidate(s, c, lit) ==
  IF Conflicting(Clauses(s), inst_propagate(s, c, lit))
  THEN Replace(s, c, c \ {lit}, "irr") ELSE s
=============================================================================

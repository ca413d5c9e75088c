------------------------------- MODULE Sweeping ------------------------------
(***************************************************************************)
(* SAT sweeping: the small solver kitten looks at the clauses around a     *)
(* variable for literals that are fixed or equivalent there.  Units are    *)
(* assigned at once; equivalences are collected and substituted when the   *)
(* variable is done.                                                       *)
(***************************************************************************)
EXTENDS ClauseDatabase

\* can_sweep_clause: irredundant clauses and redundant binary ones.
Sweepable(s) == s.irr \cup {c \in s.red : Cardinality(c) = 2}

SweepRound == [name |-> "sweep", phase |-> "round"]

\* sweep_variable: the clauses given to kitten, without falsified literals.
\* Units found later do not change them.
Environment(s) == Collected(s.units, Sweepable(s))

SweepJob(s) ==
  [name |-> "sweep", phase |-> "variable", clauses |-> Environment(s),
   merged |-> <<>>, work |-> {}]

Representatives(s, job) ==
  {v \in UNION {Vars(c) : c \in job.clauses} :
     Active(s, v) /\ \A i \in DOMAIN job.merged : VarOf(job.merged[i].lit) # v}

\* sweep_backbone_candidate: the literal is fixed in the environment.
SweepFixed(s, job) ==
  {lit \in Lit : /\ VarOf(lit) \in Representatives(s, job)
                 /\ NoModel(job.clauses, {-lit})}

\* sweep_equivalence_candidates: lit, of the larger variable, is replaced.
SweepEquivalent(s, job, frozen) ==
  {p \in (Var \ frozen) \X Lit :
     /\ p[1] > VarOf(p[2])
     /\ {p[1], VarOf(p[2])} \subseteq Representatives(s, job)
     /\ NoModel(job.clauses, {p[1], -p[2]})
     /\ NoModel(job.clauses, {-p[1], p[2]})}

\* add_sweep_binary: both implications go on the extension stack.
PushEquivalence(s, lit, repr) ==
  Push(s, << Entry({lit}, {lit, -repr}), Entry({-lit}, {-lit, repr}) >>)

-----------------------------------------------------------------------------
(* The substitution.  t is a record of the database and of the units that  *)
(* are still to be propagated.                                             *)

\* substitute_connected_clauses, one clause c of kind k.  Nothing more is
\* replaced once a unit was found.
SubstituteClause(t, c, k, lit, repr) ==
  LET s    == t.s
      new  == ({repr} \cup (c \ {lit})) \ Negated(s.units)
      unit == Cardinality(new) = 1
  IN  IF Fixed(s, lit) \/ Fixed(s, repr) \/ s.unsat THEN t
      ELSE IF -repr \in c \/ SatisfiedBy(s.units, c)
      THEN [t EXCEPT !.s = MarkGarbage(s, c, k)]
      ELSE [t EXCEPT !.s = Replace(s, c, new, k),
                     !.work = IF unit THEN @ \cup new ELSE @]

Substituted(t, lit, repr, k) ==
  FoldSet(LAMBDA c, u : SubstituteClause(u, c, k, lit, repr), t, Occs(t.s[k], lit))

substitute_connected_clauses(t, lit, repr) ==
  Substituted(Substituted(t, lit, repr, "irr"), lit, repr, "red")

\* One of the two binary clauses {lit, other} of an equivalence: a false
\* literal makes the other one true.
SweepBinary(t, lit, other) ==
  LET false == {l \in {lit, other} : -l \in t.s.units}
      left  == {lit, other} \ false
  IN  IF t.s.unsat \/ false = {} THEN t
      ELSE IF left = {} THEN [t EXCEPT !.s = Unsat(@)]
      ELSE [t EXCEPT !.s.units = @ \cup left]

\* sweep_substitute_new_equivalences, one side: src is replaced by dst, and
\* the clause {-src, dst} is used.
SubstituteSide(t, src, dst) ==
  SweepBinary(substitute_connected_clauses(t, src, dst), -src, dst)

MarkSubstituted(t, e) ==
  IF t.s.unsat \/ Fixed(t.s, e.lit) \/ Fixed(t.s, e.repr) THEN t
  ELSE [t EXCEPT !.s = SetStatus(@, e.lit, "substituted")]

SubstituteEquivalence(t, e) ==
  LET u == SubstituteSide(t, -e.lit, -e.repr)
  IN  MarkSubstituted(SubstituteSide(u, e.lit, e.repr), e)

\* sweep_dense_propagate, of the units to be propagated.
DensePropagate(s, work) ==
  LET lits == NewUnits(Sweepable(s), s.units, work)
      t    == [s EXCEPT !.units = @ \cup lits]
      seen == {c \in Sweepable(s) : c \cap Negated(lits) # {}}
  IN  IF s.unsat \/ Conflicting(seen, t.units) THEN Unsat(s)
      ELSE Drop(t, {c \in Clauses(s) : c \cap lits # {}})

\* The end of sweep_variable.
FinishVariable(s, job) ==
  LET t == FoldLeft(SubstituteEquivalence, [s |-> s, work |-> job.work], job.merged)
  IN  DensePropagate(t.s, t.work)
=============================================================================

---------------------------- MODULE Inprocessing -----------------------------
(***************************************************************************)
(* CaDiCaL between the calls of its user: the techniques that rewrite the  *)
(* clauses before and during the search, in any order, with new clauses    *)
(* and assumptions in between.  A session is a sequence of calls (add,     *)
(* assume and solve) and the techniques that are switched on; the schedule *)
(* of the techniques (limits, effort, options) is left open.               *)
(*                                                                         *)
(*   plan      the calls still to come                                     *)
(*   options   the techniques, and how many starts of one a solve may have *)
(*   s         the database of clauses, see ClauseDatabase                 *)
(*   formula   the clauses the user added                                  *)
(*   assumed   the assumptions of the next or the running solve            *)
(*   job       a technique that works in several steps, or NoJob           *)
(*   mode      steady (being modified), solving or answered                *)
(*   steps     starts of techniques in this solve                          *)
(*                                                                         *)
(* Many techniques take a decision on one clause or one variable; such a   *)
(* step is one action here, and its candidates are quantified over.  One   *)
(* that keeps something in mind across its steps has a job.                *)
(***************************************************************************)
EXTENDS Elimination, Blocking, Probing, Factoring, Sweeping, Congruence

CONSTANTS
  Sessions,     \* records of calls, techniques and, as a bound, starts
  LearnedSize   \* bound: literals of a clause learned by the search

\* What a user may pass: the variables of extensions are not the user's.
UserLits == {lit \in Lit : VarOf(lit) <= UserVars}

UserCalls ==
  {c \in [op : {"add", "assume", "solve"}, lits : Seq(UserLits)] :
     c.op = "assume" => c.lits # <<>>}

ASSUME SessionsAssumption == \A session \in Sessions : session.calls \in Seq(UserCalls)

VARIABLES plan, options, s, formula, assumed, job, mode, steps
vars == <<plan, options, s, formula, assumed, job, mode, steps>>

Init ==
  /\ \E session \in Sessions :
       /\ plan = session.calls
       /\ options = [techniques |-> session.techniques, starts |-> session.starts]
  /\ s = EmptyDatabase /\ formula = {} /\ assumed = {}
  /\ job = NoJob /\ mode = "steady" /\ steps = 0

-----------------------------------------------------------------------------
(* The calls of the user. *)

Call(op) ==
  /\ plan # <<>> /\ Head(plan).op = op
  /\ plan' = Tail(plan)
  /\ UNCHANGED options

\* transition_to_steady_state: the first call after an answer drops the
\* assumptions.
Kept == IF mode = "steady" THEN assumed ELSE {}

Add ==
  /\ Call("add") /\ mode # "solving"
  /\ LET c == ToSet(Head(plan).lits)
     IN  s' = AddOriginal(s, c) /\ formula' = formula \cup {c}
  /\ assumed' = Kept /\ mode' = "steady"
  /\ UNCHANGED <<job, steps>>

Assume ==
  /\ Call("assume") /\ mode # "solving"
  /\ LET lit == Head(plan).lits[1]
     IN  s' = Internalize(s, lit) /\ assumed' = Kept \cup {lit}
  /\ mode' = "steady"
  /\ UNCHANGED <<formula, job, steps>>

\* Internal::solve: restore_clauses and the first propagation.
Solve ==
  /\ Call("solve") /\ mode # "solving"
  /\ s' = Propagate(Restore(s))
  /\ assumed' = Kept
  /\ mode' = "solving" /\ steps' = 0
  /\ UNCHANGED <<formula, job>>

\* The search ends with an answer for the database as it is.
Answer ==
  /\ mode = "solving" /\ job = NoJob
  /\ mode' = "answered"
  /\ UNCHANGED <<plan, options, s, formula, assumed, job, steps>>

\* Assumptions are frozen while they last.
Frozen(lit) == VarOf(lit) \in Vars(assumed)

Inprocess == UNCHANGED <<plan, options, formula, assumed, mode>>

\* A technique, or another round of it, starts; a job goes on.
Start(technique) ==
  /\ mode = "solving" /\ ~s.unsat
  /\ technique \in options.techniques /\ steps < options.starts
  /\ steps' = steps + 1 /\ Inprocess

Continue(name, phase) ==
  /\ job.name = name /\ job.phase = phase
  /\ UNCHANGED steps /\ Inprocess

-----------------------------------------------------------------------------
(* Variable elimination. *)

\* elim, elimfast: a round starts.
ElimRound ==
  /\ Start("elim") /\ job = NoJob /\ Propagated(s)
  /\ job' = Round("elim") /\ UNCHANGED s

FastElimRound ==
  /\ Start("elimfast") /\ job = NoJob /\ Propagated(s)
  /\ job' = Round("elimfast") /\ UNCHANGED s

\* try_to_fasteliminate_variable
TryFastVariable ==
  /\ Start("elimfast") /\ job = Round("elimfast")
  /\ \E v \in Actives(s) : ~Frozen(v) /\ job' = TryFastJob(s, PivotOf(s, v))
  /\ UNCHANGED s

\* try_to_eliminate_variable: gates are looked for in a variable that occurs
\* with both signs, equivalences first.
TryVariable ==
  /\ Start("elim") /\ job = Round("elim")
  /\ \E v \in Actives(s) :
       LET pivot == PivotOf(s, v)
           t     == MarkBinaries(s, pivot)
       IN  /\ ~Frozen(v)
           /\ IF Occs(s.irr, pivot) = {} \/ "gates" \notin options.techniques
              THEN s' = s /\ job' = TryJob(s, pivot, {}, FALSE)
              ELSE /\ s' = t
                   /\ job' = IF t.unsat \/ Fixed(t, pivot) THEN Round("elim")
                             ELSE EquivalenceJob(t, pivot)

\* find_equivalence, the next clause: a unit, a gate or nothing.
Equivalence ==
  /\ Continue("elim", "equivalence") /\ job.todo # {}
  /\ LET c     == Shortest(job.todo)
         units == EquivalenceUnit(s, c, job.pivot, job.marks)
         gates == EquivalenceGate(s, c, job.pivot, job.marks)
     IN  \/ /\ units # {}
            /\ s' = ElimUnit(s, CHOOSE lit \in units : TRUE)
            /\ job' = IF s'.unsat \/ Fixed(s', job.pivot) THEN Round("elim")
                      ELSE [job EXCEPT !.todo = @ \ {c}]
         \/ /\ units = {} /\ gates # {}
            /\ \E gate \in gates : job' = TryJob(s, job.pivot, gate, FALSE)
            /\ UNCHANGED s
         \/ /\ units = {} /\ gates = {}
            /\ job' = [job EXCEPT !.todo = @ \ {c}]
            /\ UNCHANGED s

\* No equivalence: find_and_gate marks the literals of the binary clauses again,
\* those with -pivot only when no gate for pivot was found.
FindGates ==
  /\ Continue("elim", "equivalence") /\ job.todo = {}
  /\ LET first == MarkBinaries(s, job.pivot)
         t     == IF find_and_gate(first, job.pivot) # {} THEN first
                  ELSE MarkBinaries(first, -job.pivot)
     IN  s' = t /\ job' = IF t.unsat \/ Fixed(t, job.pivot) THEN Round("elim")
                          ELSE [job EXCEPT !.phase = "gates"]

\* The attempt with a gate, with a definition that kitten found, or without.
TryWithGate ==
  /\ Continue("elim", "gates")
  /\ \E gates \in find_gate_clauses(s, job.pivot) :
       job' = TryJob(s, job.pivot, gates, FALSE)
  /\ UNCHANGED s

TryWithDefinition ==
  /\ Continue("elim", "gates") /\ "definition" \in options.techniques
  /\ find_gate_clauses(s, job.pivot) = {}
  /\ \E gates \in find_definition(s, job.pivot) :
       LET sides == {p \in {job.pivot, -job.pivot} : Occs(gates, p) # {}}
       IN  IF Cardinality(sides) = 1
           THEN /\ s' = ElimUnit(s, CHOOSE lit \in sides : TRUE)
                /\ job' = Round(job.technique)
           ELSE s' = s /\ job' = TryJob(s, job.pivot, gates, TRUE)

TryWithoutGate ==
  /\ Continue("elim", "gates")
  /\ find_gate_clauses(s, job.pivot) = {}
  /\ "definition" \in options.techniques => find_definition(s, job.pivot) = {}
  /\ job' = TryJob(s, job.pivot, {}, FALSE)
  /\ UNCHANGED s

\* elim_resolvents_are_bounded, the next pair of clauses.
Count ==
  /\ Continue("elim", "count")
  /\ job.pairs # {}
  /\ LET r == CountPair(s, job, NextPair(job.pairs)) IN s' = r.s /\ job' = r.job

Bounded ==
  /\ Continue("elim", "count") /\ job.pairs = {}
  /\ job' = StartAdding(s, job) /\ UNCHANGED s

\* elim_add_resolvents, the next pair of clauses.
AddResolvent ==
  /\ Continue("elim", "add")
  /\ job.pairs # {}
  /\ LET r == AddPair(s, job, NextPair(job.pairs)) IN s' = r.s /\ job' = r.job

\* mark_eliminated_clauses_as_garbage
Eliminate ==
  /\ Continue("elim", "add") /\ job.pairs = {}
  /\ s' = FinishElimination(s, job)
  /\ job' = [job EXCEPT !.phase = "backward"]

\* elim_backward_clauses, one clause of the queue.
Backward ==
  /\ Continue("elim", "backward") /\ ~s.unsat
  /\ \E c \in job.queue : \E best \in c :
       LET r == BackwardClause(s, c, best)
       IN  /\ c \in s.irr => best \in Seen(s, c)
           /\ s' = IF c \in s.irr THEN r.s ELSE s
           /\ job' = [job EXCEPT !.queue =
                        (@ \ {c}) \cup IF c \in s.irr THEN r.queue ELSE {}]

Attempted ==
  /\ Continue("elim", "backward")
  /\ s.unsat \/ job.queue = {}
  /\ job' = Round(job.technique) /\ UNCHANGED s

\* The end of elim_round or elimfast_round.
EndRound ==
  /\ Continue("elim", "round")
  /\ s' = EndElim(s) /\ job' = NoJob

-----------------------------------------------------------------------------
(* Other techniques.  They start on a propagated database. *)

Technique(name) == Start(name) /\ job = NoJob /\ Propagated(s)

FrozenVars == Vars(assumed)

\* new_learned_redundant_clause: the search learned a clause.
Learn ==
  /\ Technique("learn")
  /\ \E c \in UNION {kSubset(n, {lit \in Lit : Active(s, lit)}) : n \in 1..LearnedSize} :
       /\ \A lit \in c : -lit \notin c
       /\ Rup(Clauses(s), s.units, c) /\ c \notin Clauses(s)
       /\ s' = Propagate(Derive(s, c, "red"))
  /\ UNCHANGED job

\* block_schedule and block, one literal.
Block ==
  /\ Technique("block")
  /\ \E lit \in block_schedule(s, FrozenVars) :
       LET t == DropSatisfied(s)
           u == block_literal(t, lit)
       IN  s' = IF Occs(t.irr, -lit) = {} THEN DropEliminated(u) ELSE u
  /\ UNCHANGED job

\* cover_clause: literals are added until the clause is a tautology.
Cover ==
  /\ Technique("cover")
  /\ \E c \in s.irr :
       IF SatisfiedBy(s.units, c) THEN s' = MarkGarbage(s, c, "irr") /\ job' = job
       ELSE s' = s /\ job' = CoverJob(s, c)

CoverAsymmetric ==
  /\ Continue("cover", "extend")
  /\ IF Tautological(s, job)
     THEN s' = RemoveCovered(s, job.clause, job.entries) /\ job' = NoJob
     ELSE s' = s /\ job' = [AsymmetricAddition(s, job) EXCEPT !.phase = "covered"]

CoverCovered ==
  /\ Continue("cover", "covered")
  /\ \E lit \in job.covered :
       /\ ~Frozen(lit)
       /\ \/ /\ Candidates(s, job, lit) = {}
             /\ s' = RemoveCovered(s, job.clause,
                                   Append(job.entries, CoverEntry(s, job, lit)))
             /\ job' = NoJob
          \/ /\ Candidates(s, job, lit) # {} /\ Intersection(s, job, lit) # {}
             /\ job' = [CoveredAddition(s, job, lit) EXCEPT !.phase = "extend"]
             /\ UNCHANGED s

CoverFails ==
  /\ Continue("cover", "covered")
  /\ \A lit \in job.covered :
       Frozen(lit) \/ (Candidates(s, job, lit) # {} /\ Intersection(s, job, lit) = {})
  /\ job' = NoJob /\ UNCHANGED s

\* condition, one candidate.
ConditionClause ==
  /\ Technique("condition")
  /\ \E assignment \in Assignment(s, FrozenVars) : \E c \in s.irr :
       s' = Condition(s, assignment, c)
  /\ UNCHANGED job

\* subsume_round, one candidate.
Subsume ==
  /\ Technique("subsume")
  /\ \E k \in {"irr", "red"} : \E c \in SubsumeCandidates(s, k) :
       s' \in try_to_subsume_clause(s, c, k)
  /\ UNCHANGED job

Deduplicate ==
  /\ Technique("deduplicate")
  /\ s' = mark_duplicated_binary_clauses_as_garbage(s)
  /\ UNCHANGED job

DeduplicateAllClauses ==
  /\ Technique("deduplicate")
  /\ s' = DeduplicateAll(s)
  /\ UNCHANGED job

\* transred, one binary clause.
Transred ==
  /\ Technique("transred")
  /\ \E k \in {"irr", "red"} : \E c \in TransredCandidates(s, k) :
       \/ Transitive(s, c, k) /\ s' = MarkGarbage(s, c, k)
       \/ \E lit \in FailedSources(s, c, k) : s' = Propagate(AssignUnit(s, lit))
  /\ UNCHANGED job

\* ternary, one pair of clauses.
TernaryPair ==
  /\ Technique("ternary")
  /\ \E pivot \in Var, ck \in {"irr", "red"}, dk \in {"irr", "red"} :
       \E c \in TernaryCandidates(s, pivot, ck), d \in TernaryCandidates(s, -pivot, dk) :
         \E r \in hyper_ternary_resolve(s, c, pivot, d) :
           s' = TernaryResolve(s, c, ck, d, dk, r)
  /\ UNCHANGED job

Decompose ==
  /\ Technique("decompose")
  /\ s' = decompose_round(s, FrozenVars)
  /\ UNCHANGED job

\* probe, one probe: assigned, propagated and given up or failed.
Probe ==
  /\ Technique("probe")
  /\ \E probe \in generate_probes(s) : job' = ProbeJob(probe)
  /\ UNCHANGED s

ProbeBinary ==
  /\ Continue("probe", "propagate")
  /\ \E c \in Forcing(s, job, BinaryClauses(Clauses(s))) :
       \E parent \in Reasons(job, c) :
         job' = ProbeAssign(job, Forced(s, job, c), parent)
  /\ UNCHANGED s

ProbeLong ==
  /\ Continue("probe", "propagate")
  /\ Forcing(s, job, BinaryClauses(Clauses(s))) = {}
  /\ \E k \in {"irr", "red"} : \E c \in Forcing(s, job, s[k]) :
       /\ s' = hyper_binary_resolve(s, job, c, k)
       /\ job' = ProbeAssign(job, Forced(s, job, c), Dominator(job, Reasons(job, c)))

ProbeFails ==
  /\ Continue("probe", "propagate")
  /\ Forcing(s, job, BinaryClauses(Clauses(s))) = {}
  /\ \E conflict \in Falsified(s, job) : s' = failed_literal(s, job, conflict)
  /\ job' = NoJob

ProbeEnds ==
  /\ Continue("probe", "propagate")
  /\ Forcing(s, job, Clauses(s)) = {} /\ Falsified(s, job) = {}
  /\ job' = NoJob /\ UNCHANGED s

\* compute_backbone_round, one failed literal.
BackboneLiteral ==
  /\ Technique("backbone")
  /\ \E lit \in BackboneFailed(s) : s' = Backbone(s, lit)
  /\ UNCHANGED job

\* vivify_round, one candidate.
Vivify ==
  /\ Technique("vivify")
  /\ \E k \in {"irr", "red"} : \E c \in VivifyCandidates(s, k) :
       s' \in vivify_clause(s, c, k)
  /\ UNCHANGED job

Instantiate ==
  /\ Technique("instantiate")
  /\ \E c \in s.irr : \E lit \in c :
       /\ InstantiateCandidate(s, c, lit) /\ ~Frozen(lit)
       /\ s' = instantiate_candidate(s, c, lit)
  /\ UNCHANGED job

\* factor, one set of factors.
Factor ==
  /\ Technique("factor")
  /\ LET t == mark_duplicated_binary_clauses_as_garbage(s)
     IN  \E factors \in Factors(t) :
           \/ /\ SelfSubsuming(factors)
              /\ s' = apply_factoring(t, factors, 0)
           \/ /\ ~SelfSubsuming(factors) /\ Fresh(t) # {}
              /\ s' = apply_factoring(t, factors, Min(Fresh(t)))
  /\ UNCHANGED job

\* sweep: rounds of sweep_variable, and propagation at the end.
Sweep ==
  /\ Technique("sweep")
  /\ s' = Drop(s, {c \in Sweepable(s) : SatisfiedBy(s.units, c)})
  /\ job' = SweepRound

SweepVariable ==
  /\ Start("sweep") /\ job = SweepRound
  /\ IF NoModel(Environment(s), {}) THEN s' = Unsat(s) /\ job' = SweepRound
     ELSE s' = s /\ job' = SweepJob(s)

SweepUnit ==
  /\ Continue("sweep", "variable")
  /\ \E lit \in SweepFixed(s, job) :
       s' = AssignUnit(s, lit) /\ job' = [job EXCEPT !.work = @ \cup {lit}]

SweepEquivalence ==
  /\ Continue("sweep", "variable")
  /\ \E p \in SweepEquivalent(s, job, FrozenVars) :
       /\ s' = PushEquivalence(s, p[1], p[2])
       /\ job' = [job EXCEPT !.merged = Append(@, [lit |-> p[1], repr |-> p[2]])]

SweepSubstitute ==
  /\ Continue("sweep", "variable")
  /\ s' = FinishVariable(s, job) /\ job' = SweepRound

SweepEnds ==
  /\ Continue("sweep", "round")
  /\ s' = Propagate(s) /\ job' = NoJob

\* extract_gates: one step for each part of the closure.
Congruence ==
  /\ Technique("congruence")
  /\ s' = extract_binaries(s) /\ job' = Closure(s')

\* The database and the closure become those of t, which is then in phase.
Close(t, phase) == s' = t.s /\ job' = [t.job EXCEPT !.phase = phase]
Closing == [s |-> s, job |-> job]

CongruenceExtract ==
  /\ ~s.unsat
  /\ \/ Continue("congruence", "and") /\ Close(extract_and_gates(Closing), "xor")
     \/ Continue("congruence", "xor") /\ Close(extract_xor_gates(Closing), "ite")
     \/ Continue("congruence", "ite") /\ Close(extract_ite_gates(Closing), "units")

CongruenceBinaries ==
  /\ ~s.unsat
  /\ \/ Continue("congruence", "units") /\ Close(find_units(Closing), "binaries")
     \/ Continue("congruence", "binaries") /\ Close(find_equivalences(Closing), "close")

CongruenceUnit ==
  /\ ~s.unsat /\ Continue("congruence", "close")
  /\ \E lit \in s.units \ job.units : Close(propagate_unit(Closing, lit), "close")

CongruenceEquivalence ==
  /\ ~s.unsat /\ Continue("congruence", "close")
  /\ s.units \subseteq job.units /\ job.schedule # <<>>
  /\ Close(propagate_equivalence(Closing), "close")

CongruenceMatch ==
  /\ ~s.unsat /\ Continue("congruence", "close")
  /\ s.units \subseteq job.units /\ job.schedule = <<>> /\ job.merged
  /\ Close(forward_subsume_matching_clauses(Closing), "matched")

\* The end of the closure, in any phase if the search is to terminate.
CongruenceEnds ==
  /\ Continue("congruence", job.phase)
  /\ s' = Propagate(s) /\ job' = NoJob

Next ==
  \/ Add \/ Assume \/ Solve \/ Answer
  \/ ElimRound \/ FastElimRound \/ TryFastVariable \/ TryVariable \/ Equivalence
  \/ FindGates \/ TryWithGate \/ TryWithDefinition \/ TryWithoutGate
  \/ Count \/ Bounded \/ AddResolvent \/ Eliminate \/ Backward
  \/ Attempted \/ EndRound
  \/ Learn \/ Block \/ Cover \/ CoverAsymmetric \/ CoverCovered \/ CoverFails
  \/ ConditionClause \/ Subsume \/ Deduplicate \/ DeduplicateAllClauses
  \/ Transred \/ TernaryPair \/ Decompose
  \/ Probe \/ ProbeBinary \/ ProbeLong \/ ProbeFails \/ ProbeEnds
  \/ BackboneLiteral \/ Vivify \/ Instantiate \/ Factor
  \/ Sweep \/ SweepVariable \/ SweepUnit \/ SweepEquivalence
  \/ SweepSubstitute \/ SweepEnds
  \/ Congruence \/ CongruenceExtract \/ CongruenceBinaries \/ CongruenceUnit
  \/ CongruenceEquivalence \/ CongruenceMatch \/ CongruenceEnds

Spec == Init /\ [][Next]_vars

-----------------------------------------------------------------------------
(* Properties. *)

\* The assignments that give the literals of lits the value true.
Assignments(lits) ==
  LET free == Var \ Vars(lits)
  IN  {{lit \in lits : lit > 0} \cup m : m \in SUBSET free}

Models(cs, lits) == {m \in Assignments(lits) : IsModel(m, cs, lits)}

\* Whatever was eliminated, blocked, covered, conditioned, substituted or
\* restored so far: every assignment that satisfies the irredundant clauses,
\* the units and the assumptions becomes, with External::extend, a model of
\* all clauses the user added, and still has the assumptions.
ModelsExtend ==
  mode # "steady" /\ ~s.unsat =>
    \A m \in Models(s.irr, s.units \cup assumed) :
      IsModel(Extend(s, m), formula, assumed)

\* No technique derives too much: every model of the clauses of the user
\* satisfies all clauses and units of the database, for some values of the
\* variables that factoring added, and the empty clause is only derived when
\* there is no such model.
ClausesFollow ==
  \A m \in {n \in SUBSET (1..UserVars) : IsModel(n, formula, {})} :
    /\ ~s.unsat
    /\ \E e \in SUBSET (Var \ 1..UserVars) : IsModel(m \cup e, Clauses(s), s.units)

\* A variable that was eliminated, found pure or substituted is in no
\* irredundant clause, until a call of the user or a restored clause makes
\* it active again: the search has no value for it.
OnlyActive ==
  \A c \in s.irr : \A lit \in c : s.status[VarOf(lit)] = "active"

GateHolds(g, m) ==
  True(m, g.lhs) <=>
    CASE g.tag = "and" -> \A lit \in g.rhs : True(m, lit)
      [] g.tag = "xor" -> Cardinality({lit \in g.rhs : True(m, lit)}) % 2 = 1
      [] g.tag = "ite" -> IF True(m, g.ite[1]) THEN True(m, g.ite[2])
                          ELSE True(m, g.ite[3])

\* Extracted, rewritten and simplified gates stay definitions: in every model
\* of the clauses the output of each gate in the table has the value that its
\* inputs give it.  Two gates with the same inputs can be merged for that
\* reason only.
GatesFollow ==
  job.name = "congruence" /\ ~s.unsat =>
    \A m \in Models(Clauses(s), s.units) : \A g \in job.gates : GateHolds(g, m)

\* A literal and its representative are equivalent by irredundant clauses
\* alone (promote_clause): clauses are removed because of the equivalence,
\* and a redundant clause may be gone after the next reduction.
EquivalencesIrredundant ==
  job.name = "congruence" /\ ~s.unsat =>
    \A m \in Models(s.irr, s.units) : \A lit \in Lit :
      True(m, lit) <=> True(m, Repr(Closing, lit))
=============================================================================

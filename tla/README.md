# TLA+ model of zusat

zusat is an R package around the CaDiCaL SAT solver. A caller builds a formula
incrementally, solves it under assumptions and one-shot constraints, reads the
answer, encodes cardinality constraints, enumerates models and records proofs.
CaDiCaL itself is vendored under `src/src/cadical/`; the package's own logic is a
C layer (`src/src/zusat.c`) and the R functions on top of it (`src/R/`).

This directory models that logic in TLA+, and CaDiCaL's search and inprocessing
below it. It checks the models with TLC on small instances. With TLAPS it proves
the safety of the C layer, the R session, the encodings, the enumeration, proof
tracing and CaDiCaL's search, that the C layer implements the promise of a
solver, that the inprocessing derives nothing that does not follow, and that its
congruence closure stays justified by the clauses it leaves, for every number of
variables and every set of inputs.

## The system

| Part | State | Operations | What makes it correct |
|---|---|---|---|
| CaDiCaL's API (`cadical.hpp`, `solver.cpp`, `external.cpp`) | API state, variables, clauses, half-passed clause, assumptions, constraint, model, limits, options, terminator, tracer | add, constrain, assume, solve, simplify, val, failed, fixed, conclude, set, limit, trace, close | external contract: every call has REQUIREs, and a broken one aborts, here by an R error (`longjmp`) |
| Solver handle (`zusat.c`) | `zusat_handle`: proof file, `interrupted`, `configuring`, `last_status`, `concludable`, `constraint_pending` | one `.Call` entry point each | the cached flags never outlive the state they describe, no REQUIRE is ever reached, files do not leak, answers answer the question asked |
| R session (`solver.R`, `cardinality.R`, `controls.R`) | recorded auxiliary ranges of a solver | `sat_add`, `sat_at_most/at_least/exactly`, `sat_reserve`, `sat_constrain`, `sat_solve` | caller's and encodings' variables never collide; the formula means all calls together |
| Encodings (`cardinality.R`) | none | pairwise, sequential counter, automatic choice | the clauses say exactly what the call requires |
| Enumeration (`enumerate.R`) | rows found, status, reason | `sat_solutions` | distinct, correct rows; "exhausted" only when all are found; it ends |
| Proof tracing (`proof.R`, `zusat.c`) | the FILE, the tracer, two options | trace, conclude, close | one owner of the file; a failed attempt changes nothing; the format is the one asked for |
| DIMACS files (`dimacs.R`) | none | read, write | what is written, and edited by others, reads back as the same formula; damage is noticed |
| CaDiCaL's search (`internal.cpp`, `propagate.cpp`, `analyze.cpp`, ...) | trail, clauses with two watches, conflict, assumptions, constraint | propagate, analyze, learn, backtrack, restart, reduce, decide | learned clauses follow, watches miss nothing, models and cores are right, it ends |
| CaDiCaL's inprocessing (`elim.cpp` to `congruence.cpp`, `extend.cpp`, `restore.cpp`) | irredundant and redundant clauses, root units, status of variables, extension stack, tainted literals | some twenty techniques; restore and extend | a model of what is left extends to a model of all that was added, also after variables are used again; nothing is derived that does not follow |
| Result objects, registration | none | | |

R is single-threaded, so `.Call`s do not interleave. What makes the code hard is
that calls end early, and that state is kept in three places:

* an error raised by CaDiCaL leaves a `.Call` in its middle, and what it had
  passed on stays in CaDiCaL;
* Ctrl-C ends a search through the terminator callback, and ends an R loop
  between two `.Call`s;
* garbage collection runs the finalizer on a handle in any state;
* the handle caches what state CaDiCaL is in and guards calls by the cache; the
  R layer keeps the auxiliary ranges; CaDiCaL keeps the query of the last solve
  until some later call forgets it.

Inside CaDiCaL nothing runs concurrently either. The hard cases are long
sequences: literals assigned out of order and kept by backtracking, reasons of
clauses that are strengthened or freed, clauses removed by one technique and
needed by another several calls later, units that are assigned and not yet
propagated when the next step looks at the clauses.

`PROJECT.json` lists the hazards with their lines and the properties aimed at
each.

## Modules

* `Cnf`: literals, clauses as sets of literals, assignments as sets of true
  variables, models.
* `CaDiCaL` (external code, from its API implementation): one action and one
  contract predicate per API call. `transition_to_steady_state` is
  `AssumptionsKept`/`ConstraintKept`: the query of the last solve is dropped by
  the first call after it. The search is its specification: "sat" with a model
  of what was asked, "unsat" only if there is none, "unknown" only if a limit,
  an interrupt or preprocessing may end it early. With `factor = 1` it may
  define extension variables.
* `ZusatHandle` composes the handle with CaDiCaL. Entry points that pass
  vectors on take one step per CaDiCaL call (`Enter`, `AddLiteral`,
  `AddTerminator`, ...), so that an error in the middle leaves what was passed
  on. `Raise` is CaDiCaL's error. `told` is a history variable: what the caller
  is entitled to believe after the calls that returned.
* `SatSolver` is the promise: an incremental solver with clauses, a pending
  constraint, a limit and a readable answer, one atomic action per call.
  `HandleRefinement` maps the handle to it.
* `CardinalityEncodings` translates the encoders as pure operators.
* `SolverSession` builds on `SatSolver`: the R functions that check literals,
  allocate auxiliaries, add clauses in a loop that Ctrl-C can end, and record
  ranges.
* `Enumerate` builds on `SatSolver`: the loop of `sat_solutions`, one step per
  `.Call`. `ModelEnumerator` is what it promises.
* `ProofTracing`: `sat_trace_proof` statement by statement, with Ctrl-C between
  any two of them, the options it sets and takes back, and CaDiCaL's choice of
  the tracer from the options: the first one enabled of VeriPB, FRAT, LRAT,
  IDRUP, LIDRUP, and DRAT when none is. The options of the formats are on or off;
  the several values of `veripb` and `frat` choose details of what is written.
* `Dimacs`: `write_dimacs`, `read_dimacs`, and edits other tools make to a file
  in between. Words are tokens with a value; a string is the sequence of its
  lines. `read_dimacs` looks at the first character of a line to tell comments,
  headers and trailers from the formula, so words also have a class by their
  first character (`CsAndPs`, `Percents`).
* `Trail` and `Cdcl`: the search. `Trail` has the assignment (levels, reasons,
  backtracking that keeps out-of-order literals, minimising and shrinking of a
  learned clause). `Cdcl` is the loop: one step per visit of a watched clause,
  per resolution of an analysis, per branch of the main loop. Decision order,
  phases, restart and reduce schedules are free choices; a restart or reduction
  waits for a conflict, as its limit does in the code.
* `ClauseDatabase`: the clauses as inprocessing sees them, root propagation, the
  extension stack, `External::internalize`, `restore_clauses` and `extend`.
* `Elimination` (bounded variable elimination with gates and definitions, fast
  elimination, backward subsumption), `Blocking` (blocked, covered and globally
  blocked clauses), `Subsumption` (subsumption, duplicates, transitive
  reduction, ternary resolution, equivalent literals), `Probing` (failed
  literals, backbone, vivification, instantiation), `Factoring`, `Sweeping`,
  `Congruence`: one module per group of techniques, as operators from one
  database to the next.
* `Inprocessing` composes them: the calls of the user and one action per
  technique or per step of it. `job` is what a technique keeps in mind between
  its steps, so that a unit found in the middle meets what was computed before.
* `CnfProofs`, `ZusatHandleProofs`, `SolverSessionProofs`, `EnumerateProofs`,
  `ProofTracingProofs`, `CdclProofs`, `DatabaseProofs`, `InprocessingProofs`: lemmas
  and theorems about the module of that name (`ZusatHandleProofs` about
  `HandleRefinement` too, `SolverSessionProofs` about `EncodingCalls`, `CdclProofs`
  about `Trail`, and `DatabaseProofs` about `ClauseDatabase` and the modules of the
  techniques but `Congruence`, which is in `InprocessingProofs`).
* `EncodingCalls`: the calls of the encoders and what they must achieve.
* `MC*`: small instances for TLC.

Operators commented *mutant* change one definition the way a slip in the code
would; each property is violated when its mutant (listed in `PROJECT.json`)
takes the definition's place.

`CaDiCaL` states what a solve promises; `Cdcl` and `Inprocessing` check that the
search and the rewriting of clauses keep it: `ModelIsModel` and `CoreFails` for
the database the search works on, `ModelsExtend` and `ClausesFollow` for what
that database says about the clauses of the user. In `Inprocessing` the search
is represented by the clauses it may learn (`Learn`) and by its end (`Answer`).

### Notes on the inprocessing modules

* Clauses are sets of literals, and equal clauses are one. Occurrence lists,
  schedules, effort limits and the order of candidates are left open: a
  technique may take any candidate, and stop after any step that the code can
  stop at.
* Options have their defaults where they change what is done
  (`vivifydemote = 0`, `vivifyinst = 1`); techniques that are off by default
  (blocking, covering, conditioning, instantiation, factoring, definitions) are
  modelled too, since `sat_option` can switch them on.
* kitten, the small solver used by sweeping and definition extraction, is the
  oracle `NoModel` and any unsatisfiable core.
* A vivified clause is some proper subset that unit propagation derives; the
  code finds one of them by conflict analysis. The backbone computation gives
  up, as the code does, when the negation of a failed literal fails too.
* Entries of covered clauses keep literals that are false at the root level.
* `transred` may use hyper-binary resolvents or not; both are allowed.
* `Congruence` is the closure with `lrat` off, as it is unless such a proof is
  traced. A garbage gate leaves the table at once; the eager and the lazy
  representatives are one function. A unit found while gates are extracted is
  propagated over the watched binary clauses only (AND gates) or not at all
  (XOR and ITE gates) until extraction is over, as in the code. The closure may
  end after any of its phases.
* Redundant clauses with eliminated variables are dropped at the end of an
  elimination round.

## Runs

| Run | Instance | Shows |
|---|---|---|
| `handle` | 2 variables, clauses of length 0 to 2, one with an illegal literal, assumptions of length 0 to 2, two constraints, one limit, `factorcheck` 2 and an out-of-range value; 2.7 million states | `CacheSound`, `ProofFileOwned` whatever the options; `NoContractViolation`, `FormulaIsTold`, `PendingIsConstraint`, `AnswerSound` with plain options |
| `refinement` | 2 variables, plain options; 0.6 million states | the handle implements `SatSolver` |
| `encodings` | every call over at most 4 literals, k from 0 to 5, three encodings, 0, 2 or 6 known variables | encodings are exact and use exactly the range they record |
| `session` | 7 variables, one Ctrl-C between any two clauses, a call that adds no clauses; 1.3 million states | `RangesAscend`, `NoSharedVariable`, `FormulaMeansCalls`, `AnswerMeetsCalls` |
| `enumerate` | 3 variables, four formulas, three projections, assumptions and constraints, limits 0, 2 and none; 0.6 million states | distinct rows, honest status, no lost model, `ModelEnumerator` implemented, termination |
| `proof_tracing` | two Ctrl-Cs, failing and succeeding attempts in every order, all six options; 0.12 million states | a failed attempt leaves the options as they were (`OptionsRestored`); the file has the first format, in the documented order, among the one asked for and those turned on with `sat_option` (`FormatAsAsked`) |
| `dimacs` | five formulas, three comments, three edits of the file, four kinds of damage; 0.2 million states | the formula survives every harmless edit (`FormulaSurvives`); damage is refused, but for a word at the start of a line that begins with c, p or %, where the code skips the line or the rest of the file (`DamageRefused`) |
| `search` | seven incremental sessions over up to 5 variables, with the default setting of chronological backtracking and with it always on, every decision order; 0.15 million states, up to 98 steps deep | derived clauses follow, what is kept suffices, reasons explain, propagation is complete, models and cores are right, the search ends |
| `inprocessing` | 159 sessions (formula, calls and techniques) over 5 variables and one extension variable, some with an assumption on a variable that would be eliminated, substituted or used as a witness; 0.19 million states | `ModelsExtend`, `ClausesFollow`, `OnlyActive`, `GatesFollow`, `EquivalencesIrredundant` |

The bounds are small because nothing in the code depends on the identity of a
variable or on the length of a clause beyond "none, one, several": two variables
and clauses up to length two give satisfiable and unsatisfiable queries, half
passed clauses and stale assumptions that change an answer. The known numbers of
variables in `encodings` lie below, among and above the literals; the pairwise
limit is lowered from 64 so that "auto" chooses both encodings; the ceiling of
16 variables is low enough for some encodings to be refused. In `session`
variables 3 to 6 can become the caller's or an encoding's, depending on who
comes first. Three variables leave one that the formula of `enumerate` does not
mention. `handle`, `refinement`, `session`, `enumerate` and `proof_tracing` check
for deadlock; `encodings`, `dimacs`, `search` and `inprocessing` end when their
inputs are used up.

The sessions of `search` are chosen so that each special path of the analysis is
taken: on-the-fly strengthening, a learned clause that comes to subsume one of
the formula, shrinking that succeeds and that does not, an assumption that fails
in each of the three ways, units assigned out of order before a reduction. At
most 14 clauses are in memory and one reduction happens per session; decisions
are positive: a bound on the phase heuristic, for sessions that use both signs.

The sessions of `inprocessing` add a formula that has what a technique looks for
(two gates with the same inputs, an equivalence, a covered clause, factors),
solve, use the removed variables again with a clause or an assumption, and solve
again. In each solve up to `starts` (one to three) techniques start, any of those
the session switches on, in any order; a technique runs to its end before the
next one starts, as in the code. Variables: 5 of the user, and a sixth for
factoring. `ElimBound = 0` is the bound on added clauses that the code starts
with; `FastElimBound = 4` is lowered from 8, so that the small formulas lie on
both sides of it; learned clauses have up to two literals. During development the same
properties were also run on randomly generated sessions of this size, without a
violation.

*Plain options* means `factor = 0` and `factorcheck` not 2, which includes
CaDiCaL's defaults. With other options CaDiCaL refuses variables the handle lets
through, and the violation runs below show what follows.

Fairness is assumed in two places. In `Enumerate`, weak fairness of the next step
of the call: every `.Call` returns and R goes on to the next statement; an
interrupt may end the call at any point but is never required to come. In `Cdcl`,
weak fairness of the next step of the solver, a sequential loop that does
something as long as it has something to do; that it gives up at a limit is
allowed and not required, so `SearchEnds` rests on the progress of the search
itself.

Three runs show disagreements between documentation and code. Each checks what a
documented sentence says and ends with a counterexample; `PROJECT.json` quotes the
sentences.

| Run | Documented | What the code does |
|---|---|---|
| `half_clause` | an error leaves the solver as it was | with `factorcheck = 2` the first literals of a refused clause stay, and join the next clause |
| `simplify_constraint` | a constraint applies to the next solve | `sat_simplify` uses it up |
| `unrecorded_auxiliary` | auxiliaries are refused | Ctrl-C while an encoding is added leaves some unrecorded |

Four more were found with these models and have no run of their own: with
`factor = 1` reading an extension variable below `sat_n_vars()` is an error; with
`factor = 1` a refused assumption leaves those before it for the next solve;
Ctrl-C between setting a constraint and the solve in `sat_solutions` leaves the
constraint pending; Ctrl-C inside the `on.exit` of `sat_trace_proof` leaves an
option set.

### Observations

`match_ternary_clause` and `get_ternary_clause` (`gates.cpp:449-496`) skip
literals with a root-level value without asking whether it is true. In
elimination a unit can be assigned and not yet propagated (the comment at
`elim.cpp:255` explains why), so a clause that the unit satisfies can pass for a
clause of an if-then-else gate. Resolvents between non-gate clauses are then left
out although the gate clause says nothing. With the vendored source a formula of
17 variables shows the effect. `Elimination` has the code's matching; the
schedule does not occur within the bounds of `inprocessing`, which therefore says
nothing about it.

## Proofs

Each proof module extends the module it is about. The theorems hold for every
value of the constants that meets the named assumptions: any number of variables
(`MaxVarAssumption`), any set of inputs of the right type, finite or not
(`InputAssumption`, `EnumerateAssumption`, `SessionAssumption`,
`RequestsAssumption`), any number of interrupts (`InterruptAssumption`), any
pairwise limit (`PairwiseMaxAssumption`), and for the search any set of sessions,
either setting of chronological backtracking, any size of the clause memory and
any number of reductions (`SearchAssumption`), and for the inprocessing any set of
sessions whose calls use the variables of the user (`SessionsAssumption`). TLC
evaluates these assumptions on the instances. The invariants were checked with TLC
before they were proved, except the part about a congruence closure: it quantifies
over sets TLC cannot enumerate, and TLC checked what it implies (`GatesFollow`,
`EquivalencesIrredundant`).

### The handle (`ZusatHandleProofs`)

1. `TypeCorrect`: `TypeOK` is inductive. Needs that `check_lits` turns a vector
   into literals and that Head and Tail take it apart (`ElementsHeadTail`).
2. `CacheCorrect`: `CacheSound` is not inductive, since a step in the middle of
   a `.Call` moves CaDiCaL and leaves the handle alone. `CallShape` adds that
   inside every call the cache has been invalidated, and that CaDiCaL is SOLVING
   exactly inside a search.
3. `ProofFileCorrect`: `ProofFileOwned` is inductive given `TypeOK`.
4. `ContractsKept`: `NeverRaised` adds that there are no extension variables and
   that CaDiCaL is ADDING only inside an add or constrain; `Unwritten` says that
   nothing has happened while options can still be set, which is needed because
   options may be made plain by a later `sat_option`. `Contracts` derives every
   REQUIRE from them.
5. `FormulaCorrect`, `PendingCorrect`: a vector on its way is the union of what
   CaDiCaL has received and what is to come (`FormulaTracked`,
   `ConstraintTracked`, `AssumptionsTracked`).
6. `AnswersCorrect`: when a search ends, those three say that CaDiCaL's question
   is the caller's, and its specification does the rest.
7. `HandleImplementsPromise`: the refinement of `SatSolver`, step by step. While
   the options stay plain, every step of the handle is a step of the promise or a
   stutter; the steps inside a `.Call` map to stutters until the last one. One
   more invariant is needed (`Declared`): the variables of everything that was
   said are among those CaDiCaL has declared.

### Encodings (`SolverSessionProofs`)

`EncodeRepresents` says what an encoding means: an assignment of the caller's
variables extends to a model of the clauses exactly when it meets the call.
`EncodingsAreExact` and `EncodingsUseTheRange` are the two properties of the run,
without its bounds. The sequential counter is built in rows; that row *i* has
*j* true only if at least *j* of the first *i* literals are true is an induction
on *i*. The induction theorems of the library cannot be instantiated here, so
such steps are written as arguments about the least number for which a statement
fails (`LeastNumber` in `CnfProofs`). The extension is the counter that counts.

### The R session (`SolverSessionProofs`)

`SessionInv` has, besides the types: the recorded ranges ascend (`Ordered`); the
variables counted are those somebody uses (`Counted`); the caller and the
encodings are apart (`Apart`); while clauses are being added in a loop, what is
added and what is to come are together the encoding (`CallInProgress`); calls
speak about named variables only (`AskedOfNamed`), so that adding an encoding
over fresh auxiliaries restricts them in the way required and in no other
(`FormulaSoFar`); an answer is true for the formula it answered (`AnswerTrue`).
`NothingIsShared`, `FormulaIsTheCalls` and `AnswersMeetTheCalls` follow, with
`EncodeRepresents` for the encodings. A call that adds no clauses (`k >= n`, or at
least 0; `cardinality.R:93-97`) leaves no trace in the solver: of the caller's
variables it counts only those up to `sat_n_vars` as named, since a later encoding
may take the others as auxiliaries, and rightly so. The run has such a call too.

### Enumeration (`EnumerateProofs`)

`EnumInv` relates the rows to the formula: every row answers the question
(`RowsAnswer`), the clauses added since the start exclude the rows and nothing
else (`Blocked`), and each statement of the loop knows what the statements before
it did (`Phases`, `Bookkeeping`). All safety properties of the run follow, and so
does `EnumerateRefines`, the refinement of `ModelEnumerator`.

### Proof tracing (`ProofTracingProofs`)

`TraceInv` says at each statement which options have been set, remembered and
taken back, and that the options of the other formats are never touched
(`OthersKept`); the three properties of the run are conjuncts of it. `FormatAsAsked`
is stated with the documented order (`Rank`) and not with CaDiCaL's chain of tests,
so `ReturnsAsAsked` also shows that the two agree.

### The search (`CdclProofs`)

The first part proves what the operations on the trail do to a well-formed one
(`TrailOK`): assigning, a new level, backtracking with out-of-order literals, and
that minimising and shrinking a clause leaves a clause that follows, in which the
literal on the decision level stays. Induction is on the places of the trail,
again by least counterexample.

`SearchSafe` is the invariant of the loop, for every interleaving of its steps
with any decision order, restarts, reductions and calls of the user:

* `Plain`, `Flow`: types, and which steps follow each other;
* `Store`, `Sound`, `Refuted`: clauses have two watches among at least two
  literals; the models of the formula satisfy the clauses, the units of the root
  level and are refuted by `unsat`;
* `Traversal`: a clause being visited watches the literal propagated last, which
  lies above the heights of all levels; the literals of a conflict are false;
* `Analysed`: the literals collected by an analysis are false and follow as a
  clause;
* `ReasonsOK`: reasons explain. This breaks inside an analysis, when on-the-fly
  strengthening takes the literal that a clause implied out of that clause. It
  breaks only for literals that the analysis has passed: those that are `Ahead`
  keep their reasons, and the backtracking that follows unassigns the others;
* `WatchInv`: a propagated false literal may be watched if some literal of the
  clause is true (`Supported`). With literals assigned out of order that is not
  inductive: the true literal could be unassigned by a backtracking that keeps
  the false one without propagating it again. It is inductive with the level of
  the true literal bound to the place of the false one on the trail: backtracking
  that undoes the former resets `propagated` to below the latter.

`DerivationSound`, `ReasonsSafe` and `PropagationSafe` are the properties of the
run that follow from it.

The answers rest on a second invariant, `QuerySafe`:

* `Assumed`, `Bounded`, `Chosen`: the first levels are those of the assumptions
  in their order and the next is that of the constraint, and nothing but an
  assumption is decided on the former. The level of an assumption that held
  already when its turn came has no literal of its own, so what is kept is that
  its literal is true on that level or a lower one. Every step but a decision
  only undoes levels and adds implied literals (`Moved`), and that preserves all
  three;
* `TrailNamed`, `ClausesNamed`: what is assigned or in memory has a variable that
  occurred in a call; so when those are assigned no clause is open;
* `Suffices`: what is irredundant and not garbage, with the units of the root
  level, has no model that the formula has not. A step may take the place of such
  a clause by a shorter one or leave it to a unit (`Covers`). On-the-fly
  subsumption is the critical step: the strengthened reason is part of the
  conflict it replaces because it has fewer literals than the analysis started
  with, and it becomes irredundant if the conflict was.

`IrredundantSafe` and `ModelSafe` follow. For `CoreSafe`, `DecisionsAre` says that
the walk of `failing` back along the trail ends in a set closed under reasons, so
that its decisions imply, with the clauses, the literals it started from;
`Chosen` says that they are assumptions. `SearchTyped` is the type invariant.

### Inprocessing (`DatabaseProofs`, `InprocessingProofs`)

`ClausesAlwaysFollow` says that no sequence of calls and techniques derives too
much. `ClausesFollow` alone is not inductive, for three reasons, and the invariant
`FollowInv` answers each of them.

* A clause on the extension stack comes back with `restore_clauses`, so the
  entries of the stack must follow as well. `Databases(V, M)` is the set of
  databases over the variables `V` whose clauses, units and stack entries hold in
  all assignments of the set `M`.
* A technique that runs in several steps relies later on what it found earlier.
  `JobGood` says for each of them what that is: the extended clause of a covered
  one holds; the literals implied by a probe form a tree in which each is implied
  by its parent; the equivalences a sweep has yet to substitute hold; in the
  closure the output of every gate has the value of its function and every literal
  that of its representative. Where the job of a technique has clauses or pairs in
  mind that may be gone by then, nothing is said of them: the steps are sound
  because they look at the database again.
* A variable that factoring introduces is not the user's. A model of the user's
  clauses therefore has *some* extension to the other variables in which all holds,
  and factoring with a fresh variable changes it there (`FactorFreshKeeps`).

Since `M` is arbitrary, a technique is shown sound once, by one lemma for each of
its operators: what holds in all assignments of `M` before holds in them after
(`TechniqueKeeps`). The lemmas about one operator rest on unit propagation
(`PropagationSound`, `RupSound`) and on folds over sets and sequences; their
recursive functions are shown to exist and to stay in a set by induction on the
number of elements (`FoldExists`, `FoldInduction`, `Recursion`). Probing needs that
the dominator of the reasons of a literal implies it: the paths to the probe are
chains in a tree whose ranks decrease. Congruence closure is the longest part: each
rewriting and simplification of an AND, XOR or ITE gate keeps its function. It
needs one more fact about ITE gates (`GateForm`): the output is never the negation
of a branch, as an assertion of the code says too (`congruence.cpp:6008`). Without
it `rewrite_ite_gate` would not be sound: its case for an output that is the
negation of the first branch (`congruence.cpp:5981`) learns the condition where its
negation would follow. The invariant shows that this case is never taken.

`GatesAlwaysFollow` and `EquivalencesAlwaysIrredundant` say more of a closure: what
it knows follows from the database *as it is now*, although the closure itself
promotes, adds and removes clauses. `ClosingGood`, the closure's part of
`FollowInv`, has a conjunct for each.

* The gates and representatives hold in `Satisfying(s)`, the assignments that
  satisfy the database at that moment. This is the same statement as for the
  arbitrary `M`, with `M` instantiated by a set that changes from step to step. A
  step therefore must not gain assignments: `Extending` says that every operator of
  a closure keeps the units and the irredundant binary clauses and leaves a
  database that implies every clause it found, so that `Satisfying` only shrinks
  (`Grown`, `ClosureStates`).
* Each literal is equivalent to its representative by the irredundant binary
  clauses and the units alone (`Learned`). Every merge has both implications
  added or promoted before the representative changes (`PromotedMeans`,
  `MaybeAddKeeps`), and no operator of the closure removes an irredundant binary
  clause.

The critical step is the removal of large clauses by forward subsumption modulo
representatives (`SubsumedKeeps`): the clause that goes differs from the one that
stays by representatives, so it is implied only because the equivalences follow
from binary clauses, which subsumption does not touch.

### Only model-checked

* `Terminates` and `SearchEnds`: liveness under fairness is out of the prover's
  reach.
* `Dimacs`: splitting and joining of lines, where the work is all in recursion
  over sequences of tokens.
* Of `Inprocessing`, that nothing is lost: `ModelsExtend` and `OnlyActive`. They
  speak of what the techniques may remove, not of what they derive (see the plan).
* The three runs that end with a counterexample.

## Not modelled

* kitten (`kitten.c`): a second small CDCL solver, used as an oracle; what its
  callers rely on is in `Sweeping` and `Elimination`.
* The external propagator (`external_propagate.cpp`): no function of the package
  connects one.
* LRAT chains, proof writers and checkers: they record what the solver derives
  and change nothing in it.
* Local search, lucky phases, lookahead, scores, phases, limits: they choose
  among steps that the models leave open. Lucky phases and local search can also
  find a model, which the search then confirms by propagation.
* Compacting of variables, memory layout, occurrence lists, statistics, messages,
  the DIMACS parser of CaDiCaL (the package has its own).
* Coercion of R values to integer vectors, error wording, printing, data frames.
* Memory exhaustion, and running out of disk space while a proof is written.

## Plan

Done: the core (`CaDiCaL`, `ZusatHandle`), the promise and its refinement,
encodings, session, enumeration, proof tracing, DIMACS, CaDiCaL's search and
inprocessing, the proofs of every safety property of all of them but DIMACS and
inprocessing, that the inprocessing is sound, and what a congruence closure keeps
true of its gates and representatives. Next, in this order:

1. `OnlyActive`: the same lemmas for the irredundant clauses, over the variables
   that are active.
2. `ModelsExtend`: one `Weaken` of a clause blocked by its witness, as a lemma about
   a single entry of the stack; `restore_clauses` and `extend` from it; then the
   techniques one by one.
3. `Dimacs`: that a line of tokens reads back as the clause it was written from.
4. Enumeration of a solver that holds auxiliary variables, composing `Enumerate`
   with `SolverSession`.

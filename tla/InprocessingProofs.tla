------------------------- MODULE InprocessingProofs --------------------------
(***************************************************************************)
(* Congruence closure keeps a database of clauses that follow, and the     *)
(* proof that no sequence of calls and techniques derives too much.        *)
(***************************************************************************)
EXTENDS DatabaseProofs

-----------------------------------------------------------------------------
(* Congruence closure. *)

\* Literals over V with the same value in all assignments of M.
Equal(a, b, V, M) ==
  a \in LitsOf(V) /\ b \in LitsOf(V) /\ \A m \in M : True(m, a) <=> True(m, b)

\* The gates over V whose outputs have in all assignments of M the values that
\* their inputs give them.  The output of an ITE gate is never the negation of
\* one of its branches.
GateForm(g, V) ==
  /\ g.tag = "xor" => g.rhs \subseteq Var
  /\ g.tag = "ite" => /\ g.rhs = {} /\ g.ite = << g.ite[1], g.ite[2], g.ite[3] >>
                      /\ g.ite[1] \in LitsOf(V) /\ g.ite[2] \in LitsOf(V)
                      /\ g.ite[3] \in LitsOf(V)
                      /\ g.ite[2] # -g.lhs /\ g.ite[3] # -g.lhs
  /\ g.tag # "ite" => g.ite = <<>>

IteInputs(V) ==
  {<<>>} \cup {<<a, b, c>> : a \in LitsOf(V), b \in LitsOf(V), c \in LitsOf(V)}

GateRecords(V) ==
  {g \in [tag : {"and", "xor", "ite"}, lhs : LitsOf(V), rhs : SUBSET LitsOf(V),
          ite : IteInputs(V), degenerate : BOOLEAN] : GateForm(g, V)}

GateSet(V, M) == {g \in GateRecords(V) : \A m \in M : GateHolds(g, m)}

ClosurePhases == {"and", "xor", "ite", "units", "binaries", "close", "matched"}

ClosureJobs(V, M) ==
  {j \in [name : {"congruence"}, phase : ClosurePhases, gates : SUBSET GateSet(V, M),
          reprs : Reprs(V, M), schedule : Seq(LitsOf(V)), watched : SUBSET Sound(V, M),
          units : SUBSET LitsOf(V), merged : BOOLEAN] : IsFiniteSet(j.gates)}

\* The databases that a closure can make of U: clauses and units that hold in
\* all assignments of M, with the units and the irredundant binary clauses of U
\* among them, that imply all clauses of U.
Implying(r, U) ==
  ~r.unsat => \A m : IsModel(m, Clauses(r), r.units) => IsModel(m, Clauses(U), U.units)

Extending(r, U) ==
  /\ U.units \subseteq r.units /\ BinaryClauses(U.irr) \subseteq r.irr
  /\ U.unsat => r.unsat
  /\ Implying(r, U)

Grown(V, M, U) ==
  {r \in [irr : SUBSET Proper(V, M), red : SUBSET Proper(V, M),
          units : SUBSET Facts(V, M), unsat : BOOLEAN, status : [Var -> Status],
          stack : {U.stack}, tainted : SUBSET Lit] :
     /\ r.unsat => M = {}
     /\ \A v \in Var : v \in V => r.status[v] # "unused"
     /\ r.status = U.status /\ Extending(r, U)}

\* Each literal is equivalent to its representative by the irredundant binary
\* clauses and the units alone.
Learned(r, reprs) ==
  ~r.unsat => \A m : IsModel(m, BinaryClauses(r.irr), r.units) =>
                       \A lit \in Lit : True(m, lit) <=> True(m, reprs[lit])

ClosureStates(V, M, U) ==
  {t \in [s : Grown(V, M, U), job : ClosureJobs(V, M)] : Learned(t.s, t.job.reprs)}

WithS(t, r) == [t EXCEPT !.s = r]
WithJob(t, j) == [t EXCEPT !.job = j]

\* The same database without its extension stack.
Bare(r) == [r EXCEPT !.stack = <<>>]

\* Two different elements make a set of two.
LEMMA PairCardinality ==
  ASSUME NEW a, NEW b, a # b
  PROVE  Cardinality({a, b}) = 2
<1>1. IsFiniteSet({a}) /\ Cardinality({a}) = 1 /\ {a, b} = {a} \cup {b} /\ b \notin {a}
  BY FS_Singleton
<1>2. Cardinality({a} \cup {b}) = IF b \in {a} THEN Cardinality({a}) ELSE Cardinality({a}) + 1
  BY <1>1, FS_AddElement
<1> QED BY <1>1, <1>2

\* A database of a closure without its extension stack, which a closure does
\* not touch.
LEMMA BareFacts ==
  ASSUME NEW V, NEW M, NEW U, NEW r \in Grown(V, M, U)
  PROVE  /\ Bare(r) \in Databases(V, M) /\ Bare(r).irr = r.irr /\ Bare(r).red = r.red
         /\ Bare(r).units = r.units /\ Bare(r).unsat = r.unsat /\ Bare(r).status = r.status
         /\ Clauses(Bare(r)) = Clauses(r)
<1>1. <<>> \in Seq(SoundEntries(V, M))
  OBVIOUS
<1>2. Bare(r) \in [irr : SUBSET Proper(V, M), red : SUBSET Proper(V, M),
          units : SUBSET Facts(V, M), unsat : BOOLEAN, status : [Var -> Status],
          stack : Seq(SoundEntries(V, M)), tainted : SUBSET Lit]
  BY <1>1 DEF Grown, Bare
<1>3. /\ Bare(r).irr = r.irr /\ Bare(r).red = r.red
      /\ Bare(r).units = r.units /\ Bare(r).unsat = r.unsat /\ Bare(r).status = r.status
  BY DEF Grown, Bare
<1>4. (r.unsat => M = {}) /\ \A v \in Var : v \in V => r.status[v] # "unused"
  BY DEF Grown
<1> QED BY <1>2, <1>3, <1>4 DEF Databases, Clauses

\* The parts of a database that a closure made.
LEMMA GrownFacts ==
  ASSUME NEW V, NEW M, NEW U, NEW r \in Grown(V, M, U)
  PROVE  /\ r.irr \in SUBSET Sound(V, M) /\ r.red \in SUBSET Sound(V, M)
         /\ r.irr \in SUBSET Proper(V, M) /\ r.red \in SUBSET Proper(V, M)
         /\ Clauses(r) \in SUBSET Proper(V, M) /\ Clauses(r) \in SUBSET Sound(V, M)
         /\ r.units \in SUBSET Facts(V, M) /\ r.units \subseteq LitsOf(V)
         /\ r.unsat \in BOOLEAN /\ (r.unsat => M = {})
         /\ r.status = U.status /\ r.stack = U.stack /\ Extending(r, U)
<1>1. r.status = U.status /\ r.stack = U.stack /\ Extending(r, U)
  BY DEF Grown
<1>2. r.units \in SUBSET Facts(V, M)
  BY DEF Grown
<1> QED BY <1>1, <1>2, BareFacts, DatabaseFacts, SoundFacts

\* What extends a database extends what that one extends.
LEMMA ExtendingFacts ==
  ASSUME NEW r, NEW U
  PROVE  /\ r.unsat \in BOOLEAN => Extending(r, r)
         /\ \A q : Extending(q, r) /\ Extending(r, U) => Extending(q, U)
<1>1. BinaryClauses(r.irr) \subseteq r.irr
  BY DEF BinaryClauses
<1>2. Extending(r, r)
  BY <1>1 DEF Extending, Implying
<1>3. ASSUME NEW q, Extending(q, r), Extending(r, U) PROVE Extending(q, U)
  <2>1. U.units \subseteq q.units /\ (U.unsat => q.unsat)
    BY <1>3 DEF Extending
  <2>2. BinaryClauses(U.irr) \subseteq q.irr
    BY <1>3 DEF Extending, BinaryClauses
  <2>3. Implying(q, U)
    BY <1>3 DEF Extending, Implying
  <2> QED BY <2>1, <2>2, <2>3 DEF Extending
<1> QED BY <1>2, <1>3

\* A closure may leave the database as it is.
LEMMA GrownSelf ==
  ASSUME NEW V, NEW M, NEW U, NEW r \in Grown(V, M, U)
  PROVE  r \in Grown(V, M, r)
<1>1. Extending(r, r)
  BY GrownFacts, ExtendingFacts
<1> QED BY <1>1 DEF Grown

\* Two parts of a closure, one after the other.
LEMMA GrownOn ==
  ASSUME NEW V, NEW M, NEW U, NEW r \in Grown(V, M, U), NEW q \in Grown(V, M, r)
  PROVE  q \in Grown(V, M, U)
<1>1. Extending(q, r) /\ Extending(r, U) /\ q.status = U.status /\ q.stack = U.stack
  BY GrownFacts
<1>2. Extending(q, U)
  BY <1>1, ExtendingFacts
<1> QED BY <1>1, <1>2 DEF Grown

\* A closure of a database that holds in all assignments of M does so, too.
LEMMA GrownDatabase ==
  ASSUME NEW V, NEW M, NEW U \in Databases(V, M), NEW r \in Grown(V, M, U)
  PROVE  r \in Databases(V, M)
<1>1. r.stack \in Seq(SoundEntries(V, M))
  BY DatabaseFacts, GrownFacts
<1> QED BY <1>1 DEF Grown, Databases

\* A closure starts with the database that it finds.
LEMMA DatabaseGrown ==
  ASSUME NEW V, NEW M, NEW r \in Databases(V, M)
  PROVE  r \in Grown(V, M, r)
<1>1. Extending(r, r)
  BY DatabaseFacts, ExtendingFacts
<1> QED BY <1>1 DEF Grown, Databases

\* The parts of a database that a closure changes.
Made(r, irr, red, units, unsat) ==
  [r EXCEPT !.irr = irr, !.red = red, !.units = units, !.unsat = unsat]

\* When a database with other clauses and units is one that a closure can make.
LEMMA MadeGrown ==
  ASSUME NEW V, NEW M, NEW U, NEW r \in Grown(V, M, U),
         NEW irr \in SUBSET Proper(V, M), NEW red \in SUBSET Proper(V, M),
         NEW units \in SUBSET Facts(V, M), NEW unsat \in BOOLEAN,
         unsat => M = {}, r.units \subseteq units, r.unsat => unsat,
         BinaryClauses(r.irr) \subseteq irr,
         ~unsat => \A m : IsModel(m, irr \cup red, units) => IsModel(m, Clauses(r), r.units)
  PROVE  Made(r, irr, red, units, unsat) \in Grown(V, M, r)
<1> DEFINE q == Made(r, irr, red, units, unsat)
<1>1. q.irr = irr /\ q.red = red /\ q.units = units /\ q.unsat = unsat
      /\ q.status = r.status /\ q.stack = r.stack /\ Clauses(q) = irr \cup red
  BY DEF Made, Grown, Clauses
<1>2. q \in [irr : SUBSET Proper(V, M), red : SUBSET Proper(V, M),
          units : SUBSET Facts(V, M), unsat : BOOLEAN, status : [Var -> Status],
          stack : {r.stack}, tainted : SUBSET Lit]
  BY DEF Made, Grown
<1>3. \A v \in Var : v \in V => r.status[v] # "unused"
  BY DEF Grown
<1> HIDE DEF q
<1>4. Extending(q, r)
  BY <1>1 DEF Extending, Implying
<1>5. q \in Grown(V, M, r)
  BY <1>1, <1>2, <1>3, <1>4 DEF Grown
<1> QED BY <1>5 DEF q

\* What satisfies more clauses and units satisfies fewer.
LEMMA MoreModels ==
  ASSUME NEW m, NEW cs, NEW ds, NEW lits, NEW units, cs \subseteq ds, lits \subseteq units,
         IsModel(m, ds, units)
  PROVE  IsModel(m, cs, lits)
  BY DEF IsModel

\* More clauses and units, or a contradiction.
LEMMA GrownMore ==
  ASSUME NEW V, NEW M, NEW U, NEW r \in Grown(V, M, U)
  PROVE  /\ M = {} => Unsat(r) \in Grown(V, M, r)
         /\ \A lits \in SUBSET Facts(V, M) :
              r.units \subseteq lits => WithUnits(r, lits) \in Grown(V, M, r)
         /\ \A lit \in Facts(V, M) : AssignUnit(r, lit) \in Grown(V, M, r)
         /\ \A c \in Proper(V, M) :
              /\ WithIrr(r, r.irr \cup {c}) \in Grown(V, M, r)
              /\ Promote(r, c) \in Grown(V, M, r)
<1>1. /\ r.irr \in SUBSET Proper(V, M) /\ r.red \in SUBSET Proper(V, M)
      /\ r.units \in SUBSET Facts(V, M) /\ r.unsat \in BOOLEAN /\ (r.unsat => M = {})
      /\ BinaryClauses(r.irr) \subseteq r.irr /\ Clauses(r) = r.irr \cup r.red
  BY GrownFacts DEF BinaryClauses, Clauses
<1>2. ASSUME M = {} PROVE Unsat(r) \in Grown(V, M, r)
  <2>1. /\ Unsat(r).units = r.units /\ Unsat(r).irr = r.irr /\ Unsat(r).unsat = TRUE
        /\ Unsat(r).status = r.status /\ Unsat(r).stack = r.stack
    BY DEF Unsat, Grown
  <2>2. Extending(Unsat(r), r)
    BY <1>1, <2>1 DEF Extending, Implying
  <2>3. Unsat(r) \in [irr : SUBSET Proper(V, M), red : SUBSET Proper(V, M),
          units : SUBSET Facts(V, M), unsat : BOOLEAN, status : [Var -> Status],
          stack : {r.stack}, tainted : SUBSET Lit]
    BY DEF Unsat, Grown
  <2>4. \A v \in Var : v \in V => r.status[v] # "unused"
    BY DEF Grown
  <2> QED BY <1>2, <2>1, <2>2, <2>3, <2>4 DEF Grown
<1>3. ASSUME NEW lits \in SUBSET Facts(V, M), r.units \subseteq lits
      PROVE  WithUnits(r, lits) \in Grown(V, M, r)
  <2>1. WithUnits(r, lits) = Made(r, r.irr, r.red, lits, r.unsat)
    BY DEF WithUnits, Made, Grown
  <2>2. \A m : IsModel(m, r.irr \cup r.red, lits) => IsModel(m, Clauses(r), r.units)
    BY <1>1, <1>3, MoreModels
  <2> QED BY <1>1, <1>3, <2>1, <2>2, MadeGrown
<1>4. ASSUME NEW lit \in Facts(V, M) PROVE AssignUnit(r, lit) \in Grown(V, M, r)
  <2>1. AssignUnit(r, lit) = WithUnits(r, r.units \cup {lit})
    BY DEF AssignUnit, WithUnits
  <2>2. r.units \cup {lit} \in SUBSET Facts(V, M)
    BY <1>1
  <2> QED BY <1>3, <2>1, <2>2
<1>5. ASSUME NEW c \in Proper(V, M), NEW red \in SUBSET r.red, r.red \subseteq red \cup {c}
      PROVE  Made(r, r.irr \cup {c}, red, r.units, r.unsat) \in Grown(V, M, r)
  <2>1. Clauses(r) \subseteq (r.irr \cup {c}) \cup red
    BY <1>1, <1>5
  <2>2. \A m : IsModel(m, (r.irr \cup {c}) \cup red, r.units) => IsModel(m, Clauses(r), r.units)
    BY <2>1, MoreModels
  <2>3. r.irr \cup {c} \in SUBSET Proper(V, M) /\ red \in SUBSET Proper(V, M)
        /\ BinaryClauses(r.irr) \subseteq r.irr \cup {c}
    BY <1>1
  <2> QED BY <1>1, <2>2, <2>3, MadeGrown
<1>6. ASSUME NEW c \in Proper(V, M)
      PROVE  /\ WithIrr(r, r.irr \cup {c}) \in Grown(V, M, r)
             /\ Promote(r, c) \in Grown(V, M, r)
  <2>1. WithIrr(r, r.irr \cup {c}) = Made(r, r.irr \cup {c}, r.red, r.units, r.unsat)
    BY DEF WithIrr, Made, Grown
  <2>2. WithIrr(r, r.irr \cup {c}) \in Grown(V, M, r)
    BY <1>5, <2>1
  <2>3. CASE c \in r.irr
    BY <2>3, GrownSelf, <2>2 DEF Promote
  <2>4. CASE c \notin r.irr
    <3>1. Promote(r, c) = Made(r, r.irr \cup {c}, r.red \ {c}, r.units, r.unsat)
      BY <2>4 DEF Promote, Made, Grown
    <3> QED BY <1>5, <2>2, <3>1
  <2> QED BY <2>2, <2>3, <2>4
<1> QED BY <1>2, <1>3, <1>4, <1>6

\* Fewer clauses, if the other ones imply those that go.
LEMMA GrownLess ==
  ASSUME NEW V, NEW M, NEW U, NEW r \in Grown(V, M, U), NEW irr, NEW red,
         irr \subseteq r.irr, red \subseteq r.red, BinaryClauses(r.irr) \subseteq irr,
         ~r.unsat => \A m : IsModel(m, irr \cup red, r.units) => \A c \in Clauses(r) : Holds(m, c)
  PROVE  Made(r, irr, red, r.units, r.unsat) \in Grown(V, M, r)
<1>1. /\ r.irr \in SUBSET Proper(V, M) /\ r.red \in SUBSET Proper(V, M)
      /\ r.units \in SUBSET Facts(V, M) /\ r.unsat \in BOOLEAN /\ (r.unsat => M = {})
  BY GrownFacts
<1>2. ~r.unsat => \A m : IsModel(m, irr \cup red, r.units) => IsModel(m, Clauses(r), r.units)
  BY DEF IsModel
<1>3. irr \in SUBSET Proper(V, M) /\ red \in SUBSET Proper(V, M)
  BY <1>1
<1> QED BY <1>1, <1>2, <1>3, MadeGrown

\* The parts of a closure.
LEMMA ClosureFacts ==
  ASSUME NEW V, NEW M, NEW U, NEW t \in ClosureStates(V, M, U)
  PROVE  /\ t.s \in Grown(V, M, U) /\ t.job \in ClosureJobs(V, M)
         /\ t.job.gates \in SUBSET GateSet(V, M) /\ IsFiniteSet(t.job.gates)
         /\ t.job.reprs \in Reprs(V, M) /\ t.job.schedule \in Seq(LitsOf(V))
         /\ t.job.watched \in SUBSET Sound(V, M) /\ t.job.phase \in ClosurePhases
         /\ t.job.units \in SUBSET LitsOf(V) /\ t.job.merged \in BOOLEAN
         /\ t.job.name = "congruence"
         /\ t.s.units \in SUBSET Facts(V, M) /\ t.s.units \subseteq LitsOf(V)
         /\ t.s.unsat \in BOOLEAN /\ (t.s.unsat => M = {})
         /\ U.units \subseteq t.s.units
         /\ Learned(t.s, t.job.reprs)
<1>1. t.s \in Grown(V, M, U) /\ t.job \in ClosureJobs(V, M) /\ Learned(t.s, t.job.reprs)
  BY DEF ClosureStates
<1>2. /\ t.s.units \in SUBSET Facts(V, M) /\ t.s.unsat \in BOOLEAN /\ (t.s.unsat => M = {})
      /\ t.s.units \subseteq LitsOf(V) /\ U.units \subseteq t.s.units
  BY <1>1, GrownFacts DEF Extending
<1> QED BY <1>1, <1>2 DEF ClosureJobs

\* What is learned stays learned.
LEMMA LearnedGrows ==
  ASSUME NEW r, NEW q, Extending(q, r), NEW m, IsModel(m, BinaryClauses(q.irr), q.units)
  PROVE  IsModel(m, BinaryClauses(r.irr), r.units)
<1>1. BinaryClauses(r.irr) \subseteq BinaryClauses(q.irr) /\ r.units \subseteq q.units
  BY DEF Extending, BinaryClauses
<1> QED BY <1>1, MoreModels

\* An equivalence by irredundant binary clauses and units stays one, as a
\* closure removes none of them.
LEMMA LearnedStays ==
  ASSUME NEW r, NEW q, Extending(q, r), NEW reprs, Learned(r, reprs)
  PROVE  Learned(q, reprs)
<1>1. r.unsat => q.unsat
  BY DEF Extending
<1>2. ASSUME ~q.unsat, NEW m, IsModel(m, BinaryClauses(q.irr), q.units), NEW lit \in Lit
      PROVE  True(m, lit) <=> True(m, reprs[lit])
  <2>1. ~r.unsat /\ IsModel(m, BinaryClauses(r.irr), r.units)
    BY <1>1, <1>2, LearnedGrows
  <2> QED BY <2>1 DEF Learned
<1> QED BY <1>2 DEF Learned

\* A closure with another database of at least the same units, or with another
\* job.
LEMMA WithFacts ==
  ASSUME NEW V, NEW M, NEW U, NEW t \in ClosureStates(V, M, U)
  PROVE  /\ \A r \in Grown(V, M, t.s) :
              /\ WithS(t, r) \in ClosureStates(V, M, U)
              /\ WithS(t, r).s = r /\ WithS(t, r).job = t.job
         /\ \A j \in ClosureJobs(V, M) : Learned(t.s, j.reprs) =>
              /\ WithJob(t, j) \in ClosureStates(V, M, U)
              /\ WithJob(t, j).s = t.s /\ WithJob(t, j).job = j
<1>1. t \in [s : Grown(V, M, U), job : ClosureJobs(V, M)] /\ Learned(t.s, t.job.reprs)
  BY DEF ClosureStates
<1>2. ASSUME NEW r \in Grown(V, M, t.s)
      PROVE  /\ WithS(t, r) \in ClosureStates(V, M, U)
             /\ WithS(t, r).s = r /\ WithS(t, r).job = t.job
  <2>1. r \in Grown(V, M, U) /\ Extending(r, t.s)
    BY <1>1, GrownOn, GrownFacts
  <2>2. Learned(r, t.job.reprs)
    BY <1>1, <2>1, LearnedStays
  <2>3. WithS(t, r) \in [s : Grown(V, M, U), job : ClosureJobs(V, M)]
        /\ WithS(t, r).s = r /\ WithS(t, r).job = t.job
    BY <1>1, <2>1 DEF WithS
  <2> QED BY <2>2, <2>3 DEF ClosureStates
<1>3. ASSUME NEW j \in ClosureJobs(V, M), Learned(t.s, j.reprs)
      PROVE  /\ WithJob(t, j) \in ClosureStates(V, M, U)
             /\ WithJob(t, j).s = t.s /\ WithJob(t, j).job = j
  <2>1. WithJob(t, j) \in [s : Grown(V, M, U), job : ClosureJobs(V, M)]
        /\ WithJob(t, j).s = t.s /\ WithJob(t, j).job = j
    BY <1>1 DEF WithJob
  <2> QED BY <1>3, <2>1 DEF ClosureStates
<1> QED BY <1>2, <1>3

\* A state of a closure is one of a closure that starts with it.
LEMMA Rebase ==
  ASSUME NEW V, NEW M, NEW U, NEW t \in ClosureStates(V, M, U)
  PROVE  t \in ClosureStates(V, M, t.s) /\ ClosureStates(V, M, t.s) \subseteq ClosureStates(V, M, U)
<1>1. t.s \in Grown(V, M, U) /\ t.s \in Grown(V, M, t.s)
  BY ClosureFacts, GrownSelf
<1>2. t \in ClosureStates(V, M, t.s)
  BY <1>1 DEF ClosureStates
<1>3. Grown(V, M, t.s) \subseteq Grown(V, M, U)
  BY <1>1, GrownOn
<1> QED BY <1>2, <1>3 DEF ClosureStates

\* A contradiction makes any closure unsatisfiable.
LEMMA ClosureUnsat ==
  ASSUME NEW V, NEW M, NEW U, NEW t \in ClosureStates(V, M, U), M = {}
  PROVE  [t EXCEPT !.s = Unsat(@)] \in ClosureStates(V, M, U)
<1>1. Unsat(t.s) \in Grown(V, M, t.s)
  BY ClosureFacts, GrownMore
<1>2. WithS(t, Unsat(t.s)) \in ClosureStates(V, M, U)
  BY <1>1, WithFacts
<1> QED BY <1>2 DEF WithS

\* What the value of a literal during the closure says about M.
LEMMA ValueFacts ==
  ASSUME NEW V, NEW M, NEW U, NEW t \in ClosureStates(V, M, U), NEW lit \in LitsOf(V)
  PROVE  /\ IsTrue(t, lit) => lit \in Facts(V, M)
         /\ IsFalse(t, lit) => -lit \in Facts(V, M)
         /\ Value(t, lit) \in {-1, 0, 1}
         /\ Value(t, lit) = 1 <=> IsTrue(t, lit)
         /\ Value(t, lit) = -1 => IsFalse(t, lit)
         /\ Value(t, lit) = 0 <=> ~IsTrue(t, lit) /\ ~IsFalse(t, lit)
<1>1. t.s.units \in SUBSET Facts(V, M)
  BY ClosureFacts
<1> QED BY <1>1 DEF IsTrue, IsFalse, Value

\* Facts are the literals that are true in all assignments.
LEMMA FactIf ==
  ASSUME NEW V, NEW M, NEW lit \in LitsOf(V), \A m \in M : True(m, lit)
  PROVE  lit \in Facts(V, M)
  BY DEF Facts

\* Equality in M is an equivalence that negation respects, and it makes two
\* binary clauses hold.
LEMMA EqualFacts ==
  ASSUME NEW V, NEW M, NEW a, NEW b, Equal(a, b, V, M)
  PROVE  /\ Equal(b, a, V, M) /\ Equal(-a, -b, V, M)
         /\ a \in LitsOf(V) /\ b \in LitsOf(V)
         /\ a \in Facts(V, M) => b \in Facts(V, M)
         /\ -a \in Facts(V, M) => -b \in Facts(V, M)
         /\ {-a, b} \in Sound(V, M) /\ {a, -b} \in Sound(V, M)
         /\ a = -b => M = {}
         /\ \A c : Equal(b, c, V, M) => Equal(a, c, V, M)
<1>1. a \in LitsOf(V) /\ b \in LitsOf(V) /\ \A m \in M : True(m, a) <=> True(m, b)
  BY DEF Equal
<1>2. a \in Lit /\ b \in Lit /\ -a \in LitsOf(V) /\ -b \in LitsOf(V) /\ - -a = a /\ - -b = b
  BY <1>1, LitsOfFacts
<1>3. \A m \in M : True(m, -a) <=> True(m, -b)
  BY <1>1, <1>2, TrueNegated
<1>4. Equal(b, a, V, M) /\ Equal(-a, -b, V, M)
  BY <1>1, <1>2, <1>3 DEF Equal
<1>5. (a \in Facts(V, M) => b \in Facts(V, M)) /\ (-a \in Facts(V, M) => -b \in Facts(V, M))
  BY <1>1, <1>2, <1>3 DEF Facts
<1>6. {-a, b} \in Sound(V, M) /\ {a, -b} \in Sound(V, M)
  <2>1. {-a, b} \in SUBSET LitsOf(V) /\ {a, -b} \in SUBSET LitsOf(V)
    BY <1>1, <1>2
  <2>2. ASSUME NEW m \in M
        PROVE  (\E l \in {-a, b} : True(m, l)) /\ (\E l \in {a, -b} : True(m, l))
    BY <1>1, <1>2, TrueNegated
  <2> QED BY <2>1, <2>2, SoundIf
<1>7. a = -b => M = {}
  BY <1>1, <1>2, TrueNegated
<1>8. \A c : Equal(b, c, V, M) => Equal(a, c, V, M)
  BY <1>1 DEF Equal
<1> QED BY <1>1, <1>4, <1>5, <1>6, <1>7, <1>8

\* Equality in M is reflexive.
LEMMA EqualSelf ==
  ASSUME NEW V, NEW M, NEW a \in LitsOf(V)
  PROVE  Equal(a, a, V, M)
  BY DEF Equal

\* A literal and its representative.
LEMMA ReprEqual ==
  ASSUME NEW V, NEW M, NEW U, NEW t \in ClosureStates(V, M, U), NEW lit \in LitsOf(V)
  PROVE  Equal(lit, Repr(t, lit), V, M)
<1>1. t.job.reprs \in Reprs(V, M) /\ lit \in Lit
  BY ClosureFacts, LitsOfFacts
<1>2. Same(lit, t.job.reprs[lit], V, M)
  BY <1>1 DEF Reprs
<1> QED BY <1>2 DEF Same, Equal, Repr

-----------------------------------------------------------------------------
(* Units, binary clauses and equivalences. *)

\* The clauses that the closure watches hold.
LEMMA WatchedSound ==
  ASSUME NEW V, NEW M, NEW U, NEW t \in ClosureStates(V, M, U)
  PROVE  Watched(t) \in SUBSET Sound(V, M)
<1>1. t.job.watched \in SUBSET Sound(V, M) /\ Clauses(t.s) \in SUBSET Sound(V, M)
  BY ClosureFacts, GrownFacts
<1>2. CASE t.job.phase = "and"
  BY <1>1, <1>2 DEF Watched
<1>3. CASE t.job.phase \in {"xor", "ite"}
  BY <1>3 DEF Watched
<1>4. CASE t.job.phase # "and" /\ t.job.phase \notin {"xor", "ite"}
  BY <1>1, <1>4 DEF Watched
<1> QED BY <1>2, <1>3, <1>4

\* fully_propagate after a new unit.
LEMMA FullyPropagateKeeps ==
  ASSUME NEW V, NEW M, NEW U, NEW t \in ClosureStates(V, M, U), NEW lit \in Facts(V, M)
  PROVE  fully_propagate(t, lit) \in ClosureStates(V, M, U)
<1> DEFINE lits == t.s.units \cup NewUnits(Watched(t), t.s.units, {lit})
           new == IF Conflicting(Watched(t), lits) THEN Unsat(t.s) ELSE WithUnits(t.s, lits)
<1>1. Watched(t) \in SUBSET Sound(V, M) /\ t.s.units \in SUBSET Facts(V, M)
  BY WatchedSound, ClosureFacts
<1>2. lits \in SUBSET Facts(V, M)
  BY <1>1, NewUnitsSound
<1>3. fully_propagate(t, lit) = WithS(t, new)
  BY DEF fully_propagate, WithS, WithUnits
<1>4. t.s.units \subseteq lits /\ t.s \in Grown(V, M, U)
  BY ClosureFacts DEF lits
<1> HIDE DEF lits
<1>5. new \in Grown(V, M, t.s)
  BY <1>1, <1>2, <1>4, ConflictSound, GrownMore
<1> HIDE DEF new
<1> QED BY <1>3, <1>5, WithFacts

\* learn_congruence_unit with a fact.
LEMMA LearnKeeps ==
  ASSUME NEW V, NEW M, NEW U, NEW t \in ClosureStates(V, M, U), NEW lit \in Facts(V, M)
  PROVE  learn_congruence_unit(t, lit) \in ClosureStates(V, M, U)
<1>1. lit \in LitsOf(V)
  BY SoundFacts
<1>2. CASE t.s.unsat \/ IsTrue(t, lit)
  BY <1>2 DEF learn_congruence_unit
<1>3. CASE ~(t.s.unsat \/ IsTrue(t, lit)) /\ IsFalse(t, lit)
  <2>1. M = {}
    BY <1>1, <1>3, ValueFacts, SoundFacts
  <2> QED BY <1>3, <2>1, ClosureUnsat DEF learn_congruence_unit
<1>4. CASE ~(t.s.unsat \/ IsTrue(t, lit)) /\ ~IsFalse(t, lit)
  <2>1. AssignUnit(t.s, lit) \in Grown(V, M, t.s)
    BY ClosureFacts, GrownMore
  <2>2. WithS(t, AssignUnit(t.s, lit)) \in ClosureStates(V, M, U)
    BY <2>1, WithFacts
  <2>3. learn_congruence_unit(t, lit) = fully_propagate(WithS(t, AssignUnit(t.s, lit)), lit)
    BY <1>4 DEF learn_congruence_unit, WithS
  <2> QED BY <2>2, <2>3, FullyPropagateKeeps
<1> QED BY <1>2, <1>3, <1>4

\* A clause that follows from the irredundant binary clauses and the units.
ByBinaries(r, c) ==
  ~r.unsat => \A m : IsModel(m, BinaryClauses(r.irr), r.units) => Holds(m, c)

\* What the irredundant binary clauses and the units imply, they still imply
\* after more of a closure.
LEMMA ByBinariesStays ==
  ASSUME NEW r, NEW q, Extending(q, r), NEW c, ByBinaries(r, c)
  PROVE  ByBinaries(q, c)
<1>1. r.unsat => q.unsat
  BY DEF Extending
<1> QED BY <1>1, LearnedGrows DEF ByBinaries

\* A unit implies every clause that it is in.
LEMMA ByUnit ==
  ASSUME NEW r, NEW lit \in r.units, NEW c, lit \in c
  PROVE  ByBinaries(r, c)
  BY DEF ByBinaries, IsModel, Holds

\* A learned unit is one, unless there is a contradiction.
LEMMA LearnMeans ==
  ASSUME NEW V, NEW M, NEW U, NEW t \in ClosureStates(V, M, U), NEW lit \in Facts(V, M),
         NEW c, lit \in c
  PROVE  ByBinaries(learn_congruence_unit(t, lit).s, c)
<1>1. CASE t.s.unsat
  BY <1>1 DEF learn_congruence_unit, ByBinaries
<1>2. CASE ~t.s.unsat /\ IsTrue(t, lit)
  BY <1>2, ByUnit DEF learn_congruence_unit, IsTrue
<1>3. CASE ~(t.s.unsat \/ IsTrue(t, lit)) /\ IsFalse(t, lit)
  <2>1. learn_congruence_unit(t, lit) = WithS(t, Unsat(t.s))
    BY <1>3 DEF learn_congruence_unit, WithS
  <2>2. WithS(t, Unsat(t.s)).s = Unsat(t.s)
    BY DEF WithS, ClosureStates
  <2>3. Unsat(t.s).unsat
    BY ClosureFacts DEF Unsat, Grown
  <2> QED BY <2>1, <2>2, <2>3 DEF ByBinaries
<1>4. CASE ~(t.s.unsat \/ IsTrue(t, lit)) /\ ~IsFalse(t, lit)
  <2> DEFINE w == WithS(t, AssignUnit(t.s, lit))
  <2>1. AssignUnit(t.s, lit) \in Grown(V, M, t.s)
    BY ClosureFacts, GrownMore
  <2>2. w \in ClosureStates(V, M, U) /\ w.s = AssignUnit(t.s, lit)
    BY <2>1, WithFacts
  <2>3. learn_congruence_unit(t, lit) = fully_propagate(w, lit)
    BY <1>4 DEF learn_congruence_unit, WithS
  <2>4. lit \in w.s.units
    BY <2>2, ClosureFacts DEF AssignUnit, Grown
  <2> HIDE DEF w
  <2>5. fully_propagate(w, lit) \in ClosureStates(V, M, w.s)
    BY <2>2, Rebase, FullyPropagateKeeps
  <2>6. lit \in fully_propagate(w, lit).s.units
    BY <2>4, <2>5, ClosureFacts
  <2> QED BY <2>3, <2>6, ByUnit
<1> QED BY <1>1, <1>2, <1>3, <1>4

BinaryAdded(u, c, V, M, U) == u \in ClosureStates(V, M, U) /\ ByBinaries(u.s, c)

\* maybe_add_binary_clause with a clause that holds.
LEMMA MaybeAddKeeps ==
  ASSUME NEW V, NEW M, NEW U, NEW t \in ClosureStates(V, M, U), NEW a, NEW b, {a, b} \in Sound(V, M)
  PROVE  BinaryAdded(maybe_add_binary_clause(t, a, b), {a, b}, V, M, U)
<1> DEFINE open == {lit \in {a, b} : Value(t, lit) = 0}
           one == CHOOSE lit \in open : TRUE
           known == t.s.unsat \/ a = -b \/ IsTrue(t, a) \/ IsTrue(t, b)
           all == maybe_add_binary_clause(t, a, b)
           derived == WithS(t, Derive(t.s, {a, b}, "irr"))
<1>1. all = IF known THEN t
            ELSE IF a = b THEN learn_congruence_unit(t, a)
            ELSE IF Cardinality(open) = 1 THEN learn_congruence_unit(t, one)
            ELSE derived
  BY DEF maybe_add_binary_clause, WithS
<1>2. a \in LitsOf(V) /\ b \in LitsOf(V)
  BY SoundFacts
<1>7. ASSUME known PROVE BinaryAdded(t, {a, b}, V, M, U)
  <2>1. a = -b => ByBinaries(t.s, {a, b})
    <3>1. b \in Lit
      BY <1>2, LitsOfFacts
    <3> QED BY <3>1, TrueNegated DEF ByBinaries, Holds
  <2>2. IsTrue(t, a) \/ IsTrue(t, b) => ByBinaries(t.s, {a, b})
    BY ByUnit DEF IsTrue
  <2>3. t.s.unsat => ByBinaries(t.s, {a, b})
    BY DEF ByBinaries
  <2> QED BY <1>7, <2>1, <2>2, <2>3 DEF BinaryAdded
<1>8. ASSUME NEW x \in {a, b}, x \in Facts(V, M)
      PROVE  BinaryAdded(learn_congruence_unit(t, x), {a, b}, V, M, U)
  BY <1>8, LearnKeeps, LearnMeans DEF BinaryAdded
<1>3. ASSUME a = b PROVE BinaryAdded(learn_congruence_unit(t, a), {a, b}, V, M, U)
  <2>1. {a} \in Sound(V, M)
    BY <1>3
  <2>2. a \in Facts(V, M)
    BY <1>2, <2>1, SoundFacts
  <2> QED BY <1>8, <2>2
<1>4. ASSUME ~known, a # b, Cardinality(open) = 1
      PROVE  BinaryAdded(learn_congruence_unit(t, one), {a, b}, V, M, U)
  <2>1. open \in SUBSET LitsOf(V)
    BY <1>2
  <2>2. PICK x : open = {x}
    <3> HIDE DEF open
    <3> QED BY <1>4, <2>1, ClausesFinite, FS_Singleton
  <2>3. one = x /\ x \in {a, b}
    BY <2>2
  <2>4. t.s.units \in SUBSET Facts(V, M) /\ t.s.units \subseteq LitsOf(V)
    BY ClosureFacts
  <2>5. \A lit \in {a, b} : lit # x => -lit \in t.s.units
    <3>1. \A lit \in {a, b} : lit # x => Value(t, lit) # 0
      BY <2>2
    <3>2. ASSUME NEW lit \in {a, b}, lit # x PROVE -lit \in t.s.units
      <4>1. ~IsTrue(t, lit) /\ Value(t, lit) # 0 /\ lit \in LitsOf(V)
        BY <1>2, <1>4, <3>1, <3>2
      <4> QED BY <4>1, ValueFacts DEF IsFalse
    <3> QED BY <3>2
  <2>6. \A m \in M : True(m, x)
    <3>1. ASSUME NEW m \in M PROVE True(m, x)
      <4>1. True(m, a) \/ True(m, b)
        BY DEF Sound, Holds
      <4>2. \A lit \in {a, b} : lit # x => ~True(m, lit)
        <5>1. ASSUME NEW lit \in {a, b}, lit # x PROVE ~True(m, lit)
          <6>1. True(m, -lit) /\ lit \in Lit
            BY <1>2, <2>4, <2>5, <5>1, LitsOfFacts DEF Facts
          <6> QED BY <6>1, TrueNegated
        <5> QED BY <5>1
      <4> QED BY <4>1, <4>2
    <3> QED BY <3>1
  <2>7. x \in Facts(V, M)
    BY <1>2, <2>3, <2>6, FactIf
  <2> HIDE DEF one
  <2> QED BY <1>8, <2>3, <2>7
<1>5. ASSUME ~known, a # b PROVE BinaryAdded(derived, {a, b}, V, M, U)
  <2> DEFINE cs == t.s.irr \cup {{a, b}}
  <2>1. - -a = a /\ - -b = b /\ a # -a /\ b # -b
    BY <1>2, LitsOfFacts, LitFacts
  <2>2. {a, b} \in Proper(V, M)
    BY <1>5, <2>1 DEF Proper
  <2>3. Cardinality({a, b}) = 2
    BY <1>5, PairCardinality
  <2>4. Derive(t.s, {a, b}, "irr") = WithIrr(t.s, cs)
    <3>1. {a, b} # {}
      OBVIOUS
    <3> DEFINE c == {a, b}
    <3>2. c # {} /\ Cardinality(c) # 1 /\ cs = t.s.irr \cup {c}
      BY <2>3, <3>1
    <3> HIDE DEF c, cs
    <3>3. Derive(t.s, c, "irr") = WithIrr(t.s, cs)
      BY <3>2 DEF Derive, WithIrr
    <3> QED BY <3>3 DEF c
  <2>5. WithIrr(t.s, cs) \in Grown(V, M, t.s)
    BY <2>2, ClosureFacts, GrownMore
  <2>6. WithIrr(t.s, cs).irr = cs
    BY ClosureFacts DEF WithIrr, Grown
  <2>7. derived \in ClosureStates(V, M, U) /\ derived.s = WithIrr(t.s, cs)
    BY <2>4, <2>5, WithFacts
  <2>8. {a, b} \in BinaryClauses(derived.s.irr)
    BY <2>3, <2>6, <2>7 DEF BinaryClauses
  <2> HIDE DEF derived
  <2> QED BY <2>7, <2>8 DEF ByBinaries, BinaryAdded, IsModel
<1> HIDE DEF all, known, open, one, derived
<1>6. BinaryAdded(all, {a, b}, V, M, U)
  BY <1>1, <1>3, <1>4, <1>5, <1>7
<1> QED BY <1>6 DEF all

\* The larger of two equal literals gets the other as its representative.
LEMMA RepresentKeeps ==
  ASSUME NEW V, NEW M, NEW U, NEW t \in ClosureStates(V, M, U), NEW larger, NEW smaller,
         Equal(larger, smaller, V, M),
         ByBinaries(t.s, {-larger, smaller}), ByBinaries(t.s, {larger, -smaller})
  PROVE  Represent(t, larger, smaller) \in ClosureStates(V, M, U)
<1> DEFINE Moved(x) == CASE x = larger -> smaller [] x = -larger -> -smaller [] OTHER -> x
           reprs == [lit \in Lit |-> Moved(t.job.reprs[lit])]
           schedule == Append(t.job.schedule, larger)
           new == [t.job EXCEPT !.reprs = reprs, !.schedule = schedule]
<1>1. /\ larger \in LitsOf(V) /\ smaller \in LitsOf(V) /\ Equal(-larger, -smaller, V, M)
      /\ larger \in Lit /\ smaller \in Lit /\ -smaller \in Lit /\ larger # -larger
  <2>1. larger \in LitsOf(V) /\ smaller \in LitsOf(V) /\ Equal(-larger, -smaller, V, M)
    BY EqualFacts
  <2>2. larger \in Lit /\ smaller \in Lit
    BY <2>1, LitsOfFacts
  <2> QED BY <2>1, <2>2, LitFacts
<1>2. ASSUME NEW x \in Lit PROVE Moved(x) \in Lit /\ Same(x, Moved(x), V, M)
  <2>1. CASE x = larger
    BY <1>1, <2>1 DEF Same, Equal
  <2>2. CASE x = -larger
    BY <1>1, <2>2 DEF Same, Equal
  <2>3. CASE x # larger /\ x # -larger
    BY <2>3 DEF Same
  <2> QED BY <2>1, <2>2, <2>3
<1>3. t.job.reprs \in Reprs(V, M)
  BY ClosureFacts
<1>4. ASSUME NEW lit \in Lit PROVE reprs[lit] \in Lit /\ Same(lit, reprs[lit], V, M)
  <2> DEFINE x == t.job.reprs[lit]
  <2>1. x \in Lit /\ Same(lit, x, V, M)
    BY <1>3 DEF Reprs
  <2>2. reprs[lit] = Moved(x)
    OBVIOUS
  <2> HIDE DEF x, Moved, reprs
  <2>3. Moved(x) \in Lit /\ Same(x, Moved(x), V, M)
    BY <1>2, <2>1
  <2> QED BY <2>1, <2>2, <2>3 DEF Same
<1>5. reprs \in Reprs(V, M)
  <2>1. reprs = [lit \in Lit |-> reprs[lit]]
    OBVIOUS
  <2> HIDE DEF reprs
  <2> QED BY <1>4, <2>1 DEF Reprs
<1>6. schedule \in Seq(LitsOf(V))
  BY <1>1, ClosureFacts
<1>7. Represent(t, larger, smaller) = WithJob(t, new)
  BY DEF Represent, WithJob
<1>9. Learned(t.s, reprs)
  <2>1. ASSUME ~t.s.unsat, NEW m, IsModel(m, BinaryClauses(t.s.irr), t.s.units), NEW lit \in Lit
        PROVE  True(m, lit) <=> True(m, reprs[lit])
    <3> DEFINE x == t.job.reprs[lit]
    <3>1. x \in Lit /\ reprs[lit] = Moved(x)
      BY <1>3 DEF Reprs
    <3>2. True(m, lit) <=> True(m, x)
      BY <2>1, ClosureFacts DEF Learned
    <3>3. Holds(m, {-larger, smaller}) /\ Holds(m, {larger, -smaller})
      BY <2>1 DEF ByBinaries
    <3>4. True(m, larger) <=> True(m, smaller)
      BY <1>1, <3>3, TrueNegated DEF Holds
    <3>5. True(m, -larger) <=> True(m, -smaller)
      BY <1>1, <3>4, TrueNegated
    <3> HIDE DEF x, reprs
    <3>6. True(m, x) <=> True(m, Moved(x))
      BY <3>4, <3>5
    <3> HIDE DEF Moved
    <3> QED BY <3>1, <3>2, <3>6
  <2> HIDE DEF reprs
  <2> QED BY <2>1 DEF Learned
<1> HIDE DEF reprs, schedule
<1>8. new \in ClosureJobs(V, M) /\ new.reprs = reprs
  <2>1. t.job \in ClosureJobs(V, M)
    BY ClosureFacts
  <2> QED BY <1>5, <1>6, <2>1 DEF ClosureJobs
<1> HIDE DEF new
<1> QED BY <1>7, <1>8, <1>9, WithFacts

\* The merge of two representatives that are equal in M.
LEMMA MergeRepresentativesKeeps ==
  ASSUME NEW V, NEW M, NEW U, NEW t \in ClosureStates(V, M, U), NEW a, NEW b, Equal(a, b, V, M)
  PROVE  MergeRepresentatives(t, a, b) \in ClosureStates(V, M, U)
<1> DEFINE larger == IF VarOf(a) > VarOf(b) THEN a ELSE b
           smaller == IF larger = a THEN b ELSE a
           u == maybe_add_binary_clause(t, -larger, smaller)
           w == maybe_add_binary_clause(u, larger, -smaller)
<1>1. Equal(larger, smaller, V, M)
  BY EqualFacts, EqualSelf
<1>2. MergeRepresentatives(t, a, b) = Represent(w, larger, smaller)
  BY DEF MergeRepresentatives
<1> HIDE DEF larger, smaller
<1>3. BinaryAdded(u, {-larger, smaller}, V, M, U)
  BY <1>1, EqualFacts, MaybeAddKeeps
<1> HIDE DEF u
<1>4. BinaryAdded(w, {larger, -smaller}, V, M, U) /\ BinaryAdded(w, {larger, -smaller}, V, M, u.s)
  <2>1. u \in ClosureStates(V, M, U) /\ u \in ClosureStates(V, M, u.s)
    BY <1>3, Rebase DEF BinaryAdded
  <2> QED BY <1>1, <2>1, EqualFacts, MaybeAddKeeps
<1> HIDE DEF w
<1>5. w.s \in Grown(V, M, u.s)
  BY <1>4, ClosureFacts DEF BinaryAdded
<1>6. ByBinaries(w.s, {-larger, smaller})
  <2>1. Extending(w.s, u.s)
    BY <1>5, GrownFacts
  <2> QED BY <1>3, <2>1, ByBinariesStays DEF BinaryAdded
<1> QED BY <1>1, <1>2, <1>4, <1>6, RepresentKeeps DEF BinaryAdded

\* The merge of two equal literals one of which has a value.
LEMMA MergeAssignedKeeps ==
  ASSUME NEW V, NEW M, NEW U, NEW t \in ClosureStates(V, M, U), NEW lit, NEW other,
         Equal(lit, other, V, M), Value(t, lit) # 0 \/ Value(t, other) # 0,
         ~(Value(t, lit) # 0 /\ Value(t, lit) = Value(t, other))
  PROVE  MergeAssigned(t, lit, other) \in ClosureStates(V, M, U)
<1> DEFINE x == Value(t, lit)
           y == Value(t, other)
<1>1. lit \in LitsOf(V) /\ other \in LitsOf(V) /\ lit \in Int /\ other \in Int
  <2>1. lit \in LitsOf(V) /\ other \in LitsOf(V)
    BY EqualFacts
  <2> QED BY <2>1, LitsOfFacts
<1>2. x \in {-1, 0, 1} /\ y \in {-1, 0, 1}
  BY <1>1, ValueFacts
<1>3. MergeAssigned(t, lit, other) =
        IF x * y = -1 THEN [t EXCEPT !.s = Unsat(@)]
        ELSE learn_congruence_unit(t, x * other + y * lit)
  BY DEF MergeAssigned
<1>4. /\ x = 1 => lit \in Facts(V, M)
      /\ x = -1 => -lit \in Facts(V, M)
      /\ y = 1 => other \in Facts(V, M)
      /\ y = -1 => -other \in Facts(V, M)
  BY <1>1, ValueFacts
<1>5. /\ lit \in Facts(V, M) => other \in Facts(V, M)
      /\ -lit \in Facts(V, M) => -other \in Facts(V, M)
      /\ other \in Facts(V, M) => lit \in Facts(V, M)
      /\ -other \in Facts(V, M) => -lit \in Facts(V, M)
  <2>1. Equal(other, lit, V, M)
    BY EqualFacts
  <2> QED BY <2>1, EqualFacts
<1> HIDE DEF x, y
<1>6. CASE x * y = -1
  <2>1. (x = 1 /\ y = -1) \/ (x = -1 /\ y = 1)
    BY <1>2, <1>6
  <2>2. M = {}
    BY <1>4, <1>5, <2>1, SoundFacts
  <2> QED BY <1>3, <1>6, <2>2, ClosureUnsat
<1>7. CASE x * y # -1
  <2>1. x # 0 \/ y # 0
    BY DEF x, y
  <2>2. ~(x # 0 /\ x = y)
    BY DEF x, y
  <2>3. (x = 1 /\ y = 0) \/ (x = -1 /\ y = 0) \/ (x = 0 /\ y = 1) \/ (x = 0 /\ y = -1)
    <3>1. ~(x = 1 /\ y = -1) /\ ~(x = -1 /\ y = 1)
      BY <1>7
    <3> QED BY <1>2, <2>1, <2>2, <3>1
  <2>5. x * other + y * lit \in Facts(V, M)
    <3>1. CASE x = 1 /\ y = 0
      <4>1. x * other + y * lit = other
        BY <1>1, <3>1
      <4> QED BY <1>4, <1>5, <3>1, <4>1
    <3>2. CASE x = -1 /\ y = 0
      <4>1. x * other + y * lit = -other
        BY <1>1, <3>2
      <4> QED BY <1>4, <1>5, <3>2, <4>1
    <3>3. CASE x = 0 /\ y = 1
      <4>1. x * other + y * lit = lit
        BY <1>1, <3>3
      <4> QED BY <1>4, <1>5, <3>3, <4>1
    <3>4. CASE x = 0 /\ y = -1
      <4>1. x * other + y * lit = -lit
        BY <1>1, <3>4
      <4> QED BY <1>4, <1>5, <3>4, <4>1
    <3> QED BY <2>3, <3>1, <3>2, <3>3, <3>4
  <2>6. MergeAssigned(t, lit, other) = learn_congruence_unit(t, x * other + y * lit)
    BY <1>3, <1>7
  <2> QED BY <2>5, <2>6, LearnKeeps
<1> QED BY <1>6, <1>7

\* merge_literals with two literals that are equal in M.
LEMMA MergeKeeps ==
  ASSUME NEW V, NEW M, NEW U, NEW t \in ClosureStates(V, M, U), NEW lit, NEW other,
         Equal(lit, other, V, M)
  PROVE  merge_literals(t, lit, other) \in ClosureStates(V, M, U)
<1> DEFINE a == Repr(t, lit)
           b == Repr(t, other)
           x == Value(t, lit)
           y == Value(t, other)
           same == t.s.unsat \/ a = b \/ (x # 0 /\ x = y)
           clash == lit = -other \/ a = -b
           all == merge_literals(t, lit, other)
<1>1. all = IF same THEN t
            ELSE IF clash THEN [t EXCEPT !.s = Unsat(@)]
            ELSE IF x # 0 \/ y # 0 THEN MergeAssigned(t, lit, other)
            ELSE MergeRepresentatives(t, a, b)
  BY DEF merge_literals
<1>2. lit \in LitsOf(V) /\ other \in LitsOf(V)
  BY EqualFacts
<1>3. Equal(lit, a, V, M) /\ Equal(other, b, V, M)
  BY <1>2, ReprEqual
<1>4. Equal(a, b, V, M)
  <2> HIDE DEF a, b
  <2>1. Equal(a, lit, V, M)
    BY <1>3, EqualFacts
  <2>2. Equal(a, other, V, M)
    BY <2>1, EqualFacts
  <2> QED BY <1>3, <2>2, EqualFacts
<1>5. clash => M = {}
  BY <1>4, EqualFacts
<1> HIDE DEF a, b
<1>6. MergeRepresentatives(t, a, b) \in ClosureStates(V, M, U)
  BY <1>4, MergeRepresentativesKeeps
<1>7. ASSUME ~same, x # 0 \/ y # 0 PROVE MergeAssigned(t, lit, other) \in ClosureStates(V, M, U)
  BY <1>7, MergeAssignedKeeps
<1>8. clash => [t EXCEPT !.s = Unsat(@)] \in ClosureStates(V, M, U)
  BY <1>5, ClosureUnsat
<1> HIDE DEF all, same, clash, x, y
<1>9. all \in ClosureStates(V, M, U)
  BY <1>1, <1>6, <1>7, <1>8
<1> QED BY <1>9 DEF all

\* promote_clause with a clause that holds.
LEMMA PromoteClauseKeeps ==
  ASSUME NEW V, NEW M, NEW U, NEW t \in ClosureStates(V, M, U), NEW c \in Proper(V, M)
  PROVE  promote_clause(t, c) \in ClosureStates(V, M, U)
<1>1. Promote(t.s, c) \in Grown(V, M, t.s)
  BY ClosureFacts, GrownMore
<1> QED BY <1>1, WithFacts DEF promote_clause, WithS

\* promote_clause leaves the clause implied by irredundant binary clauses.
LEMMA PromoteMeans ==
  ASSUME NEW V, NEW M, NEW U, NEW t \in ClosureStates(V, M, U), NEW c \in Proper(V, M),
         Cardinality(c) = 2
  PROVE  ByBinaries(promote_clause(t, c).s, c)
<1>1. Promote(t.s, c) \in Grown(V, M, t.s)
  BY ClosureFacts, GrownMore
<1>2. promote_clause(t, c).s = Promote(t.s, c)
  BY <1>1, WithFacts DEF promote_clause, WithS
<1>3. c \in Promote(t.s, c).irr
  BY ClosureFacts DEF Promote, Grown
<1>4. c \in BinaryClauses(Promote(t.s, c).irr)
  BY <1>3 DEF BinaryClauses
<1> QED BY <1>2, <1>4 DEF ByBinaries, IsModel

\* Both promotions of an equivalence.
Promoted(t, lit, other) == promote_clause(promote_clause(t, {lit, -other}), {-lit, other})

\* Both binary clauses of an equivalence promoted.
LEMMA PromotedKeeps ==
  ASSUME NEW V, NEW M, NEW U, NEW t \in ClosureStates(V, M, U), NEW lit, NEW other,
         {lit, -other} \in Proper(V, M), {-lit, other} \in Proper(V, M)
  PROVE  Promoted(t, lit, other) \in ClosureStates(V, M, U)
  BY PromoteClauseKeeps DEF Promoted

\* Both implications of an equivalence follow from irredundant binary clauses
\* once they are promoted.
LEMMA PromotedMeans ==
  ASSUME NEW V, NEW M, NEW U, NEW t \in ClosureStates(V, M, U), NEW lit, NEW other,
         {lit, -other} \in Proper(V, M), {-lit, other} \in Proper(V, M), lit # -other
  PROVE  /\ ByBinaries(Promoted(t, lit, other).s, {lit, -other})
         /\ ByBinaries(Promoted(t, lit, other).s, {-lit, other})
<1> DEFINE u == promote_clause(t, {lit, -other})
           w == promote_clause(u, {-lit, other})
<1>1. lit \in LitsOf(V) /\ -lit \in LitsOf(V) /\ other \in LitsOf(V) /\ -other \in LitsOf(V)
  BY SoundFacts, ProperFacts
<1>2. lit \in Int /\ other \in Int
  BY <1>1, LitsOfFacts
<1>3. Cardinality({lit, -other}) = 2 /\ Cardinality({-lit, other}) = 2
  <2>1. -lit # other
    BY <1>2
  <2>2. Cardinality({lit, -other}) = 2
    BY PairCardinality
  <2>3. Cardinality({-lit, other}) = 2
    BY <2>1, PairCardinality
  <2> QED BY <2>2, <2>3
<1>4. u \in ClosureStates(V, M, U) /\ ByBinaries(u.s, {lit, -other})
  BY <1>3, PromoteClauseKeeps, PromoteMeans
<1> HIDE DEF u
<1>5. w \in ClosureStates(V, M, u.s) /\ ByBinaries(w.s, {-lit, other})
  BY <1>3, <1>4, Rebase, PromoteClauseKeeps, PromoteMeans
<1> HIDE DEF w
<1>6. Extending(w.s, u.s)
  BY <1>5, ClosureFacts, GrownFacts
<1>7. ByBinaries(w.s, {lit, -other})
  BY <1>4, <1>6, ByBinariesStays
<1> QED BY <1>5, <1>7 DEF Promoted, u, w

\* merge_literals_equivalence with the two binary clauses of the equivalence.
LEMMA MergeEquivalenceKeeps ==
  ASSUME NEW V, NEW M, NEW U, NEW t \in ClosureStates(V, M, U), NEW lit, NEW other,
         Equal(lit, other, V, M),
         {lit, -other} \in Proper(V, M), {-lit, other} \in Proper(V, M)
  PROVE  merge_literals_equivalence(t, lit, other) \in ClosureStates(V, M, U)
<1> DEFINE a == Repr(t, lit)
           b == Repr(t, other)
           x == Value(t, lit)
           y == Value(t, other)
           u == Promoted(t, lit, other)
           larger  == IF VarOf(a) > VarOf(b) THEN a ELSE b
           smaller == IF larger = a THEN b ELSE a
           same == a = b \/ (x # 0 /\ x = y)
           all == merge_literals_equivalence(t, lit, other)
<1>1. all = IF same THEN t
            ELSE IF x # 0 \/ y # 0 THEN MergeAssigned(t, lit, other)
            ELSE IF a = -b THEN [t EXCEPT !.s = Unsat(@)]
            ELSE IF <<a, b>> # <<lit, other>> THEN MergeRepresentatives(u, a, b)
            ELSE Represent(u, larger, smaller)
  BY DEF merge_literals_equivalence, Promoted
<1>2. lit \in LitsOf(V) /\ other \in LitsOf(V)
  BY EqualFacts
<1>3. Equal(lit, a, V, M) /\ Equal(other, b, V, M)
  BY <1>2, ReprEqual
<1>4. Equal(a, b, V, M)
  <2> HIDE DEF a, b
  <2>1. Equal(a, lit, V, M)
    BY <1>3, EqualFacts
  <2>2. Equal(a, other, V, M)
    BY <2>1, EqualFacts
  <2> QED BY <1>3, <2>2, EqualFacts
<1>5. a = -b => M = {}
  BY <1>4, EqualFacts
<1>6. u \in ClosureStates(V, M, U)
  BY PromotedKeeps
<1>13. lit # -other => ByBinaries(u.s, {lit, -other}) /\ ByBinaries(u.s, {-lit, other})
  BY PromotedMeans
<1> HIDE DEF a, b, u
<1>7. Equal(larger, smaller, V, M)
  BY <1>4, EqualFacts, EqualSelf
<1>14. ASSUME a # -b, <<a, b>> = <<lit, other>>
       PROVE  ByBinaries(u.s, {-larger, smaller}) /\ ByBinaries(u.s, {larger, -smaller})
  <2>1. a = lit /\ b = other
    BY <1>14
  <2>2. ByBinaries(u.s, {a, -b}) /\ ByBinaries(u.s, {-a, b})
    BY <1>13, <1>14, <2>1
  <2>3. larger = a \/ larger = b
    OBVIOUS
  <2>4. CASE larger = a
    <3>1. smaller = b
      BY <2>4
    <3> HIDE DEF larger, smaller
    <3> QED BY <2>2, <2>4, <3>1
  <2>5. CASE larger # a
    <3>1. smaller = a /\ larger = b
      BY <2>3, <2>5
    <3>2. {-larger, smaller} = {a, -b} /\ {larger, -smaller} = {-a, b}
      BY <3>1
    <3> HIDE DEF larger, smaller
    <3> QED BY <2>2, <3>2
  <2> QED BY <2>4, <2>5
<1> HIDE DEF larger, smaller
<1>8. MergeRepresentatives(u, a, b) \in ClosureStates(V, M, U)
  BY <1>4, <1>6, MergeRepresentativesKeeps
<1>9. ASSUME a # -b, <<a, b>> = <<lit, other>>
      PROVE  Represent(u, larger, smaller) \in ClosureStates(V, M, U)
  BY <1>6, <1>7, <1>9, <1>14, RepresentKeeps
<1>10. ASSUME ~same, x # 0 \/ y # 0 PROVE MergeAssigned(t, lit, other) \in ClosureStates(V, M, U)
  BY <1>10, MergeAssignedKeeps
<1>11. a = -b => [t EXCEPT !.s = Unsat(@)] \in ClosureStates(V, M, U)
  BY <1>5, ClosureUnsat
<1> HIDE DEF all, same, x, y
<1>12. all \in ClosureStates(V, M, U)
  BY <1>1, <1>8, <1>9, <1>10, <1>11
<1> QED BY <1>12 DEF all

-----------------------------------------------------------------------------
(* The table of gates. *)

\* The parts of a gate, and that its output has in M the value of its function.
LEMMA GateFacts ==
  ASSUME NEW V, NEW M, NEW g \in GateSet(V, M)
  PROVE  /\ g.tag \in {"and", "xor", "ite"} /\ g.lhs \in LitsOf(V) /\ g.rhs \in SUBSET LitsOf(V)
         /\ g.degenerate \in BOOLEAN /\ GateForm(g, V)
         /\ g \in GateRecords(V) /\ \A m \in M : GateHolds(g, m)
  BY DEF GateSet, GateRecords

\* Gates with the same inputs have equal outputs.
LEMMA MatchingEqual ==
  ASSUME NEW V, NEW M, NEW U, NEW t \in ClosureStates(V, M, U), NEW g \in GateSet(V, M),
         NEW h \in Matching(t, g)
  PROVE  Equal(g.lhs, h.lhs, V, M)
<1>1. h \in GateSet(V, M) /\ h.tag = g.tag /\ h.rhs = g.rhs /\ h.ite = g.ite
  BY ClosureFacts DEF Matching
<1>2. g.lhs \in LitsOf(V) /\ h.lhs \in LitsOf(V) /\ g.tag \in {"and", "xor", "ite"}
  BY <1>1, GateFacts
<1>3. ASSUME NEW m \in M PROVE True(m, g.lhs) <=> True(m, h.lhs)
  <2>1. GateHolds(g, m) /\ GateHolds(h, m)
    BY <1>1, GateFacts
  <2>2. CASE g.tag = "and"
    BY <1>1, <2>1, <2>2 DEF GateHolds
  <2>3. CASE g.tag = "xor"
    BY <1>1, <2>1, <2>3 DEF GateHolds
  <2>4. CASE g.tag = "ite"
    BY <1>1, <2>1, <2>4 DEF GateHolds
  <2> QED BY <1>2, <2>2, <2>3, <2>4
<1> QED BY <1>2, <1>3 DEF Equal

\* mark_garbage of a gate.
LEMMA RemoveGateKeeps ==
  ASSUME NEW V, NEW M, NEW U, NEW t \in ClosureStates(V, M, U), NEW g
  PROVE  RemoveGate(t, g) \in ClosureStates(V, M, U)
<1> DEFINE new == [t.job EXCEPT !.gates = @ \ {g}]
<1>1. IsFiniteSet(t.job.gates \ {g})
  BY ClosureFacts, FS_Subset
<1>2. new \in ClosureJobs(V, M) /\ Learned(t.s, new.reprs)
  <2>1. t.job \in ClosureJobs(V, M) /\ Learned(t.s, t.job.reprs)
    BY ClosureFacts
  <2> QED BY <1>1, <2>1 DEF ClosureJobs
<1>3. RemoveGate(t, g) = WithJob(t, new)
  BY DEF RemoveGate, WithJob
<1> HIDE DEF new
<1> QED BY <1>2, <1>3, WithFacts

\* index_gate with a gate that holds.
LEMMA IndexGateKeeps ==
  ASSUME NEW V, NEW M, NEW U, NEW t \in ClosureStates(V, M, U), NEW g \in GateSet(V, M)
  PROVE  IndexGate(t, g) \in ClosureStates(V, M, U)
<1>1. CASE Matching(t, g) = {}
  <2> DEFINE new == [t.job EXCEPT !.gates = @ \cup {g}]
  <2>1. IsFiniteSet(t.job.gates \cup {g})
    BY ClosureFacts, FS_AddElement
  <2>2. new \in ClosureJobs(V, M) /\ Learned(t.s, new.reprs)
    <3>1. t.job \in ClosureJobs(V, M) /\ Learned(t.s, t.job.reprs)
      BY ClosureFacts
    <3> QED BY <2>1, <3>1 DEF ClosureJobs
  <2>3. IndexGate(t, g) = WithJob(t, new)
    BY <1>1 DEF IndexGate, WithJob
  <2> HIDE DEF new
  <2> QED BY <2>2, <2>3, WithFacts
<1>2. CASE Matching(t, g) # {}
  <2> DEFINE h == CHOOSE x \in Matching(t, g) : TRUE
  <2>1. h \in Matching(t, g)
    BY <1>2
  <2>2. IndexGate(t, g) = merge_literals(t, g.lhs, h.lhs)
    BY <1>2 DEF IndexGate
  <2> HIDE DEF h
  <2>3. Equal(g.lhs, h.lhs, V, M)
    BY <2>1, MatchingEqual
  <2> QED BY <2>2, <2>3, MergeKeeps
<1> QED BY <1>1, <1>2

\* A gate with a single input left: the output is merged with it.
LEMMA UnaryKeeps ==
  ASSUME NEW V, NEW M, NEW U, NEW t \in ClosureStates(V, M, U), NEW lhs, NEW input,
         Equal(lhs, input, V, M)
  PROVE  UnaryGate(t, lhs, input) \in ClosureStates(V, M, U)
<1>1. lhs \in LitsOf(V) /\ input \in LitsOf(V) /\ input \in Int
  BY EqualFacts, LitsOfFacts
<1>2. CASE Value(t, lhs) = 0
  BY <1>2, MergeKeeps DEF UnaryGate
<1>3. CASE Value(t, lhs) # 0
  <2>1. UnaryGate(t, lhs, input) = learn_congruence_unit(t, Value(t, lhs) * input)
    BY <1>3 DEF UnaryGate
  <2>2. Value(t, lhs) * input \in Facts(V, M)
    <3>1. CASE Value(t, lhs) = 1
      <4>1. Value(t, lhs) * input = input
        BY <1>1, <3>1
      <4>2. lhs \in Facts(V, M)
        BY <1>1, <3>1, ValueFacts
      <4> QED BY <4>1, <4>2, EqualFacts
    <3>2. CASE Value(t, lhs) = -1
      <4>1. Value(t, lhs) * input = -input
        BY <1>1, <3>2
      <4>2. -lhs \in Facts(V, M)
        BY <1>1, <3>2, ValueFacts
      <4> QED BY <4>1, <4>2, EqualFacts
    <3>3. Value(t, lhs) \in {-1, 0, 1}
      BY <1>1, ValueFacts
    <3> QED BY <1>3, <3>1, <3>2, <3>3
  <2> QED BY <2>1, <2>2, LearnKeeps
<1> QED BY <1>2, <1>3

\* update_and_gate: the gate becomes constant, unary, is merged with an equal
\* one or goes back to the table.
LEMMA UpdateAndKeeps ==
  ASSUME NEW V, NEW M, NEW U, NEW t \in ClosureStates(V, M, U), NEW g \in GateSet(V, M), g.tag = "and"
  PROVE  update_and_gate(t, g) \in ClosureStates(V, M, U)
<1>1. g.rhs \in SUBSET LitsOf(V) /\ g.lhs \in LitsOf(V)
  BY GateFacts
<1>2. CASE Cardinality(g.rhs) = 1
  <2>1. PICK x : g.rhs = {x}
    BY <1>1, <1>2, ClausesFinite, FS_Singleton
  <2>2. ASSUME NEW m \in M PROVE True(m, g.lhs) <=> True(m, x)
    <3>1. GateHolds(g, m)
      BY GateFacts
    <3> QED BY <2>1, <3>1 DEF GateHolds
  <2>3. Equal(g.lhs, x, V, M)
    BY <1>1, <2>1, <2>2 DEF Equal
  <2>4. update_and_gate(t, g) = UnaryGate(t, g.lhs, x)
    BY <1>2, <2>1 DEF update_and_gate
  <2> QED BY <2>3, <2>4, UnaryKeeps
<1>3. CASE Cardinality(g.rhs) # 1
  BY <1>3, IndexGateKeeps DEF update_and_gate
<1> QED BY <1>2, <1>3

\* update_xor_gate: the same for an XOR gate.
LEMMA UpdateXorKeeps ==
  ASSUME NEW V, NEW M, NEW U, NEW t \in ClosureStates(V, M, U), NEW g \in GateSet(V, M), g.tag = "xor"
  PROVE  update_xor_gate(t, g) \in ClosureStates(V, M, U)
<1>1. g.rhs \in SUBSET LitsOf(V) /\ g.lhs \in LitsOf(V) /\ -g.lhs \in LitsOf(V) /\ g.lhs \in Lit
  BY GateFacts, LitsOfFacts
<1>2. CASE g.rhs = {}
  <2>1. ASSUME NEW m \in M PROVE True(m, -g.lhs)
    <3>1. GateHolds(g, m)
      BY GateFacts
    <3>2. {lit \in g.rhs : True(m, lit)} = {}
      BY <1>2
    <3>3. Cardinality({lit \in g.rhs : True(m, lit)}) = 0
      BY <3>2, FS_EmptySet
    <3>4. ~True(m, g.lhs)
      BY <3>1, <3>3 DEF GateHolds
    <3> QED BY <1>1, <3>4, TrueNegated
  <2>2. -g.lhs \in Facts(V, M)
    BY <1>1, <2>1, FactIf
  <2>3. Cardinality(g.rhs) # 1
    BY <1>2, FS_EmptySet
  <2>4. update_xor_gate(t, g) = learn_congruence_unit(t, -g.lhs)
    BY <1>2, <2>3 DEF update_xor_gate
  <2> QED BY <2>2, <2>4, LearnKeeps
<1>3. CASE Cardinality(g.rhs) = 1
  <2>1. PICK x : g.rhs = {x}
    BY <1>1, <1>3, ClausesFinite, FS_Singleton
  <2>2. ASSUME NEW m \in M PROVE True(m, g.lhs) <=> True(m, x)
    <3>1. GateHolds(g, m)
      BY GateFacts
    <3>2. {lit \in g.rhs : True(m, lit)} = IF True(m, x) THEN {x} ELSE {}
      BY <2>1
    <3>3. Cardinality({lit \in g.rhs : True(m, lit)}) = IF True(m, x) THEN 1 ELSE 0
      BY <3>2, FS_EmptySet, FS_Singleton
    <3> QED BY <3>1, <3>3 DEF GateHolds
  <2>3. Equal(g.lhs, x, V, M)
    BY <1>1, <2>1, <2>2 DEF Equal
  <2>4. update_xor_gate(t, g) = UnaryGate(t, g.lhs, x)
    BY <1>3, <2>1 DEF update_xor_gate
  <2> QED BY <2>3, <2>4, UnaryKeeps
<1>4. CASE g.rhs # {} /\ Cardinality(g.rhs) # 1
  BY <1>4, IndexGateKeeps DEF update_xor_gate
<1> QED BY <1>2, <1>3, <1>4

-----------------------------------------------------------------------------
(* AND gates. *)

AndOf(lhs, rhs, V, M) ==
  /\ lhs \in LitsOf(V) /\ rhs \in SUBSET LitsOf(V)
  /\ \A m \in M : True(m, lhs) <=> \A lit \in rhs : True(m, lit)

AndPair(lhs, a, b, V, M) ==
  /\ lhs \in LitsOf(V) /\ a \in LitsOf(V) /\ b \in LitsOf(V)
  /\ \A m \in M : True(m, lhs) <=> True(m, a) /\ True(m, b)

ReAnd(g, lhs, rhs, d) == [g EXCEPT !.lhs = lhs, !.rhs = rhs, !.degenerate = d]

\* The output of an AND gate is the conjunction of its inputs.
LEMMA AndGateFacts ==
  ASSUME NEW V, NEW M, NEW g \in GateSet(V, M), g.tag = "and"
  PROVE  AndOf(g.lhs, g.rhs, V, M)
<1>1. ASSUME NEW m \in M PROVE True(m, g.lhs) <=> \A lit \in g.rhs : True(m, lit)
  BY GateFacts DEF GateHolds
<1> QED BY <1>1, GateFacts DEF AndOf

\* A conjunction makes an AND gate.
LEMMA AndMade ==
  ASSUME NEW V, NEW M, NEW lhs, NEW rhs, AndOf(lhs, rhs, V, M)
  PROVE  And(lhs, rhs) \in GateSet(V, M) /\ And(lhs, rhs).tag = "and"
<1> DEFINE g == And(lhs, rhs)
<1>1. /\ g.tag = "and" /\ g.lhs = lhs /\ g.rhs = rhs /\ g.ite = <<>>
  BY DEF And, Gate
<1>2. g \in GateRecords(V)
  <2>1. GateForm(g, V)
    <3> HIDE DEF g
    <3> QED BY <1>1 DEF GateForm
  <2>2. lhs \in LitsOf(V) /\ rhs \in SUBSET LitsOf(V)
    BY DEF AndOf
  <2> QED BY <2>1, <2>2 DEF GateRecords, And, Gate, IteInputs
<1> HIDE DEF g
<1>3. ASSUME NEW m \in M PROVE GateHolds(g, m)
  BY <1>1 DEF AndOf, GateHolds
<1>4. g \in GateSet(V, M)
  BY <1>2, <1>3 DEF GateSet
<1> QED BY <1>1, <1>4 DEF g

\* An AND gate with another output and other inputs.
LEMMA ReAndMade ==
  ASSUME NEW V, NEW M, NEW g \in GateSet(V, M), g.tag = "and", NEW d \in BOOLEAN,
         NEW lhs, NEW rhs, AndOf(lhs, rhs, V, M)
  PROVE  ReAnd(g, lhs, rhs, d) \in GateSet(V, M) /\ ReAnd(g, lhs, rhs, d).tag = "and"
<1> DEFINE h == ReAnd(g, lhs, rhs, d)
<1>0. g \in GateRecords(V) /\ g.ite = <<>>
  BY GateFacts DEF GateForm
<1>1. h.tag = "and" /\ h.lhs = lhs /\ h.rhs = rhs /\ h.ite = <<>>
  BY <1>0 DEF ReAnd, GateRecords
<1>2. h \in GateRecords(V)
  <2>1. GateForm(h, V)
    <3> HIDE DEF h
    <3> QED BY <1>1 DEF GateForm
  <2>2. lhs \in LitsOf(V) /\ rhs \in SUBSET LitsOf(V)
    BY DEF AndOf
  <2> QED BY <1>0, <2>1, <2>2 DEF GateRecords, ReAnd
<1> HIDE DEF h
<1>3. ASSUME NEW m \in M PROVE GateHolds(h, m)
  BY <1>1 DEF AndOf, GateHolds
<1>4. h \in GateSet(V, M)
  BY <1>2, <1>3 DEF GateSet
<1> QED BY <1>1, <1>4 DEF h

\* The output of a gate is equal to its representative.
LEMMA AndLhsEqual ==
  ASSUME NEW V, NEW M, NEW U, NEW t \in ClosureStates(V, M, U), NEW g \in GateSet(V, M)
  PROVE  Equal(g.lhs, AndLhs(t, g), V, M)
  BY GateFacts, ReprEqual, EqualSelf DEF AndLhs

\* A conjunction of the same inputs with an equal output.
LEMMA AndMoved ==
  ASSUME NEW V, NEW M, NEW lhs, NEW rhs, AndOf(lhs, rhs, V, M), NEW out, Equal(lhs, out, V, M)
  PROVE  AndOf(out, rhs, V, M)
  BY DEF AndOf, Equal

\* True inputs can go.
LEMMA AndWithout ==
  ASSUME NEW V, NEW M, NEW lhs, NEW rhs, AndOf(lhs, rhs, V, M), NEW units \in SUBSET Facts(V, M)
  PROVE  AndOf(lhs, rhs \ units, V, M)
<1>1. \A m \in M : \A lit \in units : True(m, lit)
  BY DEF Facts
<1> QED BY <1>1 DEF AndOf

\* An input that is false, or clashes with another one or the output.
LEMMA AndFalse ==
  ASSUME NEW V, NEW M, NEW lhs, NEW rhs, AndOf(lhs, rhs, V, M), NEW lit \in rhs,
         -lit \in Facts(V, M) \/ -lit \in rhs \/ lit = -lhs
  PROVE  -lhs \in Facts(V, M)
<1>1. lhs \in LitsOf(V) /\ lit \in LitsOf(V) /\ lhs \in Lit /\ lit \in Lit /\ -lhs \in LitsOf(V)
  BY LitsOfFacts DEF AndOf
<1>2. ASSUME NEW m \in M PROVE True(m, -lhs)
  <2>1. True(m, lhs) <=> \A l \in rhs : True(m, l)
    BY DEF AndOf
  <2>2. CASE -lit \in Facts(V, M)
    <3>1. ~True(m, lit)
      BY <1>1, <2>2, TrueNegated DEF Facts
    <3> QED BY <1>1, <2>1, <3>1, TrueNegated
  <2>3. CASE -lit \in rhs
    <3>1. ~True(m, lit) \/ ~True(m, -lit)
      BY <1>1, TrueNegated
    <3> QED BY <1>1, <2>1, <2>3, <3>1, TrueNegated
  <2>4. CASE lit = -lhs
    BY <1>1, <2>1, <2>4, TrueNegated
  <2> QED BY <2>2, <2>3, <2>4
<1> QED BY <1>1, <1>2, FactIf

\* simplify_and_gate leaves out true inputs and learns a unit from a false one.
LEMMA SimplifyAndKeeps ==
  ASSUME NEW V, NEW M, NEW U, NEW t \in ClosureStates(V, M, U), NEW g \in GateSet(V, M),
         g.tag = "and"
  PROVE  simplify_and_gate(t, g) \in ClosureStates(V, M, U)
<1> DEFINE lhs == AndLhs(t, g)
           rest == g.rhs \ t.s.units
           d == g.degenerate \/ {lhs, -lhs} \cap rest # {}
           u == update_and_gate(t, ReAnd(g, lhs, rest, d))
           all == simplify_and_gate(t, g)
           false == \E lit \in g.rhs : IsFalse(t, lit)
<1>1. all = IF IsTrue(t, g.lhs) THEN t
            ELSE IF false THEN learn_congruence_unit(t, -lhs)
            ELSE IF -lhs \in rest THEN learn_congruence_unit(u, -lhs)
            ELSE u
  BY DEF simplify_and_gate, ReAnd
<1>2. Equal(g.lhs, lhs, V, M)
  BY AndLhsEqual
<1>3. AndOf(lhs, g.rhs, V, M)
  <2> HIDE DEF lhs
  <2> QED BY <1>2, AndGateFacts, AndMoved
<1> HIDE DEF lhs
<1>4. AndOf(lhs, rest, V, M)
  BY <1>3, ClosureFacts, AndWithout
<1>5. d \in BOOLEAN
  BY GateFacts
<1> HIDE DEF rest, d
<1>6. u \in ClosureStates(V, M, U)
  BY <1>4, <1>5, ReAndMade, UpdateAndKeeps
<1>7. ASSUME false PROVE learn_congruence_unit(t, -lhs) \in ClosureStates(V, M, U)
  <2>1. PICK lit \in g.rhs : IsFalse(t, lit)
    BY <1>7
  <2>2. lit \in LitsOf(V)
    BY GateFacts
  <2>3. -lit \in Facts(V, M)
    BY <2>1, <2>2, ValueFacts
  <2>4. -lhs \in Facts(V, M)
    BY <1>3, <2>1, <2>3, AndFalse
  <2> QED BY <2>4, LearnKeeps
<1> HIDE DEF u
<1>8. ASSUME -lhs \in rest PROVE learn_congruence_unit(u, -lhs) \in ClosureStates(V, M, U)
  <2>1. -lhs \in Facts(V, M)
    BY <1>4, <1>8, AndFalse
  <2> QED BY <1>6, <2>1, LearnKeeps
<1> HIDE DEF all, false
<1>9. all \in ClosureStates(V, M, U)
  BY <1>1, <1>6, <1>7, <1>8
<1> QED BY <1>9 DEF all

\* A literal and what a rewrite from src to dst makes of it are equal.
LEMMA MoveEqual ==
  ASSUME NEW V, NEW M, NEW src, NEW dst, Equal(src, dst, V, M), NEW lit \in LitsOf(V)
  PROVE  Equal(lit, Move(lit, src, dst), V, M)
<1>1. src \in Lit
  <2>1. src \in LitsOf(V)
    BY EqualFacts
  <2> QED BY <2>1, LitsOfFacts
<1>2. src # -src
  BY <1>1, LitFacts
<1>3. CASE lit = src
  <2>1. Move(lit, src, dst) = dst
    BY <1>2, <1>3 DEF Move
  <2> QED BY <1>3, <2>1
<1>4. CASE lit = -src
  <2>1. Move(lit, src, dst) = -dst
    BY <1>2, <1>4 DEF Move
  <2>2. Equal(-src, -dst, V, M)
    BY EqualFacts
  <2> QED BY <1>4, <2>1, <2>2
<1>5. CASE lit # src /\ lit # -src
  <2>1. Move(lit, src, dst) = lit
    BY <1>5 DEF Move
  <2> QED BY <2>1, EqualSelf
<1> QED BY <1>3, <1>4, <1>5

\* rewrite_and_gate with two literals that are equal in M.
LEMMA RewriteAndKeeps ==
  ASSUME NEW V, NEW M, NEW U, NEW t \in ClosureStates(V, M, U), NEW g \in GateSet(V, M),
         g.tag = "and", NEW src, NEW dst, Equal(src, dst, V, M)
  PROVE  rewrite_and_gate(t, g, src, dst) \in ClosureStates(V, M, U)
<1> DEFINE lhs == AndLhs(t, g)
           lits == {IF lit = src THEN dst ELSE lit : lit \in g.rhs}
           contradictory == \E lit \in lits : IsFalse(t, lit) \/ -lit \in lits \/ lit = -lhs
           d == g.degenerate \/ lhs \in lits
           u == update_and_gate(t, ReAnd(g, lhs, lits \ t.s.units, d))
           unit == Move(-lhs, src, dst)
           all == rewrite_and_gate(t, g, src, dst)
<1>1. all = IF IsTrue(t, g.lhs) THEN t
            ELSE IF Value(t, src) # 0 THEN simplify_and_gate(t, g)
            ELSE IF contradictory THEN learn_congruence_unit(t, unit)
            ELSE u
  BY DEF rewrite_and_gate, ReAnd
<1>2. Equal(g.lhs, lhs, V, M)
  BY AndLhsEqual
<1>3. AndOf(lhs, g.rhs, V, M)
  <2> HIDE DEF lhs
  <2> QED BY <1>2, AndGateFacts, AndMoved
<1> HIDE DEF lhs
<1>4. AndOf(lhs, lits, V, M)
  <2>1. lits \in SUBSET LitsOf(V)
    BY <1>3 DEF AndOf, Equal
  <2>2. ASSUME NEW m \in M PROVE True(m, lhs) <=> \A lit \in lits : True(m, lit)
    <3>1. True(m, lhs) <=> \A lit \in g.rhs : True(m, lit)
      BY <1>3 DEF AndOf
    <3>2. True(m, src) <=> True(m, dst)
      BY DEF Equal
    <3> QED BY <3>1, <3>2
  <2>3. lhs \in LitsOf(V)
    BY <1>3 DEF AndOf
  <2> HIDE DEF lits
  <2> QED BY <2>1, <2>2, <2>3 DEF AndOf
<1> HIDE DEF lits
<1>5. ASSUME contradictory PROVE learn_congruence_unit(t, unit) \in ClosureStates(V, M, U)
  <2>1. PICK lit \in lits : IsFalse(t, lit) \/ -lit \in lits \/ lit = -lhs
    BY <1>5
  <2>2. lit \in LitsOf(V) /\ lhs \in LitsOf(V)
    BY <1>4 DEF AndOf
  <2>3. -lhs \in LitsOf(V)
    BY <2>2, LitsOfFacts
  <2>4. -lit \in Facts(V, M) \/ -lit \in lits \/ lit = -lhs
    BY <2>1, <2>2, ValueFacts
  <2>5. -lhs \in Facts(V, M)
    BY <1>4, <2>4, AndFalse
  <2>6. Equal(-lhs, unit, V, M)
    BY <2>3, MoveEqual
  <2> HIDE DEF unit
  <2>7. unit \in Facts(V, M)
    BY <2>5, <2>6, EqualFacts
  <2> QED BY <2>7, LearnKeeps
<1>6. u \in ClosureStates(V, M, U)
  <2>1. AndOf(lhs, lits \ t.s.units, V, M)
    BY <1>4, ClosureFacts, AndWithout
  <2>2. d \in BOOLEAN
    BY GateFacts
  <2> HIDE DEF d
  <2> QED BY <2>1, <2>2, ReAndMade, UpdateAndKeeps
<1>7. simplify_and_gate(t, g) \in ClosureStates(V, M, U)
  BY SimplifyAndKeeps
<1> HIDE DEF all, contradictory, u, unit
<1>8. all \in ClosureStates(V, M, U)
  BY <1>1, <1>5, <1>6, <1>7
<1> QED BY <1>8 DEF all

\* The conjunction of two literals, as a gate.
LEMMA AndPairOf ==
  ASSUME NEW V, NEW M, NEW lhs, NEW a, NEW b, AndPair(lhs, a, b, V, M)
  PROVE  AndOf(lhs, {a, b}, V, M)
  BY DEF AndOf, AndPair

\* A conjunction of two facts is learned.
LEMMA TrueAndKeeps ==
  ASSUME NEW V, NEW M, NEW U, NEW t \in ClosureStates(V, M, U),
         NEW a \in Facts(V, M), NEW b \in Facts(V, M), NEW dst
  PROVE  TrueAnd(t, a, b, dst) \in ClosureStates(V, M, U)
<1> DEFINE first == IF VarOf(a) = VarOf(dst) THEN a ELSE b
           second == IF first = a THEN b ELSE a
           u == IF IsTrue(t, a) THEN t
                ELSE IF IsFalse(t, a) THEN [t EXCEPT !.s = Unsat(@)]
                ELSE learn_congruence_unit(t, first)
<1>1. TrueAnd(t, a, b, dst) =
        IF u.s.unsat \/ IsTrue(u, b) THEN u
        ELSE IF IsFalse(u, b) THEN [u EXCEPT !.s = Unsat(@)]
        ELSE learn_congruence_unit(u, second)
  BY DEF TrueAnd
<1>2. first \in Facts(V, M) /\ second \in Facts(V, M)
  OBVIOUS
<1>3. a \in LitsOf(V) /\ b \in LitsOf(V)
  BY SoundFacts
<1> HIDE DEF first, second
<1>4. learn_congruence_unit(t, first) \in ClosureStates(V, M, U)
  BY <1>2, LearnKeeps
<1>5. IsFalse(t, a) => [t EXCEPT !.s = Unsat(@)] \in ClosureStates(V, M, U)
  <2>1. IsFalse(t, a) => M = {}
    BY <1>3, ValueFacts, SoundFacts
  <2> QED BY <2>1, ClosureUnsat
<1>6. u \in ClosureStates(V, M, U)
  BY <1>4, <1>5
<1> HIDE DEF u
<1>7. learn_congruence_unit(u, second) \in ClosureStates(V, M, U)
  BY <1>2, <1>6, LearnKeeps
<1>8. IsFalse(u, b) => [u EXCEPT !.s = Unsat(@)] \in ClosureStates(V, M, U)
  <2>1. IsFalse(u, b) => M = {}
    BY <1>3, <1>6, ValueFacts, SoundFacts
  <2> QED BY <1>6, <2>1, ClosureUnsat
<1> QED BY <1>1, <1>6, <1>7, <1>8

\* rewrite_ite_gate_to_and with an output that is the conjunction of two
\* literals.
LEMMA ToAndKeeps ==
  ASSUME NEW V, NEW M, NEW U, NEW t \in ClosureStates(V, M, U), NEW src, NEW dst,
         Equal(src, dst, V, M), NEW lhs, NEW a, NEW b, AndPair(lhs, a, b, V, M)
  PROVE  rewrite_ite_gate_to_and(t, lhs, a, b, src, dst) \in ClosureStates(V, M, U)
<1> DEFINE out == Move(lhs, src, dst)
           g == And(out, {a, b})
           u == IndexGate(t, g)
           w == maybe_add_binary_clause(u, -out, a)
           x == maybe_add_binary_clause(w, -out, b)
           all == rewrite_ite_gate_to_and(t, lhs, a, b, src, dst)
<1>1. all = IF IsTrue(t, lhs) THEN TrueAnd(t, a, b, dst)
            ELSE IF Matching(t, g) # {} THEN u ELSE x
  BY DEF rewrite_ite_gate_to_and
<1>2. lhs \in LitsOf(V) /\ a \in LitsOf(V) /\ b \in LitsOf(V)
  BY DEF AndPair
<1>3. Equal(lhs, out, V, M)
  BY <1>2, MoveEqual
<1> HIDE DEF out
<1>4. AndPair(out, a, b, V, M)
  BY <1>3 DEF AndPair, Equal
<1>5. g \in GateSet(V, M)
  BY <1>4, AndPairOf, AndMade
<1> HIDE DEF g
<1>6. u \in ClosureStates(V, M, U)
  BY <1>5, IndexGateKeeps
<1> HIDE DEF u
<1>7. {-out, a} \in Sound(V, M) /\ {-out, b} \in Sound(V, M)
  <2>1. out \in LitsOf(V) /\ out \in Lit /\ -out \in LitsOf(V)
    BY <1>4, LitsOfFacts DEF AndPair
  <2>2. {-out, a} \in SUBSET LitsOf(V) /\ {-out, b} \in SUBSET LitsOf(V)
    BY <1>2, <2>1
  <2>3. ASSUME NEW m \in M
        PROVE  (\E l \in {-out, a} : True(m, l)) /\ (\E l \in {-out, b} : True(m, l))
    BY <1>4, <2>1, TrueNegated DEF AndPair
  <2> QED BY <2>2, <2>3, SoundIf
<1>8. w \in ClosureStates(V, M, U)
  BY <1>6, <1>7, MaybeAddKeeps DEF BinaryAdded
<1> HIDE DEF w
<1>9. x \in ClosureStates(V, M, U)
  BY <1>7, <1>8, MaybeAddKeeps DEF BinaryAdded
<1>10. ASSUME IsTrue(t, lhs) PROVE TrueAnd(t, a, b, dst) \in ClosureStates(V, M, U)
  <2>1. lhs \in Facts(V, M)
    BY <1>2, <1>10, ValueFacts
  <2>2. a \in Facts(V, M) /\ b \in Facts(V, M)
    BY <1>2, <2>1 DEF AndPair, Facts
  <2> QED BY <2>2, TrueAndKeeps
<1> HIDE DEF x, all
<1>11. all \in ClosureStates(V, M, U)
  BY <1>1, <1>6, <1>9, <1>10
<1> QED BY <1>11 DEF all

OrPair(lhs, a, b, V, M) ==
  /\ lhs \in LitsOf(V) /\ a \in LitsOf(V) /\ b \in LitsOf(V)
  /\ \A m \in M : True(m, lhs) <=> True(m, a) \/ True(m, b)

\* A disjunction is the negated conjunction of the negated literals.
LEMMA OrNegated ==
  ASSUME NEW V, NEW M, NEW lhs, NEW a, NEW b, OrPair(lhs, a, b, V, M)
  PROVE  AndPair(-lhs, -a, -b, V, M)
<1>1. lhs \in LitsOf(V) /\ a \in LitsOf(V) /\ b \in LitsOf(V)
  BY DEF OrPair
<1>2. /\ lhs \in Lit /\ a \in Lit /\ b \in Lit
      /\ -lhs \in LitsOf(V) /\ -a \in LitsOf(V) /\ -b \in LitsOf(V)
  BY <1>1, LitsOfFacts
<1>3. ASSUME NEW m \in M PROVE True(m, -lhs) <=> True(m, -a) /\ True(m, -b)
  BY <1>2, TrueNegated DEF OrPair
<1> QED BY <1>2, <1>3 DEF AndPair

\* An ITE gate that a rewrite turns into a disjunction.
LEMMA TurnOrKeeps ==
  ASSUME NEW V, NEW M, NEW U, NEW t \in ClosureStates(V, M, U), NEW src, NEW dst,
         Equal(src, dst, V, M), NEW lhs, NEW a, NEW b, OrPair(lhs, a, b, V, M)
  PROVE  TurnOr(t, lhs, a, b, src, dst) \in ClosureStates(V, M, U)
  BY OrNegated, ToAndKeeps DEF TurnOr

\* An ITE gate that an assigned input turns into a conjunction.
LEMMA SimplifyToAndKeeps ==
  ASSUME NEW V, NEW M, NEW U, NEW t \in ClosureStates(V, M, U), NEW lhs, NEW a, NEW b,
         AndPair(lhs, a, b, V, M)
  PROVE  SimplifyToAnd(t, lhs, a, b) \in ClosureStates(V, M, U)
<1> DEFINE g == And(lhs, {a, b})
           u == IF -lhs \in g.rhs THEN learn_congruence_unit(t, -lhs) ELSE t
<1>1. SimplifyToAnd(t, lhs, a, b) =
        IF u.s.unsat \/ Matching(u, g) # {} \/ -lhs \notin g.rhs
        THEN IndexGate(u, g) ELSE simplify_and_gate(u, g)
  BY DEF SimplifyToAnd
<1>2. AndOf(lhs, {a, b}, V, M)
  BY AndPairOf
<1>3. g \in GateSet(V, M) /\ g.tag = "and"
  BY <1>2, AndMade
<1>4. AndOf(g.lhs, g.rhs, V, M) /\ g.lhs = lhs
  BY <1>3, AndGateFacts DEF And, Gate
<1> HIDE DEF g
<1>5. -lhs \in g.rhs => -lhs \in Facts(V, M)
  BY <1>4, AndFalse
<1>6. u \in ClosureStates(V, M, U)
  BY <1>5, LearnKeeps
<1> HIDE DEF u
<1> QED BY <1>1, <1>3, <1>6, IndexGateKeeps, SimplifyAndKeeps

-----------------------------------------------------------------------------
(* ITE gates. *)

IteOf(lhs, c, a, b, V, M) ==
  /\ lhs \in LitsOf(V) /\ c \in LitsOf(V) /\ a \in LitsOf(V) /\ b \in LitsOf(V)
  /\ \A m \in M : True(m, lhs) <=> IF True(m, c) THEN True(m, a) ELSE True(m, b)

\* As above, and the output is not the negation of a branch.
IteGood(lhs, c, a, b, V, M) == IteOf(lhs, c, a, b, V, M) /\ a # -lhs /\ b # -lhs

\* The output of an ITE gate is what the condition selects, and is not the
\* negation of a branch.
LEMMA IteGateFacts ==
  ASSUME NEW V, NEW M, NEW g \in GateSet(V, M), g.tag = "ite"
  PROVE  IteGood(g.lhs, g.ite[1], g.ite[2], g.ite[3], V, M)
<1>1. GateForm(g, V) /\ g.lhs \in LitsOf(V)
  BY GateFacts
<1>2. ASSUME NEW m \in M
      PROVE  True(m, g.lhs) <=> IF True(m, g.ite[1]) THEN True(m, g.ite[2]) ELSE True(m, g.ite[3])
  <2>1. GateHolds(g, m)
    BY GateFacts
  <2> QED BY <2>1 DEF GateHolds
<1>3. IteOf(g.lhs, g.ite[1], g.ite[2], g.ite[3], V, M)
  BY <1>1, <1>2 DEF IteOf, GateForm
<1> QED BY <1>1, <1>3 DEF IteGood, GateForm

\* Such an output makes an ITE gate.
LEMMA IteMade ==
  ASSUME NEW V, NEW M, NEW lhs, NEW c, NEW a, NEW b, IteGood(lhs, c, a, b, V, M)
  PROVE  Gate("ite", lhs, {}, <<c, a, b>>) \in GateSet(V, M)
<1> DEFINE g == Gate("ite", lhs, {}, <<c, a, b>>)
<1>0. /\ lhs \in LitsOf(V) /\ c \in LitsOf(V) /\ a \in LitsOf(V) /\ b \in LitsOf(V)
      /\ a # -lhs /\ b # -lhs
  BY DEF IteGood, IteOf
<1>1. /\ g.tag = "ite" /\ g.lhs = lhs /\ g.rhs = {} /\ g.ite = <<c, a, b>>
      /\ g.ite[1] = c /\ g.ite[2] = a /\ g.ite[3] = b
  BY DEF Gate
<1>2. g \in GateRecords(V)
  <2>1. GateForm(g, V)
    <3> HIDE DEF g
    <3> QED BY <1>0, <1>1 DEF GateForm
  <2>2. <<c, a, b>> \in IteInputs(V)
    BY <1>0 DEF IteInputs
  <2> QED BY <1>0, <2>1, <2>2 DEF GateRecords, Gate
<1> HIDE DEF g
<1>3. ASSUME NEW m \in M PROVE GateHolds(g, m)
  <2>1. True(m, lhs) <=> IF True(m, c) THEN True(m, a) ELSE True(m, b)
    BY DEF IteGood, IteOf
  <2> QED BY <1>1, <2>1 DEF GateHolds
<1>4. g \in GateSet(V, M)
  BY <1>2, <1>3 DEF GateSet
<1> QED BY <1>4 DEF g

\* A gate keeps its meaning when the condition or the branches are negated.
LEMMA IteFlipped ==
  ASSUME NEW V, NEW M, NEW lhs, NEW c, NEW a, NEW b, IteGood(lhs, c, a, b, V, M)
  PROVE  IteGood(lhs, -c, b, a, V, M) /\ IteGood(-lhs, c, -a, -b, V, M)
<1>1. /\ lhs \in LitsOf(V) /\ c \in LitsOf(V) /\ a \in LitsOf(V) /\ b \in LitsOf(V)
      /\ a # -lhs /\ b # -lhs
  BY DEF IteGood, IteOf
<1>2. /\ lhs \in Lit /\ c \in Lit /\ a \in Lit /\ b \in Lit
      /\ -lhs \in LitsOf(V) /\ -c \in LitsOf(V) /\ -a \in LitsOf(V) /\ -b \in LitsOf(V)
      /\ - -lhs = lhs /\ - -a = a /\ - -b = b
  BY <1>1, LitsOfFacts
<1>3. -a # - -lhs /\ -b # - -lhs
  BY <1>1, <1>2
<1>4. ASSUME NEW m \in M
      PROVE  /\ True(m, lhs) <=> IF True(m, -c) THEN True(m, b) ELSE True(m, a)
             /\ True(m, -lhs) <=> IF True(m, c) THEN True(m, -a) ELSE True(m, -b)
  <2>1. True(m, lhs) <=> IF True(m, c) THEN True(m, a) ELSE True(m, b)
    BY DEF IteGood, IteOf
  <2> QED BY <1>2, <2>1, TrueNegated
<1>5. IteOf(lhs, -c, b, a, V, M) /\ IteOf(-lhs, c, -a, -b, V, M)
  BY <1>1, <1>2, <1>4 DEF IteOf
<1> QED BY <1>1, <1>3, <1>5 DEF IteGood

\* normalize_ite_lits_gate keeps the function of the gate.
LEMMA NormalIteMade ==
  ASSUME NEW V, NEW M, NEW lhs, NEW c, NEW a, NEW b, IteGood(lhs, c, a, b, V, M)
  PROVE  NormalIte(lhs, <<c, a, b>>) \in GateSet(V, M)
<1> DEFINE p == IF c > 0 THEN c ELSE -c
           x == IF c > 0 THEN a ELSE b
           y == IF c > 0 THEN b ELSE a
<1>1. IteGood(lhs, p, x, y, V, M)
  BY IteFlipped
<1>2. NormalIte(lhs, <<c, a, b>>) =
        IF x > 0 THEN Gate("ite", lhs, {}, <<p, x, y>>)
        ELSE Gate("ite", -lhs, {}, <<p, -x, -y>>)
  BY DEF NormalIte
<1> HIDE DEF p, x, y
<1> QED BY <1>1, <1>2, IteFlipped, IteMade

\* An ITE gate back in the table, merged with an equal one if there is one.
LEMMA ReindexKeeps ==
  ASSUME NEW V, NEW M, NEW U, NEW t \in ClosureStates(V, M, U), NEW lhs, NEW c, NEW a, NEW b,
         IteGood(lhs, c, a, b, V, M)
  PROVE  ReindexIte(t, lhs, <<c, a, b>>) \in ClosureStates(V, M, U)
  BY NormalIteMade, IndexGateKeeps DEF ReindexIte

-----------------------------------------------------------------------------
(* XOR gates. *)

XorOf(lhs, a, b, V, M) ==
  /\ lhs \in LitsOf(V) /\ a \in LitsOf(V) /\ b \in LitsOf(V)
  /\ \A m \in M : True(m, lhs) <=> ~(True(m, a) <=> True(m, b))

\* A parity makes an XOR gate.
LEMMA XorMade ==
  ASSUME NEW V, NEW M, NEW lhs \in LitsOf(V), NEW rhs, rhs \subseteq LitsOf(V), rhs \subseteq Var,
         \A m \in M : True(m, lhs) <=> Cardinality({lit \in rhs : True(m, lit)}) % 2 = 1
  PROVE  Xor(lhs, rhs) \in GateSet(V, M) /\ Xor(lhs, rhs).tag = "xor"
<1> DEFINE g == Xor(lhs, rhs)
<1>1. g.tag = "xor" /\ g.lhs = lhs /\ g.rhs = rhs /\ g.ite = <<>>
  BY DEF Xor, Gate
<1>2. g \in GateRecords(V)
  <2>1. GateForm(g, V)
    <3> HIDE DEF g
    <3> QED BY <1>1 DEF GateForm
  <2> QED BY <2>1 DEF GateRecords, Xor, Gate, IteInputs
<1> HIDE DEF g
<1>3. ASSUME NEW m \in M PROVE GateHolds(g, m)
  BY <1>1 DEF GateHolds
<1>4. g \in GateSet(V, M)
  BY <1>2, <1>3 DEF GateSet
<1> QED BY <1>1, <1>4 DEF g

\* Of two variables an odd number is true when their values differ.
LEMMA PairParity ==
  ASSUME NEW x, NEW y, x # y, NEW m
  PROVE  Cardinality({lit \in {x, y} : True(m, lit)}) % 2 = 1
           <=> ~(True(m, x) <=> True(m, y))
<1> DEFINE T == {lit \in {x, y} : True(m, lit)}
<1>1. CASE True(m, x) /\ True(m, y)
  <2>1. T = {x, y}
    BY <1>1
  <2>2. IsFiniteSet({x}) /\ Cardinality({x}) = 1 /\ {x, y} = {x} \cup {y} /\ y \notin {x}
    BY FS_Singleton
  <2>3. Cardinality({x} \cup {y}) = IF y \in {x} THEN Cardinality({x}) ELSE Cardinality({x}) + 1
    BY <2>2, FS_AddElement
  <2>4. Cardinality(T) = 2
    BY <2>1, <2>2, <2>3
  <2> QED BY <1>1, <2>4
<1>2. CASE True(m, x) /\ ~True(m, y)
  <2>1. T = {x}
    BY <1>2
  <2>2. Cardinality(T) = 1
    BY <2>1, FS_Singleton
  <2> QED BY <1>2, <2>2
<1>3. CASE ~True(m, x) /\ True(m, y)
  <2>1. T = {y}
    BY <1>3
  <2>2. Cardinality(T) = 1
    BY <2>1, FS_Singleton
  <2> QED BY <1>3, <2>2
<1>4. CASE ~True(m, x) /\ ~True(m, y)
  <2>1. T = {}
    BY <1>4
  <2>2. Cardinality(T) = 0
    BY <2>1, FS_EmptySet
  <2> QED BY <1>4, <2>2
<1> QED BY <1>1, <1>2, <1>3, <1>4

\* The output of an XOR with the signs of its inputs moved to it.
LEMMA SignsMoved ==
  ASSUME NEW V, NEW M, NEW lhs, NEW a, NEW b, XorOf(lhs, a, b, V, M), VarOf(a) # VarOf(b)
  PROVE  XorOf(IF Cardinality({lit \in {a, b} : lit < 0}) = 1 THEN -lhs ELSE lhs,
               VarOf(a), VarOf(b), V, M)
<1> DEFINE N == {lit \in {a, b} : lit < 0}
<1>1. /\ lhs \in LitsOf(V) /\ a \in LitsOf(V) /\ b \in LitsOf(V)
      /\ \A m \in M : True(m, lhs) <=> ~(True(m, a) <=> True(m, b))
  BY DEF XorOf
<1>2. lhs \in Lit /\ a \in Lit /\ b \in Lit /\ -lhs \in LitsOf(V) /\ a \in Int /\ b \in Int
  BY <1>1, LitsOfFacts
<1>3. a # b
  OBVIOUS
<1>4. /\ VarOf(a) \in LitsOf(V) /\ VarOf(b) \in LitsOf(V)
  BY <1>1, LitsOfFacts DEF VarOf
<1>5. \A m \in M : /\ True(m, VarOf(a)) <=> IF a < 0 THEN ~True(m, a) ELSE True(m, a)
                   /\ True(m, VarOf(b)) <=> IF b < 0 THEN ~True(m, b) ELSE True(m, b)
                   /\ True(m, -lhs) <=> ~True(m, lhs)
  BY <1>2, TrueNegated DEF VarOf
<1>6. CASE a < 0 /\ b < 0
  <2>1. N = {a, b}
    BY <1>6
  <2>2. Cardinality(N) = 2
    BY <1>3, <2>1, PairCardinality
  <2> HIDE DEF N
  <2>3. XorOf(lhs, VarOf(a), VarOf(b), V, M)
    BY <1>1, <1>4, <1>5, <1>6 DEF XorOf
  <2>4. XorOf(IF Cardinality(N) = 1 THEN -lhs ELSE lhs, VarOf(a), VarOf(b), V, M)
    BY <2>2, <2>3
  <2> QED BY <2>4 DEF N
<1>7. CASE ~(a < 0) /\ ~(b < 0)
  <2>1. N = {}
    BY <1>7
  <2>2. Cardinality(N) = 0
    BY <2>1, FS_EmptySet
  <2> HIDE DEF N
  <2>3. XorOf(lhs, VarOf(a), VarOf(b), V, M)
    BY <1>1, <1>4, <1>5, <1>7 DEF XorOf
  <2>4. XorOf(IF Cardinality(N) = 1 THEN -lhs ELSE lhs, VarOf(a), VarOf(b), V, M)
    BY <2>2, <2>3
  <2> QED BY <2>4 DEF N
<1>8. CASE (a < 0 /\ ~(b < 0)) \/ (~(a < 0) /\ b < 0)
  <2>1. N = {IF a < 0 THEN a ELSE b}
    BY <1>8
  <2>2. Cardinality(N) = 1
    BY <2>1, FS_Singleton
  <2> HIDE DEF N
  <2>3. XorOf(-lhs, VarOf(a), VarOf(b), V, M)
    BY <1>1, <1>2, <1>4, <1>5, <1>8 DEF XorOf
  <2>4. XorOf(IF Cardinality(N) = 1 THEN -lhs ELSE lhs, VarOf(a), VarOf(b), V, M)
    BY <2>2, <2>3
  <2> QED BY <2>4 DEF N
<1> QED BY <1>6, <1>7, <1>8

\* The output is one of the inputs, or its negation.
LEMMA XorWithOutput ==
  ASSUME NEW V, NEW M, NEW out, NEW x, NEW y, XorOf(out, x, y, V, M)
  PROVE  /\ out = -x => y \in Facts(V, M)
         /\ out = x => -y \in Facts(V, M)
         /\ out = -y => x \in Facts(V, M)
         /\ out = y => -x \in Facts(V, M)
<1>1. /\ out \in LitsOf(V) /\ x \in LitsOf(V) /\ y \in LitsOf(V)
      /\ \A m \in M : True(m, out) <=> ~(True(m, x) <=> True(m, y))
  BY DEF XorOf
<1>2. x \in Lit /\ y \in Lit /\ -x \in LitsOf(V) /\ -y \in LitsOf(V)
  BY <1>1, LitsOfFacts
<1>3. \A m \in M : (True(m, -x) <=> ~True(m, x)) /\ (True(m, -y) <=> ~True(m, y))
  BY <1>2, TrueNegated
<1> QED BY <1>1, <1>2, <1>3 DEF Facts

\* An ITE gate that a rewrite turns into an XOR gate.
LEMMA TurnXorKeeps ==
  ASSUME NEW V, NEW M, NEW U, NEW t \in ClosureStates(V, M, U), NEW lhs, NEW a, NEW b,
         XorOf(lhs, a, b, V, M), VarOf(a) # VarOf(b)
  PROVE  TurnXor(t, lhs, a, b) \in ClosureStates(V, M, U)
<1> DEFINE out == IF Cardinality({lit \in {a, b} : lit < 0}) = 1 THEN -lhs ELSE lhs
           x == VarOf(a)
           y == VarOf(b)
           rest == CHOOSE v \in {x, y} : v # VarOf(out)
           all == TurnXor(t, lhs, a, b)
           few == Cardinality({v \in {x, y} : Value(t, v) = 0}) < 2
<1>1. all = IF -out \in {x, y} THEN learn_congruence_unit(t, rest)
            ELSE IF out \in {x, y} THEN learn_congruence_unit(t, -rest)
            ELSE IF few THEN t ELSE IndexGate(t, Xor(out, {x, y}))
  BY DEF TurnXor
<1>2. XorOf(out, x, y, V, M)
  BY SignsMoved
<1>3. a \in Lit /\ b \in Lit
  BY LitsOfFacts DEF XorOf
<1>4. x \in Var /\ y \in Var /\ x # y
  BY <1>3, LitFacts
<1> HIDE DEF out, x, y
<1>5. /\ out \in LitsOf(V) /\ x \in LitsOf(V) /\ y \in LitsOf(V) /\ out \in Lit /\ - -out = out
  BY <1>2, LitsOfFacts DEF XorOf
<1>6. VarOf(x) = x /\ VarOf(y) = y /\ VarOf(-x) = x /\ VarOf(-y) = y
  BY <1>4, VarFacts
<1>7. ASSUME -out \in {x, y} PROVE learn_congruence_unit(t, rest) \in ClosureStates(V, M, U)
  <2>1. (out = -x /\ VarOf(out) = x) \/ (out = -y /\ VarOf(out) = y)
    BY <1>5, <1>6, <1>7
  <2>2. (out = -x /\ rest = y) \/ (out = -y /\ rest = x)
    BY <1>4, <2>1
  <2> HIDE DEF rest
  <2>3. rest \in Facts(V, M)
    BY <1>2, <2>2, XorWithOutput
  <2> QED BY <2>3, LearnKeeps
<1>8. ASSUME out \in {x, y} PROVE learn_congruence_unit(t, -rest) \in ClosureStates(V, M, U)
  <2>1. (out = x /\ rest = y) \/ (out = y /\ rest = x)
    BY <1>4, <1>6, <1>8
  <2> HIDE DEF rest
  <2>2. -rest \in Facts(V, M)
    BY <1>2, <2>1, XorWithOutput
  <2> QED BY <2>2, LearnKeeps
<1>9. IndexGate(t, Xor(out, {x, y})) \in ClosureStates(V, M, U)
  <2>1. ASSUME NEW m \in M
        PROVE  True(m, out) <=> Cardinality({lit \in {x, y} : True(m, lit)}) % 2 = 1
    BY <1>2, <1>4, PairParity DEF XorOf
  <2>2. {x, y} \subseteq LitsOf(V) /\ {x, y} \subseteq Var
    BY <1>4, <1>5
  <2>3. Xor(out, {x, y}) \in GateSet(V, M)
    BY <1>5, <2>1, <2>2, XorMade
  <2> QED BY <2>3, IndexGateKeeps
<1> HIDE DEF all, few, rest
<1>10. all \in ClosureStates(V, M, U)
  BY <1>1, <1>7, <1>8, <1>9
<1> QED BY <1>10 DEF all

-----------------------------------------------------------------------------
(* Rewriting ITE gates. *)

\* An input replaced by an equal literal.
LEMMA IteMoved ==
  ASSUME NEW V, NEW M, NEW lhs, NEW c, NEW a, NEW b, IteOf(lhs, c, a, b, V, M), NEW dst
  PROVE  /\ Equal(c, dst, V, M) => IteOf(lhs, dst, a, b, V, M)
         /\ Equal(a, dst, V, M) => IteOf(lhs, c, dst, b, V, M)
         /\ Equal(b, dst, V, M) => IteOf(lhs, c, a, dst, V, M)
  BY DEF IteOf, Equal

\* The values of the literals of an ITE gate and of their negations.
LEMMA IteLits ==
  ASSUME NEW V, NEW M, NEW lhs, NEW c, NEW a, NEW b, IteOf(lhs, c, a, b, V, M)
  PROVE  /\ lhs \in LitsOf(V) /\ c \in LitsOf(V) /\ a \in LitsOf(V) /\ b \in LitsOf(V)
         /\ -lhs \in LitsOf(V) /\ -c \in LitsOf(V) /\ -a \in LitsOf(V) /\ -b \in LitsOf(V)
         /\ - -lhs = lhs /\ - -c = c /\ - -a = a /\ - -b = b
         /\ \A m \in M : /\ True(m, lhs) <=> IF True(m, c) THEN True(m, a) ELSE True(m, b)
                         /\ True(m, -lhs) <=> ~True(m, lhs)
                         /\ True(m, -c) <=> ~True(m, c)
                         /\ True(m, -a) <=> ~True(m, a)
                         /\ True(m, -b) <=> ~True(m, b)
<1>1. /\ lhs \in LitsOf(V) /\ c \in LitsOf(V) /\ a \in LitsOf(V) /\ b \in LitsOf(V)
      /\ \A m \in M : True(m, lhs) <=> IF True(m, c) THEN True(m, a) ELSE True(m, b)
  BY DEF IteOf
<1>2. /\ lhs \in Lit /\ c \in Lit /\ a \in Lit /\ b \in Lit
      /\ -lhs \in LitsOf(V) /\ -c \in LitsOf(V) /\ -a \in LitsOf(V) /\ -b \in LitsOf(V)
      /\ - -lhs = lhs /\ - -c = c /\ - -a = a /\ - -b = b
  BY <1>1, LitsOfFacts
<1> QED BY <1>1, <1>2, TrueNegated

\* What an ITE gate is when two of its literals are related.
LEMMA IteCases ==
  ASSUME NEW V, NEW M, NEW lhs, NEW c, NEW a, NEW b, IteOf(lhs, c, a, b, V, M)
  PROVE  /\ c \in {a, -b} => OrPair(lhs, a, b, V, M)
         /\ c \in {-a, b} => AndPair(lhs, a, b, V, M)
         /\ a = -c => AndPair(lhs, -c, b, V, M)
         /\ a = c => OrPair(lhs, c, b, V, M)
         /\ b = c => AndPair(lhs, c, a, V, M)
         /\ b = -c => AndPair(-lhs, c, -a, V, M)
         /\ a = b => Equal(lhs, a, V, M)
         /\ a = -b => XorOf(lhs, c, b, V, M) /\ XorOf(-lhs, c, a, V, M)
         /\ a = -lhs => Equal(lhs, b, V, M) /\ -c \in Facts(V, M)
         /\ b = -lhs => Equal(lhs, a, V, M) /\ c \in Facts(V, M)
         /\ a = -b /\ lhs = c => -b \in Facts(V, M) /\ a \in Facts(V, M)
         /\ a = -b /\ lhs = -c => -a \in Facts(V, M)
<1> USE IteLits
<1>1. c \in {a, -b} => OrPair(lhs, a, b, V, M)
  BY DEF OrPair
<1>2. c \in {-a, b} => AndPair(lhs, a, b, V, M)
  BY DEF AndPair
<1>3. a = -c => AndPair(lhs, -c, b, V, M)
  BY DEF AndPair
<1>4. a = c => OrPair(lhs, c, b, V, M)
  BY DEF OrPair
<1>5. b = c => AndPair(lhs, c, a, V, M)
  BY DEF AndPair
<1>6. b = -c => AndPair(-lhs, c, -a, V, M)
  BY DEF AndPair
<1>7. a = b => Equal(lhs, a, V, M)
  BY DEF Equal
<1>8. a = -b => XorOf(lhs, c, b, V, M) /\ XorOf(-lhs, c, a, V, M)
  BY DEF XorOf
<1>9. a = -lhs => Equal(lhs, b, V, M) /\ -c \in Facts(V, M)
  BY DEF Equal, Facts
<1>10. b = -lhs => Equal(lhs, a, V, M) /\ c \in Facts(V, M)
  BY DEF Equal, Facts
<1>11. a = -b /\ lhs = c => -b \in Facts(V, M) /\ a \in Facts(V, M)
  BY DEF Facts
<1>12. a = -b /\ lhs = -c => -a \in Facts(V, M)
  BY DEF Facts
<1> QED BY <1>1, <1>2, <1>3, <1>4, <1>5, <1>6, <1>7, <1>8, <1>9, <1>10, <1>11, <1>12

\* Literals that are neither equal nor negations have different variables.
LEMMA VarsDiffer ==
  ASSUME NEW V, NEW a \in LitsOf(V), NEW b \in LitsOf(V), a # b, a # -b
  PROVE  VarOf(a) # VarOf(b)
<1>1. a \in Int /\ b \in Int
  BY LitsOfFacts
<1> QED BY <1>1 DEF VarOf

\* rewrite_ite_gate where the condition is rewritten.
LEMMA RewriteConditionKeeps ==
  ASSUME NEW V, NEW M, NEW U, NEW t \in ClosureStates(V, M, U), NEW g \in GateSet(V, M),
         g.tag = "ite", NEW dst, Equal(g.ite[1], dst, V, M)
  PROVE  RewriteCondition(t, g, g.ite[1], dst) \in ClosureStates(V, M, U)
<1> DEFINE lhs == g.lhs
           src == g.ite[1]
           a == g.ite[2]
           b == g.ite[3]
           all == RewriteCondition(t, g, src, dst)
<1>1. all = IF dst \in {a, -b} THEN TurnOr(t, lhs, a, b, src, dst)
            ELSE IF dst \in {-a, b} THEN rewrite_ite_gate_to_and(t, lhs, a, b, src, dst)
            ELSE ReindexIte(t, lhs, << dst, a, b >>)
  BY DEF RewriteCondition
<1>2. IteGood(lhs, src, a, b, V, M) /\ Equal(src, dst, V, M)
  BY IteGateFacts
<1> HIDE DEF lhs, src, a, b
<1>3. IteOf(lhs, dst, a, b, V, M) /\ IteGood(lhs, dst, a, b, V, M)
  BY <1>2, IteMoved DEF IteGood
<1>4. dst \in {a, -b} => TurnOr(t, lhs, a, b, src, dst) \in ClosureStates(V, M, U)
  BY <1>2, <1>3, IteCases, TurnOrKeeps
<1>5. dst \in {-a, b} => rewrite_ite_gate_to_and(t, lhs, a, b, src, dst) \in ClosureStates(V, M, U)
  BY <1>2, <1>3, IteCases, ToAndKeeps
<1>6. ReindexIte(t, lhs, << dst, a, b >>) \in ClosureStates(V, M, U)
  BY <1>3, ReindexKeeps
<1> HIDE DEF all
<1>7. all \in ClosureStates(V, M, U)
  BY <1>1, <1>4, <1>5, <1>6
<1> QED BY <1>7 DEF all, src

\* rewrite_ite_gate where the first branch is rewritten.
LEMMA RewriteThenKeeps ==
  ASSUME NEW V, NEW M, NEW U, NEW t \in ClosureStates(V, M, U), NEW g \in GateSet(V, M),
         g.tag = "ite", NEW dst, Equal(g.ite[2], dst, V, M)
  PROVE  RewriteThen(t, g, g.ite[2], dst) \in ClosureStates(V, M, U)
<1> DEFINE lhs == g.lhs
           c == g.ite[1]
           src == g.ite[2]
           b == g.ite[3]
           all == RewriteThen(t, g, src, dst)
<1>1. all = IF dst = -lhs THEN learn_congruence_unit(merge_literals(t, lhs, b), -c)
            ELSE IF dst = c THEN TurnOr(t, lhs, c, b, src, dst)
            ELSE IF dst = -c THEN rewrite_ite_gate_to_and(t, lhs, -c, b, src, dst)
            ELSE IF dst = b THEN merge_literals(t, lhs, b)
            ELSE IF dst = -b /\ lhs = c THEN learn_congruence_unit(t, -b)
            ELSE IF dst = -b THEN TurnXor(t, lhs, c, b)
            ELSE ReindexIte(t, lhs, << c, dst, b >>)
  BY DEF RewriteThen
<1>2. IteGood(lhs, c, src, b, V, M) /\ Equal(src, dst, V, M)
  BY IteGateFacts
<1> HIDE DEF lhs, src, c, b
<1>3. IteOf(lhs, c, dst, b, V, M) /\ b # -lhs
  BY <1>2, IteMoved DEF IteGood
<1>4. /\ c \in LitsOf(V) /\ b \in LitsOf(V) /\ - -c = c /\ - -b = b
  BY <1>3, IteLits
<1>5. dst = -lhs => learn_congruence_unit(merge_literals(t, lhs, b), -c) \in ClosureStates(V, M, U)
  <2>1. ASSUME dst = -lhs PROVE Equal(lhs, b, V, M) /\ -c \in Facts(V, M)
    BY <1>3, <2>1, IteCases
  <2> QED BY <2>1, MergeKeeps, LearnKeeps
<1>6. dst = c => TurnOr(t, lhs, c, b, src, dst) \in ClosureStates(V, M, U)
  <2>1. dst = c => OrPair(lhs, c, b, V, M)
    BY <1>3, IteCases
  <2> QED BY <1>2, <2>1, TurnOrKeeps
<1>7. dst = -c => rewrite_ite_gate_to_and(t, lhs, -c, b, src, dst) \in ClosureStates(V, M, U)
  <2>1. dst = -c => AndPair(lhs, -c, b, V, M)
    BY <1>3, IteCases
  <2> QED BY <1>2, <2>1, ToAndKeeps
<1>8. dst = b => merge_literals(t, lhs, b) \in ClosureStates(V, M, U)
  <2>1. dst = b => Equal(lhs, b, V, M)
    BY <1>3, IteCases
  <2> QED BY <2>1, MergeKeeps
<1>9. dst = -b /\ lhs = c => learn_congruence_unit(t, -b) \in ClosureStates(V, M, U)
  <2>1. dst = -b /\ lhs = c => -b \in Facts(V, M)
    BY <1>3, IteCases
  <2> QED BY <2>1, LearnKeeps
<1>10. ASSUME dst = -b, dst # c, dst # -c PROVE TurnXor(t, lhs, c, b) \in ClosureStates(V, M, U)
  <2>1. XorOf(lhs, c, b, V, M)
    BY <1>3, <1>10, IteCases
  <2>2. c # b /\ c # -b
    BY <1>4, <1>10
  <2>3. VarOf(c) # VarOf(b)
    BY <1>4, <2>2, VarsDiffer
  <2> QED BY <2>1, <2>3, TurnXorKeeps
<1>11. ASSUME dst # -lhs PROVE ReindexIte(t, lhs, << c, dst, b >>) \in ClosureStates(V, M, U)
  <2>1. IteGood(lhs, c, dst, b, V, M)
    BY <1>3, <1>11 DEF IteGood
  <2> QED BY <2>1, ReindexKeeps
<1> HIDE DEF all
<1>12. all \in ClosureStates(V, M, U)
  BY <1>1, <1>5, <1>6, <1>7, <1>8, <1>9, <1>10, <1>11
<1> QED BY <1>12 DEF all, src

\* rewrite_ite_gate where the second branch is rewritten.
LEMMA RewriteElseKeeps ==
  ASSUME NEW V, NEW M, NEW U, NEW t \in ClosureStates(V, M, U), NEW g \in GateSet(V, M),
         g.tag = "ite", NEW dst, Equal(g.ite[3], dst, V, M)
  PROVE  RewriteElse(t, g, g.ite[3], dst) \in ClosureStates(V, M, U)
<1> DEFINE lhs == g.lhs
           c == g.ite[1]
           a == g.ite[2]
           src == g.ite[3]
           all == RewriteElse(t, g, src, dst)
<1>1. all = IF dst = -lhs THEN learn_congruence_unit(merge_literals(t, lhs, a), c)
            ELSE IF dst = c THEN rewrite_ite_gate_to_and(t, lhs, c, a, src, dst)
            ELSE IF dst = -c /\ lhs \in {a, c} THEN t
            ELSE IF dst = -c THEN rewrite_ite_gate_to_and(t, -lhs, c, -a, src, dst)
            ELSE IF dst = a THEN merge_literals(t, lhs, a)
            ELSE IF dst = -a /\ lhs = c THEN learn_congruence_unit(t, a)
            ELSE IF dst = -a /\ lhs = -c THEN learn_congruence_unit(t, -a)
            ELSE IF dst = -a /\ lhs = -a THEN learn_congruence_unit(t, c)
            ELSE IF dst = -a THEN TurnXor(t, -lhs, c, a)
            ELSE ReindexIte(t, lhs, << c, a, dst >>)
  BY DEF RewriteElse
<1>2. IteGood(lhs, c, a, src, V, M) /\ Equal(src, dst, V, M)
  BY IteGateFacts
<1> HIDE DEF lhs, src, c, a
<1>3. IteOf(lhs, c, a, dst, V, M) /\ a # -lhs
  BY <1>2, IteMoved DEF IteGood
<1>4. /\ c \in LitsOf(V) /\ a \in LitsOf(V) /\ - -c = c /\ - -a = a /\ - -lhs = lhs
  BY <1>3, IteLits
<1>5. dst = -lhs => learn_congruence_unit(merge_literals(t, lhs, a), c) \in ClosureStates(V, M, U)
  <2>1. ASSUME dst = -lhs PROVE Equal(lhs, a, V, M) /\ c \in Facts(V, M)
    BY <1>3, <2>1, IteCases
  <2> QED BY <2>1, MergeKeeps, LearnKeeps
<1>6. dst = c => rewrite_ite_gate_to_and(t, lhs, c, a, src, dst) \in ClosureStates(V, M, U)
  <2>1. dst = c => AndPair(lhs, c, a, V, M)
    BY <1>3, IteCases
  <2> QED BY <1>2, <2>1, ToAndKeeps
<1>7. dst = -c => rewrite_ite_gate_to_and(t, -lhs, c, -a, src, dst) \in ClosureStates(V, M, U)
  <2>1. dst = -c => AndPair(-lhs, c, -a, V, M)
    BY <1>3, IteCases
  <2> QED BY <1>2, <2>1, ToAndKeeps
<1>8. dst = a => merge_literals(t, lhs, a) \in ClosureStates(V, M, U)
  <2>1. dst = a => Equal(lhs, a, V, M)
    BY <1>3, IteCases
  <2> QED BY <2>1, MergeKeeps
<1>9. dst = -a => a = -dst
  BY <1>4
<1>10. dst = -a /\ lhs = c => learn_congruence_unit(t, a) \in ClosureStates(V, M, U)
  <2>1. dst = -a /\ lhs = c => a \in Facts(V, M)
    BY <1>3, <1>9, IteCases
  <2> QED BY <2>1, LearnKeeps
<1>11. dst = -a /\ lhs = -c => learn_congruence_unit(t, -a) \in ClosureStates(V, M, U)
  <2>1. dst = -a /\ lhs = -c => -a \in Facts(V, M)
    BY <1>3, <1>9, IteCases
  <2> QED BY <2>1, LearnKeeps
<1>12. ~(lhs = -a)
  BY <1>3, <1>4
<1>13. ASSUME dst = -a, dst # c, dst # -c PROVE TurnXor(t, -lhs, c, a) \in ClosureStates(V, M, U)
  <2>1. XorOf(-lhs, c, a, V, M)
    BY <1>3, <1>9, <1>13, IteCases
  <2>2. c # a /\ c # -a
    BY <1>4, <1>13
  <2>3. VarOf(c) # VarOf(a)
    BY <1>4, <2>2, VarsDiffer
  <2> QED BY <2>1, <2>3, TurnXorKeeps
<1>14. ASSUME dst # -lhs PROVE ReindexIte(t, lhs, << c, a, dst >>) \in ClosureStates(V, M, U)
  <2>1. IteGood(lhs, c, a, dst, V, M)
    BY <1>3, <1>14 DEF IteGood
  <2> QED BY <2>1, ReindexKeeps
<1> HIDE DEF all
<1>15. all \in ClosureStates(V, M, U)
  BY <1>1, <1>5, <1>6, <1>7, <1>8, <1>10, <1>11, <1>12, <1>13, <1>14
<1> QED BY <1>15 DEF all, src

\* rewrite_ite_gate with two literals that are equal in M.  The branch of the
\* code for an output that is the negation of a branch is never taken.
LEMMA RewriteIteKeeps ==
  ASSUME NEW V, NEW M, NEW U, NEW t \in ClosureStates(V, M, U), NEW g \in GateSet(V, M),
         g.tag = "ite", NEW src, src \in {g.ite[1], g.ite[2], g.ite[3]}, NEW dst,
         Equal(src, dst, V, M)
  PROVE  rewrite_ite_gate(t, g, src, dst) \in ClosureStates(V, M, U)
<1>1. rewrite_ite_gate(t, g, src, dst) = t \/
      rewrite_ite_gate(t, g, src, dst) =
        IF src = g.ite[1] THEN RewriteCondition(t, g, src, dst)
        ELSE IF src = g.ite[2] THEN RewriteThen(t, g, src, dst)
        ELSE RewriteElse(t, g, src, dst)
  BY DEF rewrite_ite_gate
<1>2. src = g.ite[1] => RewriteCondition(t, g, src, dst) \in ClosureStates(V, M, U)
  BY RewriteConditionKeeps
<1>3. src = g.ite[2] => RewriteThen(t, g, src, dst) \in ClosureStates(V, M, U)
  BY RewriteThenKeeps
<1>4. src = g.ite[3] => RewriteElse(t, g, src, dst) \in ClosureStates(V, M, U)
  BY RewriteElseKeeps
<1> QED BY <1>1, <1>2, <1>3, <1>4

-----------------------------------------------------------------------------
(* Simplifying ITE gates. *)

\* A branch or the condition is known.
LEMMA IteKnown ==
  ASSUME NEW V, NEW M, NEW lhs, NEW c, NEW a, NEW b, IteOf(lhs, c, a, b, V, M)
  PROVE  /\ c \in Facts(V, M) => Equal(lhs, a, V, M)
         /\ -c \in Facts(V, M) => Equal(lhs, b, V, M)
         /\ a \in Facts(V, M) => AndPair(-lhs, -c, -b, V, M)
         /\ -a \in Facts(V, M) => AndPair(lhs, -c, b, V, M)
         /\ b \in Facts(V, M) => AndPair(-lhs, -a, c, V, M)
         /\ -b \in Facts(V, M) => AndPair(lhs, a, c, V, M)
         /\ a \in Facts(V, M) /\ b \in Facts(V, M) => lhs \in Facts(V, M)
         /\ -a \in Facts(V, M) /\ -b \in Facts(V, M) => -lhs \in Facts(V, M)
         /\ a \in Facts(V, M) /\ -b \in Facts(V, M) => Equal(lhs, c, V, M)
         /\ -a \in Facts(V, M) /\ b \in Facts(V, M) => Equal(lhs, -c, V, M)
<1> USE IteLits
<1>1. c \in Facts(V, M) => Equal(lhs, a, V, M)
  BY DEF Equal, Facts
<1>2. -c \in Facts(V, M) => Equal(lhs, b, V, M)
  BY DEF Equal, Facts
<1>3. a \in Facts(V, M) => AndPair(-lhs, -c, -b, V, M)
  BY DEF AndPair, Facts
<1>4. -a \in Facts(V, M) => AndPair(lhs, -c, b, V, M)
  BY DEF AndPair, Facts
<1>5. b \in Facts(V, M) => AndPair(-lhs, -a, c, V, M)
  BY DEF AndPair, Facts
<1>6. -b \in Facts(V, M) => AndPair(lhs, a, c, V, M)
  BY DEF AndPair, Facts
<1>7. a \in Facts(V, M) /\ b \in Facts(V, M) => lhs \in Facts(V, M)
  BY DEF Facts
<1>8. -a \in Facts(V, M) /\ -b \in Facts(V, M) => -lhs \in Facts(V, M)
  BY DEF Facts
<1>9. a \in Facts(V, M) /\ -b \in Facts(V, M) => Equal(lhs, c, V, M)
  BY DEF Facts, Equal
<1>10. -a \in Facts(V, M) /\ b \in Facts(V, M) => Equal(lhs, -c, V, M)
  BY DEF Facts, Equal
<1> QED BY <1>1, <1>2, <1>3, <1>4, <1>5, <1>6, <1>7, <1>8, <1>9, <1>10

\* simplify_ite_gate with an assigned condition: the output is merged with a
\* branch.
LEMMA SimplifyConditionKeeps ==
  ASSUME NEW V, NEW M, NEW U, NEW t \in ClosureStates(V, M, U), NEW g \in GateSet(V, M),
         g.tag = "ite", Value(t, g.ite[1]) # 0
  PROVE  SimplifyCondition(t, g) \in ClosureStates(V, M, U)
<1>1. IteOf(g.lhs, g.ite[1], g.ite[2], g.ite[3], V, M)
  BY IteGateFacts DEF IteGood
<1>2. g.ite[1] \in LitsOf(V)
  BY <1>1 DEF IteOf
<1>3. CASE IsTrue(t, g.ite[1])
  <2>1. g.ite[1] \in Facts(V, M)
    BY <1>2, <1>3, ValueFacts
  <2>2. Equal(g.lhs, g.ite[2], V, M)
    BY <1>1, <2>1, IteKnown
  <2> QED BY <1>3, <2>2, MergeKeeps DEF SimplifyCondition
<1>4. CASE ~IsTrue(t, g.ite[1])
  <2>1. -g.ite[1] \in Facts(V, M)
    BY <1>2, <1>4, ValueFacts
  <2>2. Equal(g.lhs, g.ite[3], V, M)
    BY <1>1, <2>1, IteKnown
  <2> QED BY <1>4, <2>2, MergeKeeps DEF SimplifyCondition
<1> QED BY <1>3, <1>4

\* simplify_ite_gate with two assigned branches.
LEMMA SimplifyBranchesKeeps ==
  ASSUME NEW V, NEW M, NEW U, NEW t \in ClosureStates(V, M, U), NEW g \in GateSet(V, M),
         g.tag = "ite", Value(t, g.ite[2]) # 0, Value(t, g.ite[3]) # 0
  PROVE  SimplifyBranches(t, g) \in ClosureStates(V, M, U)
<1> DEFINE lhs == g.lhs
           c == g.ite[1]
           a == g.ite[2]
           b == g.ite[3]
           x == Value(t, a)
           y == Value(t, b)
<1>1. IteOf(lhs, c, a, b, V, M)
  BY IteGateFacts DEF IteGood
<1>2. /\ lhs \in LitsOf(V) /\ c \in LitsOf(V) /\ a \in LitsOf(V) /\ b \in LitsOf(V)
      /\ lhs \in Int /\ c \in Int
  BY <1>1, LitsOfFacts DEF IteOf
<1>3. SimplifyBranches(t, g) = IF x = y THEN learn_congruence_unit(t, x * lhs)
                               ELSE merge_literals(t, lhs, x * c)
  BY DEF SimplifyBranches
<1>4. x # 0 /\ y # 0
  OBVIOUS
<1> HIDE DEF lhs, c, a, b
<1>5. /\ x \in {-1, 1} /\ y \in {-1, 1}
      /\ x = 1 => a \in Facts(V, M)
      /\ x = -1 => -a \in Facts(V, M)
      /\ y = 1 => b \in Facts(V, M)
      /\ y = -1 => -b \in Facts(V, M)
  <2>1. x \in {-1, 0, 1} /\ y \in {-1, 0, 1}
    BY <1>2, ValueFacts
  <2>2. /\ x = 1 => a \in Facts(V, M)
        /\ x = -1 => -a \in Facts(V, M)
        /\ y = 1 => b \in Facts(V, M)
        /\ y = -1 => -b \in Facts(V, M)
    BY <1>2, ValueFacts
  <2> HIDE DEF x, y
  <2> QED BY <1>4, <2>1, <2>2
<1> HIDE DEF x, y
<1>6. CASE x = 1 /\ y = 1
  <2>1. x * lhs = lhs /\ lhs \in Facts(V, M)
    BY <1>1, <1>2, <1>5, <1>6, IteKnown
  <2> QED BY <1>3, <1>6, <2>1, LearnKeeps
<1>7. CASE x = -1 /\ y = -1
  <2>1. x * lhs = -lhs
    BY <1>2, <1>7
  <2>2. -lhs \in Facts(V, M)
    BY <1>1, <1>5, <1>7, IteKnown
  <2> QED BY <1>3, <1>7, <2>1, <2>2, LearnKeeps
<1>8. CASE x = 1 /\ y = -1
  <2>1. x * c = c
    BY <1>2, <1>8
  <2>2. Equal(lhs, c, V, M)
    BY <1>1, <1>5, <1>8, IteKnown
  <2>3. SimplifyBranches(t, g) = merge_literals(t, lhs, c)
    BY <1>3, <1>8, <2>1
  <2> QED BY <2>2, <2>3, MergeKeeps
<1>9. CASE x = -1 /\ y = 1
  <2>1. x * c = -c
    BY <1>2, <1>9
  <2>2. Equal(lhs, -c, V, M)
    BY <1>1, <1>5, <1>9, IteKnown
  <2>3. SimplifyBranches(t, g) = merge_literals(t, lhs, -c)
    BY <1>3, <1>9, <2>1
  <2> QED BY <2>2, <2>3, MergeKeeps
<1> QED BY <1>5, <1>6, <1>7, <1>8, <1>9

\* simplify_ite_gate, whichever inputs are assigned.
LEMMA SimplifyIteKeeps ==
  ASSUME NEW V, NEW M, NEW U, NEW t \in ClosureStates(V, M, U), NEW g \in GateSet(V, M),
         g.tag = "ite", \/ Value(t, g.ite[1]) # 0 \/ Value(t, g.ite[2]) # 0
                        \/ Value(t, g.ite[3]) # 0
  PROVE  simplify_ite_gate(t, g) \in ClosureStates(V, M, U)
<1> DEFINE lhs == g.lhs
           c == g.ite[1]
           a == g.ite[2]
           b == g.ite[3]
           p == Value(t, c) # 0
           x == Value(t, a) # 0
           y == Value(t, b) # 0
           all == simplify_ite_gate(t, g)
<1>1. all = IF p /\ x /\ y THEN t
            ELSE IF p THEN SimplifyCondition(t, g)
            ELSE IF x /\ y THEN SimplifyBranches(t, g)
            ELSE IF IsTrue(t, a)  THEN SimplifyToAnd(t, -lhs, -c, -b)
            ELSE IF IsFalse(t, a) THEN SimplifyToAnd(t, lhs, -c, b)
            ELSE IF IsTrue(t, b)  THEN SimplifyToAnd(t, -lhs, -a, c)
            ELSE SimplifyToAnd(t, lhs, a, c)
  BY DEF simplify_ite_gate
<1>2. IteOf(lhs, c, a, b, V, M)
  BY IteGateFacts DEF IteGood
<1>3. p => SimplifyCondition(t, g) \in ClosureStates(V, M, U)
  BY SimplifyConditionKeeps
<1>4. x /\ y => SimplifyBranches(t, g) \in ClosureStates(V, M, U)
  BY SimplifyBranchesKeeps
<1>5. p \/ x \/ y
  OBVIOUS
<1> HIDE DEF lhs, c, a, b
<1>6. /\ a \in LitsOf(V) /\ b \in LitsOf(V)
  BY <1>2 DEF IteOf
<1>7. IsTrue(t, a) => SimplifyToAnd(t, -lhs, -c, -b) \in ClosureStates(V, M, U)
  <2>1. IsTrue(t, a) => AndPair(-lhs, -c, -b, V, M)
    BY <1>2, <1>6, ValueFacts, IteKnown
  <2> QED BY <2>1, SimplifyToAndKeeps
<1>8. IsFalse(t, a) => SimplifyToAnd(t, lhs, -c, b) \in ClosureStates(V, M, U)
  <2>1. IsFalse(t, a) => AndPair(lhs, -c, b, V, M)
    BY <1>2, <1>6, ValueFacts, IteKnown
  <2> QED BY <2>1, SimplifyToAndKeeps
<1>9. IsTrue(t, b) => SimplifyToAnd(t, -lhs, -a, c) \in ClosureStates(V, M, U)
  <2>1. IsTrue(t, b) => AndPair(-lhs, -a, c, V, M)
    BY <1>2, <1>6, ValueFacts, IteKnown
  <2> QED BY <2>1, SimplifyToAndKeeps
<1>10. IsFalse(t, b) => SimplifyToAnd(t, lhs, a, c) \in ClosureStates(V, M, U)
  <2>1. IsFalse(t, b) => AndPair(lhs, a, c, V, M)
    BY <1>2, <1>6, ValueFacts, IteKnown
  <2> QED BY <2>1, SimplifyToAndKeeps
<1>11. (x => IsTrue(t, a) \/ IsFalse(t, a)) /\ (y => IsTrue(t, b) \/ IsFalse(t, b))
  BY <1>6, ValueFacts
<1> HIDE DEF all, p, x, y
<1>12. all \in ClosureStates(V, M, U)
  BY <1>1, <1>3, <1>4, <1>5, <1>7, <1>8, <1>9, <1>10, <1>11
<1> QED BY <1>12 DEF all

-----------------------------------------------------------------------------
(* XOR gates. *)

\* The inputs R of an XOR gate with y in the place of x: the ones that are
\* known to be true, the ones left, and the ones that are true in m.
MovedVar(v, x, y) == IF v = x THEN y ELSE v
MovedTrue(R, x, y, m) == {v \in R : MovedVar(v, x, y) \in m}
MovedAlone(R, x, y, w) == \A u \in R \ {w} : MovedVar(u, x, y) # MovedVar(w, x, y)
MovedLeft(R, x, y, P, N) ==
  {MovedVar(v, x, y) : v \in {w \in R :
     MovedVar(w, x, y) \notin P \cup N /\ MovedAlone(R, x, y, w)}}

\* The variables of P are true in m, and those of N are false.
MovedSound(R, x, y, P, N, m) ==
  \A v \in R : /\ MovedVar(v, x, y) \in P => MovedVar(v, x, y) \in m
               /\ MovedVar(v, x, y) \in N => MovedVar(v, x, y) \notin m

\* One element more.
LEMMA OnePlus ==
  ASSUME NEW T, IsFiniteSet(T), NEW x, x \notin T
  PROVE  IsFiniteSet(T \cup {x}) /\ Cardinality(T \cup {x}) = Cardinality(T) + 1
<1>1. /\ IsFiniteSet(T \cup {x})
      /\ Cardinality(T \cup {x}) = IF x \in T THEN Cardinality(T) ELSE Cardinality(T) + 1
  BY FS_AddElement
<1> QED BY <1>1

\* The cardinality of a disjoint union.
LEMMA DisjointUnion ==
  ASSUME NEW S, IsFiniteSet(S), NEW T, IsFiniteSet(T), S \cap T = {}
  PROVE  IsFiniteSet(S \cup T) /\ Cardinality(S \cup T) = Cardinality(S) + Cardinality(T)
<1>1. /\ IsFiniteSet(S \cup T)
      /\ Cardinality(S \cup T) = Cardinality(S) + Cardinality(T) - Cardinality(S \cap T)
  BY FS_Union
<1>2. Cardinality(S \cap T) = 0
  BY FS_EmptySet
<1>3. Cardinality(S) \in Nat /\ Cardinality(T) \in Nat
  BY FS_CardinalityType
<1> QED BY <1>1, <1>2, <1>3

\* The inputs left have the parity of all inputs but the ones known to be true.
LEMMA MovedParity ==
  ASSUME NEW R, R \subseteq Var, NEW x, NEW y, NEW P, NEW N, NEW m,
         MovedSound(R, x, y, P, N, m)
  PROVE  /\ Cardinality(MovedTrue(R, x, y, P)) \in Nat
         /\ Cardinality(MovedTrue(R, x, y, m)) \in Nat
         /\ Cardinality(MovedLeft(R, x, y, P, N) \cap m) \in Nat
         /\ \/ Cardinality(MovedTrue(R, x, y, m)) =
                 Cardinality(MovedTrue(R, x, y, P)) + Cardinality(MovedLeft(R, x, y, P, N) \cap m)
            \/ Cardinality(MovedTrue(R, x, y, m)) =
                 Cardinality(MovedTrue(R, x, y, P)) + Cardinality(MovedLeft(R, x, y, P, N) \cap m) + 2
<1> DEFINE to(v) == MovedVar(v, x, y)
           F == MovedTrue(R, x, y, P)
           A == MovedTrue(R, x, y, m)
           L == MovedLeft(R, x, y, P, N) \cap m
           one(w) == MovedAlone(R, x, y, w)
           open == {w \in R : to(w) \notin P \cup N /\ to(w) \in m}
           U == {w \in open : one(w)}
           D == {w \in open : ~one(w)}
<1>1. IsFiniteSet(R)
  BY LitsFinite, FS_Subset
<1>2. /\ IsFiniteSet(F) /\ IsFiniteSet(A) /\ IsFiniteSet(U) /\ IsFiniteSet(D)
  <2>1. F \subseteq R /\ A \subseteq R /\ U \subseteq R /\ D \subseteq R
    BY DEF MovedTrue
  <2> HIDE DEF F, A, U, D
  <2> QED BY <1>1, <2>1, FS_Subset
<1>3. A = F \cup (U \cup D) /\ F \cap (U \cup D) = {} /\ U \cap D = {}
  BY DEF MovedTrue, MovedSound
<1>4. Cardinality(A) = Cardinality(F) + (Cardinality(U) + Cardinality(D))
  <2> HIDE DEF A, F, U, D
  <2>1. IsFiniteSet(U \cup D) /\ Cardinality(U \cup D) = Cardinality(U) + Cardinality(D)
    BY <1>2, <1>3, DisjointUnion
  <2> QED BY <1>2, <1>3, <2>1, DisjointUnion
<1>5. D = {} \/ (D = {x, y} /\ x # y)
  <2>1. ASSUME NEW w \in D PROVE x \in R /\ y \in R /\ x # y /\ (w = x \/ w = y)
    <3>1. PICK u \in R \ {w} : to(u) = to(w)
      BY DEF MovedAlone
    <3> QED BY <3>1 DEF MovedVar
  <2>2. ASSUME D # {} PROVE D = {x, y} /\ x # y
    <3>1. x \in R /\ y \in R /\ x # y
      BY <2>1, <2>2
    <3>2. to(x) = y /\ to(y) = y
      BY <3>1 DEF MovedVar
    <3>3. y \notin P \cup N /\ y \in m
      BY <2>1, <2>2, <3>2
    <3>4. x \in open /\ y \in open
      BY <3>1, <3>2, <3>3
    <3>5. ~one(x) /\ ~one(y)
      BY <3>1, <3>2 DEF MovedAlone
    <3> QED BY <2>1, <3>1, <3>4, <3>5
  <2> QED BY <2>2
<1>6. Cardinality(D) = 0 \/ Cardinality(D) = 2
  <2> HIDE DEF D
  <2>1. D = {} => Cardinality(D) = 0
    BY FS_EmptySet
  <2>2. D = {x, y} /\ x # y => Cardinality(D) = 2
    BY PairCardinality
  <2> QED BY <1>5, <2>1, <2>2
<1>7. IsFiniteSet(L) /\ Cardinality(L) = Cardinality(U)
  <2>1. L = {to(w) : w \in U}
    BY DEF MovedLeft
  <2>2. CASE x \notin U
    <3>1. L = U
      BY <2>1, <2>2 DEF MovedVar
    <3> HIDE DEF L, U
    <3> QED BY <1>2, <3>1
  <2>3. CASE x \in U
    <3>1. L = (U \ {x}) \cup {y}
      BY <2>1, <2>3 DEF MovedVar
    <3>2. y \notin U \ {x}
      <4>1. ASSUME y \in U, y # x PROVE FALSE
        <5>1. y \in R \ {x} /\ one(x)
          BY <2>3, <4>1
        <5>2. to(y) # to(x)
          BY <5>1 DEF MovedAlone
        <5> QED BY <4>1, <5>2 DEF MovedVar
      <4> QED BY <4>1
    <3> HIDE DEF L, U
    <3>3. IsFiniteSet(U \ {x})
      BY <1>2, FS_Subset
    <3>4. x \notin U \ {x} /\ U = (U \ {x}) \cup {x}
      BY <2>3
    <3>5. Cardinality(U) = Cardinality(U \ {x}) + 1
      BY <3>3, <3>4, OnePlus
    <3> QED BY <3>1, <3>2, <3>3, <3>5, OnePlus
  <2> QED BY <2>2, <2>3
<1> HIDE DEF A, F, L, U, D
<1>8. Cardinality(A) \in Nat /\ Cardinality(F) \in Nat /\ Cardinality(L) \in Nat
  BY <1>2, <1>7, FS_CardinalityType
<1>9. Cardinality(A) = Cardinality(F) + Cardinality(L)
      \/ Cardinality(A) = Cardinality(F) + Cardinality(L) + 2
  BY <1>4, <1>6, <1>7, <1>8
<1> QED BY <1>8, <1>9 DEF A, F, L

\* A literal in the place of an input with which it is equal, or opposite.
LEMMA MovedFlips ==
  ASSUME NEW R, R \subseteq Var, NEW x, NEW y, NEW m, NEW flip \in {0, 1},
         x \in R => (y \in m <=> IF flip = 1 THEN x \notin m ELSE x \in m),
         x \notin R => flip = 0
  PROVE  LET a == Cardinality(MovedTrue(R, x, y, m))
             o == Cardinality(R \cap m)
         IN  /\ a \in Nat /\ o \in Nat
             /\ flip = 0 => a = o
             /\ flip = 1 => a = o + 1 \/ o = a + 1
<1> DEFINE A == MovedTrue(R, x, y, m)
           O == R \cap m
           T == A \ {x}
<1>1. IsFiniteSet(R)
  BY LitsFinite, FS_Subset
<1>2. IsFiniteSet(A) /\ IsFiniteSet(O) /\ IsFiniteSet(T)
  <2>1. A \subseteq R /\ O \subseteq R /\ T \subseteq R
    BY DEF MovedTrue
  <2> HIDE DEF A, O, T
  <2> QED BY <1>1, <2>1, FS_Subset
<1>3. CASE flip = 0
  <2>1. A = O
    BY <1>3 DEF MovedTrue, MovedVar
  <2> HIDE DEF A, O
  <2>2. Cardinality(A) \in Nat /\ Cardinality(A) = Cardinality(O)
    BY <1>2, <2>1, FS_CardinalityType
  <2> QED BY <1>3, <2>2 DEF A, O
<1>4. CASE flip = 1
  <2>1. x \in R /\ x \notin T
    BY <1>4
  <2>2. CASE x \in m
    <3>1. A = T /\ O = T \cup {x}
      BY <1>4, <2>1, <2>2 DEF MovedTrue, MovedVar
    <3> HIDE DEF A, O, T
    <3>2. Cardinality(O) = Cardinality(T) + 1 /\ Cardinality(T) \in Nat
      BY <1>2, <2>1, <3>1, OnePlus, FS_CardinalityType
    <3>3. Cardinality(O) = Cardinality(A) + 1 /\ Cardinality(A) \in Nat /\ Cardinality(O) \in Nat
      BY <3>1, <3>2
    <3> QED BY <1>4, <3>3 DEF A, O
  <2>3. CASE x \notin m
    <3>1. O = T /\ A = T \cup {x}
      BY <1>4, <2>1, <2>3 DEF MovedTrue, MovedVar
    <3> HIDE DEF A, O, T
    <3>2. Cardinality(A) = Cardinality(T) + 1 /\ Cardinality(T) \in Nat
      BY <1>2, <2>1, <3>1, OnePlus, FS_CardinalityType
    <3>3. Cardinality(A) = Cardinality(O) + 1 /\ Cardinality(A) \in Nat /\ Cardinality(O) \in Nat
      BY <3>1, <3>2
    <3> QED BY <1>4, <3>3 DEF A, O
  <2> QED BY <2>2, <2>3
<1> QED BY <1>3, <1>4

ReXor(g, lhs, rhs) == [g EXCEPT !.lhs = lhs, !.rhs = rhs]

\* An XOR gate with another output and other inputs.
LEMMA ReXorMade ==
  ASSUME NEW V, NEW M, NEW g \in GateSet(V, M), g.tag = "xor",
         NEW lhs \in LitsOf(V), NEW rhs, rhs \subseteq LitsOf(V), rhs \subseteq Var,
         \A m \in M : True(m, lhs) <=> Cardinality({lit \in rhs : True(m, lit)}) % 2 = 1
  PROVE  ReXor(g, lhs, rhs) \in GateSet(V, M) /\ ReXor(g, lhs, rhs).tag = "xor"
<1> DEFINE h == ReXor(g, lhs, rhs)
<1>0. g \in GateRecords(V) /\ g.ite = <<>>
  BY GateFacts DEF GateForm
<1>1. h.tag = "xor" /\ h.lhs = lhs /\ h.rhs = rhs /\ h.ite = <<>>
  BY <1>0 DEF ReXor, GateRecords
<1>2. h \in GateRecords(V)
  <2>1. GateForm(h, V)
    <3> HIDE DEF h
    <3> QED BY <1>1 DEF GateForm
  <2> QED BY <1>0, <2>1 DEF GateRecords, ReXor
<1> HIDE DEF h
<1>3. ASSUME NEW m \in M PROVE GateHolds(h, m)
  BY <1>1 DEF GateHolds
<1>4. h \in GateSet(V, M)
  BY <1>2, <1>3 DEF GateSet
<1> QED BY <1>1, <1>4 DEF h

\* The variables true in m are its elements.
LEMMA TrueVars ==
  ASSUME NEW R, R \subseteq Var, NEW m
  PROVE  {lit \in R : True(m, lit)} = R \cap m
<1>1. \A lit \in R : True(m, lit) <=> lit \in m
  BY VarFacts DEF True
<1> QED BY <1>1

\* rewrite_xor_gate with x for src and y for the variable of dst.
XorFlips(t, g, x, y, flip) == Cardinality(MovedTrue(g.rhs, x, y, t.s.units)) + flip
XorLhs(t, g, x, y, flip) == IF XorFlips(t, g, x, y, flip) % 2 = 1 THEN -g.lhs ELSE g.lhs
XorRest(t, g, x, y) == MovedLeft(g.rhs, x, y, t.s.units, Negated(t.s.units))
XorMoved(t, g, x, y, flip) ==
  update_xor_gate(t, ReXor(g, XorLhs(t, g, x, y, flip), XorRest(t, g, x, y)))

\* An XOR gate in which a variable is replaced: inputs that occur twice and
\* assigned ones go, and the output is negated for each true one.
LEMMA XorMovedKeeps ==
  ASSUME NEW V, NEW M, NEW U, NEW t \in ClosureStates(V, M, U), NEW g \in GateSet(V, M),
         g.tag = "xor", NEW x, NEW y, NEW flip \in {0, 1}, x \notin g.rhs => flip = 0,
         x \in g.rhs => y \in Var /\ Equal(x, IF flip = 1 THEN -y ELSE y, V, M)
  PROVE  XorMoved(t, g, x, y, flip) \in ClosureStates(V, M, U)
<1> DEFINE R == g.rhs
           P == t.s.units
           N == Negated(t.s.units)
           L == XorRest(t, g, x, y)
           lhs == XorLhs(t, g, x, y, flip)
<1>1. /\ R \subseteq Var /\ R \subseteq LitsOf(V) /\ g.lhs \in LitsOf(V) /\ g.lhs \in Lit
      /\ -g.lhs \in LitsOf(V)
  BY GateFacts, LitsOfFacts DEF GateForm
<1>2. P \in SUBSET Facts(V, M) /\ P \subseteq Lit
  <2>1. P \in SUBSET Facts(V, M) /\ P \subseteq LitsOf(V)
    BY ClosureFacts
  <2> QED BY <2>1, LitsOfFacts
<1>3. x \in R => y \in Var /\ y \in LitsOf(V)
  <2>1. ASSUME x \in R PROVE y \in LitsOf(V)
    <3>1. CASE flip = 1
      <4>1. -y \in LitsOf(V) /\ y \in Int
        BY <2>1, <3>1, VarFacts DEF Equal
      <4>2. - -y \in LitsOf(V) /\ - -y = y
        BY <4>1, LitsOfFacts
      <4> QED BY <4>2
    <3>2. CASE flip # 1
      BY <2>1, <3>2 DEF Equal
    <3> QED BY <3>1, <3>2
  <2> QED BY <2>1
<1>4. ASSUME NEW v \in R PROVE MovedVar(v, x, y) \in Var /\ MovedVar(v, x, y) \in LitsOf(V)
  BY <1>1, <1>3 DEF MovedVar
<1>5. L \subseteq LitsOf(V) /\ L \subseteq Var
  BY <1>4 DEF XorRest, MovedLeft
<1>6. lhs \in LitsOf(V)
  BY <1>1 DEF XorLhs
<1>7. ASSUME NEW m \in M
      PROVE  True(m, lhs) <=> Cardinality({lit \in L : True(m, lit)}) % 2 = 1
  <2> DEFINE k == Cardinality(MovedTrue(R, x, y, P))
             l == Cardinality(L \cap m)
             a == Cardinality(MovedTrue(R, x, y, m))
             o == Cardinality(R \cap m)
  <2>1. ASSUME NEW v \in R
        PROVE  /\ MovedVar(v, x, y) \in P => MovedVar(v, x, y) \in m
               /\ MovedVar(v, x, y) \in N => MovedVar(v, x, y) \notin m
    <3> DEFINE w == MovedVar(v, x, y)
    <3>1. w \in Var /\ w \in Lit /\ w > 0
      BY <1>4, VarFacts
    <3> HIDE DEF w
    <3>2. w \in P => True(m, w)
      BY <1>2 DEF Facts
    <3>3. w \in N => -w \in P
      BY <1>2, <3>1, NegatedFacts
    <3>4. w \in N => True(m, -w)
      BY <1>2, <3>3 DEF Facts
    <3>5. True(m, w) <=> w \in m
      BY <3>1 DEF True
    <3>6. True(m, -w) <=> ~True(m, w)
      BY <3>1, TrueNegated
    <3> QED BY <3>2, <3>4, <3>5, <3>6 DEF w
  <2>2. /\ k \in Nat /\ l \in Nat /\ a \in Nat /\ (a = k + l \/ a = k + l + 2)
    <3>1. L = MovedLeft(R, x, y, P, N)
      BY DEF XorRest
    <3>2. R \subseteq Var
      BY <1>1
    <3> HIDE DEF R, P, N, L
    <3>3. MovedSound(R, x, y, P, N, m)
      BY <2>1 DEF MovedSound
    <3> DEFINE n == Cardinality(MovedLeft(R, x, y, P, N) \cap m)
    <3>4. l = n
      BY <3>1
    <3> HIDE DEF l
    <3>5. k \in Nat /\ a \in Nat /\ n \in Nat
      BY <3>2, <3>3, MovedParity
    <3>6. a = k + n \/ a = k + n + 2
      BY <3>2, <3>3, MovedParity
    <3> HIDE DEF n, k, a
    <3> QED BY <3>4, <3>5, <3>6
  <2>3. x \in R => (y \in m <=> IF flip = 1 THEN x \notin m ELSE x \in m)
    <3>1. ASSUME x \in R PROVE y \in m <=> IF flip = 1 THEN x \notin m ELSE x \in m
      <4>1. y \in Var /\ x \in Var /\ y \in Lit /\ y > 0 /\ x > 0
        BY <1>1, <3>1, VarFacts
      <4>2. True(m, x) <=> True(m, IF flip = 1 THEN -y ELSE y)
        BY <3>1 DEF Equal
      <4>3. (True(m, x) <=> x \in m) /\ (True(m, y) <=> y \in m) /\ (True(m, -y) <=> y \notin m)
        BY <4>1, TrueNegated DEF True
      <4> QED BY <4>2, <4>3
    <3> QED BY <3>1
  <2>4. o \in Nat /\ (flip = 0 => a = o) /\ (flip = 1 => a = o + 1 \/ o = a + 1)
    BY <1>1, <2>3, MovedFlips
  <2>5. True(m, g.lhs) <=> o % 2 = 1
    <3>1. GateHolds(g, m)
      BY GateFacts
    <3>2. {lit \in R : True(m, lit)} = R \cap m
      BY <1>1, TrueVars
    <3> QED BY <3>1, <3>2 DEF GateHolds
  <2>6. {lit \in L : True(m, lit)} = L \cap m
    BY <1>5, TrueVars
  <2>7. lhs = IF (k + flip) % 2 = 1 THEN -g.lhs ELSE g.lhs
    BY DEF XorLhs, XorFlips
  <2>8. True(m, -g.lhs) <=> ~True(m, g.lhs)
    BY <1>1, TrueNegated
  <2> HIDE DEF lhs, L, k, l, a, o
  <2>9. (l % 2 = 1) <=> IF (k + flip) % 2 = 1 THEN ~(o % 2 = 1) ELSE o % 2 = 1
    <3>1. CASE flip = 0
      <4>1. o = k + l \/ o = k + l + 2
        BY <2>2, <2>4, <3>1
      <4> QED BY <2>2, <3>1, <4>1
    <3>2. CASE flip = 1
      <4>1. o = k + l + 1 \/ o = k + l + 3 \/ o + 1 = k + l
        BY <2>2, <2>4, <3>2
      <4>2. k \in Nat /\ l \in Nat /\ o \in Nat
        BY <2>2, <2>4
      <4>3. CASE k % 2 = 0
        BY <3>2, <4>1, <4>2, <4>3
      <4>4. CASE k % 2 = 1
        BY <3>2, <4>1, <4>2, <4>4
      <4> QED BY <4>2, <4>3, <4>4
    <3> QED BY <3>1, <3>2
  <2>10. True(m, lhs) <=> l % 2 = 1
    BY <2>5, <2>7, <2>8, <2>9
  <2> QED BY <2>6, <2>10 DEF l
<1> HIDE DEF L, lhs
<1>8. ReXor(g, lhs, L) \in GateSet(V, M) /\ ReXor(g, lhs, L).tag = "xor"
  BY <1>5, <1>6, <1>7, ReXorMade
<1>9. update_xor_gate(t, ReXor(g, lhs, L)) \in ClosureStates(V, M, U)
  BY <1>8, UpdateXorKeeps
<1> QED BY <1>9 DEF XorMoved, L, lhs

\* rewrite_xor_gate is such a replacement.
LEMMA XorRewritten ==
  ASSUME NEW V, NEW M, NEW U, NEW t \in ClosureStates(V, M, U), NEW g \in GateSet(V, M),
         g.tag = "xor", NEW x, NEW dst \in Int,
         VarOf(dst) # VarOf(g.lhs), x \in g.rhs => VarOf(dst) \in Var
  PROVE  rewrite_xor_gate(t, g, x, dst) = XorMoved(t, g, x, VarOf(dst), IF dst < 0 THEN 1 ELSE 0)
<1> DEFINE y == VarOf(dst)
           R == g.rhs
           to(v) == IF v = x THEN VarOf(dst) ELSE v
           rest == {to(v) : v \in {w \in R : /\ Value(t, to(w)) = 0
                                             /\ \A u \in R \ {w} : to(u) # to(w)}}
           known == {v \in R : IsTrue(t, to(v))}
<1>1. R \subseteq Var
  BY GateFacts DEF GateForm
<1>2. ASSUME NEW v \in R PROVE to(v) = MovedVar(v, x, y) /\ to(v) \in Lit
  BY <1>1, VarFacts DEF MovedVar
<1>3. t.s.units \subseteq Lit
  <2>1. t.s.units \subseteq LitsOf(V)
    BY ClosureFacts
  <2> QED BY <2>1, LitsOfFacts
<1>4. ASSUME NEW w \in Lit PROVE Value(t, w) = 0 <=> w \notin t.s.units \cup Negated(t.s.units)
  <2>1. w \in Negated(t.s.units) <=> -w \in t.s.units
    BY <1>3, NegatedFacts
  <2> QED BY <2>1 DEF Value, IsTrue, IsFalse
<1>5. known = MovedTrue(R, x, y, t.s.units)
  BY <1>2 DEF MovedTrue, IsTrue
<1>6. rest = XorRest(t, g, x, y)
  BY <1>2, <1>4 DEF XorRest, MovedLeft, MovedAlone
<1>7. rewrite_xor_gate(t, g, x, dst) =
        update_xor_gate(t, [g EXCEPT !.lhs = IF (Cardinality(known) + IF dst < 0 THEN 1 ELSE 0) % 2 = 1
                                             THEN -g.lhs ELSE g.lhs, !.rhs = rest])
  BY DEF rewrite_xor_gate
<1> HIDE DEF known, rest
<1> QED BY <1>5, <1>6, <1>7 DEF XorMoved, XorLhs, XorFlips, ReXor

\* rewrite_xor_gate by an equal literal.
LEMMA RewriteXorKeeps ==
  ASSUME NEW V, NEW M, NEW U, NEW t \in ClosureStates(V, M, U), NEW g \in GateSet(V, M),
         g.tag = "xor", NEW src \in g.rhs, NEW dst, Equal(src, dst, V, M)
  PROVE  rewrite_xor_gate(t, g, src, dst) \in ClosureStates(V, M, U)
<1> DEFINE y == VarOf(dst)
           flip == IF dst < 0 THEN 1 ELSE 0
<1>1. dst \in LitsOf(V)
  BY EqualFacts
<1>2. dst \in Lit
  BY <1>1, LitsOfFacts
<1>3. dst \in Int /\ y \in Var /\ dst = (IF flip = 1 THEN -y ELSE y)
  BY <1>2, LitFacts DEF VarOf
<1>4. flip \in {0, 1}
  OBVIOUS
<1>5. CASE y = VarOf(g.lhs)
  BY <1>5 DEF rewrite_xor_gate
<1>6. CASE y # VarOf(g.lhs)
  <2>1. rewrite_xor_gate(t, g, src, dst) = XorMoved(t, g, src, y, flip)
    BY <1>3, <1>6, XorRewritten
  <2> HIDE DEF y, flip
  <2>2. XorMoved(t, g, src, y, flip) \in ClosureStates(V, M, U)
    BY <1>3, <1>4, XorMovedKeeps
  <2> QED BY <2>1, <2>2
<1> QED BY <1>5, <1>6

\* simplify_xor_gate leaves out assigned inputs.
LEMMA SimplifyXorKeeps ==
  ASSUME NEW V, NEW M, NEW U, NEW t \in ClosureStates(V, M, U), NEW g \in GateSet(V, M),
         g.tag = "xor"
  PROVE  simplify_xor_gate(t, g) \in ClosureStates(V, M, U)
<1>1. VarOf(0) = 0 /\ 0 \in Int /\ ~(0 < 0)
  BY DEF VarOf
<1>2. 0 \notin g.rhs
  BY GateFacts, VarFacts DEF GateForm
<1>3. VarOf(g.lhs) # 0
  <2>1. g.lhs \in Lit
    BY GateFacts, LitsOfFacts
  <2>2. VarOf(g.lhs) \in Var
    BY <2>1, LitFacts
  <2> QED BY <2>2, VarFacts
<1>4. rewrite_xor_gate(t, g, 0, 0) = XorMoved(t, g, 0, 0, 0)
  <2>1. rewrite_xor_gate(t, g, 0, 0) = XorMoved(t, g, 0, VarOf(0), IF 0 < 0 THEN 1 ELSE 0)
    BY <1>1, <1>2, <1>3, XorRewritten
  <2> QED BY <1>1, <2>1
<1>5. XorMoved(t, g, 0, 0, 0) \in ClosureStates(V, M, U)
  BY <1>2, XorMovedKeeps
<1> QED BY <1>4, <1>5 DEF simplify_xor_gate

-----------------------------------------------------------------------------
(* Extraction of gates. *)

\* A one-to-one map keeps the number of elements.
LEMMA SameNumber ==
  ASSUME NEW S, IsFiniteSet(S), NEW T, NEW f \in [S -> T],
         \A x \in T : \E y \in S : f[y] = x,
         \A x \in S : \A y \in S : f[x] = f[y] => x = y
  PROVE  IsFiniteSet(T) /\ Cardinality(T) = Cardinality(S)
<1>1. f \in Injection(S, T) /\ f \in Surjection(S, T)
  BY DEF Injection, Surjection, IsInjective
<1>2. ExistsBijection(S, T)
  BY <1>1 DEF ExistsBijection, Bijection
<1> QED BY <1>2, FS_Bijection

\* The variables of a clause.
LEMMA VarsFacts ==
  ASSUME NEW c, c \subseteq Lit
  PROVE  /\ Vars(c) \subseteq Var /\ IsFiniteSet(Vars(c)) /\ IsFiniteSet(c)
         /\ \A v \in Var : v \in Vars(c) <=> v \in c \/ -v \in c
<1>1. Vars(c) \subseteq Var
  BY LitFacts DEF Vars
<1>2. IsFiniteSet(Vars(c)) /\ IsFiniteSet(c)
  BY <1>1, LitsFinite, FS_Subset
<1>3. ASSUME NEW v \in Var PROVE v \in Vars(c) <=> v \in c \/ -v \in c
  <2>1. ASSUME v \in Vars(c) PROVE v \in c \/ -v \in c
    <3>1. PICK lit \in c : v = VarOf(lit)
      BY <2>1 DEF Vars
    <3>2. lit \in Int
      BY LitFacts
    <3>3. lit = v \/ lit = -v
      BY <3>1, <3>2 DEF VarOf
    <3> QED BY <3>1, <3>3
  <2>2. VarOf(v) = v /\ VarOf(-v) = v
    BY VarFacts
  <2> QED BY <2>1, <2>2 DEF Vars
<1> QED BY <1>1, <1>2, <1>3

\* A clause without complementary literals has as many variables as literals.
LEMMA ProperNumber ==
  ASSUME NEW c, c \subseteq Lit, \A lit \in c : -lit \notin c
  PROVE  Cardinality(Vars(c)) = Cardinality(c)
<1> DEFINE f == [lit \in c |-> VarOf(lit)]
<1>1. f \in [c -> Vars(c)] /\ \A x \in Vars(c) : \E y \in c : f[y] = x
  BY DEF Vars
<1>2. ASSUME NEW x \in c, NEW y \in c, f[x] = f[y] PROVE x = y
  <2>1. x \in Int /\ y \in Int
    BY LitFacts
  <2>2. x = y \/ x = -y
    BY <1>2, <2>1 DEF VarOf
  <2> QED BY <2>2
<1>3. IsFiniteSet(c)
  BY VarsFacts
<1> HIDE DEF f
<1> QED BY <1>1, <1>2, <1>3, SameNumber

\* The clause over the variables of c that is false in m.
FalseClause(c, m) == {IF v \in m THEN -v ELSE v : v \in Vars(c)}

\* For each assignment there is one clause over the variables of c that it
\* falsifies.
LEMMA FalseClauseFacts ==
  ASSUME NEW c, c \subseteq Lit, \A lit \in c : -lit \notin c, NEW m
  PROVE  LET d == FalseClause(c, m)
         IN  /\ d \subseteq c \cup Negated(c) /\ d \subseteq Lit
             /\ Cardinality(d) = Cardinality(c)
             /\ Vars(d) = Vars(c) /\ ~Holds(m, d)
             /\ Cardinality({lit \in d : lit < 0}) = Cardinality(Vars(c) \cap m)
<1> DEFINE d == FalseClause(c, m)
           neg(v) == IF v \in m THEN -v ELSE v
           f == [v \in Vars(c) |-> neg(v)]
<1>1. Vars(c) \subseteq Var /\ IsFiniteSet(Vars(c))
  BY VarsFacts
<1>2. \A v \in Vars(c) : /\ v \in Lit /\ -v \in Lit /\ v \in Nat /\ v > 0
                         /\ VarOf(v) = v /\ VarOf(-v) = v
  BY <1>1, VarFacts
<1>3. d \subseteq Lit
  BY <1>2 DEF FalseClause
<1>4. d \subseteq c \cup Negated(c)
  <2>1. ASSUME NEW v \in Vars(c) PROVE neg(v) \in c \cup Negated(c)
    <3>1. v \in c \/ -v \in c
      BY <1>1, VarsFacts
    <3>2. - -v = v /\ v \in Lit /\ -v \in Lit
      BY <1>2
    <3>3. (v \in Negated(c) <=> -v \in c) /\ (-v \in Negated(c) <=> v \in c)
      BY <3>2, NegatedFacts
    <3> QED BY <3>1, <3>3
  <2> QED BY <2>1 DEF FalseClause
<1>5. Vars(d) = Vars(c)
  <2>1. \A v \in Vars(c) : VarOf(neg(v)) = v
    BY <1>2
  <2> HIDE DEF neg
  <2>2. d = {neg(v) : v \in Vars(c)}
    BY DEF FalseClause, neg
  <2>3. Vars(d) = {VarOf(lit) : lit \in d}
    BY DEF Vars
  <2> HIDE DEF d
  <2> QED BY <2>1, <2>2, <2>3
<1>6. ~Holds(m, d)
  BY <1>2 DEF FalseClause, Holds, True
<1>7. Cardinality(d) = Cardinality(c)
  <2>1. f \in [Vars(c) -> d] /\ \A x \in d : \E y \in Vars(c) : f[y] = x
    BY DEF FalseClause
  <2>2. ASSUME NEW x \in Vars(c), NEW y \in Vars(c), f[x] = f[y] PROVE x = y
    BY <1>2, <2>2
  <2> HIDE DEF f, d
  <2>3. Cardinality(d) = Cardinality(Vars(c))
    BY <1>1, <2>1, <2>2, SameNumber
  <2> QED BY <2>3, ProperNumber
<1>8. Cardinality({lit \in d : lit < 0}) = Cardinality(Vars(c) \cap m)
  <2> DEFINE S == Vars(c) \cap m
             T == {lit \in d : lit < 0}
             g == [v \in S |-> -v]
  <2>1. ASSUME NEW x \in T PROVE \E y \in S : -y = x
    <3>1. PICK v \in Vars(c) : x = neg(v)
      BY DEF FalseClause
    <3>2. v \in m
      BY <1>2, <3>1
    <3> QED BY <3>1, <3>2
  <2>2. ASSUME NEW v \in S PROVE -v \in T
    <3>1. neg(v) \in d /\ neg(v) = -v
      BY DEF FalseClause
    <3> QED BY <1>2, <3>1
  <2>3. g \in [S -> T] /\ \A x \in T : \E y \in S : g[y] = x
    <3> HIDE DEF S, T
    <3> QED BY <2>1, <2>2
  <2>4. ASSUME NEW x \in S, NEW y \in S, g[x] = g[y] PROVE x = y
    BY <1>2, <2>4
  <2>5. IsFiniteSet(S)
    BY <1>1, FS_Subset
  <2> HIDE DEF S, T, g
  <2>6. Cardinality(T) = Cardinality(S)
    BY <2>3, <2>4, <2>5, SameNumber
  <2> QED BY <2>6 DEF S, T
<1> QED BY <1>3, <1>4, <1>5, <1>6, <1>7, <1>8

\* With all its sides a clause fixes the parity of its true variables.
LEMMA SidesParity ==
  ASSUME NEW V, NEW M, NEW c \in Proper(V, M), Sides(c) \subseteq Sound(V, M), NEW m \in M
  PROVE  Odd(c) <=> ~(Cardinality(Vars(c) \cap m) % 2 = 1)
<1> DEFINE d == FalseClause(c, m)
<1>1. c \subseteq Lit /\ \A lit \in c : -lit \notin c
  <2>1. c \subseteq LitsOf(V)
    BY SoundFacts DEF Proper
  <2> QED BY <2>1, LitsOfFacts DEF Proper
<1>2. /\ d \subseteq c \cup Negated(c) /\ Cardinality(d) = Cardinality(c)
      /\ Vars(d) = Vars(c) /\ ~Holds(m, d)
      /\ Cardinality({lit \in d : lit < 0}) = Cardinality(Vars(c) \cap m)
  BY <1>1, FalseClauseFacts
<1>3. d \notin Sound(V, M)
  BY <1>2 DEF Sound
<1>4. Odd(d) # Odd(c)
  BY <1>2, <1>3 DEF Sides
<1>5. Odd(d) \in BOOLEAN /\ Odd(c) \in BOOLEAN
  BY DEF Odd
<1>6. Odd(d) <=> Cardinality(Vars(c) \cap m) % 2 = 1
  BY <1>2 DEF Odd
<1> HIDE DEF d
<1> QED BY <1>4, <1>5, <1>6

\* The clauses without a true literal hold.
LEMMA OpenSound ==
  ASSUME NEW V, NEW M, NEW U, NEW r \in Grown(V, M, U)
  PROVE  OpenClauses(r) \in SUBSET Proper(V, M) /\ OpenClauses(r) \in SUBSET Sound(V, M)
<1>1. {c \in r.irr : Cardinality(c) > 2} \in SUBSET Proper(V, M) /\ r.units \in SUBSET Facts(V, M)
  BY GrownFacts
<1>2. OpenClauses(r) \in SUBSET Proper(V, M)
  BY <1>1, CollectedSound DEF OpenClauses
<1> QED BY <1>2, ProperFacts

\* Large clauses that the units or the irredundant binary clauses imply may go.
LEMMA DropByBinaries ==
  ASSUME NEW V, NEW M, NEW U, NEW r \in Grown(V, M, U), NEW cs,
         \A c \in cs : Cardinality(c) # 2 /\ ByBinaries(r, c)
  PROVE  Drop(r, cs) \in Grown(V, M, r)
<1> DEFINE irr == r.irr \ cs
           red == r.red \ cs
<1>1. Drop(r, cs) = Made(r, irr, red, r.units, r.unsat)
  BY DEF Drop, Made, Grown
<1>2. BinaryClauses(r.irr) \subseteq irr
  BY DEF BinaryClauses
<1>3. ASSUME ~r.unsat, NEW m, IsModel(m, irr \cup red, r.units), NEW c \in Clauses(r)
      PROVE  Holds(m, c)
  <2>1. CASE c \in cs
    <3>1. IsModel(m, BinaryClauses(r.irr), r.units)
      <4> HIDE DEF irr, red
      <4>1. BinaryClauses(r.irr) \subseteq irr \cup red
        BY <1>2
      <4> QED BY <1>3, <4>1, MoreModels
    <3> QED BY <1>3, <2>1, <3>1 DEF ByBinaries
  <2>2. CASE c \notin cs
    BY <1>3, <2>2 DEF Clauses, IsModel
  <2> QED BY <2>1, <2>2
<1>4. irr \subseteq r.irr /\ red \subseteq r.red
  OBVIOUS
<1> HIDE DEF irr, red
<1> QED BY <1>1, <1>2, <1>3, <1>4, GrownLess

\* A satisfied clause follows from the units.
LEMMA SatisfiedByUnits ==
  ASSUME NEW r, NEW c, SatisfiedBy(r.units, c)
  PROVE  ByBinaries(r, c)
<1>1. PICK lit \in r.units : lit \in c
  BY DEF SatisfiedBy
<1> QED BY <1>1, ByUnit

\* The large clauses with a true literal go before gates are extracted.
LEMMA DropLargeKeeps ==
  ASSUME NEW V, NEW M, NEW U, NEW t \in ClosureStates(V, M, U)
  PROVE  [t EXCEPT !.s = DropSatisfiedLarge(@)] \in ClosureStates(V, M, U)
<1> DEFINE cs == {c \in t.s.irr : Cardinality(c) > 2 /\ SatisfiedBy(t.s.units, c)}
<1>1. DropSatisfiedLarge(t.s) = Drop(t.s, cs)
  BY DEF DropSatisfiedLarge
<1>2. ASSUME NEW c \in cs PROVE Cardinality(c) # 2 /\ ByBinaries(t.s, c)
  BY SatisfiedByUnits
<1> HIDE DEF cs
<1>3. Drop(t.s, cs) \in Grown(V, M, t.s)
  BY <1>2, ClosureFacts, DropByBinaries
<1>4. WithS(t, Drop(t.s, cs)) \in ClosureStates(V, M, U)
  BY <1>3, WithFacts
<1> QED BY <1>1, <1>4 DEF WithS

\* An AND gate found by find_and_gate: its clauses make its output the
\* conjunction of its inputs.
LEMMA AndGateKeeps ==
  ASSUME NEW V, NEW M, NEW U, NEW t \in ClosureStates(V, M, U), NEW c, NEW lhs \in c
  PROVE  AndGate(t, c, lhs) \in ClosureStates(V, M, U)
<1> DEFINE rhs == Negated(c \ {lhs})
           found == /\ ~t.s.unsat /\ c \in OpenClauses(t.s) /\ Cardinality(c) > 2
                    /\ \A lit \in c \ {lhs} : {-lhs, -lit} \in t.job.watched
<1>1. CASE found
  <2>1. c \in Sound(V, M) /\ c \subseteq LitsOf(V)
    BY <1>1, ClosureFacts, OpenSound, SoundFacts
  <2>2. lhs \in LitsOf(V) /\ lhs \in Lit /\ c \ {lhs} \subseteq Lit
    BY <2>1, LitsOfFacts
  <2>3. \A lit \in Lit : lit \in rhs <=> -lit \in c \ {lhs}
    BY <2>2, NegatedFacts
  <2>4. rhs \subseteq LitsOf(V)
    <3>1. rhs \subseteq Lit
      BY <2>2, NegatedFacts
    <3>2. ASSUME NEW lit \in rhs PROVE lit \in LitsOf(V)
      <4>1. -lit \in LitsOf(V) /\ lit \in Int
        BY <2>1, <2>3, <3>1, LitFacts
      <4>2. - -lit \in LitsOf(V) /\ - -lit = lit
        BY <4>1, LitsOfFacts
      <4> QED BY <4>2
    <3> QED BY <3>2
  <2>5. ASSUME NEW m \in M PROVE True(m, lhs) <=> \A lit \in rhs : True(m, lit)
    <3>1. ASSUME True(m, lhs), NEW lit \in rhs PROVE True(m, lit)
      <4>1. lit \in Lit /\ - -lit = lit
        BY <2>4, LitsOfFacts
      <4>2. -lit \in c \ {lhs}
        BY <2>3, <4>1
      <4>3. {-lhs, - -lit} \in Sound(V, M)
        BY <1>1, <4>2, ClosureFacts
      <4>4. True(m, -lhs) \/ True(m, - -lit)
        BY <4>3 DEF Sound, Holds
      <4>5. ~True(m, -lhs)
        BY <2>2, <3>1, TrueNegated
      <4> QED BY <4>1, <4>4, <4>5
    <3>2. ASSUME ~True(m, lhs) PROVE \E lit \in rhs : ~True(m, lit)
      <4>1. PICK l \in c : True(m, l)
        BY <2>1 DEF Sound, Holds
      <4>2. l \in Lit /\ -l \in Lit /\ - -l = l
        BY <2>1, LitsOfFacts, LitFacts
      <4>3. l \in c \ {lhs}
        BY <3>2, <4>1
      <4>4. -l \in rhs
        BY <2>3, <4>2, <4>3
      <4>5. ~True(m, -l)
        BY <4>1, <4>2, TrueNegated
      <4> QED BY <4>4, <4>5
    <3> QED BY <3>1, <3>2
  <2>6. AndOf(lhs, rhs, V, M)
    <3> HIDE DEF rhs
    <3> QED BY <2>2, <2>4, <2>5 DEF AndOf
  <2>7. AndGate(t, c, lhs) = IndexGate(t, And(lhs, rhs))
    BY <1>1 DEF AndGate
  <2> HIDE DEF rhs
  <2> QED BY <2>6, <2>7, AndMade, IndexGateKeeps
<1>2. CASE ~found
  BY <1>2 DEF AndGate
<1> QED BY <1>1, <1>2

\* An XOR gate found by extract_xor_gates: with all clauses of one parity held,
\* its output is the parity of the other variables.
LEMMA XorGateKeeps ==
  ASSUME NEW V, NEW M, NEW U, NEW t \in ClosureStates(V, M, U), NEW c, NEW v \in Vars(c),
         Sides(c) \subseteq Sound(V, M)
  PROVE  XorGate(t, c, v) \in ClosureStates(V, M, U)
<1> DEFINE rhs == Vars(c) \ {v}
           lhs == IF Odd(c) THEN v ELSE -v
<1>1. CASE ~t.s.unsat /\ c \in OpenClauses(t.s)
  <2>1. c \in Proper(V, M)
    BY <1>1, ClosureFacts, OpenSound
  <2>2. c \subseteq LitsOf(V) /\ c \subseteq Lit
    BY <1>1, ClosureFacts, OpenSound, SoundFacts, LitsOfFacts
  <2>3. Vars(c) \subseteq Var /\ IsFiniteSet(Vars(c))
    BY <2>2, VarsFacts
  <2>4. ASSUME NEW u \in Vars(c) PROVE u \in LitsOf(V) /\ -u \in LitsOf(V)
    <3>1. u \in Var /\ VarOf(u) = u /\ u \in Lit
      BY <2>3, VarFacts
    <3>2. u \in V
      BY <2>2 DEF Vars, LitsOf
    <3>3. u \in LitsOf(V)
      BY <3>1, <3>2 DEF LitsOf
    <3> QED BY <3>3, LitsOfFacts
  <2>5. rhs \subseteq LitsOf(V) /\ rhs \subseteq Var /\ lhs \in LitsOf(V)
    BY <2>3, <2>4
  <2>6. ASSUME NEW m \in M
        PROVE  True(m, lhs) <=> Cardinality({lit \in rhs : True(m, lit)}) % 2 = 1
    <3> DEFINE n == Cardinality(rhs \cap m)
               k == Cardinality(Vars(c) \cap m)
    <3>1. {lit \in rhs : True(m, lit)} = rhs \cap m
      BY <2>5, TrueVars
    <3>2. Odd(c) <=> ~(k % 2 = 1)
      BY <2>1, SidesParity
    <3>3. v \in Lit /\ v > 0
      BY <2>3, VarFacts
    <3>4. (True(m, v) <=> v \in m) /\ (True(m, -v) <=> v \notin m)
      BY <3>3, TrueNegated DEF True
    <3>5. IsFiniteSet(rhs \cap m) /\ n \in Nat
      BY <2>3, FS_Subset, FS_CardinalityType
    <3>6. k = IF v \in m THEN n + 1 ELSE n
      <4>1. CASE v \in m
        <5>1. Vars(c) \cap m = (rhs \cap m) \cup {v} /\ v \notin rhs \cap m
          BY <4>1
        <5> HIDE DEF rhs
        <5> QED BY <3>5, <4>1, <5>1, OnePlus
      <4>2. CASE v \notin m
        <5>1. Vars(c) \cap m = rhs \cap m
          BY <4>2
        <5> QED BY <4>2, <5>1
      <4> QED BY <4>1, <4>2
    <3> HIDE DEF n, k, rhs
    <3>7. True(m, lhs) <=> n % 2 = 1
      BY <3>2, <3>4, <3>5, <3>6
    <3> QED BY <3>1, <3>7 DEF n
  <2>7. XorGate(t, c, v) = IndexGate(t, Xor(lhs, rhs))
    BY <1>1 DEF XorGate
  <2> HIDE DEF rhs, lhs
  <2>8. Xor(lhs, rhs) \in GateSet(V, M)
    BY <2>5, <2>6, XorMade
  <2> QED BY <2>7, <2>8, IndexGateKeeps
<1>2. CASE t.s.unsat \/ c \notin OpenClauses(t.s)
  BY <1>2 DEF XorGate
<1> QED BY <1>1, <1>2

\* The output and the branch of a conditional equivalence.
LEMMA ConditionalSound ==
  ASSUME NEW V, NEW M, NEW U, NEW r \in Grown(V, M, U), NEW cond \in Lit, NEW lhs, NEW branch,
         << lhs, branch >> \in ConditionalEquivalences(r, cond)
  PROVE  /\ lhs \in LitsOf(V) /\ branch \in LitsOf(V) /\ cond \in LitsOf(V)
         /\ branch # -lhs /\ \A m \in M : True(m, cond) => (True(m, lhs) <=> True(m, branch))
<1>1. /\ lhs \in Var /\ branch \in Lit /\ Cardinality({lhs, VarOf(branch), VarOf(cond)}) = 3
      /\ {-cond, -lhs, branch} \in OpenClauses(r) /\ {-cond, lhs, -branch} \in OpenClauses(r)
  BY DEF ConditionalEquivalences
<1>2. {-cond, -lhs, branch} \in Sound(V, M) /\ {-cond, lhs, -branch} \in Sound(V, M)
  BY <1>1, OpenSound
<1>3. lhs \in LitsOf(V) /\ branch \in LitsOf(V) /\ -cond \in LitsOf(V)
  BY <1>2, SoundFacts
<1>4. cond \in LitsOf(V) /\ lhs \in Lit
  <2>1. - -cond \in LitsOf(V) /\ - -cond = cond
    BY <1>3, LitsOfFacts, LitFacts
  <2> QED BY <1>3, <2>1, LitsOfFacts
<1>5. branch # -lhs
  <2>1. ASSUME branch = -lhs PROVE FALSE
    <3>1. VarOf(branch) = lhs
      BY <1>1, <2>1, VarFacts
    <3>2. {lhs, VarOf(branch), VarOf(cond)} = {lhs, VarOf(cond)}
      BY <3>1
    <3>3. lhs = VarOf(cond) => {lhs, VarOf(cond)} = {lhs}
      OBVIOUS
    <3>4. Cardinality({lhs, VarOf(cond)}) \in {1, 2}
      BY <3>3, FS_Singleton, PairCardinality
    <3> QED BY <1>1, <3>2, <3>4
  <2> QED BY <2>1
<1>6. ASSUME NEW m \in M, True(m, cond) PROVE True(m, lhs) <=> True(m, branch)
  <2>1. (True(m, -cond) \/ True(m, -lhs) \/ True(m, branch))
        /\ (True(m, -cond) \/ True(m, lhs) \/ True(m, -branch))
    BY <1>2 DEF Sound, Holds
  <2>2. /\ ~True(m, -cond) /\ (True(m, -lhs) <=> ~True(m, lhs))
        /\ (True(m, -branch) <=> ~True(m, branch))
    BY <1>1, <1>4, <1>6, TrueNegated
  <2> QED BY <2>1, <2>2
<1> QED BY <1>3, <1>4, <1>5, <1>6

\* An ITE gate made of two conditional equivalences.
LEMMA IteGateKeeps ==
  ASSUME NEW V, NEW M, NEW U, NEW t \in ClosureStates(V, M, U), NEW p, p.cond \in Lit
  PROVE  IteGate(t, p) \in ClosureStates(V, M, U)
<1> DEFINE found == /\ ~t.s.unsat /\ Active(t.s, p.cond)
                    /\ << p.lhs, p.then >> \in ConditionalEquivalences(t.s, p.cond)
                    /\ << p.lhs, p.else >> \in ConditionalEquivalences(t.s, -p.cond)
           lhs == p.lhs
           c == p.cond
           a == p.then
           b == p.else
<1>1. CASE found
  <2>1. /\ lhs \in LitsOf(V) /\ a \in LitsOf(V) /\ c \in LitsOf(V) /\ a # -lhs
        /\ \A m \in M : True(m, c) => (True(m, lhs) <=> True(m, a))
    BY <1>1, ClosureFacts, ConditionalSound
  <2>2. -c \in Lit
    BY LitFacts
  <2>3. /\ b \in LitsOf(V) /\ b # -lhs
        /\ \A m \in M : True(m, -c) => (True(m, lhs) <=> True(m, b))
    BY <1>1, <2>2, ClosureFacts, ConditionalSound
  <2>4. \A m \in M : True(m, -c) <=> ~True(m, c)
    BY TrueNegated
  <2>5. IteGood(lhs, c, a, b, V, M)
    <3> HIDE DEF lhs, c, a, b
    <3> QED BY <2>1, <2>3, <2>4 DEF IteGood, IteOf
  <2>6. IteGate(t, p) = IF b = -a THEN t ELSE IF b = a THEN merge_literals(t, lhs, a)
                        ELSE IndexGate(t, NormalIte(lhs, <<c, a, b>>))
    BY <1>1 DEF IteGate, new_ite_gate
  <2> HIDE DEF lhs, c, a, b
  <2>7. b = a => Equal(lhs, a, V, M)
    BY <2>5, IteCases DEF IteGood
  <2>8. b = a => merge_literals(t, lhs, a) \in ClosureStates(V, M, U)
    BY <2>7, MergeKeeps
  <2>9. IndexGate(t, NormalIte(lhs, <<c, a, b>>)) \in ClosureStates(V, M, U)
    BY <2>5, NormalIteMade, IndexGateKeeps
  <2> QED BY <2>6, <2>8, <2>9
<1>2. CASE ~found
  BY <1>2 DEF IteGate
<1> QED BY <1>1, <1>2

\* extract_and_gates
LEMMA ExtractAndKeeps ==
  ASSUME NEW V, NEW M, NEW U, NEW t \in ClosureStates(V, M, U)
  PROVE  extract_and_gates(t) \in ClosureStates(V, M, U)
<1> DEFINE S == {p \in OpenClauses(t.s) \X Lit : p[2] \in p[1]}
           base == [t EXCEPT !.s = DropSatisfiedLarge(@)]
           A(T) == ClosureStates(V, M, U)
           pick(T) == CHOOSE e \in T : TRUE
           Op(a, x) == AndGate(a, x[1], x[2])
           first == [T \in SUBSET S |-> pick(T)]
           sets == [T \in SUBSET S |-> A(T)]
           step == [x \in S |-> [a \in UNION {A(T) : T \in SUBSET S} |-> Op(a, x)]]
           body(g, T) == IF T = {} THEN base
                         ELSE Op(g[T \ {pick(T)}], pick(T))
           Is(g) == g = [T \in SUBSET S |-> body(g, T)]
<1>1. IsFiniteSet(S)
  <2>1. IsFiniteSet(OpenClauses(t.s)) /\ IsFiniteSet(Lit)
    BY ClosureFacts, OpenSound, ClausesFinite, LitsFinite
  <2>2. IsFiniteSet((OpenClauses(t.s)) \X (Lit))
    BY <2>1, FS_Product
  <2> QED BY <2>2, FS_Subset
<1>2. ASSUME NEW T \in SUBSET S, T # {} PROVE pick(T) \in T
  BY <1>2
<1>3. base \in A({})
  BY DropLargeKeeps
<1>4. ASSUME NEW T \in SUBSET S, NEW x \in T, NEW a \in A(T \ {x}) PROVE Op(a, x) \in A(T)
  BY AndGateKeeps
<1>5. extract_and_gates(t) = (CHOOSE g : Is(g))[S]
  BY DEF extract_and_gates, Op, FoldSet, MapThenFoldSet
<1> HIDE DEF A, Op, pick, S, base
<1>6. Picks(first, S)
  BY <1>2 DEF Picks
<1>7. ASSUME NEW T \in SUBSET S, T # {}
      PROVE  /\ first[T] = pick(T) /\ pick(T) \in T /\ pick(T) \in S
             /\ T \ {pick(T)} \in SUBSET S
             /\ \A a \in A(T \ {pick(T)}) :
                  step[pick(T)][a] = Op(a, pick(T)) /\ Op(a, pick(T)) \in A(T)
  <2>1. pick(T) \in T
    BY <1>2, <1>7
  <2>2. ASSUME NEW a \in A(T \ {pick(T)}) PROVE Op(a, pick(T)) \in A(T)
    BY <1>4, <2>1
  <2> QED BY <2>1, <2>2
<1>8. base \in sets[{}] /\ \A T \in SUBSET S : sets[T] = A(T)
  BY <1>3
<1>9. PICK g : FoldsIn(g, S, base, first, step, sets)
  <2>1. ASSUME NEW T \in SUBSET S, T # {}, NEW a \in sets[T \ {first[T]}]
        PROVE  step[first[T]][a] \in sets[T]
    <3> HIDE DEF step, first, sets
    <3>1. first[T] = pick(T) /\ T \ {pick(T)} \in SUBSET S
      BY <1>7, <2>1
    <3>2. a \in A(T \ {pick(T)})
      BY <1>8, <2>1, <3>1
    <3> QED BY <1>7, <1>8, <2>1, <3>1, <3>2
  <2> HIDE DEF step, first, sets
  <2>2. StaysIn(S, first, step, sets)
    BY <2>1 DEF StaysIn
  <2>3. base \in sets[{}]
    BY <1>8
  <2> QED BY <1>1, <1>6, <2>2, <2>3, FoldExists
<1>10. ASSUME NEW T \in SUBSET S PROVE g[T] = body(g, T)
  <2>1. CASE T = {}
    BY <1>9, <2>1 DEF Folds, FoldsIn
  <2>2. CASE T # {}
    <3>1. g[T] = step[first[T]][g[T \ {first[T]}]]
      <4> HIDE DEF step, first
      <4> QED BY <1>9, <2>2 DEF Folds, FoldsIn
    <3>2. g[T \ {pick(T)}] \in A(T \ {pick(T)})
      BY <1>7, <1>8, <1>9, <2>2 DEF FoldsIn
    <3> HIDE DEF step, first
    <3> QED BY <1>7, <2>2, <3>1, <3>2
  <2> QED BY <2>1, <2>2
<1>11. Is(g)
  <2>1. g = [T \in SUBSET S |-> g[T]]
    BY <1>9 DEF FoldsIn
  <2> HIDE DEF body
  <2> QED BY <1>10, <2>1
<1>12. Is(CHOOSE h : Is(h))
  <2> HIDE DEF Is
  <2> QED BY <1>11
<1>13. ASSUME NEW h, Is(h) PROVE h[S] \in A(S)
  <2> DEFINE Q == {T \in SUBSET S : h[T] \in A(T)}
  <2>1. \A T \in SUBSET S : h[T] = body(h, T)
    BY <1>13
  <2>2. {} \in Q
    BY <1>3, <2>1
  <2>3. ASSUME NEW T \in SUBSET S, T # {}, T \ {first[T]} \in Q PROVE T \in Q
    <3>1. h[T] = Op(h[T \ {pick(T)}], pick(T))
      BY <2>1, <2>3
    <3>2. h[T \ {pick(T)}] \in A(T \ {pick(T)})
      <4> HIDE DEF first
      <4> QED BY <1>7, <2>3
    <3> HIDE DEF first
    <3> QED BY <1>7, <2>3, <3>1, <3>2
  <2>4. SUBSET S \subseteq Q
    <3> HIDE DEF Q, first
    <3> QED BY <1>1, <1>6, <2>2, <2>3, FoldInduction
  <2> QED BY <2>4
<1>14. extract_and_gates(t) \in A(S)
  <2> HIDE DEF Is
  <2> QED BY <1>5, <1>12, <1>13
<1> QED BY <1>14 DEF A

\* extract_xor_gates
LEMMA ExtractXorKeeps ==
  ASSUME NEW V, NEW M, NEW U, NEW t \in ClosureStates(V, M, U)
  PROVE  extract_xor_gates(t) \in ClosureStates(V, M, U)
<1> DEFINE S == {p \in XorBases(t.s) \X Var : p[2] \in Vars(p[1])}
           base == [t EXCEPT !.s = DropSatisfiedLarge(@)]
           A(T) == ClosureStates(V, M, U)
           pick(T) == CHOOSE e \in T : TRUE
           Op(a, x) == XorGate(a, x[1], x[2])
           first == [T \in SUBSET S |-> pick(T)]
           sets == [T \in SUBSET S |-> A(T)]
           step == [x \in S |-> [a \in UNION {A(T) : T \in SUBSET S} |-> Op(a, x)]]
           body(g, T) == IF T = {} THEN base
                         ELSE Op(g[T \ {pick(T)}], pick(T))
           Is(g) == g = [T \in SUBSET S |-> body(g, T)]
<1>1. IsFiniteSet(S)
  <2>1. IsFiniteSet(OpenClauses(t.s)) /\ IsFiniteSet(Var)
    BY ClosureFacts, OpenSound, ClausesFinite, LitsFinite
  <2>2. XorBases(t.s) \subseteq OpenClauses(t.s)
    BY DEF XorBases
  <2>3. IsFiniteSet(XorBases(t.s))
    BY <2>1, <2>2, FS_Subset
  <2>4. IsFiniteSet(XorBases(t.s) \X Var)
    BY <2>1, <2>3, FS_Product
  <2> QED BY <2>4, FS_Subset
<1>2. ASSUME NEW T \in SUBSET S, T # {} PROVE pick(T) \in T
  BY <1>2
<1>3. base \in A({})
  BY DropLargeKeeps
<1>4. ASSUME NEW T \in SUBSET S, NEW x \in T, NEW a \in A(T \ {x}) PROVE Op(a, x) \in A(T)
  <2>1. x[1] \in XorBases(t.s) /\ x[2] \in Vars(x[1])
    OBVIOUS
  <2>2. Sides(x[1]) \subseteq Sound(V, M)
    BY <2>1, ClosureFacts, OpenSound DEF XorBases
  <2> QED BY <2>1, <2>2, XorGateKeeps
<1>5. extract_xor_gates(t) = (CHOOSE g : Is(g))[S]
  BY DEF extract_xor_gates, Op, FoldSet, MapThenFoldSet
<1> HIDE DEF A, Op, pick, S, base
<1>6. Picks(first, S)
  BY <1>2 DEF Picks
<1>7. ASSUME NEW T \in SUBSET S, T # {}
      PROVE  /\ first[T] = pick(T) /\ pick(T) \in T /\ pick(T) \in S
             /\ T \ {pick(T)} \in SUBSET S
             /\ \A a \in A(T \ {pick(T)}) :
                  step[pick(T)][a] = Op(a, pick(T)) /\ Op(a, pick(T)) \in A(T)
  <2>1. pick(T) \in T
    BY <1>2, <1>7
  <2>2. ASSUME NEW a \in A(T \ {pick(T)}) PROVE Op(a, pick(T)) \in A(T)
    BY <1>4, <2>1
  <2> QED BY <2>1, <2>2
<1>8. base \in sets[{}] /\ \A T \in SUBSET S : sets[T] = A(T)
  BY <1>3
<1>9. PICK g : FoldsIn(g, S, base, first, step, sets)
  <2>1. ASSUME NEW T \in SUBSET S, T # {}, NEW a \in sets[T \ {first[T]}]
        PROVE  step[first[T]][a] \in sets[T]
    <3> HIDE DEF step, first, sets
    <3>1. first[T] = pick(T) /\ T \ {pick(T)} \in SUBSET S
      BY <1>7, <2>1
    <3>2. a \in A(T \ {pick(T)})
      BY <1>8, <2>1, <3>1
    <3> QED BY <1>7, <1>8, <2>1, <3>1, <3>2
  <2> HIDE DEF step, first, sets
  <2>2. StaysIn(S, first, step, sets)
    BY <2>1 DEF StaysIn
  <2>3. base \in sets[{}]
    BY <1>8
  <2> QED BY <1>1, <1>6, <2>2, <2>3, FoldExists
<1>10. ASSUME NEW T \in SUBSET S PROVE g[T] = body(g, T)
  <2>1. CASE T = {}
    BY <1>9, <2>1 DEF Folds, FoldsIn
  <2>2. CASE T # {}
    <3>1. g[T] = step[first[T]][g[T \ {first[T]}]]
      <4> HIDE DEF step, first
      <4> QED BY <1>9, <2>2 DEF Folds, FoldsIn
    <3>2. g[T \ {pick(T)}] \in A(T \ {pick(T)})
      BY <1>7, <1>8, <1>9, <2>2 DEF FoldsIn
    <3> HIDE DEF step, first
    <3> QED BY <1>7, <2>2, <3>1, <3>2
  <2> QED BY <2>1, <2>2
<1>11. Is(g)
  <2>1. g = [T \in SUBSET S |-> g[T]]
    BY <1>9 DEF FoldsIn
  <2> HIDE DEF body
  <2> QED BY <1>10, <2>1
<1>12. Is(CHOOSE h : Is(h))
  <2> HIDE DEF Is
  <2> QED BY <1>11
<1>13. ASSUME NEW h, Is(h) PROVE h[S] \in A(S)
  <2> DEFINE Q == {T \in SUBSET S : h[T] \in A(T)}
  <2>1. \A T \in SUBSET S : h[T] = body(h, T)
    BY <1>13
  <2>2. {} \in Q
    BY <1>3, <2>1
  <2>3. ASSUME NEW T \in SUBSET S, T # {}, T \ {first[T]} \in Q PROVE T \in Q
    <3>1. h[T] = Op(h[T \ {pick(T)}], pick(T))
      BY <2>1, <2>3
    <3>2. h[T \ {pick(T)}] \in A(T \ {pick(T)})
      <4> HIDE DEF first
      <4> QED BY <1>7, <2>3
    <3> HIDE DEF first
    <3> QED BY <1>7, <2>3, <3>1, <3>2
  <2>4. SUBSET S \subseteq Q
    <3> HIDE DEF Q, first
    <3> QED BY <1>1, <1>6, <2>2, <2>3, FoldInduction
  <2> QED BY <2>4
<1>14. extract_xor_gates(t) \in A(S)
  <2> HIDE DEF Is
  <2> QED BY <1>5, <1>12, <1>13
<1> QED BY <1>14 DEF A

\* The candidates for ITE gates.
IteBases(r, cond) ==
  {[cond |-> cond, lhs |-> p[1][1], then |-> p[1][2], else |-> p[2][2]] :
     p \in {q \in ConditionalEquivalences(r, cond) \X ConditionalEquivalences(r, -cond) :
              q[1][1] = q[2][1]}}

\* There are finitely many candidates for ITE gates.
LEMMA IteBasesFinite ==
  ASSUME NEW r
  PROVE  /\ IsFiniteSet(UNION {IteBases(r, cond) : cond \in Actives(r)})
         /\ \A p \in UNION {IteBases(r, cond) : cond \in Actives(r)} : p.cond \in Lit
<1> DEFINE S == UNION {IteBases(r, cond) : cond \in Actives(r)}
           P == (Lit \X Lit) \X (Lit \X Lit)
           f == [q \in P |-> [cond |-> q[1][1], lhs |-> q[1][2], then |-> q[2][1], else |-> q[2][2]]]
           T == {q \in P : f[q] \in S}
           g == [q \in T |-> f[q]]
<1>1. Var \subseteq Lit
  BY VarFacts
<1>2. IsFiniteSet(P)
  <2>1. IsFiniteSet(Lit \X Lit)
    BY LitsFinite, FS_Product
  <2> QED BY <2>1, FS_Product
<1>3. IsFiniteSet(T)
  BY <1>2, FS_Subset
<1>4. ASSUME NEW p \in S PROVE p.cond \in Lit /\ \E q \in P : f[q] = p
  <2>1. PICK cond \in Actives(r) : p \in IteBases(r, cond)
    OBVIOUS
  <2>2. PICK q \in ConditionalEquivalences(r, cond) \X ConditionalEquivalences(r, -cond) :
          p = [cond |-> cond, lhs |-> q[1][1], then |-> q[1][2], else |-> q[2][2]]
    BY <2>1 DEF IteBases
  <2>3. q[1] \in Var \X Lit /\ q[2] \in Var \X Lit
    BY <2>2 DEF ConditionalEquivalences
  <2>4. cond \in Lit /\ q[1][1] \in Lit /\ q[1][2] \in Lit /\ q[2][2] \in Lit
    BY <1>1, <2>3 DEF Actives
  <2> DEFINE z == << <<cond, q[1][1]>>, <<q[1][2], q[2][2]>> >>
  <2>5. z \in P
    BY <2>4
  <2>6. f[z] = p
    BY <2>2, <2>5
  <2> QED BY <2>2, <2>4, <2>5, <2>6
<1>5. g \in Surjection(T, S)
  <2>1. g \in [T -> S]
    OBVIOUS
  <2>2. ASSUME NEW p \in S PROVE \E q \in T : g[q] = p
    <3>1. PICK q \in P : f[q] = p
      BY <1>4
    <3> HIDE DEF f, P, S
    <3>2. q \in T
      BY <3>1
    <3> QED BY <3>1, <3>2
  <2> HIDE DEF g, T, S
  <2> QED BY <2>1, <2>2 DEF Surjection
<1> HIDE DEF g, T, S, f, P
<1>6. IsFiniteSet(S)
  BY <1>3, <1>5, FS_Surjection
<1>7. \A p \in S : p.cond \in Lit
  BY <1>4
<1> QED BY <1>6, <1>7 DEF S

\* extract_ite_gates
LEMMA ExtractIteKeeps ==
  ASSUME NEW V, NEW M, NEW U, NEW t \in ClosureStates(V, M, U)
  PROVE  extract_ite_gates(t) \in ClosureStates(V, M, U)
<1> DEFINE S == UNION {IteBases(t.s, cond) : cond \in Actives(t.s)}
           base == [t EXCEPT !.s = DropSatisfiedLarge(@)]
           A(T) == ClosureStates(V, M, U)
           pick(T) == CHOOSE e \in T : TRUE
           Op(a, x) == IteGate(a, x)
           first == [T \in SUBSET S |-> pick(T)]
           sets == [T \in SUBSET S |-> A(T)]
           step == [x \in S |-> [a \in UNION {A(T) : T \in SUBSET S} |-> Op(a, x)]]
           body(g, T) == IF T = {} THEN base
                         ELSE Op(g[T \ {pick(T)}], pick(T))
           Is(g) == g = [T \in SUBSET S |-> body(g, T)]
<1>1. IsFiniteSet(S)
  BY IteBasesFinite
<1>2. ASSUME NEW T \in SUBSET S, T # {} PROVE pick(T) \in T
  BY <1>2
<1>3. base \in A({})
  BY DropLargeKeeps
<1>4. ASSUME NEW T \in SUBSET S, NEW x \in T, NEW a \in A(T \ {x}) PROVE Op(a, x) \in A(T)
  BY IteBasesFinite, IteGateKeeps
<1>5. extract_ite_gates(t) = (CHOOSE g : Is(g))[S]
  BY DEF extract_ite_gates, Op, FoldSet, MapThenFoldSet, IteBases
<1> HIDE DEF A, Op, pick, S, base
<1>6. Picks(first, S)
  BY <1>2 DEF Picks
<1>7. ASSUME NEW T \in SUBSET S, T # {}
      PROVE  /\ first[T] = pick(T) /\ pick(T) \in T /\ pick(T) \in S
             /\ T \ {pick(T)} \in SUBSET S
             /\ \A a \in A(T \ {pick(T)}) :
                  step[pick(T)][a] = Op(a, pick(T)) /\ Op(a, pick(T)) \in A(T)
  <2>1. pick(T) \in T
    BY <1>2, <1>7
  <2>2. ASSUME NEW a \in A(T \ {pick(T)}) PROVE Op(a, pick(T)) \in A(T)
    BY <1>4, <2>1
  <2> QED BY <2>1, <2>2
<1>8. base \in sets[{}] /\ \A T \in SUBSET S : sets[T] = A(T)
  BY <1>3
<1>9. PICK g : FoldsIn(g, S, base, first, step, sets)
  <2>1. ASSUME NEW T \in SUBSET S, T # {}, NEW a \in sets[T \ {first[T]}]
        PROVE  step[first[T]][a] \in sets[T]
    <3> HIDE DEF step, first, sets
    <3>1. first[T] = pick(T) /\ T \ {pick(T)} \in SUBSET S
      BY <1>7, <2>1
    <3>2. a \in A(T \ {pick(T)})
      BY <1>8, <2>1, <3>1
    <3> QED BY <1>7, <1>8, <2>1, <3>1, <3>2
  <2> HIDE DEF step, first, sets
  <2>2. StaysIn(S, first, step, sets)
    BY <2>1 DEF StaysIn
  <2>3. base \in sets[{}]
    BY <1>8
  <2> QED BY <1>1, <1>6, <2>2, <2>3, FoldExists
<1>10. ASSUME NEW T \in SUBSET S PROVE g[T] = body(g, T)
  <2>1. CASE T = {}
    BY <1>9, <2>1 DEF Folds, FoldsIn
  <2>2. CASE T # {}
    <3>1. g[T] = step[first[T]][g[T \ {first[T]}]]
      <4> HIDE DEF step, first
      <4> QED BY <1>9, <2>2 DEF Folds, FoldsIn
    <3>2. g[T \ {pick(T)}] \in A(T \ {pick(T)})
      BY <1>7, <1>8, <1>9, <2>2 DEF FoldsIn
    <3> HIDE DEF step, first
    <3> QED BY <1>7, <2>2, <3>1, <3>2
  <2> QED BY <2>1, <2>2
<1>11. Is(g)
  <2>1. g = [T \in SUBSET S |-> g[T]]
    BY <1>9 DEF FoldsIn
  <2> HIDE DEF body
  <2> QED BY <1>10, <2>1
<1>12. Is(CHOOSE h : Is(h))
  <2> HIDE DEF Is
  <2> QED BY <1>11
<1>13. ASSUME NEW h, Is(h) PROVE h[S] \in A(S)
  <2> DEFINE Q == {T \in SUBSET S : h[T] \in A(T)}
  <2>1. \A T \in SUBSET S : h[T] = body(h, T)
    BY <1>13
  <2>2. {} \in Q
    BY <1>3, <2>1
  <2>3. ASSUME NEW T \in SUBSET S, T # {}, T \ {first[T]} \in Q PROVE T \in Q
    <3>1. h[T] = Op(h[T \ {pick(T)}], pick(T))
      BY <2>1, <2>3
    <3>2. h[T \ {pick(T)}] \in A(T \ {pick(T)})
      <4> HIDE DEF first
      <4> QED BY <1>7, <2>3
    <3> HIDE DEF first
    <3> QED BY <1>7, <2>3, <3>1, <3>2
  <2>4. SUBSET S \subseteq Q
    <3> HIDE DEF Q, first
    <3> QED BY <1>1, <1>6, <2>2, <2>3, FoldInduction
  <2> QED BY <2>4
<1>14. extract_ite_gates(t) \in A(S)
  <2> HIDE DEF Is
  <2> QED BY <1>5, <1>12, <1>13
<1> QED BY <1>14 DEF A

\* The literals that find_units learns hold.
LEMMA ClosureHyperUnary ==
  ASSUME NEW V, NEW M, NEW U, NEW t \in ClosureStates(V, M, U)
  PROVE  HyperUnary(t.s) \in SUBSET Facts(V, M)
<1>1. /\ Bare(t.s) \in Databases(V, M) /\ Bare(t.s).units = t.s.units
      /\ Bare(t.s).status = t.s.status /\ Clauses(Bare(t.s)) = Clauses(t.s)
  BY ClosureFacts, BareFacts
<1>2. HyperUnary(Bare(t.s)) = HyperUnary(t.s)
  BY <1>1 DEF HyperUnary, Active, Fixed
<1> QED BY <1>1, <1>2, HyperUnarySound

\* find_units learns only literals that hold.
LEMMA FindUnitsKeeps ==
  ASSUME NEW V, NEW M, NEW U, NEW t \in ClosureStates(V, M, U)
  PROVE  find_units(t) \in ClosureStates(V, M, U)
<1> DEFINE S == HyperUnary(t.s)
           base == t
           A(T) == ClosureStates(V, M, U)
           pick(T) == CHOOSE e \in T : TRUE
           Op(a, x) == learn_congruence_unit(a, x)
           first == [T \in SUBSET S |-> pick(T)]
           sets == [T \in SUBSET S |-> A(T)]
           step == [x \in S |-> [a \in UNION {A(T) : T \in SUBSET S} |-> Op(a, x)]]
           body(g, T) == IF T = {} THEN base
                         ELSE Op(g[T \ {pick(T)}], pick(T))
           Is(g) == g = [T \in SUBSET S |-> body(g, T)]
<1>1. IsFiniteSet(S)
  BY ClosureHyperUnary, ClausesFinite
<1>2. ASSUME NEW T \in SUBSET S, T # {} PROVE pick(T) \in T
  BY <1>2
<1>3. base \in A({})
  OBVIOUS
<1>4. ASSUME NEW T \in SUBSET S, NEW x \in T, NEW a \in A(T \ {x}) PROVE Op(a, x) \in A(T)
  <2>1. x \in Facts(V, M)
    BY ClosureHyperUnary
  <2> QED BY <2>1, LearnKeeps
<1>5. find_units(t) = (CHOOSE g : Is(g))[S]
  BY DEF find_units, Op, FoldSet, MapThenFoldSet
<1> HIDE DEF A, Op, pick, S, base
<1>6. Picks(first, S)
  BY <1>2 DEF Picks
<1>7. ASSUME NEW T \in SUBSET S, T # {}
      PROVE  /\ first[T] = pick(T) /\ pick(T) \in T /\ pick(T) \in S
             /\ T \ {pick(T)} \in SUBSET S
             /\ \A a \in A(T \ {pick(T)}) :
                  step[pick(T)][a] = Op(a, pick(T)) /\ Op(a, pick(T)) \in A(T)
  <2>1. pick(T) \in T
    BY <1>2, <1>7
  <2>2. ASSUME NEW a \in A(T \ {pick(T)}) PROVE Op(a, pick(T)) \in A(T)
    BY <1>4, <2>1
  <2> QED BY <2>1, <2>2
<1>8. base \in sets[{}] /\ \A T \in SUBSET S : sets[T] = A(T)
  BY <1>3
<1>9. PICK g : FoldsIn(g, S, base, first, step, sets)
  <2>1. ASSUME NEW T \in SUBSET S, T # {}, NEW a \in sets[T \ {first[T]}]
        PROVE  step[first[T]][a] \in sets[T]
    <3> HIDE DEF step, first, sets
    <3>1. first[T] = pick(T) /\ T \ {pick(T)} \in SUBSET S
      BY <1>7, <2>1
    <3>2. a \in A(T \ {pick(T)})
      BY <1>8, <2>1, <3>1
    <3> QED BY <1>7, <1>8, <2>1, <3>1, <3>2
  <2> HIDE DEF step, first, sets
  <2>2. StaysIn(S, first, step, sets)
    BY <2>1 DEF StaysIn
  <2>3. base \in sets[{}]
    BY <1>8
  <2> QED BY <1>1, <1>6, <2>2, <2>3, FoldExists
<1>10. ASSUME NEW T \in SUBSET S PROVE g[T] = body(g, T)
  <2>1. CASE T = {}
    BY <1>9, <2>1 DEF Folds, FoldsIn
  <2>2. CASE T # {}
    <3>1. g[T] = step[first[T]][g[T \ {first[T]}]]
      <4> HIDE DEF step, first
      <4> QED BY <1>9, <2>2 DEF Folds, FoldsIn
    <3>2. g[T \ {pick(T)}] \in A(T \ {pick(T)})
      BY <1>7, <1>8, <1>9, <2>2 DEF FoldsIn
    <3> HIDE DEF step, first
    <3> QED BY <1>7, <2>2, <3>1, <3>2
  <2> QED BY <2>1, <2>2
<1>11. Is(g)
  <2>1. g = [T \in SUBSET S |-> g[T]]
    BY <1>9 DEF FoldsIn
  <2> HIDE DEF body
  <2> QED BY <1>10, <2>1
<1>12. Is(CHOOSE h : Is(h))
  <2> HIDE DEF Is
  <2> QED BY <1>11
<1>13. ASSUME NEW h, Is(h) PROVE h[S] \in A(S)
  <2> DEFINE Q == {T \in SUBSET S : h[T] \in A(T)}
  <2>1. \A T \in SUBSET S : h[T] = body(h, T)
    BY <1>13
  <2>2. {} \in Q
    BY <1>3, <2>1
  <2>3. ASSUME NEW T \in SUBSET S, T # {}, T \ {first[T]} \in Q PROVE T \in Q
    <3>1. h[T] = Op(h[T \ {pick(T)}], pick(T))
      BY <2>1, <2>3
    <3>2. h[T \ {pick(T)}] \in A(T \ {pick(T)})
      <4> HIDE DEF first
      <4> QED BY <1>7, <2>3
    <3> HIDE DEF first
    <3> QED BY <1>7, <2>3, <3>1, <3>2
  <2>4. SUBSET S \subseteq Q
    <3> HIDE DEF Q, first
    <3> QED BY <1>1, <1>6, <2>2, <2>3, FoldInduction
  <2> QED BY <2>4
<1>14. find_units(t) \in A(S)
  <2> HIDE DEF Is
  <2> QED BY <1>5, <1>12, <1>13
<1> QED BY <1>14 DEF A

\* Both clauses of an equivalence.
LEMMA BothEqual ==
  ASSUME NEW V, NEW M, NEW a, NEW b, {a, -b} \in Sound(V, M), {-a, b} \in Sound(V, M)
  PROVE  Equal(a, b, V, M)
<1>1. a \in LitsOf(V) /\ b \in LitsOf(V)
  BY SoundFacts
<1>2. a \in Lit /\ b \in Lit
  BY <1>1, LitsOfFacts
<1>3. ASSUME NEW m \in M PROVE True(m, a) <=> True(m, b)
  <2>1. (True(m, a) \/ True(m, -b)) /\ (True(m, -a) \/ True(m, b))
    BY DEF Sound, Holds
  <2>2. (True(m, -a) <=> ~True(m, a)) /\ (True(m, -b) <=> ~True(m, b))
    BY <1>2, TrueNegated
  <2> QED BY <2>1, <2>2
<1> QED BY <1>1, <1>3 DEF Equal

\* find_equivalences
LEMMA FindEquivalencesKeeps ==
  ASSUME NEW V, NEW M, NEW U, NEW t \in ClosureStates(V, M, U)
  PROVE  find_equivalences(t) \in ClosureStates(V, M, U)
<1> DEFINE S == {p \in Var \X Lit : p[1] < VarOf(p[2]) /\ {{p[1], -p[2]}, {-p[1], p[2]}} \subseteq Clauses(t.s)}
           base == t
           A(T) == ClosureStates(V, M, U)
           pick(T) == CHOOSE e \in T : TRUE
           Op(a, x) == IF a.s.unsat \/ ~Active(a.s, x[1]) \/ Repr(a, x[1]) = Repr(a, x[2]) THEN a ELSE merge_literals_equivalence(Promoted(a, x[1], x[2]), x[1], x[2])
           first == [T \in SUBSET S |-> pick(T)]
           sets == [T \in SUBSET S |-> A(T)]
           step == [x \in S |-> [a \in UNION {A(T) : T \in SUBSET S} |-> Op(a, x)]]
           body(g, T) == IF T = {} THEN base
                         ELSE Op(g[T \ {pick(T)}], pick(T))
           Is(g) == g = [T \in SUBSET S |-> body(g, T)]
<1>1. IsFiniteSet(S)
  <2>1. IsFiniteSet(Var \X Lit)
    BY LitsFinite, FS_Product
  <2> QED BY <2>1, FS_Subset
<1>2. ASSUME NEW T \in SUBSET S, T # {} PROVE pick(T) \in T
  BY <1>2
<1>3. base \in A({})
  OBVIOUS
<1>4. ASSUME NEW T \in SUBSET S, NEW x \in T, NEW a \in A(T \ {x}) PROVE Op(a, x) \in A(T)
  <2>1. {x[1], -x[2]} \in Clauses(t.s) /\ {-x[1], x[2]} \in Clauses(t.s)
    OBVIOUS
  <2>2. /\ {x[1], -x[2]} \in Proper(V, M) /\ {-x[1], x[2]} \in Proper(V, M)
        /\ {x[1], -x[2]} \in Sound(V, M) /\ {-x[1], x[2]} \in Sound(V, M)
    BY <2>1, ClosureFacts, GrownFacts, ProperFacts
  <2>3. Equal(x[1], x[2], V, M)
    BY <2>2, BothEqual
  <2>4. Promoted(a, x[1], x[2]) \in ClosureStates(V, M, U)
    BY <2>2, PromotedKeeps
  <2>5. merge_literals_equivalence(Promoted(a, x[1], x[2]), x[1], x[2]) \in ClosureStates(V, M, U)
    BY <2>2, <2>3, <2>4, MergeEquivalenceKeeps
  <2> QED BY <2>5
<1>5. find_equivalences(t) = (CHOOSE g : Is(g))[S]
  BY DEF find_equivalences, Op, FoldSet, MapThenFoldSet, Promoted
<1> HIDE DEF A, Op, pick, S, base
<1>6. Picks(first, S)
  BY <1>2 DEF Picks
<1>7. ASSUME NEW T \in SUBSET S, T # {}
      PROVE  /\ first[T] = pick(T) /\ pick(T) \in T /\ pick(T) \in S
             /\ T \ {pick(T)} \in SUBSET S
             /\ \A a \in A(T \ {pick(T)}) :
                  step[pick(T)][a] = Op(a, pick(T)) /\ Op(a, pick(T)) \in A(T)
  <2>1. pick(T) \in T
    BY <1>2, <1>7
  <2>2. ASSUME NEW a \in A(T \ {pick(T)}) PROVE Op(a, pick(T)) \in A(T)
    BY <1>4, <2>1
  <2> QED BY <2>1, <2>2
<1>8. base \in sets[{}] /\ \A T \in SUBSET S : sets[T] = A(T)
  BY <1>3
<1>9. PICK g : FoldsIn(g, S, base, first, step, sets)
  <2>1. ASSUME NEW T \in SUBSET S, T # {}, NEW a \in sets[T \ {first[T]}]
        PROVE  step[first[T]][a] \in sets[T]
    <3> HIDE DEF step, first, sets
    <3>1. first[T] = pick(T) /\ T \ {pick(T)} \in SUBSET S
      BY <1>7, <2>1
    <3>2. a \in A(T \ {pick(T)})
      BY <1>8, <2>1, <3>1
    <3> QED BY <1>7, <1>8, <2>1, <3>1, <3>2
  <2> HIDE DEF step, first, sets
  <2>2. StaysIn(S, first, step, sets)
    BY <2>1 DEF StaysIn
  <2>3. base \in sets[{}]
    BY <1>8
  <2> QED BY <1>1, <1>6, <2>2, <2>3, FoldExists
<1>10. ASSUME NEW T \in SUBSET S PROVE g[T] = body(g, T)
  <2>1. CASE T = {}
    BY <1>9, <2>1 DEF Folds, FoldsIn
  <2>2. CASE T # {}
    <3>1. g[T] = step[first[T]][g[T \ {first[T]}]]
      <4> HIDE DEF step, first
      <4> QED BY <1>9, <2>2 DEF Folds, FoldsIn
    <3>2. g[T \ {pick(T)}] \in A(T \ {pick(T)})
      BY <1>7, <1>8, <1>9, <2>2 DEF FoldsIn
    <3> HIDE DEF step, first
    <3> QED BY <1>7, <2>2, <3>1, <3>2
  <2> QED BY <2>1, <2>2
<1>11. Is(g)
  <2>1. g = [T \in SUBSET S |-> g[T]]
    BY <1>9 DEF FoldsIn
  <2> HIDE DEF body
  <2> QED BY <1>10, <2>1
<1>12. Is(CHOOSE h : Is(h))
  <2> HIDE DEF Is
  <2> QED BY <1>11
<1>13. ASSUME NEW h, Is(h) PROVE h[S] \in A(S)
  <2> DEFINE Q == {T \in SUBSET S : h[T] \in A(T)}
  <2>1. \A T \in SUBSET S : h[T] = body(h, T)
    BY <1>13
  <2>2. {} \in Q
    BY <1>3, <2>1
  <2>3. ASSUME NEW T \in SUBSET S, T # {}, T \ {first[T]} \in Q PROVE T \in Q
    <3>1. h[T] = Op(h[T \ {pick(T)}], pick(T))
      BY <2>1, <2>3
    <3>2. h[T \ {pick(T)}] \in A(T \ {pick(T)})
      <4> HIDE DEF first
      <4> QED BY <1>7, <2>3
    <3> HIDE DEF first
    <3> QED BY <1>7, <2>3, <3>1, <3>2
  <2>4. SUBSET S \subseteq Q
    <3> HIDE DEF Q, first
    <3> QED BY <1>1, <1>6, <2>2, <2>3, FoldInduction
  <2> QED BY <2>4
<1>14. find_equivalences(t) \in A(S)
  <2> HIDE DEF Is
  <2> QED BY <1>5, <1>12, <1>13
<1> QED BY <1>14 DEF A

-----------------------------------------------------------------------------
(* The closure. *)

\* The inputs of a gate.
LEMMA InputsFacts ==
  ASSUME NEW V, NEW M, NEW g \in GateSet(V, M), NEW lit \in Inputs(g)
  PROVE  /\ g.tag # "ite" => lit \in g.rhs
         /\ g.tag = "ite" => lit \in {g.ite[1], g.ite[2], g.ite[3]}
<1>1. GateForm(g, V)
  BY GateFacts
<1>2. CASE g.tag # "ite"
  <2>1. g.ite = <<>>
    BY <1>1, <1>2 DEF GateForm
  <2>2. ToSet(g.ite) = {}
    BY <2>1 DEF ToSet
  <2> QED BY <1>2, <2>2 DEF Inputs
<1>3. CASE g.tag = "ite"
  <2>1. g.rhs = {} /\ g.ite = << g.ite[1], g.ite[2], g.ite[3] >>
    BY <1>1, <1>3 DEF GateForm
  <2>2. DOMAIN g.ite = 1..3
    BY <2>1
  <2>3. PICK i \in 1..3 : lit = g.ite[i]
    BY <2>1, <2>2 DEF Inputs, ToSet
  <2>4. i = 1 \/ i = 2 \/ i = 3
    OBVIOUS
  <2> QED BY <1>3, <2>3, <2>4
<1> QED BY <1>2, <1>3

\* simplify_gate for each kind of gate.
LEMMA SimplifiedKeeps ==
  ASSUME NEW V, NEW M, NEW U, NEW lit \in LitsOf(V), lit \in U.units,
         NEW t \in ClosureStates(V, M, U), NEW g \in GateSet(V, M),
         Inputs(g) \cap {lit, -lit} # {}
  PROVE  /\ g.tag = "and" => simplify_and_gate(RemoveGate(t, g), g) \in ClosureStates(V, M, U)
         /\ g.tag = "xor" => simplify_xor_gate(RemoveGate(t, g), g) \in ClosureStates(V, M, U)
         /\ g.tag = "ite" => simplify_ite_gate(RemoveGate(t, g), g) \in ClosureStates(V, M, U)
<1> DEFINE v == RemoveGate(t, g)
<1>1. v \in ClosureStates(V, M, U)
  BY RemoveGateKeeps
<1> HIDE DEF v
<1>2. g.tag = "and" => simplify_and_gate(v, g) \in ClosureStates(V, M, U)
  BY <1>1, SimplifyAndKeeps
<1>3. g.tag = "xor" => simplify_xor_gate(v, g) \in ClosureStates(V, M, U)
  BY <1>1, SimplifyXorKeeps
<1>4. ASSUME g.tag = "ite" PROVE simplify_ite_gate(v, g) \in ClosureStates(V, M, U)
  <2>1. PICK l \in Inputs(g) : l = lit \/ l = -lit
    OBVIOUS
  <2>2. l \in {g.ite[1], g.ite[2], g.ite[3]}
    BY <1>4, <2>1, InputsFacts
  <2>3. lit \in v.s.units /\ - -lit = lit
    BY <1>1, ClosureFacts, LitsOfFacts
  <2>4. Value(v, l) # 0
    BY <2>1, <2>3 DEF Value, IsTrue, IsFalse
  <2>5. Value(v, g.ite[1]) # 0 \/ Value(v, g.ite[2]) # 0 \/ Value(v, g.ite[3]) # 0
    BY <2>2, <2>4
  <2> QED BY <1>1, <1>4, <2>5, SimplifyIteKeeps
<1> QED BY <1>2, <1>3, <1>4 DEF v

\* A unit is marked as propagated.
LEMMA UnitsSeen ==
  ASSUME NEW V, NEW M, NEW U, NEW t \in ClosureStates(V, M, U), NEW lit \in t.s.units
  PROVE  /\ lit \in LitsOf(V)
         /\ [t EXCEPT !.job.units = @ \cup {lit}] \in ClosureStates(V, M, t.s)
<1> DEFINE new == [t.job EXCEPT !.units = @ \cup {lit}]
<1>1. lit \in LitsOf(V) /\ t.job \in ClosureJobs(V, M) /\ Learned(t.s, t.job.reprs)
  BY ClosureFacts
<1>2. new \in ClosureJobs(V, M) /\ new.reprs = t.job.reprs
  BY <1>1 DEF ClosureJobs
<1>3. t \in ClosureStates(V, M, t.s)
  BY Rebase
<1>4. WithJob(t, new) = [t EXCEPT !.job.units = @ \cup {lit}]
  BY DEF WithJob
<1> HIDE DEF new
<1>5. WithJob(t, new) \in ClosureStates(V, M, t.s)
  BY <1>1, <1>2, <1>3, WithFacts
<1> QED BY <1>1, <1>4, <1>5

\* propagate_unit
LEMMA PropagateUnitAll ==
  ASSUME NEW V, NEW M, NEW U, NEW t \in ClosureStates(V, M, U), NEW lit \in t.s.units
  PROVE  propagate_unit(t, lit) \in ClosureStates(V, M, t.s)
<1> DEFINE S == {g \in t.job.gates : Inputs(g) \cap {lit, -lit} # {}}
           base == [t EXCEPT !.job.units = @ \cup {lit}]
           A(T) == ClosureStates(V, M, t.s)
           pick(T) == CHOOSE e \in T : TRUE
           Op(a, x) == IF a.s.unsat THEN a ELSE IF x.tag = "and" THEN simplify_and_gate(RemoveGate(a, x), x) ELSE IF x.tag = "xor" THEN simplify_xor_gate(RemoveGate(a, x), x) ELSE simplify_ite_gate(RemoveGate(a, x), x)
           first == [T \in SUBSET S |-> pick(T)]
           sets == [T \in SUBSET S |-> A(T)]
           step == [x \in S |-> [a \in UNION {A(T) : T \in SUBSET S} |-> Op(a, x)]]
           body(g, T) == IF T = {} THEN base
                         ELSE Op(g[T \ {pick(T)}], pick(T))
           Is(g) == g = [T \in SUBSET S |-> body(g, T)]
<1>1. IsFiniteSet(S)
  BY ClosureFacts, FS_Subset
<1>2. ASSUME NEW T \in SUBSET S, T # {} PROVE pick(T) \in T
  BY <1>2
<1>3. base \in A({})
  BY UnitsSeen
<1>4. ASSUME NEW T \in SUBSET S, NEW x \in T, NEW a \in A(T \ {x}) PROVE Op(a, x) \in A(T)
  <2>1. x \in GateSet(V, M) /\ Inputs(x) \cap {lit, -lit} # {} /\ lit \in LitsOf(V)
    BY ClosureFacts, UnitsSeen
  <2>2. x.tag \in {"and", "xor", "ite"}
    BY <2>1, GateFacts
  <2> QED BY <2>1, <2>2, SimplifiedKeeps
<1>5. propagate_unit(t, lit) = (CHOOSE g : Is(g))[S]
  BY DEF propagate_unit, Op, FoldSet, MapThenFoldSet
<1> HIDE DEF A, Op, pick, S, base
<1>6. Picks(first, S)
  BY <1>2 DEF Picks
<1>7. ASSUME NEW T \in SUBSET S, T # {}
      PROVE  /\ first[T] = pick(T) /\ pick(T) \in T /\ pick(T) \in S
             /\ T \ {pick(T)} \in SUBSET S
             /\ \A a \in A(T \ {pick(T)}) :
                  step[pick(T)][a] = Op(a, pick(T)) /\ Op(a, pick(T)) \in A(T)
  <2>1. pick(T) \in T
    BY <1>2, <1>7
  <2>2. ASSUME NEW a \in A(T \ {pick(T)}) PROVE Op(a, pick(T)) \in A(T)
    BY <1>4, <2>1
  <2> QED BY <2>1, <2>2
<1>8. base \in sets[{}] /\ \A T \in SUBSET S : sets[T] = A(T)
  BY <1>3
<1>9. PICK g : FoldsIn(g, S, base, first, step, sets)
  <2>1. ASSUME NEW T \in SUBSET S, T # {}, NEW a \in sets[T \ {first[T]}]
        PROVE  step[first[T]][a] \in sets[T]
    <3> HIDE DEF step, first, sets
    <3>1. first[T] = pick(T) /\ T \ {pick(T)} \in SUBSET S
      BY <1>7, <2>1
    <3>2. a \in A(T \ {pick(T)})
      BY <1>8, <2>1, <3>1
    <3> QED BY <1>7, <1>8, <2>1, <3>1, <3>2
  <2> HIDE DEF step, first, sets
  <2>2. StaysIn(S, first, step, sets)
    BY <2>1 DEF StaysIn
  <2>3. base \in sets[{}]
    BY <1>8
  <2> QED BY <1>1, <1>6, <2>2, <2>3, FoldExists
<1>10. ASSUME NEW T \in SUBSET S PROVE g[T] = body(g, T)
  <2>1. CASE T = {}
    BY <1>9, <2>1 DEF Folds, FoldsIn
  <2>2. CASE T # {}
    <3>1. g[T] = step[first[T]][g[T \ {first[T]}]]
      <4> HIDE DEF step, first
      <4> QED BY <1>9, <2>2 DEF Folds, FoldsIn
    <3>2. g[T \ {pick(T)}] \in A(T \ {pick(T)})
      BY <1>7, <1>8, <1>9, <2>2 DEF FoldsIn
    <3> HIDE DEF step, first
    <3> QED BY <1>7, <2>2, <3>1, <3>2
  <2> QED BY <2>1, <2>2
<1>11. Is(g)
  <2>1. g = [T \in SUBSET S |-> g[T]]
    BY <1>9 DEF FoldsIn
  <2> HIDE DEF body
  <2> QED BY <1>10, <2>1
<1>12. Is(CHOOSE h : Is(h))
  <2> HIDE DEF Is
  <2> QED BY <1>11
<1>13. ASSUME NEW h, Is(h) PROVE h[S] \in A(S)
  <2> DEFINE Q == {T \in SUBSET S : h[T] \in A(T)}
  <2>1. \A T \in SUBSET S : h[T] = body(h, T)
    BY <1>13
  <2>2. {} \in Q
    BY <1>3, <2>1
  <2>3. ASSUME NEW T \in SUBSET S, T # {}, T \ {first[T]} \in Q PROVE T \in Q
    <3>1. h[T] = Op(h[T \ {pick(T)}], pick(T))
      BY <2>1, <2>3
    <3>2. h[T \ {pick(T)}] \in A(T \ {pick(T)})
      <4> HIDE DEF first
      <4> QED BY <1>7, <2>3
    <3> HIDE DEF first
    <3> QED BY <1>7, <2>3, <3>1, <3>2
  <2>4. SUBSET S \subseteq Q
    <3> HIDE DEF Q, first
    <3> QED BY <1>1, <1>6, <2>2, <2>3, FoldInduction
  <2> QED BY <2>4
<1>14. propagate_unit(t, lit) \in A(S)
  <2> HIDE DEF Is
  <2> QED BY <1>5, <1>12, <1>13
<1> QED BY <1>14 DEF A

\* propagate_unit simplifies all gates with the unit among their inputs.
LEMMA PropagateUnitKeeps ==
  ASSUME NEW V, NEW M, NEW U, NEW t \in ClosureStates(V, M, U), NEW lit \in t.s.units
  PROVE  propagate_unit(t, lit) \in ClosureStates(V, M, U)
  BY PropagateUnitAll, Rebase

\* rewrite_gate for each kind of gate.
LEMMA RewrittenKeeps ==
  ASSUME NEW V, NEW M, NEW U, NEW t \in ClosureStates(V, M, U), NEW g \in GateSet(V, M),
         NEW src \in Inputs(g), NEW dst, Equal(src, dst, V, M)
  PROVE  /\ g.tag = "and" => rewrite_and_gate(RemoveGate(t, g), g, src, dst) \in ClosureStates(V, M, U)
         /\ g.tag = "xor" => rewrite_xor_gate(RemoveGate(t, g), g, src, dst) \in ClosureStates(V, M, U)
         /\ g.tag = "ite" => rewrite_ite_gate(RemoveGate(t, g), g, src, dst) \in ClosureStates(V, M, U)
<1> DEFINE v == RemoveGate(t, g)
<1>1. v \in ClosureStates(V, M, U)
  BY RemoveGateKeeps
<1> HIDE DEF v
<1>2. g.tag = "and" => rewrite_and_gate(v, g, src, dst) \in ClosureStates(V, M, U)
  BY <1>1, RewriteAndKeeps
<1>3. g.tag = "xor" => rewrite_xor_gate(v, g, src, dst) \in ClosureStates(V, M, U)
  BY <1>1, InputsFacts, RewriteXorKeeps
<1>4. g.tag = "ite" => rewrite_ite_gate(v, g, src, dst) \in ClosureStates(V, M, U)
  BY <1>1, InputsFacts, RewriteIteKeeps
<1> QED BY <1>2, <1>3, <1>4 DEF v

\* rewrite_gates
LEMMA RewriteGatesKeeps ==
  ASSUME NEW V, NEW M, NEW U, NEW t \in ClosureStates(V, M, U), NEW src, NEW dst, Equal(src, dst, V, M)
  PROVE  rewrite_gates(t, src, dst) \in ClosureStates(V, M, U)
<1> DEFINE S == {g \in t.job.gates : src \in Inputs(g)}
           base == t
           A(T) == ClosureStates(V, M, U)
           pick(T) == CHOOSE e \in T : TRUE
           Op(a, x) == IF a.s.unsat THEN a ELSE IF x.tag = "and" THEN rewrite_and_gate(RemoveGate(a, x), x, src, dst) ELSE IF x.tag = "xor" THEN rewrite_xor_gate(RemoveGate(a, x), x, src, dst) ELSE rewrite_ite_gate(RemoveGate(a, x), x, src, dst)
           first == [T \in SUBSET S |-> pick(T)]
           sets == [T \in SUBSET S |-> A(T)]
           step == [x \in S |-> [a \in UNION {A(T) : T \in SUBSET S} |-> Op(a, x)]]
           body(g, T) == IF T = {} THEN base
                         ELSE Op(g[T \ {pick(T)}], pick(T))
           Is(g) == g = [T \in SUBSET S |-> body(g, T)]
<1>1. IsFiniteSet(S)
  BY ClosureFacts, FS_Subset
<1>2. ASSUME NEW T \in SUBSET S, T # {} PROVE pick(T) \in T
  BY <1>2
<1>3. base \in A({})
  OBVIOUS
<1>4. ASSUME NEW T \in SUBSET S, NEW x \in T, NEW a \in A(T \ {x}) PROVE Op(a, x) \in A(T)
  <2>1. x \in GateSet(V, M) /\ src \in Inputs(x)
    BY ClosureFacts
  <2>2. x.tag \in {"and", "xor", "ite"}
    BY <2>1, GateFacts
  <2> QED BY <2>1, <2>2, RewrittenKeeps
<1>5. rewrite_gates(t, src, dst) = (CHOOSE g : Is(g))[S]
  BY DEF rewrite_gates, Op, FoldSet, MapThenFoldSet
<1> HIDE DEF A, Op, pick, S, base
<1>6. Picks(first, S)
  BY <1>2 DEF Picks
<1>7. ASSUME NEW T \in SUBSET S, T # {}
      PROVE  /\ first[T] = pick(T) /\ pick(T) \in T /\ pick(T) \in S
             /\ T \ {pick(T)} \in SUBSET S
             /\ \A a \in A(T \ {pick(T)}) :
                  step[pick(T)][a] = Op(a, pick(T)) /\ Op(a, pick(T)) \in A(T)
  <2>1. pick(T) \in T
    BY <1>2, <1>7
  <2>2. ASSUME NEW a \in A(T \ {pick(T)}) PROVE Op(a, pick(T)) \in A(T)
    BY <1>4, <2>1
  <2> QED BY <2>1, <2>2
<1>8. base \in sets[{}] /\ \A T \in SUBSET S : sets[T] = A(T)
  BY <1>3
<1>9. PICK g : FoldsIn(g, S, base, first, step, sets)
  <2>1. ASSUME NEW T \in SUBSET S, T # {}, NEW a \in sets[T \ {first[T]}]
        PROVE  step[first[T]][a] \in sets[T]
    <3> HIDE DEF step, first, sets
    <3>1. first[T] = pick(T) /\ T \ {pick(T)} \in SUBSET S
      BY <1>7, <2>1
    <3>2. a \in A(T \ {pick(T)})
      BY <1>8, <2>1, <3>1
    <3> QED BY <1>7, <1>8, <2>1, <3>1, <3>2
  <2> HIDE DEF step, first, sets
  <2>2. StaysIn(S, first, step, sets)
    BY <2>1 DEF StaysIn
  <2>3. base \in sets[{}]
    BY <1>8
  <2> QED BY <1>1, <1>6, <2>2, <2>3, FoldExists
<1>10. ASSUME NEW T \in SUBSET S PROVE g[T] = body(g, T)
  <2>1. CASE T = {}
    BY <1>9, <2>1 DEF Folds, FoldsIn
  <2>2. CASE T # {}
    <3>1. g[T] = step[first[T]][g[T \ {first[T]}]]
      <4> HIDE DEF step, first
      <4> QED BY <1>9, <2>2 DEF Folds, FoldsIn
    <3>2. g[T \ {pick(T)}] \in A(T \ {pick(T)})
      BY <1>7, <1>8, <1>9, <2>2 DEF FoldsIn
    <3> HIDE DEF step, first
    <3> QED BY <1>7, <2>2, <3>1, <3>2
  <2> QED BY <2>1, <2>2
<1>11. Is(g)
  <2>1. g = [T \in SUBSET S |-> g[T]]
    BY <1>9 DEF FoldsIn
  <2> HIDE DEF body
  <2> QED BY <1>10, <2>1
<1>12. Is(CHOOSE h : Is(h))
  <2> HIDE DEF Is
  <2> QED BY <1>11
<1>13. ASSUME NEW h, Is(h) PROVE h[S] \in A(S)
  <2> DEFINE Q == {T \in SUBSET S : h[T] \in A(T)}
  <2>1. \A T \in SUBSET S : h[T] = body(h, T)
    BY <1>13
  <2>2. {} \in Q
    BY <1>3, <2>1
  <2>3. ASSUME NEW T \in SUBSET S, T # {}, T \ {first[T]} \in Q PROVE T \in Q
    <3>1. h[T] = Op(h[T \ {pick(T)}], pick(T))
      BY <2>1, <2>3
    <3>2. h[T \ {pick(T)}] \in A(T \ {pick(T)})
      <4> HIDE DEF first
      <4> QED BY <1>7, <2>3
    <3> HIDE DEF first
    <3> QED BY <1>7, <2>3, <3>1, <3>2
  <2>4. SUBSET S \subseteq Q
    <3> HIDE DEF Q, first
    <3> QED BY <1>1, <1>6, <2>2, <2>3, FoldInduction
  <2> QED BY <2>4
<1>14. rewrite_gates(t, src, dst) \in A(S)
  <2> HIDE DEF Is
  <2> QED BY <1>5, <1>12, <1>13
<1> QED BY <1>14 DEF A

RewriteBoth(t, lit) ==
  FoldLeft(LAMBDA v, src : rewrite_gates(v, src, Repr(v, src)), t, <<lit, -lit>>)

\* Both signs of a merged literal are rewritten, the second one in what the
\* first one left.
LEMMA RewriteBothKeeps ==
  ASSUME NEW V, NEW M, NEW U, NEW t \in ClosureStates(V, M, U), NEW lit \in LitsOf(V)
  PROVE  RewriteBoth(t, lit) \in ClosureStates(V, M, U)
<1> DEFINE path == <<lit, -lit>>
           S == DOMAIN path
           base == t
           A(T) == ClosureStates(V, M, U)
           pick(T) == Max(T)
           Op(a, x) == rewrite_gates(a, path[x], Repr(a, path[x]))
           first == [T \in SUBSET S |-> pick(T)]
           sets == [T \in SUBSET S |-> A(T)]
           step == [x \in S |-> [a \in UNION {A(T) : T \in SUBSET S} |-> Op(a, x)]]
           body(g, T) == IF T = {} THEN base
                         ELSE Op(g[T \ {pick(T)}], pick(T))
           Is(g) == g = [T \in SUBSET S |-> body(g, T)]
<1>0. S = 1..2 /\ \A x \in S : path[x] \in LitsOf(V)
  BY LitsOfFacts
<1>1. IsFiniteSet(S)
  <2>1. \A k \in Int : IsFiniteSet(1..k)
    BY FS_Interval
  <2> HIDE DEF S, path
  <2>2. S = 1..2
    BY <1>0
  <2>3. IsFiniteSet(1..2)
    <3>1. 2 \in Int
      OBVIOUS
    <3> QED BY <2>1, <3>1, Zenon
  <2> QED BY <2>2, <2>3, Zenon
<1>2. ASSUME NEW T \in SUBSET S, T # {} PROVE pick(T) \in T
  <2>1. T \subseteq 0..2
    BY <1>0
  <2> QED BY <1>2, <2>1, MaxOfBounded
<1>3. base \in A({})
  OBVIOUS
<1>4. ASSUME NEW T \in SUBSET S, NEW x \in T, NEW a \in A(T \ {x}) PROVE Op(a, x) \in A(T)
  <2>1. path[x] \in LitsOf(V)
    BY <1>0
  <2> HIDE DEF path
  <2> QED BY <2>1, ReprEqual, RewriteGatesKeeps
<1>5. RewriteBoth(t, lit) = (CHOOSE g : Is(g))[S]
  BY DEF RewriteBoth, FoldLeft, MapThenFoldSet
<1> HIDE DEF A, Op, pick, S, base
<1>6. Picks(first, S)
  BY <1>2 DEF Picks
<1>7. ASSUME NEW T \in SUBSET S, T # {}
      PROVE  /\ first[T] = pick(T) /\ pick(T) \in T /\ pick(T) \in S
             /\ T \ {pick(T)} \in SUBSET S
             /\ \A a \in A(T \ {pick(T)}) :
                  step[pick(T)][a] = Op(a, pick(T)) /\ Op(a, pick(T)) \in A(T)
  <2>1. pick(T) \in T
    BY <1>2, <1>7
  <2>2. ASSUME NEW a \in A(T \ {pick(T)}) PROVE Op(a, pick(T)) \in A(T)
    BY <1>4, <2>1
  <2> QED BY <2>1, <2>2
<1>8. base \in sets[{}] /\ \A T \in SUBSET S : sets[T] = A(T)
  BY <1>3
<1>9. PICK g : FoldsIn(g, S, base, first, step, sets)
  <2>1. ASSUME NEW T \in SUBSET S, T # {}, NEW a \in sets[T \ {first[T]}]
        PROVE  step[first[T]][a] \in sets[T]
    <3> HIDE DEF step, first, sets
    <3>1. first[T] = pick(T) /\ T \ {pick(T)} \in SUBSET S
      BY <1>7, <2>1
    <3>2. a \in A(T \ {pick(T)})
      BY <1>8, <2>1, <3>1
    <3> QED BY <1>7, <1>8, <2>1, <3>1, <3>2
  <2> HIDE DEF step, first, sets
  <2>2. StaysIn(S, first, step, sets)
    BY <2>1 DEF StaysIn
  <2>3. base \in sets[{}]
    BY <1>8
  <2> QED BY <1>1, <1>6, <2>2, <2>3, FoldExists
<1>10. ASSUME NEW T \in SUBSET S PROVE g[T] = body(g, T)
  <2>1. CASE T = {}
    BY <1>9, <2>1 DEF Folds, FoldsIn
  <2>2. CASE T # {}
    <3>1. g[T] = step[first[T]][g[T \ {first[T]}]]
      <4> HIDE DEF step, first
      <4> QED BY <1>9, <2>2 DEF Folds, FoldsIn
    <3>2. g[T \ {pick(T)}] \in A(T \ {pick(T)})
      BY <1>7, <1>8, <1>9, <2>2 DEF FoldsIn
    <3> HIDE DEF step, first
    <3> QED BY <1>7, <2>2, <3>1, <3>2
  <2> QED BY <2>1, <2>2
<1>11. Is(g)
  <2>1. g = [T \in SUBSET S |-> g[T]]
    BY <1>9 DEF FoldsIn
  <2> HIDE DEF body
  <2> QED BY <1>10, <2>1
<1>12. Is(CHOOSE h : Is(h))
  <2> HIDE DEF Is
  <2> QED BY <1>11
<1>13. ASSUME NEW h, Is(h) PROVE h[S] \in A(S)
  <2> DEFINE Q == {T \in SUBSET S : h[T] \in A(T)}
  <2>1. \A T \in SUBSET S : h[T] = body(h, T)
    BY <1>13
  <2>2. {} \in Q
    BY <1>3, <2>1
  <2>3. ASSUME NEW T \in SUBSET S, T # {}, T \ {first[T]} \in Q PROVE T \in Q
    <3>1. h[T] = Op(h[T \ {pick(T)}], pick(T))
      BY <2>1, <2>3
    <3>2. h[T \ {pick(T)}] \in A(T \ {pick(T)})
      <4> HIDE DEF first
      <4> QED BY <1>7, <2>3
    <3> HIDE DEF first
    <3> QED BY <1>7, <2>3, <3>1, <3>2
  <2>4. SUBSET S \subseteq Q
    <3> HIDE DEF Q, first
    <3> QED BY <1>1, <1>6, <2>2, <2>3, FoldInduction
  <2> QED BY <2>4
<1>14. RewriteBoth(t, lit) \in A(S)
  <2> HIDE DEF Is
  <2> QED BY <1>5, <1>12, <1>13
<1> QED BY <1>14 DEF A

\* propagate_equivalence rewrites all gates with the merged literal among their
\* inputs.
LEMMA PropagateEquivalenceKeeps ==
  ASSUME NEW V, NEW M, NEW U, NEW t \in ClosureStates(V, M, U), t.job.schedule # <<>>
  PROVE  propagate_equivalence(t) \in ClosureStates(V, M, U)
<1> DEFINE lit == Head(t.job.schedule)
           new == [t.job EXCEPT !.schedule = Tail(@), !.merged = TRUE]
           u == [t EXCEPT !.job.schedule = Tail(@), !.job.merged = TRUE]
           w == RewriteBoth(u, lit)
<1>1. /\ t.job \in ClosureJobs(V, M) /\ t.job.schedule \in Seq(LitsOf(V))
      /\ Learned(t.s, t.job.reprs)
  BY ClosureFacts
<1>2. lit \in LitsOf(V) /\ Tail(t.job.schedule) \in Seq(LitsOf(V))
  BY <1>1
<1>3. new \in ClosureJobs(V, M) /\ Learned(t.s, new.reprs)
  BY <1>1, <1>2 DEF ClosureJobs
<1>4. propagate_equivalence(t) = IF Value(t, lit) # 0 THEN u ELSE w
  BY DEF propagate_equivalence, RewriteBoth
<1>5. u \in ClosureStates(V, M, U)
  <2>1. u = WithJob(t, new)
    BY DEF WithJob
  <2> HIDE DEF new, u
  <2> QED BY <1>3, <2>1, WithFacts
<1> HIDE DEF u, lit
<1>7. w \in ClosureStates(V, M, U)
  BY <1>2, <1>5, RewriteBothKeeps
<1> HIDE DEF w
<1> QED BY <1>4, <1>5, <1>7

\* A literal of a represented clause, and one that represents it.
LEMMA RepresentedFacts ==
  ASSUME NEW V, NEW M, NEW U, NEW t \in ClosureStates(V, M, U), ~t.s.unsat,
         NEW m, IsModel(m, BinaryClauses(t.s.irr), t.s.units), NEW c, c \subseteq Lit
  PROVE  /\ \A x \in Represented(t, c) : x \in Lit /\ (True(m, x) => Holds(m, c))
         /\ Holds(m, c) => \E x \in Represented(t, c) : True(m, x)
<1>1. t.job.reprs \in [Lit -> Lit] /\ t.s.units \subseteq Lit
  BY ClosureFacts, LitsOfFacts DEF Reprs
<1>2. \A lit \in Lit : True(m, lit) <=> True(m, Repr(t, lit))
  BY ClosureFacts DEF Learned, Repr
<1>3. ASSUME NEW x \in Represented(t, c) PROVE x \in Lit /\ (True(m, x) => Holds(m, c))
  <2>1. PICK lit \in Unfalsified(t.s.units, c) : x = Repr(t, lit)
    BY DEF Represented
  <2>2. lit \in c /\ lit \in Lit
    BY <2>1 DEF Unfalsified
  <2> QED BY <1>1, <1>2, <2>1, <2>2 DEF Repr, Holds
<1>4. ASSUME Holds(m, c) PROVE \E x \in Represented(t, c) : True(m, x)
  <2>1. PICK lit \in c : True(m, lit)
    BY <1>4 DEF Holds
  <2>2. lit \notin Negated(t.s.units)
    <3>1. ASSUME -lit \in t.s.units PROVE FALSE
      BY <2>1, <3>1, TrueNegated DEF IsModel
    <3> QED BY <1>1, <2>1, <3>1, NegatedFacts
  <2>3. Repr(t, lit) \in Represented(t, c)
    BY <2>1, <2>2 DEF Represented, Unfalsified
  <2> QED BY <1>2, <2>1, <2>3
<1> QED BY <1>3, <1>4

\* The large clauses that go in any case.
MatchedGone(t) ==
  {c \in {d \in t.s.irr : Cardinality(d) > 2} :
     SatisfiedBy(t.s.units, c) \/ \E lit \in Represented(t, c) : -lit \in Represented(t, c)}

\* The large clauses that are satisfied, or that are tautologies up to
\* representatives, are implied by the units and irredundant binary clauses and
\* may go.
LEMMA MatchedGoneKeeps ==
  ASSUME NEW V, NEW M, NEW U, NEW t \in ClosureStates(V, M, U)
  PROVE  [t EXCEPT !.s = Drop(@, MatchedGone(t))] \in ClosureStates(V, M, U)
<1>1. t.s.irr \in SUBSET Sound(V, M)
  BY ClosureFacts, GrownFacts
<1>2. ASSUME NEW c \in MatchedGone(t) PROVE Cardinality(c) # 2 /\ ByBinaries(t.s, c)
  <2>1. c \in t.s.irr /\ Cardinality(c) > 2
    BY DEF MatchedGone
  <2>2. c \subseteq Lit
    BY <1>1, <2>1, SoundFacts, LitsOfFacts
  <2>3. SatisfiedBy(t.s.units, c) \/ \E lit \in Represented(t, c) : -lit \in Represented(t, c)
    BY DEF MatchedGone
  <2>4. ASSUME NEW lit \in Represented(t, c), -lit \in Represented(t, c)
        PROVE  ByBinaries(t.s, c)
    <3>1. ASSUME ~t.s.unsat, NEW m, IsModel(m, BinaryClauses(t.s.irr), t.s.units)
          PROVE  Holds(m, c)
      <4>1. /\ lit \in Lit /\ (True(m, lit) => Holds(m, c))
            /\ (True(m, -lit) => Holds(m, c))
        BY <2>2, <2>4, <3>1, RepresentedFacts
      <4> QED BY <4>1, TrueNegated
    <3> QED BY <3>1 DEF ByBinaries
  <2> QED BY <2>1, <2>3, <2>4, SatisfiedByUnits
<1>3. Drop(t.s, MatchedGone(t)) \in Grown(V, M, t.s)
  BY <1>2, ClosureFacts, DropByBinaries
<1>4. WithS(t, Drop(t.s, MatchedGone(t))) \in ClosureStates(V, M, U)
  BY <1>3, WithFacts
<1> QED BY <1>4 DEF WithS

\* A large clause that is subsumed, up to representatives, by one that stays
\* may go (find_subsuming_clause).
LEMMA SubsumedKeeps ==
  ASSUME NEW V, NEW M, NEW U, NEW t \in ClosureStates(V, M, U), NEW c, c \subseteq Lit,
         Cardinality(c) # 2, find_subsuming_clause(t, c)
  PROVE  [t EXCEPT !.s = MarkGarbage(@, c, "irr")] \in ClosureStates(V, M, U)
<1> DEFINE r == t.s
           irr == r.irr \ {c}
<1>1. MarkGarbage(r, c, "irr") = Made(r, irr, r.red, r.units, r.unsat)
  BY ClosureFacts DEF MarkGarbage, Made, Grown
<1>2. PICK d \in irr : Represented(t, d) \subseteq Represented(t, c)
  BY DEF find_subsuming_clause
<1>3. d \subseteq Lit
  BY ClosureFacts, GrownFacts, SoundFacts, LitsOfFacts
<1>4. BinaryClauses(r.irr) \subseteq irr
  BY DEF BinaryClauses
<1>5. ASSUME ~r.unsat, NEW m, IsModel(m, irr \cup r.red, r.units), NEW e \in Clauses(r)
      PROVE  Holds(m, e)
  <2>1. CASE e # c
    BY <1>5, <2>1 DEF Clauses, IsModel
  <2>2. CASE e = c
    <3>1. IsModel(m, BinaryClauses(r.irr), r.units)
      <4> HIDE DEF irr, r
      <4>1. BinaryClauses(r.irr) \subseteq irr \cup r.red
        BY <1>4
      <4> QED BY <1>5, <4>1, MoreModels
    <3>2. Holds(m, d)
      BY <1>5 DEF IsModel
    <3>3. PICK x \in Represented(t, d) : True(m, x)
      BY <1>3, <1>5, <3>1, <3>2, RepresentedFacts
    <3> QED BY <1>2, <1>5, <2>2, <3>1, <3>3, RepresentedFacts
  <2> QED BY <2>1, <2>2
<1>6. irr \subseteq r.irr /\ r.red \subseteq r.red /\ r \in Grown(V, M, U)
  BY ClosureFacts
<1> HIDE DEF irr
<1>7. MarkGarbage(r, c, "irr") \in Grown(V, M, r)
  BY <1>1, <1>4, <1>5, <1>6, GrownLess
<1>8. WithS(t, MarkGarbage(r, c, "irr")) \in ClosureStates(V, M, U)
  BY <1>7, WithFacts
<1> QED BY <1>8 DEF WithS

\* forward_subsume_matching_clauses
LEMMA MatchKeeps ==
  ASSUME NEW V, NEW M, NEW U, NEW t \in ClosureStates(V, M, U)
  PROVE  forward_subsume_matching_clauses(t) \in ClosureStates(V, M, U)
<1> DEFINE S == {c \in {d \in t.s.irr : Cardinality(d) > 2} \ MatchedGone(t) : Vars(c) \cap Matchable(t) # {}}
           base == [t EXCEPT !.s = Drop(@, MatchedGone(t))]
           A(T) == ClosureStates(V, M, U)
           pick(T) == CHOOSE e \in T : TRUE
           Op(a, x) == IF find_subsuming_clause(a, x) THEN [a EXCEPT !.s = MarkGarbage(@, x, "irr")] ELSE a
           first == [T \in SUBSET S |-> pick(T)]
           sets == [T \in SUBSET S |-> A(T)]
           step == [x \in S |-> [a \in UNION {A(T) : T \in SUBSET S} |-> Op(a, x)]]
           body(g, T) == IF T = {} THEN base
                         ELSE Op(g[T \ {pick(T)}], pick(T))
           Is(g) == g = [T \in SUBSET S |-> body(g, T)]
<1>1. IsFiniteSet(S)
  <2>1. S \in SUBSET t.s.irr
    OBVIOUS
  <2>2. t.s.irr \in SUBSET Sound(V, M)
    BY ClosureFacts, GrownFacts
  <2> HIDE DEF S
  <2>3. S \in SUBSET Sound(V, M)
    BY <2>1, <2>2
  <2> QED BY <2>3, ClausesFinite
<1>2. ASSUME NEW T \in SUBSET S, T # {} PROVE pick(T) \in T
  BY <1>2
<1>3. base \in A({})
  BY MatchedGoneKeeps
<1>4. ASSUME NEW T \in SUBSET S, NEW x \in T, NEW a \in A(T \ {x}) PROVE Op(a, x) \in A(T)
  <2>1. x \in t.s.irr /\ Cardinality(x) # 2
    OBVIOUS
  <2>2. x \subseteq Lit
    BY <2>1, ClosureFacts, GrownFacts, SoundFacts, LitsOfFacts
  <2> QED BY <2>1, <2>2, SubsumedKeeps
<1>5. forward_subsume_matching_clauses(t) = (CHOOSE g : Is(g))[S]
  BY DEF forward_subsume_matching_clauses, Op, FoldSet, MapThenFoldSet, MatchedGone
<1> HIDE DEF A, Op, pick, S, base
<1>6. Picks(first, S)
  BY <1>2 DEF Picks
<1>7. ASSUME NEW T \in SUBSET S, T # {}
      PROVE  /\ first[T] = pick(T) /\ pick(T) \in T /\ pick(T) \in S
             /\ T \ {pick(T)} \in SUBSET S
             /\ \A a \in A(T \ {pick(T)}) :
                  step[pick(T)][a] = Op(a, pick(T)) /\ Op(a, pick(T)) \in A(T)
  <2>1. pick(T) \in T
    BY <1>2, <1>7
  <2>2. ASSUME NEW a \in A(T \ {pick(T)}) PROVE Op(a, pick(T)) \in A(T)
    BY <1>4, <2>1
  <2> QED BY <2>1, <2>2
<1>8. base \in sets[{}] /\ \A T \in SUBSET S : sets[T] = A(T)
  BY <1>3
<1>9. PICK g : FoldsIn(g, S, base, first, step, sets)
  <2>1. ASSUME NEW T \in SUBSET S, T # {}, NEW a \in sets[T \ {first[T]}]
        PROVE  step[first[T]][a] \in sets[T]
    <3> HIDE DEF step, first, sets
    <3>1. first[T] = pick(T) /\ T \ {pick(T)} \in SUBSET S
      BY <1>7, <2>1
    <3>2. a \in A(T \ {pick(T)})
      BY <1>8, <2>1, <3>1
    <3> QED BY <1>7, <1>8, <2>1, <3>1, <3>2
  <2> HIDE DEF step, first, sets
  <2>2. StaysIn(S, first, step, sets)
    BY <2>1 DEF StaysIn
  <2>3. base \in sets[{}]
    BY <1>8
  <2> QED BY <1>1, <1>6, <2>2, <2>3, FoldExists
<1>10. ASSUME NEW T \in SUBSET S PROVE g[T] = body(g, T)
  <2>1. CASE T = {}
    BY <1>9, <2>1 DEF Folds, FoldsIn
  <2>2. CASE T # {}
    <3>1. g[T] = step[first[T]][g[T \ {first[T]}]]
      <4> HIDE DEF step, first
      <4> QED BY <1>9, <2>2 DEF Folds, FoldsIn
    <3>2. g[T \ {pick(T)}] \in A(T \ {pick(T)})
      BY <1>7, <1>8, <1>9, <2>2 DEF FoldsIn
    <3> HIDE DEF step, first
    <3> QED BY <1>7, <2>2, <3>1, <3>2
  <2> QED BY <2>1, <2>2
<1>11. Is(g)
  <2>1. g = [T \in SUBSET S |-> g[T]]
    BY <1>9 DEF FoldsIn
  <2> HIDE DEF body
  <2> QED BY <1>10, <2>1
<1>12. Is(CHOOSE h : Is(h))
  <2> HIDE DEF Is
  <2> QED BY <1>11
<1>13. ASSUME NEW h, Is(h) PROVE h[S] \in A(S)
  <2> DEFINE Q == {T \in SUBSET S : h[T] \in A(T)}
  <2>1. \A T \in SUBSET S : h[T] = body(h, T)
    BY <1>13
  <2>2. {} \in Q
    BY <1>3, <2>1
  <2>3. ASSUME NEW T \in SUBSET S, T # {}, T \ {first[T]} \in Q PROVE T \in Q
    <3>1. h[T] = Op(h[T \ {pick(T)}], pick(T))
      BY <2>1, <2>3
    <3>2. h[T \ {pick(T)}] \in A(T \ {pick(T)})
      <4> HIDE DEF first
      <4> QED BY <1>7, <2>3
    <3> HIDE DEF first
    <3> QED BY <1>7, <2>3, <3>1, <3>2
  <2>4. SUBSET S \subseteq Q
    <3> HIDE DEF Q, first
    <3> QED BY <1>1, <1>6, <2>2, <2>3, FoldInduction
  <2> QED BY <2>4
<1>14. forward_subsume_matching_clauses(t) \in A(S)
  <2> HIDE DEF Is
  <2> QED BY <1>5, <1>12, <1>13
<1> QED BY <1>14 DEF A

\* A binary clause that extract_binaries derives from a ternary one holds.
LEMMA StrengthenedBinary ==
  ASSUME NEW V, NEW M, NEW r \in Databases(V, M), NEW c \in r.irr, NEW b \in Strengthened(r, c)
  PROVE  b \in Proper(V, M)
<1>1. PICK l \in c : b = c \ {l} /\ \E other \in c \ {l} : {-l, other} \in Clauses(r)
  BY DEF Strengthened
<1>2. PICK other \in c \ {l} : {-l, other} \in Clauses(r)
  BY <1>1
<1>3. c \in Proper(V, M) /\ c \in Sound(V, M) /\ {-l, other} \in Sound(V, M)
  BY <1>2, DatabaseFacts
<1>4. c \subseteq LitsOf(V) /\ l \in LitsOf(V)
  BY <1>3, SoundFacts
<1>5. l \in Lit
  BY <1>4, LitsOfFacts
<1>6. ASSUME NEW m \in M PROVE \E lit \in b : True(m, lit)
  <2>1. True(m, -l) \/ True(m, other)
    BY <1>3 DEF Sound, Holds
  <2>2. PICK x \in c : True(m, x)
    BY <1>3 DEF Sound, Holds
  <2>3. True(m, -l) <=> ~True(m, l)
    BY <1>5, TrueNegated
  <2> QED BY <1>1, <1>2, <2>1, <2>2, <2>3
<1>7. b \in SUBSET LitsOf(V)
  BY <1>1, <1>4
<1>8. b \in Sound(V, M)
  BY <1>6, <1>7, SoundIf
<1>9. b \subseteq c
  BY <1>1
<1> QED BY <1>3, <1>8, <1>9, ProperFacts

\* extract_binaries keeps what holds.
LEMMA ExtractBinariesKeeps ==
  ASSUME NEW V, NEW M, NEW r \in Databases(V, M)
  PROVE  extract_binaries(r) \in Databases(V, M)
<1> DEFINE ternary == {c \in r.irr : /\ Cardinality(c) = 3 /\ Unassigned(r, c)
                                     /\ Strengthened(r, c) # {}}
           new == {(CHOOSE b \in Strengthened(r, c) : TRUE) : c \in ternary}
           cs == r.irr \cup new
<1>1. new \in SUBSET Proper(V, M)
  <2>1. ASSUME NEW c \in ternary PROVE (CHOOSE b \in Strengthened(r, c) : TRUE) \in Proper(V, M)
    <3>1. (CHOOSE b \in Strengthened(r, c) : TRUE) \in Strengthened(r, c) /\ c \in r.irr
      OBVIOUS
    <3> QED BY <3>1, StrengthenedBinary
  <2> QED BY <2>1
<1>2. extract_binaries(r) = DuplicateBinary(WithIrr(r, cs))
  BY DEF extract_binaries, WithIrr
<1> HIDE DEF new
<1>3. cs \in SUBSET Proper(V, M)
  BY <1>1, DatabaseFacts
<1> HIDE DEF cs
<1>4. WithIrr(r, cs) \in Databases(V, M)
  BY <1>3, ClausesKeep
<1> QED BY <1>2, <1>4, DuplicateBinaryKeeps

\* The closure starts with every literal representing itself.
LEMMA ClosureGood ==
  ASSUME NEW V, NEW M, NEW r, Clauses(r) \in SUBSET Sound(V, M), r.units \in SUBSET Facts(V, M)
  PROVE  Closure(r) \in ClosureJobs(V, M) /\ Learned(r, Closure(r).reprs)
<1> DEFINE reprs == [lit \in Lit |-> lit]
<1>1. reprs \in Reprs(V, M)
  BY DEF Reprs, Same
<1>2. BinaryClauses(Clauses(r)) \in SUBSET Sound(V, M)
  BY BinariesSound
<1>3. r.units \in SUBSET LitsOf(V)
  BY SoundFacts
<1>4. <<>> \in Seq(LitsOf(V)) /\ IsFiniteSet({})
  BY FS_EmptySet
<1> HIDE DEF reprs
<1>5. Closure(r) = [name |-> "congruence", phase |-> "and", gates |-> {}, reprs |-> reprs,
                    schedule |-> <<>>, watched |-> BinaryClauses(Clauses(r)), units |-> r.units,
                    merged |-> FALSE]
  BY DEF Closure, reprs
<1> DEFINE watched == BinaryClauses(Clauses(r))
<1>6. "and" \in ClosurePhases /\ {} \in SUBSET GateSet(V, M)
  BY DEF ClosurePhases
<1> HIDE DEF watched
<1>7. Closure(r) \in [name : {"congruence"}, phase : ClosurePhases, gates : SUBSET GateSet(V, M),
          reprs : Reprs(V, M), schedule : Seq(LitsOf(V)), watched : SUBSET Sound(V, M),
          units : SUBSET LitsOf(V), merged : BOOLEAN]
  BY <1>1, <1>2, <1>3, <1>4, <1>5, <1>6 DEF watched
<1>8. Closure(r).gates = {}
  BY <1>5
<1>9. Learned(r, Closure(r).reprs)
  <2>1. Closure(r).reprs = reprs /\ \A lit \in Lit : reprs[lit] = lit
    BY <1>5 DEF reprs
  <2> QED BY <2>1 DEF Learned
<1> QED BY <1>4, <1>7, <1>8, <1>9 DEF ClosureJobs

\* The next phase of a closure.
LEMMA PhaseKeeps ==
  ASSUME NEW V, NEW M, NEW j \in ClosureJobs(V, M), NEW phase \in ClosurePhases
  PROVE  [j EXCEPT !.phase = phase] \in ClosureJobs(V, M)
  BY DEF ClosureJobs

-----------------------------------------------------------------------------
(* What a technique keeps in mind across its steps. *)

\* Each marked literal is in a binary clause with the pivot.
MarksGood(marks, pivot, V, M) ==
  \A lit \in marks : lit \in LitsOf(V) /\ pivot \in LitsOf(V) /\ {pivot, lit} \in Sound(V, M)

ElimPhases == {"round", "equivalence", "gates", "count", "add", "backward"}
PairFields == {"pairs", "resolvents", "queue", "gates", "definition", "bound"}

\* An elimination attempt.  The pivot has no value while equivalences are
\* looked for.
ElimGood(j, r, V, M) ==
  /\ Has(j, {"name", "phase", "technique"}) /\ j.name = "elim" /\ j.phase \in ElimPhases
  /\ j.phase # "round" => Has(j, {"pivot"}) /\ j.pivot \in Lit
  /\ j.phase = "equivalence" =>
       /\ Has(j, {"marks", "todo"}) /\ ~Fixed(r, j.pivot)
       /\ MarksGood(j.marks, j.pivot, V, M)
  /\ j.phase \in {"count", "add", "backward"} => Has(j, PairFields)

\* The assignments that satisfy a database.
Satisfying(r) == {m \in SUBSET Var : IsModel(m, Clauses(r), r.units)}

\* A closure: its gates and representatives hold in all assignments of M, and
\* in all that satisfy the database as it is now.
ClosingGood(j, r, V, M) ==
  /\ j \in ClosureJobs(V, M) /\ Learned(r, j.reprs)
  /\ ~r.unsat => j \in ClosureJobs(V, Satisfying(r))

JobGood(j, r, V, M) ==
  \/ j = NoJob \/ ElimGood(j, r, V, M) \/ CoverGood(j, V, M) \/ ProbeGood(j, r, V, M)
  \/ SweepGood(j, V, M) \/ ClosingGood(j, r, V, M)

\* The variables in use, a database over them and a job on it.
Used(r) == {v \in Var : r.status[v] # "unused"}
Good(r, j, M) == r \in Databases(Used(r), M) /\ JobGood(j, r, Used(r), M)

\* The name of a job tells what is known of it.
LEMMA JobNames ==
  ASSUME NEW j, NEW r, NEW V, NEW M, JobGood(j, r, V, M)
  PROVE  /\ j.name = "elim" => ElimGood(j, r, V, M)
         /\ j.name = "cover" => CoverGood(j, V, M)
         /\ j.name = "probe" => ProbeGood(j, r, V, M)
         /\ j.name = "sweep" => SweepGood(j, V, M)
         /\ j.name = "congruence" => ClosingGood(j, r, V, M)
<1>1. j = NoJob => j.name = "none"
  BY DEF NoJob
<1>2. ElimGood(j, r, V, M) => j.name = "elim"
  BY DEF ElimGood
<1>3. CoverGood(j, V, M) => j.name = "cover"
  BY DEF CoverGood
<1>4. ProbeGood(j, r, V, M) => j.name = "probe"
  BY DEF ProbeGood
<1>5. SweepGood(j, V, M) => j.name = "sweep"
  BY DEF SweepGood
<1>6. ClosingGood(j, r, V, M) => j.name = "congruence"
  BY DEF ClosingGood, ClosureJobs
<1> QED BY <1>1, <1>2, <1>3, <1>4, <1>5, <1>6 DEF JobGood

\* What is sound over some variables is sound over more.
LEMMA MoreVars ==
  ASSUME NEW V, NEW W, NEW M, V \subseteq W
  PROVE  /\ LitsOf(V) \subseteq LitsOf(W) /\ Sound(V, M) \subseteq Sound(W, M)
         /\ Facts(V, M) \subseteq Facts(W, M) /\ SoundEntries(V, M) \subseteq SoundEntries(W, M)
         /\ Equivalences(V, M) \subseteq Equivalences(W, M)
         /\ Reprs(V, M) \subseteq Reprs(W, M)
<1>1. LitsOf(V) \subseteq LitsOf(W)
  BY DEF LitsOf
<1>2. Sound(V, M) \subseteq Sound(W, M) /\ Facts(V, M) \subseteq Facts(W, M)
  BY <1>1 DEF Sound, Facts
<1>3. SoundEntries(V, M) \subseteq SoundEntries(W, M)
  BY <1>2 DEF SoundEntries
<1>4. Equivalences(V, M) \subseteq Equivalences(W, M)
  BY <1>1 DEF Equivalences
<1>5. \A a, b : Same(a, b, V, M) => Same(a, b, W, M)
  BY <1>1 DEF Same
<1>6. Reprs(V, M) \subseteq Reprs(W, M)
  BY <1>5 DEF Reprs
<1> QED BY <1>1, <1>2, <1>3, <1>4, <1>6

\* A gate over some variables is one over more.
LEMMA MoreGates ==
  ASSUME NEW V, NEW W, NEW M, V \subseteq W
  PROVE  GateSet(V, M) \subseteq GateSet(W, M)
<1> SUFFICES ASSUME NEW g \in GateSet(V, M) PROVE g \in GateSet(W, M)
  OBVIOUS
<1>1. LitsOf(V) \subseteq LitsOf(W)
  BY MoreVars
<1>2. IteInputs(V) \subseteq IteInputs(W)
  BY <1>1 DEF IteInputs
<1>3. GateForm(g, W)
  BY <1>1 DEF GateForm, GateSet, GateRecords
<1>4. g \in [tag : {"and", "xor", "ite"}, lhs : LitsOf(V), rhs : SUBSET LitsOf(V),
             ite : IteInputs(V), degenerate : BOOLEAN]
  BY DEF GateSet, GateRecords
<1>5. g \in [tag : {"and", "xor", "ite"}, lhs : LitsOf(W), rhs : SUBSET LitsOf(W),
             ite : IteInputs(W), degenerate : BOOLEAN]
  BY <1>1, <1>2, <1>4
<1>6. \A m \in M : GateHolds(g, m)
  BY DEF GateSet
<1> QED BY <1>3, <1>5, <1>6 DEF GateSet, GateRecords

\* A sequence over some elements is one over more.
LEMMA MoreSeq ==
  ASSUME NEW S, NEW T, S \subseteq T, NEW q \in Seq(S)
  PROVE  q \in Seq(T)
  OBVIOUS

\* A closure over some variables is one over more.
LEMMA MoreClosures ==
  ASSUME NEW V, NEW W, NEW M, V \subseteq W
  PROVE  ClosureJobs(V, M) \subseteq ClosureJobs(W, M)
<1>1. LitsOf(V) \subseteq LitsOf(W) /\ Sound(V, M) \subseteq Sound(W, M) /\ Reprs(V, M) \subseteq Reprs(W, M)
  BY MoreVars
<1>2. GateSet(V, M) \subseteq GateSet(W, M)
  BY MoreGates
<1> SUFFICES ASSUME NEW j \in ClosureJobs(V, M)
             PROVE  j \in ClosureJobs(W, M)
  OBVIOUS
<1>3. j \in [name : {"congruence"}, phase : ClosurePhases, gates : SUBSET GateSet(V, M),
             reprs : Reprs(V, M), schedule : Seq(LitsOf(V)), watched : SUBSET Sound(V, M),
             units : SUBSET LitsOf(V), merged : BOOLEAN] /\ IsFiniteSet(j.gates)
  BY DEF ClosureJobs
<1>4. j.schedule \in Seq(LitsOf(W))
  BY <1>1, <1>3, MoreSeq
<1>5. j.gates \in SUBSET GateSet(W, M) /\ j.reprs \in Reprs(W, M) /\ j.watched \in SUBSET Sound(W, M)
      /\ j.units \in SUBSET LitsOf(W)
  BY <1>1, <1>2, <1>3
<1>6. j \in [name : {"congruence"}, phase : ClosurePhases, gates : SUBSET GateSet(W, M),
             reprs : Reprs(W, M), schedule : Seq(LitsOf(W)), watched : SUBSET Sound(W, M),
             units : SUBSET LitsOf(W), merged : BOOLEAN]
  BY <1>3, <1>4, <1>5
<1> QED BY <1>3, <1>6 DEF ClosureJobs

\* What holds in some assignments holds in fewer.
LEMMA FewerModels ==
  ASSUME NEW V, NEW M, NEW N, N \subseteq M
  PROVE  ClosureJobs(V, M) \subseteq ClosureJobs(V, N)
<1>1. GateSet(V, M) \subseteq GateSet(V, N)
  BY DEF GateSet
<1>2. Reprs(V, M) \subseteq Reprs(V, N)
  BY DEF Reprs, Same
<1>3. Sound(V, M) \subseteq Sound(V, N)
  BY DEF Sound
<1> QED BY <1>1, <1>2, <1>3 DEF ClosureJobs

\* What is known of a job is known with more variables in use.
LEMMA MoreJobs ==
  ASSUME NEW V, NEW W, NEW M, V \subseteq W, NEW r, NEW j, JobGood(j, r, V, M)
  PROVE  JobGood(j, r, W, M)
<1>1. CASE j = NoJob
  BY <1>1 DEF JobGood
<1>2. CASE ElimGood(j, r, V, M)
  <2>1. MarksGood(j.marks, j.pivot, V, M) => MarksGood(j.marks, j.pivot, W, M)
    BY MoreVars DEF MarksGood
  <2>2. ElimGood(j, r, W, M)
    BY <1>2, <2>1 DEF ElimGood
  <2> QED BY <2>2 DEF JobGood
<1>3. CASE CoverGood(j, V, M)
  <2>1. j.entries \in Seq(SoundEntries(W, M))
    <3>1. SoundEntries(V, M) \subseteq SoundEntries(W, M) /\ j.entries \in Seq(SoundEntries(V, M))
      BY <1>3, MoreVars DEF CoverGood
    <3> QED BY <3>1, MoreSeq
  <2>2. CoverGood(j, W, M)
    BY <1>3, <2>1, MoreVars DEF CoverGood
  <2> QED BY <2>2 DEF JobGood
<1>4. CASE ProbeGood(j, r, V, M)
  <2>1. Tree(j.parent, j.probe, W)
    BY <1>4, MoreVars DEF ProbeGood, Tree
  <2>2. ProbeGood(j, r, W, M)
    BY <1>4, <2>1 DEF ProbeGood
  <2> QED BY <2>2 DEF JobGood
<1>5. CASE SweepGood(j, V, M)
  <2>1. Seq(Equivalences(V, M)) \subseteq Seq(Equivalences(W, M))
    <3>1. Equivalences(V, M) \subseteq Equivalences(W, M)
      BY MoreVars
    <3> QED BY <3>1, MoreSeq
  <2>2. SweepGood(j, W, M)
    BY <1>5, <2>1, MoreVars DEF SweepGood
  <2> QED BY <2>2 DEF JobGood
<1>6. CASE ClosingGood(j, r, V, M)
  <2>1. ClosingGood(j, r, W, M)
    BY <1>6, MoreClosures DEF ClosingGood
  <2> QED BY <2>1 DEF JobGood
<1> QED BY <1>1, <1>2, <1>3, <1>4, <1>5, <1>6 DEF JobGood

\* The result of a step, over the variables that were in use before it.
LEMMA Settled ==
  ASSUME NEW V, V \subseteq Var, NEW M, NEW r \in Databases(V, M), NEW j, JobGood(j, r, V, M)
  PROVE  Good(r, j, M)
<1>1. V \subseteq Used(r)
  BY DatabaseFacts DEF Used
<1>2. r \in Databases(Used(r), M)
  BY <1>1, Widen DEF Used
<1> QED BY <1>1, <1>2, MoreJobs DEF Good

\* A database without a job.
LEMMA SettledAlone ==
  ASSUME NEW V, V \subseteq Var, NEW M, NEW r \in Databases(V, M)
  PROVE  Good(r, NoJob, M)
<1>1. JobGood(NoJob, r, V, M)
  BY DEF JobGood
<1> QED BY <1>1, Settled

\* A literal of a variable in use.
LEMMA UsedLits ==
  ASSUME NEW r, NEW lit \in Lit, r.status[VarOf(lit)] = "active"
  PROVE  lit \in LitsOf(Used(r))
  BY LitFacts DEF LitsOf, Used

\* Jobs of an elimination.
LEMMA RoundGood ==
  ASSUME NEW technique, NEW r, NEW V, NEW M
  PROVE  JobGood(Round(technique), r, V, M)
<1>1. ElimGood(Round(technique), r, V, M)
  BY DEF ElimGood, Round, Has, ElimPhases
<1> QED BY <1>1 DEF JobGood

\* The job of try_to_eliminate_variable.
LEMMA TryGood ==
  ASSUME NEW q, NEW pivot \in Lit, NEW gates, NEW definition, NEW r, NEW V, NEW M
  PROVE  JobGood(TryJob(q, pivot, gates, definition), r, V, M)
<1>1. ElimGood(TryJob(q, pivot, gates, definition), r, V, M)
  BY DEF ElimGood, TryJob, Has, ElimPhases, PairFields
<1> QED BY <1>1 DEF JobGood

\* The job of try_to_fasteliminate_variable.
LEMMA TryFastGood ==
  ASSUME NEW q, NEW pivot \in Lit, NEW r, NEW V, NEW M
  PROVE  JobGood(TryFastJob(q, pivot), r, V, M)
<1>1. ElimGood(TryFastJob(q, pivot), r, V, M)
  BY DEF ElimGood, TryFastJob, TryJob, Has, ElimPhases, PairFields
<1> QED BY <1>1 DEF JobGood

\* The job of find_equivalence: the marked literals are in binary clauses with
\* the pivot.
LEMMA EquivalenceGood ==
  ASSUME NEW V, NEW M, NEW r \in Databases(V, M), NEW pivot \in Lit, ~Fixed(r, pivot)
  PROVE  JobGood(EquivalenceJob(r, pivot), r, V, M)
<1>1. MarksGood(Seconds(r, pivot), pivot, V, M)
  BY MarksSound DEF MarksGood
<1>2. ElimGood(EquivalenceJob(r, pivot), r, V, M)
  BY <1>1 DEF ElimGood, EquivalenceJob, Has, ElimPhases
<1> QED BY <1>2 DEF JobGood

\* The pivot is a literal.
LEMMA PivotFacts ==
  ASSUME NEW r, NEW v \in Var
  PROVE  PivotOf(r, v) \in Lit
  BY VarFacts DEF PivotOf

\* The changes of a job of an elimination.
WithPhase(j, phase) == [j EXCEPT !.phase = phase]
WithTodo(j, cs) == [j EXCEPT !.todo = cs]
Counted(j, pairs, n) == [j EXCEPT !.pairs = pairs, !.resolvents = n]
Queued(j, pairs, cs) == [j EXCEPT !.pairs = pairs, !.queue = cs]
WithQueue(j, cs) == [j EXCEPT !.queue = cs]
Adding(j, pairs) == [j EXCEPT !.phase = "add", !.pairs = pairs]

\* A search for gates goes on whatever became of the database, unless the pivot
\* was assigned.
LEMMA SearchGood ==
  ASSUME NEW j, NEW r, NEW V, NEW M, ElimGood(j, r, V, M), j.phase = "equivalence", NEW q
  PROVE  /\ JobGood(WithPhase(j, "gates"), q, V, M)
         /\ ~Fixed(q, j.pivot) => \A x : JobGood(WithTodo(j, x), q, V, M)
<1>1. ElimGood(WithPhase(j, "gates"), q, V, M)
  BY DEF ElimGood, Has, ElimPhases, WithPhase
<1>2. ASSUME ~Fixed(q, j.pivot), NEW x PROVE ElimGood(WithTodo(j, x), q, V, M)
  BY <1>2 DEF ElimGood, Has, ElimPhases, WithTodo
<1> QED BY <1>1, <1>2 DEF JobGood

\* An attempt to eliminate goes on whatever became of the database.
LEMMA AttemptGood ==
  ASSUME NEW j, NEW r, NEW V, NEW M, ElimGood(j, r, V, M),
         j.phase \in {"count", "add", "backward"}, NEW q, NEW x, NEW y
  PROVE  /\ JobGood(WithPhase(j, "backward"), q, V, M)
         /\ JobGood(Counted(j, x, y), q, V, M) /\ JobGood(Queued(j, x, y), q, V, M)
         /\ JobGood(WithQueue(j, x), q, V, M) /\ JobGood(Adding(j, x), q, V, M)
<1>1. /\ ElimGood(WithPhase(j, "backward"), q, V, M)
      /\ ElimGood(Counted(j, x, y), q, V, M) /\ ElimGood(Queued(j, x, y), q, V, M)
      /\ ElimGood(WithQueue(j, x), q, V, M) /\ ElimGood(Adding(j, x), q, V, M)
  BY DEF ElimGood, Has, ElimPhases, PairFields, WithPhase, Counted, Queued, WithQueue, Adding
<1> QED BY <1>1 DEF JobGood

-----------------------------------------------------------------------------
(* The steps of the techniques. *)

\* A good database is one over the variables in use.
LEMMA GoodFacts ==
  ASSUME NEW M, Good(s, job, M)
  PROVE  /\ Used(s) \subseteq Var /\ s \in Databases(Used(s), M)
         /\ JobGood(job, s, Used(s), M)
  BY DEF Good, Used

\* A step that keeps what holds and puts no variable to use.
LEMMA StepJob ==
  ASSUME NEW M, s' \in Databases(Used(s), M), JobGood(job', s', Used(s), M)
  PROVE  Good(s', job', M)
<1>1. Used(s) \subseteq Var
  BY DEF Used
<1> QED BY <1>1, Settled

\* The same for a step that ends its job.
LEMMA StepAlone ==
  ASSUME NEW M, s' \in Databases(Used(s), M), job' = NoJob
  PROVE  Good(s', job', M)
<1>1. Used(s) \subseteq Var
  BY DEF Used
<1> QED BY <1>1, SettledAlone

\* Variable elimination.
LEMMA ElimRounds ==
  ASSUME NEW M, Good(s, job, M), ElimRound \/ FastElimRound \/ TryFastVariable
  PROVE  Good(s', job', M)
<1>1. s' = s
  BY DEF ElimRound, FastElimRound, TryFastVariable
<1>2. CASE ElimRound \/ FastElimRound
  <2>1. PICK technique \in {"elim", "elimfast"} : job' = Round(technique)
    BY <1>2 DEF ElimRound, FastElimRound
  <2> QED BY <1>1, <2>1, GoodFacts, RoundGood, StepJob
<1>3. CASE TryFastVariable
  <2>1. PICK v \in Actives(s) : job' = TryFastJob(s, PivotOf(s, v))
    BY <1>3 DEF TryFastVariable
  <2>2. PivotOf(s, v) \in Lit
    BY PivotFacts DEF Actives
  <2> QED BY <1>1, <2>1, <2>2, GoodFacts, TryFastGood, StepJob
<1> QED BY <1>2, <1>3

\* The start of try_to_eliminate_variable.
LEMMA TryVariableKeeps ==
  ASSUME NEW M, Good(s, job, M), TryVariable
  PROVE  Good(s', job', M)
<1> DEFINE V == Used(s)
<1>1. s \in Databases(V, M)
  BY GoodFacts
<1>2. PICK v \in Actives(s) :
        LET pivot == PivotOf(s, v)
            t     == MarkBinaries(s, pivot)
        IN  IF Occs(s.irr, pivot) = {} \/ "gates" \notin options.techniques
            THEN s' = s /\ job' = TryJob(s, pivot, {}, FALSE)
            ELSE /\ s' = t
                 /\ job' = IF t.unsat \/ Fixed(t, pivot) THEN Round("elim")
                           ELSE EquivalenceJob(t, pivot)
  BY DEF TryVariable
<1> DEFINE pivot == PivotOf(s, v)
<1>3. pivot \in Lit
  BY PivotFacts DEF Actives
<1> HIDE DEF pivot
<1>4. CASE s' = s /\ job' = TryJob(s, pivot, {}, FALSE)
  <2>1. JobGood(job', s', V, M)
    BY <1>3, <1>4, TryGood
  <2> QED BY <1>1, <1>4, <2>1, StepJob
<1>5. CASE /\ s' = MarkBinaries(s, pivot)
           /\ job' = IF s'.unsat \/ Fixed(s', pivot) THEN Round("elim")
                     ELSE EquivalenceJob(s', pivot)
  <2>1. s' \in Databases(V, M)
    BY <1>1, <1>5, MarkBinariesKeeps
  <2>2. JobGood(job', s', V, M)
    BY <1>3, <1>5, <2>1, RoundGood, EquivalenceGood
  <2> QED BY <2>1, <2>2, StepJob
<1> QED BY <1>2, <1>4, <1>5 DEF pivot

\* find_equivalence: a second binary clause derives a unit or the pivot's
\* equivalence.
LEMMA EquivalenceKeeps ==
  ASSUME NEW M, Good(s, job, M), Equivalence
  PROVE  Good(s', job', M)
<1> DEFINE V == Used(s)
           c     == Shortest(job.todo)
           units == EquivalenceUnit(s, c, job.pivot, job.marks)
           gates == EquivalenceGate(s, c, job.pivot, job.marks)
<1>1. s \in Databases(V, M) /\ JobGood(job, s, V, M)
  BY GoodFacts
<1>2. job.name = "elim" /\ job.phase = "equivalence"
  BY DEF Equivalence, Continue
<1>3. ElimGood(job, s, V, M)
  BY <1>1, <1>2, JobNames
<1>4. job.pivot \in Lit /\ ~Fixed(s, job.pivot) /\ MarksGood(job.marks, job.pivot, V, M)
  BY <1>2, <1>3 DEF ElimGood
<1>5. units \subseteq Facts(V, M)
  BY <1>1, <1>4, EquivalenceUnitSound DEF MarksGood
<1>6. \/ /\ units # {}
         /\ s' = ElimUnit(s, CHOOSE lit \in units : TRUE)
         /\ job' = IF s'.unsat \/ Fixed(s', job.pivot) THEN Round("elim")
                   ELSE WithTodo(job, job.todo \ {c})
      \/ /\ \E gate \in gates : job' = TryJob(s, job.pivot, gate, FALSE)
         /\ s' = s
      \/ job' = WithTodo(job, job.todo \ {c}) /\ s' = s
  BY DEF Equivalence, WithTodo
<1> HIDE DEF V, c, units, gates
<1>7. CASE /\ units # {}
           /\ s' = ElimUnit(s, CHOOSE lit \in units : TRUE)
           /\ job' = IF s'.unsat \/ Fixed(s', job.pivot) THEN Round("elim")
                     ELSE WithTodo(job, job.todo \ {c})
  <2>1. s' \in Databases(V, M)
    BY <1>1, <1>5, <1>7, ElimUnitKeeps
  <2>2. JobGood(job', s', V, M)
    BY <1>2, <1>3, <1>7, RoundGood, SearchGood
  <2> QED BY <2>1, <2>2, StepJob DEF V
<1>8. CASE (\E gate \in gates : job' = TryJob(s, job.pivot, gate, FALSE)) /\ s' = s
  <2>1. JobGood(job', s', V, M)
    BY <1>4, <1>8, TryGood
  <2> QED BY <1>1, <1>8, <2>1, StepJob DEF V
<1>9. CASE job' = WithTodo(job, job.todo \ {c}) /\ s' = s
  <2>1. JobGood(job', s', V, M)
    BY <1>2, <1>3, <1>4, <1>9, SearchGood
  <2> QED BY <1>1, <1>9, <2>1, StepJob DEF V
<1> QED BY <1>6, <1>7, <1>8, <1>9

\* find_gate_clauses.
LEMMA FindGatesKeeps ==
  ASSUME NEW M, Good(s, job, M), FindGates
  PROVE  Good(s', job', M)
<1> DEFINE V == Used(s)
<1>1. s \in Databases(V, M) /\ JobGood(job, s, V, M)
  BY GoodFacts
<1>2. job.name = "elim" /\ job.phase = "equivalence"
  BY DEF FindGates, Continue
<1>3. ElimGood(job, s, V, M)
  BY <1>1, <1>2, JobNames
<1>4. \/ s' = MarkBinaries(s, job.pivot)
      \/ s' = MarkBinaries(MarkBinaries(s, job.pivot), -job.pivot)
  BY DEF FindGates
<1>5. s' \in Databases(V, M)
  BY <1>1, <1>4, MarkBinariesKeeps
<1>6. job' = Round("elim") \/ job' = WithPhase(job, "gates")
  <2>1. job' = IF s'.unsat \/ Fixed(s', job.pivot) THEN Round("elim")
               ELSE WithPhase(job, "gates")
    BY DEF FindGates, WithPhase
  <2> QED BY <2>1
<1>7. JobGood(job', s', V, M)
  BY <1>2, <1>3, <1>6, RoundGood, SearchGood
<1> QED BY <1>5, <1>7, StepJob

\* The attempt with the clauses of a gate, or with all clauses.
LEMMA TriesKeep ==
  ASSUME NEW M, Good(s, job, M), TryWithGate \/ TryWithoutGate
  PROVE  Good(s', job', M)
<1> DEFINE V == Used(s)
<1>1. s \in Databases(V, M) /\ JobGood(job, s, V, M)
  BY GoodFacts
<1>2. job.name = "elim" /\ job.phase = "gates" /\ s' = s
  BY DEF TryWithGate, TryWithoutGate, Continue
<1>3. job.pivot \in Lit
  BY <1>1, <1>2, JobNames DEF ElimGood
<1>4. \E gates : job' = TryJob(s, job.pivot, gates, FALSE)
  BY DEF TryWithGate, TryWithoutGate
<1>5. JobGood(job', s', V, M)
  BY <1>3, <1>4, TryGood
<1> QED BY <1>1, <1>2, <1>5, StepJob

\* A set of one of two elements.
LEMMA SingletonOf ==
  ASSUME NEW S, Cardinality(S) = 1, NEW a, NEW b, S \subseteq {a, b}
  PROVE  \E x : S = {x}
<1>1. IsFiniteSet({a, b})
  <2>1. IsFiniteSet({a}) /\ {a, b} = {a} \cup {b}
    BY FS_Singleton
  <2> QED BY <2>1, FS_AddElement
<1>2. IsFiniteSet(S)
  BY <1>1, FS_Subset
<1> QED BY <1>2, FS_Singleton

\* find_definition: a core without the pivot's negation, or without the pivot,
\* derives a unit.
LEMMA DefinitionKeeps ==
  ASSUME NEW M, M \subseteq SUBSET Var, Good(s, job, M), TryWithDefinition
  PROVE  Good(s', job', M)
<1> DEFINE V == Used(s)
           pivot == job.pivot
<1>1. s \in Databases(V, M) /\ JobGood(job, s, V, M)
  BY GoodFacts
<1>2. job.name = "elim" /\ job.phase = "gates"
  BY DEF TryWithDefinition, Continue
<1>3. pivot \in Lit
  BY <1>1, <1>2, JobNames DEF ElimGood
<1>4. PICK gates \in find_definition(s, pivot) :
        LET sides == {p \in {pivot, -pivot} : Occs(gates, p) # {}}
        IN  IF Cardinality(sides) = 1
            THEN /\ s' = ElimUnit(s, CHOOSE lit \in sides : TRUE)
                 /\ job' = Round(job.technique)
            ELSE s' = s /\ job' = TryJob(s, pivot, gates, TRUE)
  BY DEF TryWithDefinition
<1> DEFINE sides == {p \in {pivot, -pivot} : Occs(gates, p) # {}}
<1>5. CASE Cardinality(sides) # 1
  <2>1. s' = s /\ job' = TryJob(s, pivot, gates, TRUE)
    BY <1>4, <1>5
  <2>2. JobGood(job', s', V, M)
    BY <1>3, <2>1, TryGood
  <2> QED BY <1>1, <2>1, <2>2, StepJob
<1>6. CASE Cardinality(sides) = 1
  <2>1. PICK x : sides = {x}
    BY <1>6, SingletonOf
  <2>2. x \in {pivot, -pivot} /\ x \in Lit /\ - -pivot = pivot /\ -x \in {pivot, -pivot} /\ x # -x
    BY <1>3, <2>1, LitFacts
  <2>3. Occs(gates, x) # {} /\ Occs(gates, -x) = {}
    BY <2>1, <2>2
  <2>4. gates \in SUBSET (Occs(s.irr, pivot) \cup Occs(s.irr, -pivot))
        /\ NoModel({c \ {pivot, -pivot} : c \in gates}, {})
    BY DEF find_definition
  <2>5. gates # {} /\ \A c \in gates : x \in c /\ -x \notin c
    BY <2>2, <2>3, <2>4 DEF Occs
  <2>6. {c \ {pivot, -pivot} : c \in gates} = {c \ {x, -x} : c \in gates}
    BY <2>2
  <2>7. gates \in SUBSET Sound(V, M)
    BY <1>1, <2>4, DatabaseFacts DEF Occs
  <2> HIDE DEF V, pivot, sides
  <2>8. NoModel({c \ {x, -x} : c \in gates}, {})
    BY <2>4, <2>6
  <2>9. x \in Facts(V, M)
    BY <2>2, <2>5, <2>7, <2>8, CoreSound
  <2>10. s' = ElimUnit(s, x) /\ job' = Round(job.technique)
    BY <1>4, <1>6, <2>1 DEF sides, pivot
  <2>11. s' \in Databases(V, M)
    BY <1>1, <2>9, <2>10, ElimUnitKeeps
  <2> QED BY <2>10, <2>11, RoundGood, StepJob DEF V
<1> QED BY <1>5, <1>6

\* The count of the resolvents, their derivation, and the elimination of the
\* pivot.
LEMMA PairStepsKeep ==
  ASSUME NEW M, Good(s, job, M), Count \/ Bounded \/ AddResolvent \/ Eliminate
  PROVE  Good(s', job', M)
<1> DEFINE V == Used(s)
<1>1. s \in Databases(V, M) /\ JobGood(job, s, V, M)
  BY GoodFacts
<1>2. job.name = "elim" /\ job.phase \in {"count", "add", "backward"}
  BY DEF Count, Bounded, AddResolvent, Eliminate, Continue
<1>3. ElimGood(job, s, V, M)
  BY <1>1, <1>2, JobNames
<1>4. job.pivot \in Lit
  BY <1>2, <1>3 DEF ElimGood
<1> DEFINE pair == NextPair(job.pairs)
<1>5. CASE Count
  <2>1. s' = CountPair(s, job, pair).s /\ job' = CountPair(s, job, pair).job
    BY <1>5 DEF Count
  <2>2. s' \in Databases(V, M)
    BY <1>1, <1>4, <2>1, PairsKeep
  <2> DEFINE res == resolve_clauses(s, pair[1], pair[2], job.pivot, TRUE)
             n == job.resolvents + Cardinality(res.resolvent)
  <2>3. \/ job' = WithPhase(job, "backward")
        \/ job' = Counted(job, job.pairs \ {pair}, n)
    <3>1. CountPair(s, job, pair).job =
            IF n > job.bound \/ res.s.unsat \/ Fixed(res.s, job.pivot)
            THEN WithPhase(job, "backward")
            ELSE Counted(job, job.pairs \ {pair}, n)
      BY DEF CountPair, Counted, WithPhase
    <3> QED BY <2>1, <3>1
  <2> HIDE DEF n, pair, V
  <2>4. JobGood(job', s', V, M)
    BY <1>2, <1>3, <2>3, AttemptGood
  <2> QED BY <2>2, <2>4, StepJob DEF V
<1>6. CASE Bounded
  <2>1. s' = s /\ job' = Adding(job, Pairs(s, job.pivot, job.gates, job.definition))
    BY <1>6 DEF Bounded, StartAdding, Adding
  <2>2. JobGood(job', s', V, M)
    BY <1>2, <1>3, <2>1, AttemptGood
  <2> QED BY <1>1, <2>1, <2>2, StepJob
<1>7. CASE AddResolvent
  <2>1. s' = AddPair(s, job, pair).s /\ job' = AddPair(s, job, pair).job
    BY <1>7 DEF AddResolvent
  <2>2. s' \in Databases(V, M)
    BY <1>1, <1>4, <2>1, PairsKeep
  <2> DEFINE res == resolve_clauses(s, pair[1], pair[2], job.pivot, FALSE)
  <2>3. \/ job' = WithPhase(job, "backward")
        \/ job' = Queued(job, job.pairs \ {pair}, job.queue \cup res.resolvent)
    <3>1. AddPair(s, job, pair).job =
            IF res.s.unsat THEN WithPhase(job, "backward")
            ELSE Queued(job, job.pairs \ {pair}, job.queue \cup res.resolvent)
      BY DEF AddPair, Queued, WithPhase
    <3> QED BY <2>1, <3>1
  <2> HIDE DEF res, pair, V
  <2>4. JobGood(job', s', V, M)
    BY <1>2, <1>3, <2>3, AttemptGood
  <2> QED BY <2>2, <2>4, StepJob DEF V
<1>8. CASE Eliminate
  <2>1. s' = FinishElimination(s, job) /\ job' = WithPhase(job, "backward")
    BY <1>8 DEF Eliminate, WithPhase
  <2>2. s' \in Databases(V, M)
    BY <1>1, <1>4, <2>1, FinishEliminationKeeps
  <2>3. JobGood(job', s', V, M)
    BY <1>2, <1>3, <2>1, AttemptGood
  <2> QED BY <2>2, <2>3, StepJob
<1> QED BY <1>5, <1>6, <1>7, <1>8

\* elim_backward_clauses.
LEMMA BackwardKeeps ==
  ASSUME NEW M, Good(s, job, M), Backward
  PROVE  Good(s', job', M)
<1> DEFINE V == Used(s)
<1>1. s \in Databases(V, M) /\ JobGood(job, s, V, M)
  BY GoodFacts
<1>2. job.name = "elim" /\ job.phase = "backward"
  BY DEF Backward, Continue
<1>3. ElimGood(job, s, V, M)
  BY <1>1, <1>2, JobNames
<1>4. PICK c \in job.queue : \E best \in c :
        /\ s' = IF c \in s.irr THEN BackwardClause(s, c, best).s ELSE s
        /\ job' = WithQueue(job, (job.queue \ {c}) \cup
                                  IF c \in s.irr THEN BackwardClause(s, c, best).queue ELSE {})
  BY DEF Backward, WithQueue
<1>5. c \in s.irr => c \in Proper(V, M)
  BY <1>1, DatabaseFacts
<1>6. \A best : c \in s.irr => BackwardClause(s, c, best).s \in Databases(V, M)
  BY <1>1, <1>5, BackwardClauseKeeps DEF Backwards
<1>7. s' \in Databases(V, M)
  BY <1>1, <1>4, <1>6
<1>8. JobGood(job', s', V, M)
  BY <1>2, <1>3, <1>4, AttemptGood
<1> QED BY <1>7, <1>8, StepJob

\* The end of an attempt and of a round.
LEMMA RoundEndsKeep ==
  ASSUME NEW M, Good(s, job, M), Attempted \/ EndRound
  PROVE  Good(s', job', M)
<1> DEFINE V == Used(s)
<1>1. s \in Databases(V, M)
  BY GoodFacts
<1>2. CASE Attempted
  <2>1. s' = s /\ job' = Round(job.technique)
    BY <1>2 DEF Attempted
  <2> QED BY <1>1, <2>1, RoundGood, StepJob
<1>3. CASE EndRound
  <2>1. s' = EndElim(s) /\ job' = NoJob
    BY <1>3 DEF EndRound
  <2> QED BY <1>1, <2>1, EndElimKeeps, StepAlone
<1> QED BY <1>2, <1>3

\* Techniques that work in one step.
LEMMA LearnStepKeeps ==
  ASSUME NEW M, Good(s, job, M), Learn
  PROVE  Good(s', job', M)
<1> DEFINE V == Used(s)
<1>1. s \in Databases(V, M) /\ job' = NoJob
  BY GoodFacts DEF Learn, Technique
<1> DEFINE lits == {lit \in Lit : Active(s, lit)}
<1>2. PICK n \in 1..LearnedSize : \E c \in kSubset(n, lits) :
        /\ \A lit \in c : -lit \notin c
        /\ Rup(Clauses(s), s.units, c)
        /\ s' = Propagate(Derive(s, c, "red"))
  BY DEF Learn
<1>3. PICK c \in SUBSET lits :
        /\ \A lit \in c : -lit \notin c
        /\ Rup(Clauses(s), s.units, c)
        /\ s' = Propagate(Derive(s, c, "red"))
  BY <1>2 DEF kSubset
<1>4. lits \subseteq LitsOf(V)
  BY UsedLits DEF Active
<1>5. c \in Sound(V, M)
  BY <1>1, <1>3, <1>4, DatabaseFacts, RupSound
<1>6. c \in Proper(V, M)
  BY <1>3, <1>5 DEF Proper
<1>7. Derive(s, c, "red") \in Databases(V, M)
  BY <1>1, <1>6, DeriveKeeps DEF Kinds
<1>8. s' \in Databases(V, M)
  BY <1>3, <1>7, PropagateKeeps
<1> QED BY <1>1, <1>8, StepAlone

\* A step of blocked clause elimination.
LEMMA BlockKeeps ==
  ASSUME NEW M, Good(s, job, M), Block
  PROVE  Good(s', job', M)
<1> DEFINE V == Used(s)
<1>1. s \in Databases(V, M) /\ job' = NoJob
  BY GoodFacts DEF Block, Technique
<1>2. PICK lit \in block_schedule(s, FrozenVars) :
        s' = IF Occs(DropSatisfied(s).irr, -lit) = {}
             THEN DropEliminated(block_literal(DropSatisfied(s), lit))
             ELSE block_literal(DropSatisfied(s), lit)
  BY DEF Block
<1>3. lit \in Lit
  BY DEF block_schedule
<1>4. DropSatisfied(s) \in Databases(V, M)
  BY <1>1, DropSatisfiedKeeps
<1>5. block_literal(DropSatisfied(s), lit) \in Databases(V, M)
  BY <1>3, <1>4, BlockLiteralKeeps
<1>6. s' \in Databases(V, M)
  BY <1>2, <1>5, DropEliminatedKeeps
<1> QED BY <1>1, <1>6, StepAlone

\* The start of cover_clause.
LEMMA CoverKeeps ==
  ASSUME NEW M, Good(s, job, M), Cover
  PROVE  Good(s', job', M)
<1> DEFINE V == Used(s)
<1>1. s \in Databases(V, M) /\ job = NoJob
  BY GoodFacts DEF Cover, Technique
<1>2. PICK c \in s.irr : \/ s' = MarkGarbage(s, c, "irr") /\ job' = job
                         \/ s' = s /\ job' = CoverJob(s, c)
  BY DEF Cover
<1>3. CASE s' = MarkGarbage(s, c, "irr") /\ job' = job
  <2>1. s' \in Databases(V, M)
    BY <1>1, <1>3, DropKeeps DEF Kinds
  <2> QED BY <1>1, <1>3, <2>1, StepAlone
<1>4. CASE s' = s /\ job' = CoverJob(s, c)
  <2>1. JobGood(job', s', V, M)
    BY <1>1, <1>4, CoverJobGood DEF JobGood
  <2> QED BY <1>1, <1>4, <2>1, StepJob
<1> QED BY <1>2, <1>3, <1>4

\* A step of asymmetric literal addition.
LEMMA CoverAsymmetricKeeps ==
  ASSUME NEW M, Good(s, job, M), CoverAsymmetric
  PROVE  Good(s', job', M)
<1> DEFINE V == Used(s)
<1>1. s \in Databases(V, M) /\ CoverGood(job, V, M)
  BY GoodFacts, JobNames DEF CoverAsymmetric, Continue
<1>2. \/ s' = RemoveCovered(s, job.clause, job.entries) /\ job' = NoJob
      \/ s' = s /\ job' = [AsymmetricAddition(s, job) EXCEPT !.phase = "covered"]
  BY DEF CoverAsymmetric
<1>3. CASE s' = RemoveCovered(s, job.clause, job.entries) /\ job' = NoJob
  <2>1. job.entries \in Seq(SoundEntries(V, M))
    BY <1>1 DEF CoverGood
  <2>2. s' \in Databases(V, M)
    BY <1>1, <1>3, <2>1, RemoveCoveredKeeps
  <2> QED BY <1>3, <2>2, StepAlone
<1>4. CASE s' = s /\ job' = [AsymmetricAddition(s, job) EXCEPT !.phase = "covered"]
  <2>1. CoverGood([AsymmetricAddition(s, job) EXCEPT !.phase = "covered"], V, M)
    BY <1>1, AsymmetricGood
  <2>2. JobGood(job', s', V, M)
    BY <1>4, <2>1 DEF JobGood
  <2> QED BY <1>1, <1>4, <2>2, StepJob
<1> QED BY <1>2, <1>3, <1>4

\* A step of covered literal addition.
LEMMA CoverCoveredKeeps ==
  ASSUME NEW M, Good(s, job, M), CoverCovered
  PROVE  Good(s', job', M)
<1> DEFINE V == Used(s)
<1>1. s \in Databases(V, M) /\ CoverGood(job, V, M)
  BY GoodFacts, JobNames DEF CoverCovered, Continue
<1>2. PICK lit \in job.covered :
        \/ /\ s' = RemoveCovered(s, job.clause, Append(job.entries, CoverEntry(s, job, lit)))
           /\ job' = NoJob
        \/ /\ Candidates(s, job, lit) # {}
           /\ job' = [CoveredAddition(s, job, lit) EXCEPT !.phase = "extend"]
           /\ s' = s
  BY DEF CoverCovered
<1>3. lit \in Lit
  BY <1>1, LitsOfFacts DEF CoverGood
<1>4. CASE /\ s' = RemoveCovered(s, job.clause, Append(job.entries, CoverEntry(s, job, lit)))
           /\ job' = NoJob
  <2>1. Append(job.entries, CoverEntry(s, job, lit)) \in Seq(SoundEntries(V, M))
    BY <1>1, <1>3, CoverEntrySound
  <2>2. s' \in Databases(V, M)
    BY <1>1, <1>4, <2>1, RemoveCoveredKeeps
  <2> QED BY <1>4, <2>2, StepAlone
<1>5. CASE /\ Candidates(s, job, lit) # {}
           /\ job' = [CoveredAddition(s, job, lit) EXCEPT !.phase = "extend"]
           /\ s' = s
  <2>1. CoverGood([CoveredAddition(s, job, lit) EXCEPT !.phase = "extend"], V, M)
    BY <1>1, <1>3, <1>5, CoveredGood
  <2>2. JobGood(job', s', V, M)
    BY <1>5, <2>1 DEF JobGood
  <2> QED BY <1>1, <1>5, <2>2, StepJob
<1> QED BY <1>2, <1>4, <1>5

\* A job is given up.
LEMMA GiveUps ==
  ASSUME NEW M, Good(s, job, M), CoverFails \/ ProbeEnds
  PROVE  Good(s', job', M)
<1>1. s' = s /\ job' = NoJob
  BY DEF CoverFails, ProbeEnds
<1> QED BY <1>1, GoodFacts, StepAlone

\* A step of globally blocked clause elimination.
LEMMA ConditionStepKeeps ==
  ASSUME NEW M, Good(s, job, M), ConditionClause
  PROVE  Good(s', job', M)
<1> DEFINE V == Used(s)
<1>1. s \in Databases(V, M) /\ job' = NoJob
  BY GoodFacts DEF ConditionClause, Technique
<1>2. PICK lits \in Assignment(s, FrozenVars) : \E c \in s.irr : s' = Condition(s, lits, c)
  BY DEF ConditionClause
<1>3. lits \in SUBSET Lit
  BY VarFacts DEF Assignment, Actives
<1>4. s' \in Databases(V, M)
  BY <1>1, <1>2, <1>3, ConditionKeeps
<1> QED BY <1>1, <1>4, StepAlone

\* A step of subsumption.
LEMMA SubsumeStepKeeps ==
  ASSUME NEW M, Good(s, job, M), Subsume
  PROVE  Good(s', job', M)
<1> DEFINE V == Used(s)
<1>1. s \in Databases(V, M) /\ job' = NoJob
  BY GoodFacts DEF Subsume, Technique
<1>2. PICK k \in Kinds : \E c \in SubsumeCandidates(s, k) : s' \in try_to_subsume_clause(s, c, k)
  BY DEF Subsume, Kinds
<1>3. PICK c \in s[k] : s' \in try_to_subsume_clause(s, c, k)
  BY <1>2 DEF SubsumeCandidates
<1>4. s' \in Databases(V, M)
  BY <1>1, <1>3, SubsumeKeeps
<1> QED BY <1>1, <1>4, StepAlone

\* The removal of duplicates, and the substitution of equivalent literals.
LEMMA DeduplicateSteps ==
  ASSUME NEW M, Good(s, job, M), Deduplicate \/ DeduplicateAllClauses \/ Decompose
  PROVE  Good(s', job', M)
<1> DEFINE V == Used(s)
<1>1. s \in Databases(V, M) /\ job' = NoJob
  BY GoodFacts DEF Deduplicate, DeduplicateAllClauses, Decompose, Technique
<1>2. \/ s' = mark_duplicated_binary_clauses_as_garbage(s) \/ s' = DeduplicateAll(s)
      \/ s' = decompose_round(s, FrozenVars)
  BY DEF Deduplicate, DeduplicateAllClauses, Decompose
<1>3. s' \in Databases(V, M)
  BY <1>1, <1>2, DeduplicateKeeps, DecomposeKeeps
<1> QED BY <1>1, <1>3, StepAlone

\* A step of transitive reduction.
LEMMA TransredKeeps ==
  ASSUME NEW M, Good(s, job, M), Transred
  PROVE  Good(s', job', M)
<1> DEFINE V == Used(s)
<1>1. s \in Databases(V, M) /\ job' = NoJob
  BY GoodFacts DEF Transred, Technique
<1>2. PICK k \in Kinds : \E c \in TransredCandidates(s, k) :
        \/ s' = MarkGarbage(s, c, k)
        \/ \E lit \in FailedSources(s, c, k) : s' = Propagate(AssignUnit(s, lit))
  BY DEF Transred, Kinds
<1>3. PICK c \in s[k] :
        \/ s' = MarkGarbage(s, c, k)
        \/ \E lit \in FailedSources(s, c, k) : s' = Propagate(AssignUnit(s, lit))
  BY <1>2 DEF TransredCandidates, BinaryClauses
<1>4. CASE s' = MarkGarbage(s, c, k)
  BY <1>1, <1>4, DropKeeps, StepAlone
<1>5. ASSUME NEW lit \in FailedSources(s, c, k), s' = Propagate(AssignUnit(s, lit))
      PROVE  s' \in Databases(V, M)
  <2>1. lit \in Facts(V, M)
    BY <1>1, <1>5, FailedSourcesSound
  <2>2. AssignUnit(s, lit) \in Databases(V, M)
    BY <1>1, <2>1, AssignKeeps
  <2> QED BY <1>5, <2>2, PropagateKeeps
<1> QED BY <1>1, <1>3, <1>4, <1>5, StepAlone

\* A step of hyper ternary resolution.
LEMMA TernaryStepKeeps ==
  ASSUME NEW M, Good(s, job, M), TernaryPair
  PROVE  Good(s', job', M)
<1> DEFINE V == Used(s)
<1>1. s \in Databases(V, M) /\ job' = NoJob
  BY GoodFacts DEF TernaryPair, Technique
<1>2. PICK pivot \in Var, ck \in Kinds, dk \in Kinds :
        \E c \in TernaryCandidates(s, pivot, ck), d \in TernaryCandidates(s, -pivot, dk) :
          \E r \in hyper_ternary_resolve(s, c, pivot, d) :
            s' = TernaryResolve(s, c, ck, d, dk, r)
  BY DEF TernaryPair, Kinds
<1>3. PICK c \in s[ck], d \in s[dk] :
        \E r \in hyper_ternary_resolve(s, c, pivot, d) : s' = TernaryResolve(s, c, ck, d, dk, r)
  BY <1>2 DEF TernaryCandidates, Occs
<1>4. pivot \in Lit
  BY VarFacts
<1>5. s' \in Databases(V, M)
  BY <1>1, <1>3, <1>4, TernaryKeeps
<1> QED BY <1>1, <1>5, StepAlone

\* Failed literals.
LEMMA ProbeKeeps ==
  ASSUME NEW M, Good(s, job, M), Probe
  PROVE  Good(s', job', M)
<1> DEFINE V == Used(s)
<1>1. s \in Databases(V, M) /\ s' = s /\ Propagated(s) /\ ~s.unsat
  BY GoodFacts DEF Probe, Technique, Start
<1>2. PICK probe \in generate_probes(s) : job' = ProbeJob(probe)
  BY DEF Probe
<1>3. probe \in Lit /\ Active(s, probe)
  BY DEF generate_probes
<1>4. probe \in LitsOf(V) /\ ~Fixed(s, probe)
  BY <1>3, UsedLits DEF Active
<1>5. ProbeGood(ProbeJob(probe), s, V, M)
  BY <1>1, <1>4, ProbeJobGood
<1>6. JobGood(job', s', V, M)
  BY <1>1, <1>2, <1>5 DEF JobGood
<1> QED BY <1>1, <1>6, StepJob

\* The steps of a probe that is under way.
LEMMA ProbeStepsKeep ==
  ASSUME NEW M, Good(s, job, M), ProbeBinary \/ ProbeLong \/ ProbeFails
  PROVE  Good(s', job', M)
<1> DEFINE V == Used(s)
<1>1. s \in Databases(V, M) /\ ProbeGood(job, s, V, M)
  BY GoodFacts, JobNames DEF ProbeBinary, ProbeLong, ProbeFails, Continue
<1>2. CASE ProbeBinary
  <2>1. s' = s
    BY <1>2 DEF ProbeBinary
  <2>2. PICK c \in Forcing(s, job, BinaryClauses(Clauses(s))) : \E parent \in Reasons(job, c) :
          job' = ProbeAssign(job, Forced(s, job, c), parent)
    BY <1>2 DEF ProbeBinary
  <2>3. ProbeGood(job', s', V, M)
    BY <1>1, <2>1, <2>2, ProbeBinaryGood
  <2>4. JobGood(job', s', V, M)
    BY <2>3 DEF JobGood
  <2> QED BY <1>1, <2>1, <2>4, StepJob
<1>3. CASE ProbeLong
  <2>1. PICK k \in Kinds : \E c \in Forcing(s, job, s[k]) :
          /\ s' = hyper_binary_resolve(s, job, c, k)
          /\ job' = ProbeAssign(job, Forced(s, job, c), Dominator(job, Reasons(job, c)))
    BY <1>3 DEF ProbeLong, Kinds
  <2>2. s' \in Databases(V, M) /\ ProbeGood(job', s', V, M)
    BY <1>1, <2>1, HyperBinaryKeeps
  <2>3. JobGood(job', s', V, M)
    BY <2>2 DEF JobGood
  <2> QED BY <2>2, <2>3, StepJob
<1>4. CASE ProbeFails
  <2>1. PICK c \in Falsified(s, job) : s' = failed_literal(s, job, c)
    BY <1>4 DEF ProbeFails
  <2>2. job' = NoJob
    BY <1>4 DEF ProbeFails
  <2>3. s' \in Databases(V, M)
    BY <1>1, <2>1, FailedLiteralKeeps
  <2> QED BY <2>2, <2>3, StepAlone
<1> QED BY <1>2, <1>3, <1>4

\* A step of backbone extraction.
LEMMA BackboneStepKeeps ==
  ASSUME NEW M, Good(s, job, M), BackboneLiteral
  PROVE  Good(s', job', M)
<1> DEFINE V == Used(s)
<1>1. s \in Databases(V, M) /\ job' = NoJob
  BY GoodFacts DEF BackboneLiteral, Technique
<1>2. PICK lit \in BackboneFailed(s) : s' = Backbone(s, lit)
  BY DEF BackboneLiteral
<1>3. lit \in Lit /\ Active(s, lit)
  BY DEF BackboneFailed
<1>4. lit \in LitsOf(V)
  BY <1>3, UsedLits DEF Active
<1>5. s' \in Databases(V, M)
  BY <1>1, <1>2, <1>4, BackboneKeeps
<1> QED BY <1>1, <1>5, StepAlone

\* A step of vivification and of instantiation.
LEMMA VivifySteps ==
  ASSUME NEW M, Good(s, job, M), Vivify \/ Instantiate
  PROVE  Good(s', job', M)
<1> DEFINE V == Used(s)
<1>1. s \in Databases(V, M) /\ job' = NoJob
  BY GoodFacts DEF Vivify, Instantiate, Technique
<1>2. CASE Vivify
  <2>1. PICK k \in Kinds : \E c \in VivifyCandidates(s, k) : s' \in vivify_clause(s, c, k)
    BY <1>2 DEF Vivify, Kinds
  <2>2. PICK c \in s[k] : s' \in vivify_clause(s, c, k)
    BY <2>1 DEF VivifyCandidates
  <2>3. s' \in Databases(V, M)
    BY <1>1, <2>2, VivifyKeeps
  <2> QED BY <1>1, <2>3, StepAlone
<1>3. CASE Instantiate
  <2>1. PICK c \in s.irr : \E lit \in c : s' = instantiate_candidate(s, c, lit)
    BY <1>3 DEF Instantiate
  <2>2. s' \in Databases(V, M)
    BY <1>1, <2>1, InstantiateKeeps
  <2> QED BY <1>1, <2>2, StepAlone
<1> QED BY <1>2, <1>3

\* Sweeping.
LEMMA SweepKeeps ==
  ASSUME NEW M, M \subseteq SUBSET Var, Good(s, job, M), Sweep \/ SweepVariable
  PROVE  Good(s', job', M)
<1> DEFINE V == Used(s)
<1>1. s \in Databases(V, M)
  BY GoodFacts
<1>2. JobGood(SweepRound, s', V, M)
  BY SweepRoundGood DEF JobGood
<1>3. CASE Sweep
  <2>1. s' = Drop(s, {c \in Sweepable(s) : SatisfiedBy(s.units, c)}) /\ job' = SweepRound
    BY <1>3 DEF Sweep
  <2>2. s' \in Databases(V, M)
    BY <1>1, <2>1, DropKeeps
  <2> QED BY <1>2, <2>1, <2>2, StepJob
<1>4. CASE SweepVariable
  <2>1. SweepGood(SweepJob(s), V, M) /\ (NoModel(Environment(s), {}) => M = {})
    BY <1>1, SweepVariableGood
  <2>2. \/ NoModel(Environment(s), {}) /\ s' = Unsat(s) /\ job' = SweepRound
        \/ s' = s /\ job' = SweepJob(s)
    BY <1>4 DEF SweepVariable
  <2>3. s' \in Databases(V, M)
    BY <1>1, <2>1, <2>2, UnsatKeeps
  <2>4. JobGood(job', s', V, M)
    BY <1>2, <2>1, <2>2 DEF JobGood
  <2> QED BY <2>3, <2>4, StepJob
<1> QED BY <1>3, <1>4

\* The steps of sweeping a variable.
LEMMA SweepStepsKeep ==
  ASSUME NEW M, M \subseteq SUBSET Var, Good(s, job, M),
         SweepUnit \/ SweepEquivalence \/ SweepSubstitute \/ SweepEnds
  PROVE  Good(s', job', M)
<1> DEFINE V == Used(s)
<1>1. s \in Databases(V, M) /\ SweepGood(job, V, M)
  BY GoodFacts, JobNames DEF SweepUnit, SweepEquivalence, SweepSubstitute, SweepEnds, Continue
<1>2. CASE SweepUnit
  <2>1. PICK lit \in SweepFixed(s, job) :
          s' = AssignUnit(s, lit) /\ job' = [job EXCEPT !.work = @ \cup {lit}]
    BY <1>2 DEF SweepUnit
  <2>2. job.phase = "variable"
    BY <1>2 DEF SweepUnit, Continue
  <2>3. /\ AssignUnit(s, lit) \in Databases(V, M)
        /\ SweepGood([job EXCEPT !.work = @ \cup {lit}], V, M)
    BY <1>1, <2>2, SweepUnitKeeps
  <2>4. s' \in Databases(V, M) /\ JobGood(job', s', V, M)
    BY <2>1, <2>3 DEF JobGood
  <2> QED BY <2>4, StepJob
<1>3. CASE SweepEquivalence
  <2>1. PICK p \in SweepEquivalent(s, job, FrozenVars) :
          /\ s' = PushEquivalence(s, p[1], p[2])
          /\ job' = [job EXCEPT !.merged = Append(@, [lit |-> p[1], repr |-> p[2]])]
    BY <1>3 DEF SweepEquivalence
  <2>2. job.phase = "variable"
    BY <1>3 DEF SweepEquivalence, Continue
  <2>3. /\ PushEquivalence(s, p[1], p[2]) \in Databases(V, M)
        /\ SweepGood([job EXCEPT !.merged = Append(@, [lit |-> p[1], repr |-> p[2]])], V, M)
    BY <1>1, <2>2, SweepEquivalenceKeeps
  <2>4. s' \in Databases(V, M) /\ JobGood(job', s', V, M)
    BY <2>1, <2>3 DEF JobGood
  <2> QED BY <2>4, StepJob
<1>4. CASE SweepSubstitute
  <2>1. s' = FinishVariable(s, job) /\ job' = SweepRound
    BY <1>4 DEF SweepSubstitute
  <2>2. job.phase = "variable"
    BY <1>4 DEF SweepSubstitute, Continue
  <2>3. s' \in Databases(V, M)
    BY <1>1, <2>1, <2>2, FinishVariableKeeps
  <2>4. JobGood(job', s', V, M)
    BY <2>1, SweepRoundGood DEF JobGood
  <2> QED BY <2>3, <2>4, StepJob
<1>5. CASE SweepEnds
  <2>1. s' = Propagate(s) /\ job' = NoJob
    BY <1>5 DEF SweepEnds
  <2> QED BY <1>1, <2>1, PropagateKeeps, StepAlone
<1> QED BY <1>2, <1>3, <1>4, <1>5

\* A database holds in the assignments that satisfy it.
LEMMA SatisfyingFacts ==
  ASSUME NEW V, NEW M, NEW r \in Databases(V, M)
  PROVE  /\ Clauses(r) \in SUBSET Sound(V, Satisfying(r))
         /\ r.units \in SUBSET Facts(V, Satisfying(r))
         /\ ~r.unsat => r \in Grown(V, Satisfying(r), r)
<1> DEFINE N == Satisfying(r)
<1>1. /\ Clauses(r) \in SUBSET Proper(V, M) /\ r.units \in SUBSET Facts(V, M)
      /\ r.irr \subseteq Clauses(r) /\ r.red \subseteq Clauses(r) /\ r.unsat \in BOOLEAN
      /\ \A v \in Var : v \in V => r.status[v] # "unused"
  BY DatabaseFacts DEF Clauses
<1>2. Clauses(r) \in SUBSET Sound(V, N)
  BY <1>1 DEF Sound, Proper, Satisfying, IsModel
<1>3. r.units \in SUBSET Facts(V, N)
  BY <1>1 DEF Facts, Satisfying, IsModel
<1>4. Clauses(r) \in SUBSET Proper(V, N)
  BY <1>1, <1>2 DEF Proper
<1>5. r.irr \in SUBSET Proper(V, N) /\ r.red \in SUBSET Proper(V, N)
  BY <1>1, <1>4
<1>6. Extending(r, r)
  BY <1>1, ExtendingFacts
<1> HIDE DEF N
<1>7. r \in [irr : SUBSET Proper(V, N), red : SUBSET Proper(V, N),
          units : SUBSET Facts(V, N), unsat : BOOLEAN, status : [Var -> Status],
          stack : {r.stack}, tainted : SUBSET Lit]
  BY <1>3, <1>5 DEF Databases
<1>8. ~r.unsat => r \in Grown(V, N, r)
  BY <1>1, <1>6, <1>7 DEF Grown
<1> QED BY <1>2, <1>3, <1>8 DEF N

\* congruence starts a closure on the database.
LEMMA CongruenceKeeps ==
  ASSUME NEW M, Good(s, job, M), Congruence
  PROVE  Good(s', job', M)
<1> DEFINE V == Used(s)
<1>1. s \in Databases(V, M)
  BY GoodFacts
<1>2. s' = extract_binaries(s) /\ job' = Closure(s')
  BY DEF Congruence
<1>3. s' \in Databases(V, M)
  BY <1>1, <1>2, ExtractBinariesKeeps
<1>5. /\ Closure(s') \in ClosureJobs(V, M) /\ Learned(s', Closure(s').reprs)
      /\ Closure(s') \in ClosureJobs(V, Satisfying(s'))
  BY <1>3, ClosureGood, DatabaseFacts, SatisfyingFacts
<1>4. JobGood(job', s', V, M)
  BY <1>2, <1>5 DEF JobGood, ClosingGood
<1> QED BY <1>3, <1>4, StepJob

ClosingStep ==
  \/ CongruenceExtract \/ CongruenceBinaries \/ CongruenceUnit
  \/ CongruenceEquivalence \/ CongruenceMatch

\* The end of a step of a closure: where it goes on, with what it derived.
LEMMA CloseFacts ==
  ASSUME NEW V, NEW M, NEW U, NEW t \in ClosureStates(V, M, U), NEW phase \in ClosurePhases,
         Close(t, phase)
  PROVE  s' \in Grown(V, M, U) /\ job' \in ClosureJobs(V, M) /\ Learned(s', job'.reprs)
<1>1. t.s \in Grown(V, M, U) /\ t.job \in ClosureJobs(V, M) /\ Learned(t.s, t.job.reprs)
  BY ClosureFacts
<1>2. /\ [t.job EXCEPT !.phase = phase] \in ClosureJobs(V, M)
      /\ [t.job EXCEPT !.phase = phase].reprs = t.job.reprs
  BY <1>1, PhaseKeeps DEF ClosureJobs
<1>3. s' = t.s /\ job' = [t.job EXCEPT !.phase = phase]
  BY DEF Close
<1> QED BY <1>1, <1>2, <1>3

\* The steps of a closure, for any assignments in which it holds.
LEMMA ClosingSteps ==
  ASSUME NEW V, NEW M, Closing \in ClosureStates(V, M, s), ClosingStep
  PROVE  s' \in Grown(V, M, s) /\ job' \in ClosureJobs(V, M) /\ Learned(s', job'.reprs)
<1>1. Closing.s = s /\ Closing.job = job
  BY DEF Closing
<1>2. Closing \in ClosureStates(V, M, s)
  OBVIOUS
<1>3. CASE CongruenceExtract
  <2>1. \/ Close(extract_and_gates(Closing), "xor") \/ Close(extract_xor_gates(Closing), "ite")
        \/ Close(extract_ite_gates(Closing), "units")
    BY <1>3 DEF CongruenceExtract
  <2> HIDE DEF Closing
  <2> QED BY <1>2, <2>1, ExtractAndKeeps, ExtractXorKeeps, ExtractIteKeeps, CloseFacts
          DEF ClosurePhases
<1>4. CASE CongruenceBinaries
  <2>1. Close(find_units(Closing), "binaries") \/ Close(find_equivalences(Closing), "close")
    BY <1>4 DEF CongruenceBinaries
  <2> QED BY <1>2, <2>1, FindUnitsKeeps, FindEquivalencesKeeps, CloseFacts DEF ClosurePhases
<1>5. CASE CongruenceUnit
  <2>1. PICK lit \in s.units : Close(propagate_unit(Closing, lit), "close")
    BY <1>5 DEF CongruenceUnit
  <2> QED BY <1>1, <1>2, <2>1, PropagateUnitKeeps, CloseFacts DEF ClosurePhases
<1>6. CASE CongruenceEquivalence
  <2>1. job.schedule # <<>> /\ Close(propagate_equivalence(Closing), "close")
    BY <1>6 DEF CongruenceEquivalence
  <2> QED BY <1>1, <1>2, <2>1, PropagateEquivalenceKeeps, CloseFacts DEF ClosurePhases
<1>7. CASE CongruenceMatch
  <2>1. Close(forward_subsume_matching_clauses(Closing), "matched")
    BY <1>7 DEF CongruenceMatch
  <2> QED BY <1>2, <2>1, MatchKeeps, CloseFacts DEF ClosurePhases
<1> QED BY <1>3, <1>4, <1>5, <1>6, <1>7 DEF ClosingStep

\* The steps of the closure up to its end.
LEMMA CongruenceStepsKeep ==
  ASSUME NEW M, Good(s, job, M), ClosingStep
  PROVE  Good(s', job', M)
<1> DEFINE V == Used(s)
           N == Satisfying(s)
<1>1. s \in Databases(V, M) /\ ClosingGood(job, s, V, M) /\ ~s.unsat
  BY GoodFacts, JobNames DEF ClosingStep, CongruenceExtract, CongruenceBinaries, CongruenceUnit,
     CongruenceEquivalence, CongruenceMatch, Continue
<1>2. s \in Grown(V, M, s) /\ s \in Grown(V, N, s)
  BY <1>1, DatabaseGrown, SatisfyingFacts
<1>3. job \in ClosureJobs(V, M) /\ job \in ClosureJobs(V, N) /\ Learned(s, job.reprs)
  BY <1>1 DEF ClosingGood
<1>4. Closing \in ClosureStates(V, M, s) /\ Closing \in ClosureStates(V, N, s)
  BY <1>2, <1>3 DEF Closing, ClosureStates
<1> HIDE DEF V, N
<1>5. s' \in Grown(V, M, s) /\ job' \in ClosureJobs(V, M) /\ Learned(s', job'.reprs)
  BY <1>4, ClosingSteps
<1>6. s' \in Grown(V, N, s) /\ job' \in ClosureJobs(V, N)
  BY <1>4, ClosingSteps
<1>7. s' \in Databases(V, M)
  BY <1>1, <1>5, GrownDatabase
<1>8. ~s'.unsat => Satisfying(s') \subseteq N
  <2>1. Extending(s', s)
    BY <1>5, GrownFacts
  <2> QED BY <2>1 DEF Extending, Implying, Satisfying, N
<1>9. ~s'.unsat => job' \in ClosureJobs(V, Satisfying(s'))
  BY <1>6, <1>8, FewerModels
<1>10. JobGood(job', s', V, M)
  BY <1>5, <1>9 DEF JobGood, ClosingGood
<1> QED BY <1>7, <1>10, StepJob DEF V

\* The end of the closure.
LEMMA CongruenceEndsKeeps ==
  ASSUME NEW M, Good(s, job, M), CongruenceEnds
  PROVE  Good(s', job', M)
<1>1. s' = Propagate(s) /\ job' = NoJob
  BY DEF CongruenceEnds
<1> QED BY <1>1, GoodFacts, PropagateKeeps, StepAlone

-----------------------------------------------------------------------------
(* Factoring, the calls of the user and the theorem. *)

\* A fresh variable is not one of the user.
LEMMA FreshFacts ==
  ASSUME NEW r, Fresh(r) # {}
  PROVE  Min(Fresh(r)) \in Var \ 1..UserVars /\ r.status[Min(Fresh(r))] = "unused"
<1>1. Fresh(r) \subseteq Nat
  BY VarFacts DEF Fresh
<1>2. \E x \in Fresh(r) : \A y \in Fresh(r) : x <= y
  BY <1>1, LeastNumber
<1>3. Min(Fresh(r)) \in Fresh(r)
  BY <1>2 DEF Min
<1> QED BY <1>1, <1>3, UserVarsAssumption DEF Fresh

\* A step of factoring, with a fresh variable or without.
LEMMA FactorStepKeeps ==
  ASSUME NEW M, Good(s, job, M), Factor
  PROVE  \/ Good(s', job', M)
         \/ \E factors, x : x \in Var \ 1..UserVars /\ Good(s', job', ExtendedAll(M, factors, x))
<1> DEFINE V == Used(s)
           t == mark_duplicated_binary_clauses_as_garbage(s)
<1>1. s \in Databases(V, M) /\ job' = NoJob /\ V \subseteq Var
  BY GoodFacts DEF Factor, Technique
<1>2. t \in Databases(V, M)
  BY <1>1, DeduplicateKeeps
<1>3. t \in Databases(Used(t), M) /\ Used(t) \subseteq Var
  BY <1>1, <1>2, SettledAlone DEF Good, Used
<1>4. PICK factors \in Factors(t) :
        \/ /\ SelfSubsuming(factors)
           /\ s' = apply_factoring(t, factors, 0)
        \/ /\ ~SelfSubsuming(factors) /\ Fresh(t) # {}
           /\ s' = apply_factoring(t, factors, Min(Fresh(t)))
  BY DEF Factor
<1>5. factors \in SUBSET LitsOf(Used(t))
  BY UsedLits DEF Factors, Active
<1> HIDE DEF t, V
<1>6. CASE SelfSubsuming(factors) /\ s' = apply_factoring(t, factors, 0)
  <2>1. s' \in Databases(V, M)
    BY <1>2, <1>6, FactorKeeps
  <2> QED BY <1>1, <2>1, StepAlone DEF V
<1>7. CASE /\ ~SelfSubsuming(factors) /\ Fresh(t) # {}
           /\ s' = apply_factoring(t, factors, Min(Fresh(t)))
  <2> DEFINE x == Min(Fresh(t))
  <2>1. x \in Var \ 1..UserVars /\ t.status[x] = "unused"
    BY <1>7, FreshFacts
  <2> HIDE DEF x
  <2>2. s' \in Databases(Used(t) \cup {x}, ExtendedAll(M, factors, x))
    BY <1>3, <1>5, <1>7, <2>1, FactorFreshKeeps DEF x
  <2>3. Used(t) \cup {x} \subseteq Var
    BY <1>3, <2>1
  <2>4. Good(s', job', ExtendedAll(M, factors, x))
    BY <1>1, <2>2, <2>3, SettledAlone
  <2> QED BY <2>1, <2>4
<1> QED BY <1>4, <1>6, <1>7

\* The steps of all the other techniques.
TechniqueStep ==
  \/ ElimRound \/ FastElimRound \/ TryFastVariable \/ TryVariable \/ Equivalence
  \/ FindGates \/ TryWithGate \/ TryWithDefinition \/ TryWithoutGate
  \/ Count \/ Bounded \/ AddResolvent \/ Eliminate \/ Backward
  \/ Attempted \/ EndRound
  \/ Learn \/ Block \/ Cover \/ CoverAsymmetric \/ CoverCovered \/ CoverFails
  \/ ConditionClause \/ Subsume \/ Deduplicate \/ DeduplicateAllClauses
  \/ Transred \/ TernaryPair \/ Decompose
  \/ Probe \/ ProbeBinary \/ ProbeLong \/ ProbeFails \/ ProbeEnds
  \/ BackboneLiteral \/ Vivify \/ Instantiate
  \/ Sweep \/ SweepVariable \/ SweepUnit \/ SweepEquivalence
  \/ SweepSubstitute \/ SweepEnds
  \/ Congruence \/ CongruenceExtract \/ CongruenceBinaries \/ CongruenceUnit
  \/ CongruenceEquivalence \/ CongruenceMatch \/ CongruenceEnds

\* What holds in all assignments of M before a step of a technique other than
\* factoring holds in them after it.
THEOREM TechniqueKeeps ==
  ASSUME NEW M, M \subseteq SUBSET Var, Good(s, job, M), TechniqueStep
  PROVE  Good(s', job', M)
  BY ElimRounds, TryVariableKeeps, EquivalenceKeeps, FindGatesKeeps, TriesKeep, DefinitionKeeps,
     PairStepsKeep, BackwardKeeps, RoundEndsKeep, LearnStepKeeps, BlockKeeps, CoverKeeps,
     CoverAsymmetricKeeps, CoverCoveredKeeps, GiveUps, ConditionStepKeeps, SubsumeStepKeeps,
     DeduplicateSteps, TransredKeeps, TernaryStepKeeps, ProbeKeeps, ProbeStepsKeep,
     BackboneStepKeeps, VivifySteps, SweepKeeps, SweepStepsKeep, CongruenceKeeps,
     CongruenceStepsKeep, CongruenceEndsKeeps DEF TechniqueStep, ClosingStep

\* A technique leaves the user's side alone, and works while solving.
LEMMA JobRuns ==
  ASSUME NEW name, NEW phase, Continue(name, phase), name # "none"
  PROVE  Inprocess /\ job # NoJob
  BY DEF Continue, NoJob

\* The techniques leave the user's clauses and calls alone.
LEMMA TechniqueFrame ==
  ASSUME TechniqueStep \/ Factor
  PROVE  Inprocess /\ (mode = "solving" \/ job # NoJob)
<1>1. CASE \/ Equivalence \/ FindGates \/ TryWithGate \/ TryWithDefinition \/ TryWithoutGate
           \/ Count \/ Bounded \/ AddResolvent \/ Eliminate \/ Backward \/ Attempted \/ EndRound
  <2>1. \E phase : Continue("elim", phase)
    BY <1>1 DEF Equivalence, FindGates, TryWithGate, TryWithDefinition, TryWithoutGate,
       Count, Bounded, AddResolvent, Eliminate, Backward, Attempted, EndRound
  <2> QED BY <2>1, JobRuns
<1>2. CASE CoverAsymmetric \/ CoverCovered \/ CoverFails
  <2>1. \E phase : Continue("cover", phase)
    BY <1>2 DEF CoverAsymmetric, CoverCovered, CoverFails
  <2> QED BY <2>1, JobRuns
<1>3. CASE ProbeBinary \/ ProbeLong \/ ProbeFails \/ ProbeEnds
  <2>1. \E phase : Continue("probe", phase)
    BY <1>3 DEF ProbeBinary, ProbeLong, ProbeFails, ProbeEnds
  <2> QED BY <2>1, JobRuns
<1>4. CASE SweepUnit \/ SweepEquivalence \/ SweepSubstitute \/ SweepEnds
  <2>1. \E phase : Continue("sweep", phase)
    BY <1>4 DEF SweepUnit, SweepEquivalence, SweepSubstitute, SweepEnds
  <2> QED BY <2>1, JobRuns
<1>5. CASE \/ CongruenceExtract \/ CongruenceBinaries \/ CongruenceUnit
           \/ CongruenceEquivalence \/ CongruenceMatch \/ CongruenceEnds
  <2>1. \E phase : Continue("congruence", phase)
    BY <1>5 DEF CongruenceExtract, CongruenceBinaries, CongruenceUnit,
       CongruenceEquivalence, CongruenceMatch, CongruenceEnds
  <2> QED BY <2>1, JobRuns
<1>6. CASE \/ ElimRound \/ FastElimRound \/ TryFastVariable \/ TryVariable \/ SweepVariable
           \/ Learn \/ Block \/ Cover \/ ConditionClause \/ Subsume \/ Deduplicate
           \/ DeduplicateAllClauses \/ Transred \/ TernaryPair \/ Decompose \/ Probe
           \/ BackboneLiteral \/ Vivify \/ Instantiate \/ Sweep \/ Congruence \/ Factor
  <2>1. \E technique : Start(technique)
    BY <1>6 DEF ElimRound, FastElimRound, TryFastVariable, TryVariable, SweepVariable, Technique,
       Learn, Block, Cover, ConditionClause, Subsume, Deduplicate, DeduplicateAllClauses,
       Transred, TernaryPair, Decompose, Probe, BackboneLiteral, Vivify, Instantiate, Sweep,
       Congruence, Factor
  <2> QED BY <2>1 DEF Start
<1> QED BY <1>1, <1>2, <1>3, <1>4, <1>5, <1>6 DEF TechniqueStep

\* The models of the user's clauses, and what makes each of them a model of
\* the database.
UserModels == {n \in SUBSET (1..UserVars) : IsModel(n, formula, {})}
Extensions == SUBSET (Var \ 1..UserVars)

FollowInv ==
  /\ plan \in Seq(UserCalls) /\ formula \in SUBSET (SUBSET UserLits)
  /\ mode # "solving" => job = NoJob
  /\ Good(s, job, {})
  /\ \A m \in UserModels : \E e \in Extensions : Good(s, job, {m \cup e})

\* The database is empty at first.
LEMMA EmptyKeeps ==
  ASSUME NEW M
  PROVE  Good(EmptyDatabase, NoJob, M)
<1>1. EmptyDatabase \in Databases({}, M)
  BY DEF EmptyDatabase, Databases, Status
<1> QED BY <1>1, SettledAlone

\* Everything follows from no clauses.
LEMMA FollowInit == Init => FollowInv
<1> SUFFICES ASSUME Init PROVE FollowInv
  OBVIOUS
<1>1. PICK session \in Sessions : plan = session.calls
  BY DEF Init
<1>2. plan \in Seq(UserCalls)
  BY <1>1, SessionsAssumption
<1>3. s = EmptyDatabase /\ job = NoJob /\ formula = {}
  BY DEF Init
<1>4. {} \in Extensions
  BY DEF Extensions
<1> QED BY <1>2, <1>3, <1>4, EmptyKeeps DEF FollowInv

\* Values of the variables of extensions do not matter to the user's clauses.
LEMMA UserHolds ==
  ASSUME NEW c \in SUBSET UserLits, NEW m \in SUBSET (1..UserVars), NEW e \in Extensions
  PROVE  Holds(m \cup e, c) <=> Holds(m, c)
<1>1. ASSUME NEW lit \in c PROVE True(m \cup e, lit) <=> True(m, lit)
  <2>1. lit \in Lit /\ VarOf(lit) \in 1..UserVars
    BY LitFacts, UserVarsAssumption DEF UserLits, Var
  <2>2. VarOf(lit) \in m \cup e <=> VarOf(lit) \in m
    BY <2>1 DEF Extensions
  <2> QED BY <2>1, <2>2, TrueDepends
<1> QED BY <1>1 DEF Holds

\* The next call of the user.
LEMMA UserCallFacts ==
  ASSUME plan \in Seq(UserCalls), plan # <<>>
  PROVE  /\ Tail(plan) \in Seq(UserCalls) /\ Head(plan).lits \in Seq(UserLits)
         /\ Head(plan).op = "assume" => Head(plan).lits # <<>>
<1>1. Head(plan) \in UserCalls /\ Tail(plan) \in Seq(UserCalls)
  OBVIOUS
<1> QED BY <1>1 DEF UserCalls

\* A clause of the user may be violated by some models so far: the models after
\* it satisfy it.
LEMMA AddKeeps ==
  ASSUME FollowInv, Add
  PROVE  FollowInv'
<1> DEFINE c == ToSet(Head(plan).lits)
<1>1. plan # <<>> /\ plan' = Tail(plan) /\ mode # "solving" /\ job' = job /\ mode' = "steady"
      /\ s' = AddOriginal(s, c) /\ formula' = formula \cup {c}
  BY DEF Add, Call
<1>2. plan' \in Seq(UserCalls) /\ c \in SUBSET UserLits
  BY <1>1, UserCallFacts DEF FollowInv, ToSet
<1>3. c \in SUBSET Lit /\ job = NoJob
  BY <1>1, <1>2 DEF UserLits, FollowInv
<1> HIDE DEF c
<1>4. formula' \in SUBSET (SUBSET UserLits)
  BY <1>1, <1>2 DEF FollowInv
<1>5. ASSUME NEW M, Good(s, job, M), \A m \in M : Holds(m, c) PROVE Good(s', job', M)
  <2>1. s' \in Databases(Used(s) \cup Vars(c), M)
    BY <1>1, <1>3, <1>5, GoodFacts, AddOriginalKeeps
  <2>2. Used(s) \cup Vars(c) \subseteq Var
    BY <1>3, LitFacts DEF Used, Vars
  <2> QED BY <1>1, <1>3, <2>1, <2>2, SettledAlone
<1>6. ASSUME NEW m \in UserModels' PROVE \E e \in Extensions : Good(s', job', {m \cup e})
  <2>1. m \in UserModels /\ m \in SUBSET (1..UserVars) /\ Holds(m, c)
    BY <1>1, <1>6 DEF UserModels, IsModel
  <2>2. PICK e \in Extensions : Good(s, job, {m \cup e})
    BY <2>1 DEF FollowInv
  <2>3. Holds(m \cup e, c)
    BY <1>2, <2>1, UserHolds
  <2> QED BY <1>5, <2>2, <2>3
<1>7. Good(s', job', {})
  BY <1>5 DEF FollowInv
<1> QED BY <1>1, <1>2, <1>3, <1>4, <1>6, <1>7 DEF FollowInv, Extensions

\* A call or a step that keeps the formula.
LEMMA SameFormula ==
  ASSUME FollowInv, plan' \in Seq(UserCalls), formula' = formula,
         mode' # "solving" => job' = NoJob,
         \A M \in SUBSET SUBSET Var : Good(s, job, M) => Good(s', job', M)
  PROVE  FollowInv'
<1>1. UserModels' = UserModels /\ Extensions' = Extensions
  BY DEF UserModels, Extensions
<1>2. ASSUME NEW m \in UserModels PROVE \E e \in Extensions : Good(s', job', {m \cup e})
  <2>1. PICK e \in Extensions : Good(s, job, {m \cup e})
    BY DEF FollowInv
  <2>2. m \cup e \in SUBSET Var
    BY UserVarsAssumption, MaxVarAssumption DEF UserModels, Extensions, Var
  <2>3. {m \cup e} \in SUBSET SUBSET Var
    BY <2>2
  <2> QED BY <2>1, <2>3
<1>3. Good(s', job', {})
  BY DEF FollowInv
<1> QED BY <1>1, <1>2, <1>3 DEF FollowInv

\* The user's other calls leave the clauses alone.
LEMMA OtherCallsKeep ==
  ASSUME FollowInv, Assume \/ Solve \/ Answer \/ UNCHANGED vars
  PROVE  FollowInv'
<1>1. plan' \in Seq(UserCalls)
  <2>1. CASE Assume \/ Solve
    BY <2>1, UserCallFacts DEF Assume, Solve, Call, FollowInv
  <2>2. CASE Answer \/ UNCHANGED vars
    BY <2>2 DEF Answer, vars, FollowInv
  <2> QED BY <2>1, <2>2
<1>2. formula' = formula /\ job' = job
  BY DEF Assume, Solve, Answer, vars
<1>3. mode' # "solving" => job' = NoJob
  BY <1>2 DEF Assume, Solve, Answer, vars, FollowInv
<1>4. ASSUME NEW M, Good(s, job, M) PROVE Good(s', job', M)
  <2>1. CASE Assume
    <3> DEFINE lit == Head(plan).lits[1]
    <3>1. plan # <<>> /\ Head(plan).op = "assume" /\ mode # "solving" /\ s' = Internalize(s, lit)
      BY <2>1 DEF Assume, Call
    <3>2. Head(plan).lits \in Seq(UserLits) /\ Head(plan).lits # <<>>
      BY <3>1, UserCallFacts DEF FollowInv
    <3>3. lit \in UserLits
      BY <3>2
    <3>4. lit \in Lit /\ VarOf(lit) \in Var /\ job = NoJob
      BY <3>1, <3>3, LitFacts DEF UserLits, FollowInv
    <3> HIDE DEF lit
    <3>5. s' \in Databases(Used(s) \cup {VarOf(lit)}, M)
      BY <1>4, <3>1, <3>4, GoodFacts, InternalizeKeeps
    <3>6. Used(s) \cup {VarOf(lit)} \subseteq Var
      BY <3>4 DEF Used
    <3> QED BY <1>2, <3>4, <3>5, <3>6, SettledAlone
  <2>2. CASE Solve
    <3>1. s' = Propagate(Restore(s)) /\ job = NoJob
      BY <2>2 DEF Solve, FollowInv
    <3>2. Restore(s) \in Databases(Used(s), M)
      BY <1>4, GoodFacts, RestoreKeeps
    <3>3. s' \in Databases(Used(s), M)
      BY <3>1, <3>2, PropagateKeeps
    <3> QED BY <1>2, <3>1, <3>3, StepAlone
  <2>3. CASE Answer \/ UNCHANGED vars
    <3>1. s' = s
      BY <2>3 DEF Answer, vars
    <3> QED BY <1>2, <1>4, <3>1
  <2> QED BY <2>1, <2>2, <2>3
<1> QED BY <1>1, <1>2, <1>3, <1>4, SameFormula

\* A technique keeps the extension of each model of the user's clauses.
LEMMA TechniqueFollows ==
  ASSUME FollowInv, TechniqueStep
  PROVE  FollowInv'
<1>1. plan' = plan /\ formula' = formula /\ mode' = mode /\ mode = "solving"
  BY TechniqueFrame DEF Inprocess, FollowInv
<1>2. \A M \in SUBSET SUBSET Var : Good(s, job, M) => Good(s', job', M)
  BY TechniqueKeeps
<1>3. plan' \in Seq(UserCalls)
  BY <1>1 DEF FollowInv
<1> QED BY <1>1, <1>2, <1>3, SameFormula

\* The fresh variable changes an extension only.
LEMMA ExtensionChanged ==
  ASSUME NEW m \in SUBSET (1..UserVars), NEW e \in Extensions, NEW factors,
         NEW x \in Var \ 1..UserVars
  PROVE  \E f \in Extensions : Extended(m \cup e, factors, x) = m \cup f
<1>2. (m \cup e) \ {x} = m \cup (e \ {x}) /\ (m \cup e) \cup {x} = m \cup (e \cup {x})
  OBVIOUS
<1>3. e \ {x} \in Extensions /\ e \cup {x} \in Extensions
  BY DEF Extensions
<1> QED BY <1>2, <1>3 DEF Extended

\* Factoring with a fresh variable extends each extension further.
LEMMA FactorFollows ==
  ASSUME FollowInv, Factor
  PROVE  FollowInv'
<1>1. plan' = plan /\ formula' = formula /\ mode' = mode /\ mode = "solving"
  BY TechniqueFrame DEF Inprocess, FollowInv
<1>2. Good(s', job', {})
  <2>1. Good(s, job, {})
    BY DEF FollowInv
  <2>2. \A factors, x : ExtendedAll({}, factors, x) = {}
    BY DEF ExtendedAll
  <2> QED BY <2>1, <2>2, FactorStepKeeps
<1>3. ASSUME NEW m \in UserModels PROVE \E e \in Extensions : Good(s', job', {m \cup e})
  <2>1. PICK e \in Extensions : Good(s, job, {m \cup e})
    BY DEF FollowInv
  <2>2. m \in SUBSET (1..UserVars)
    BY DEF UserModels
  <2>3. CASE Good(s', job', {m \cup e})
    BY <2>3
  <2>4. ASSUME NEW factors, NEW x \in Var \ 1..UserVars,
               Good(s', job', ExtendedAll({m \cup e}, factors, x))
        PROVE  \E f \in Extensions : Good(s', job', {m \cup f})
    <3>1. m \in SUBSET (1..UserVars) /\ e \in Extensions /\ x \in Var \ 1..UserVars
      BY <2>1, <2>2, <2>4
    <3>2. PICK f \in Extensions : Extended(m \cup e, factors, x) = m \cup f
      BY <3>1, ExtensionChanged
    <3>3. ExtendedAll({m \cup e}, factors, x) = {m \cup f}
      BY <3>2 DEF ExtendedAll
    <3> QED BY <2>4, <3>3
  <2> QED BY <2>1, <2>3, <2>4, FactorStepKeeps
<1>4. UserModels' = UserModels /\ Extensions' = Extensions
  BY <1>1 DEF UserModels, Extensions
<1>5. (\A m \in UserModels : \E e \in Extensions : Good(s, job, {m \cup e}))'
  BY <1>3, <1>4
<1>6. plan' \in Seq(UserCalls)' /\ formula' \in SUBSET (SUBSET UserLits)
  BY <1>1 DEF FollowInv
<1> QED BY <1>1, <1>2, <1>5, <1>6 DEF FollowInv

\* Every step keeps the invariant.
LEMMA FollowStep == FollowInv /\ [Next]_vars => FollowInv'
<1> SUFFICES ASSUME FollowInv, [Next]_vars PROVE FollowInv'
  OBVIOUS
<1>1. Add \/ Assume \/ Solve \/ Answer \/ TechniqueStep \/ Factor \/ UNCHANGED vars
  BY DEF Next, TechniqueStep
<1> QED BY <1>1, AddKeeps, OtherCallsKeep, TechniqueFollows, FactorFollows

\* Where every model of the user's clauses extends to one of the database,
\* every clause over the user's variables follows, and no clauses are left that
\* some model falsifies.
LEMMA FollowMeans == FollowInv => ClausesFollow
<1> SUFFICES ASSUME FollowInv, NEW m \in UserModels
             PROVE  /\ ~s.unsat
                    /\ \E e \in SUBSET (Var \ 1..UserVars) : IsModel(m \cup e, Clauses(s), s.units)
  BY DEF ClausesFollow, UserModels
<1>1. PICK e \in Extensions : Good(s, job, {m \cup e})
  BY DEF FollowInv
<1> DEFINE M == {m \cup e}
<1>2. s \in Databases(Used(s), M)
  BY <1>1 DEF Good
<1>3. M # {} /\ m \cup e \in M
  OBVIOUS
<1> HIDE DEF M
<1>4. ~s.unsat
  BY <1>2, <1>3, DatabaseFacts
<1>5. Clauses(s) \in SUBSET Sound(Used(s), M) /\ s.units \in SUBSET Facts(Used(s), M)
  BY <1>2, DatabaseFacts
<1>6. IsModel(m \cup e, Clauses(s), s.units)
  BY <1>3, <1>5 DEF IsModel, Sound, Facts
<1> QED BY <1>4, <1>6 DEF Extensions

\* The models that the properties speak of are assignments that satisfy the
\* clauses and the units.
LEMMA ModelsFacts ==
  ASSUME NEW cs, NEW lits \in SUBSET Lit, NEW m \in Models(cs, lits)
  PROVE  m \in SUBSET Var /\ IsModel(m, cs, lits)
<1>1. m \in Assignments(lits) /\ IsModel(m, cs, lits)
  BY DEF Models
<1>2. PICK free \in SUBSET (Var \ Vars(lits)) : m = {lit \in lits : lit > 0} \cup free
  BY <1>1 DEF Assignments
<1>3. ASSUME NEW lit \in lits, lit > 0 PROVE lit \in Var
  BY <1>3, MaxVarAssumption DEF Lit, Var
<1> QED BY <1>1, <1>2, <1>3

\* What is known of a closure that is under way.
LEMMA ClosingInv ==
  ASSUME FollowInv, job.name = "congruence"
  PROVE  ClosingGood(job, s, Used(s), {})
<1>1. JobGood(job, s, Used(s), {})
  BY DEF FollowInv, Good
<1> QED BY <1>1, JobNames

\* The units are literals.
LEMMA UnitLits == FollowInv => s.units \in SUBSET Lit
<1> SUFFICES ASSUME FollowInv PROVE s.units \in SUBSET Lit
  OBVIOUS
<1>1. s \in Databases(Used(s), {})
  BY DEF FollowInv, Good
<1>2. s.units \in SUBSET Facts(Used(s), {})
  BY <1>1, DatabaseFacts
<1> QED BY <1>2, SoundFacts, LitsOfFacts

\* The gates of a closure hold in every assignment that satisfies the database.
LEMMA GatesMean == FollowInv => GatesFollow
<1> SUFFICES ASSUME FollowInv, job.name = "congruence", ~s.unsat,
                    NEW m \in Models(Clauses(s), s.units), NEW g \in job.gates
             PROVE  GateHolds(g, m)
  BY DEF GatesFollow
<1>1. job \in ClosureJobs(Used(s), Satisfying(s))
  BY ClosingInv DEF ClosingGood
<1>2. m \in Satisfying(s)
  BY ModelsFacts, UnitLits DEF Satisfying
<1>3. g \in GateSet(Used(s), Satisfying(s))
  BY <1>1 DEF ClosureJobs
<1> QED BY <1>2, <1>3 DEF GateSet

\* The representatives of a closure are equivalent by irredundant clauses and
\* units.
LEMMA EquivalencesMean == FollowInv => EquivalencesIrredundant
<1> SUFFICES ASSUME FollowInv, job.name = "congruence", ~s.unsat,
                    NEW m \in Models(s.irr, s.units), NEW lit \in Lit
             PROVE  True(m, lit) <=> True(m, Repr(Closing, lit))
  BY DEF EquivalencesIrredundant
<1>1. Learned(s, job.reprs)
  BY ClosingInv DEF ClosingGood
<1>2. IsModel(m, s.irr, s.units)
  BY ModelsFacts, UnitLits
<1>3. BinaryClauses(s.irr) \subseteq s.irr
  BY DEF BinaryClauses
<1>4. IsModel(m, BinaryClauses(s.irr), s.units)
  BY <1>2, <1>3, MoreModels
<1>5. Repr(Closing, lit) = job.reprs[lit]
  BY DEF Repr, Closing
<1> QED BY <1>1, <1>4, <1>5 DEF Learned

\* The inductive invariant holds in every reachable state: every model of the
\* clauses that the user added extends to the variables of the solver such that
\* all clauses, units and entries of the extension stack hold in it, and so
\* does what the technique under way has found so far.
THEOREM FollowSafe == Spec => []FollowInv
BY FollowInit, FollowStep, PTL DEF Spec

\* Whatever sequence of calls and techniques led to it, every clause, unit and
\* conclusion of the solver follows from the clauses that the user added: no
\* technique of the inprocessing, alone or in the middle of another, derives
\* too much.
THEOREM ClausesAlwaysFollow == Spec => []ClausesFollow
BY FollowSafe, FollowMeans, PTL

\* However calls and techniques are interleaved: at every step of a congruence
\* closure, each gate that it has extracted (extract_and_gates,
\* extract_xor_gates, extract_ite_gates) and rewritten or simplified since
\* (rewrite_and_gate, simplify_and_gate and their like) holds in every
\* assignment that satisfies the clauses and units of the database at that
\* moment, although the closure promotes, removes and adds clauses on its way.
THEOREM GatesAlwaysFollow == Spec => []GatesFollow
BY FollowSafe, GatesMean, PTL

\* However calls and techniques are interleaved: at every step of a congruence
\* closure, each literal has the value of its representative (merge_literals)
\* in every assignment that satisfies the irredundant clauses and the units, so
\* that no merge rests on a redundant clause that a later reduction may delete
\* (promote_clause, maybe_add_binary_clause).
THEOREM EquivalencesAlwaysIrredundant == Spec => []EquivalencesIrredundant
BY FollowSafe, EquivalencesMean, PTL
==============================================================================

--------------------------- MODULE DatabaseProofs ----------------------------
(***************************************************************************)
(* Each technique of the inprocessing keeps a database of clauses that     *)
(* follow: for a set M of assignments, what holds in all assignments of M  *)
(* before a technique holds in them after it.  Databases(V, M) is the set  *)
(* of the databases over the variables V whose clauses, units and entries  *)
(* of the extension stack hold in all assignments of M.                    *)
(***************************************************************************)
EXTENDS Inprocessing, CnfProofs

\* Induction from 0 up to n.
LEMMA InductionUpTo ==
  ASSUME NEW n \in Nat, NEW S, 0 \in S, \A i \in 1..n : i - 1 \in S => i \in S
  PROVE  \A i \in 0..n : i \in S
<1> DEFINE T == {i \in Nat : i <= n => i \in S}
<1>1. 0 \in T
  OBVIOUS
<1>2. \A i \in Nat : i \in T => i + 1 \in T
  OBVIOUS
<1>3. Nat \subseteq T
  <2> HIDE DEF T
  <2> QED BY <1>1, <1>2, Induction
<1> QED BY <1>3

\* f starts with a, and the steps lead from each value to the next.
Steps(f, n, S, a, step) ==
  f \in [0..n -> S] /\ f[0] = a /\ \A i \in 1..n : f[i] = step[i][f[i - 1]]

\* A function can be defined by its first value and the steps from each to
\* the next.
LEMMA Recursion ==
  ASSUME NEW n \in Nat, NEW S, NEW a \in S, NEW step \in [1..n -> [S -> S]]
  PROVE  \E f : Steps(f, n, S, a, step)
<1> DEFINE Solves(f, k) == f[0] = a /\ \A i \in 1..k : f[i] = step[i][f[i - 1]]
           T == {k \in 0..n : \E f \in [0..k -> S] : Solves(f, k)}
<1>1. 0 \in T
  <2> DEFINE f == [i \in 0..0 |-> a]
  <2>1. f \in [0..0 -> S] /\ Solves(f, 0)
    OBVIOUS
  <2> HIDE DEF f, Solves
  <2> QED BY <2>1
<1>2. ASSUME NEW k \in 1..n, k - 1 \in T PROVE k \in T
  <2>1. PICK f \in [0..(k - 1) -> S] : Solves(f, k - 1)
    BY <1>2
  <2> DEFINE g == [i \in 0..k |-> IF i < k THEN f[i] ELSE step[k][f[k - 1]]]
  <2>2. f[k - 1] \in S /\ step[k] \in [S -> S]
    OBVIOUS
  <2>3. g \in [0..k -> S] /\ g[0] = a
    BY <2>1, <2>2
  <2>4. ASSUME NEW i \in 1..k PROVE g[i] = step[i][g[i - 1]]
    <3>1. g[i - 1] = f[i - 1]
      OBVIOUS
    <3>2. CASE i = k
      <4>1. g[k] = step[k][f[k - 1]]
        OBVIOUS
      <4> QED BY <3>1, <3>2, <4>1
    <3>3. CASE i \in 1..(k - 1)
      <4>1. g[i] = f[i]
        BY <3>3
      <4> QED BY <2>1, <3>1, <3>3, <4>1
    <3> QED BY <3>2, <3>3
  <2>5. Solves(g, k)
    BY <2>3, <2>4
  <2> HIDE DEF g, Solves
  <2> QED BY <2>3, <2>5
<1>3. \A k \in 0..n : k \in T
  <2> HIDE DEF T
  <2> QED BY <1>1, <1>2, InductionUpTo
<1>4. n \in T
  BY <1>3
<1> QED BY <1>4 DEF Steps

\* A function that steps within S has its values in S.
LEMMA Typed ==
  ASSUME NEW n \in Nat, NEW S, NEW f, f[0] \in S,
         \A i \in 1..n : f[i - 1] \in S => f[i] \in S
  PROVE  \A i \in 0..n : f[i] \in S
<1> DEFINE T == {i \in 0..n : f[i] \in S}
<1>1. 0 \in T
  OBVIOUS
<1>2. \A i \in 1..n : i - 1 \in T => i \in T
  OBVIOUS
<1>3. \A i \in 0..n : i \in T
  <2> HIDE DEF T
  <2> QED BY <1>1, <1>2, InductionUpTo
<1> QED BY <1>3

\* g folds step over S from base: each set after the set with one element less.
Folds(g, S, base, pick, step) ==
  \A T \in SUBSET S :
    g[T] = IF T = {} THEN base ELSE step[pick[T]][g[T \ {pick[T]}]]

Picks(pick, S) == \A T \in SUBSET S : T # {} => pick[T] \in T

\* What holds of the empty set and of each set after the one with one
\* element less holds of every set.
LEMMA FoldInduction ==
  ASSUME NEW S, IsFiniteSet(S), NEW pick, Picks(pick, S), NEW Q,
         {} \in Q, \A T \in SUBSET S : T # {} /\ T \ {pick[T]} \in Q => T \in Q
  PROVE  SUBSET S \subseteq Q
<1> DEFINE P == {n \in Nat : \A T \in SUBSET S : Cardinality(T) <= n => T \in Q}
<1>1. \A T \in SUBSET S : IsFiniteSet(T) /\ Cardinality(T) \in Nat
  BY FS_Subset, FS_CardinalityType
<1>2. 0 \in P
  <2>1. ASSUME NEW T \in SUBSET S, Cardinality(T) <= 0 PROVE T \in Q
    <3>1. Cardinality(T) = 0
      BY <1>1, <2>1
    <3>2. T = {}
      BY <1>1, <3>1, FS_EmptySet
    <3> QED BY <3>2
  <2> QED BY <2>1
<1>3. ASSUME NEW n \in Nat, n \in P PROVE n + 1 \in P
  <2>1. ASSUME NEW T \in SUBSET S, Cardinality(T) <= n + 1 PROVE T \in Q
    <3>1. CASE T = {}
      BY <3>1
    <3>2. CASE T # {}
      <4>1. pick[T] \in T
        BY <3>2 DEF Picks
      <4>2. Cardinality(T \ {pick[T]}) = Cardinality(T) - 1
        BY <1>1, <4>1, FS_RemoveElement
      <4>3. T \ {pick[T]} \in SUBSET S /\ Cardinality(T \ {pick[T]}) <= n
        BY <1>1, <2>1, <4>2
      <4>4. T \ {pick[T]} \in Q
        BY <1>3, <4>3
      <4> QED BY <3>2, <4>4
    <3> QED BY <3>1, <3>2
  <2> QED BY <2>1
<1>4. Nat \subseteq P
  <2> HIDE DEF P
  <2> QED BY <1>2, <1>3, Induction
<1>5. ASSUME NEW T \in SUBSET S PROVE T \in Q
  BY <1>1, <1>4
<1> QED BY <1>5

\* The steps lead from A to A, and g is a fold with its values there.
StaysIn(S, pick, step, A) ==
  \A T \in SUBSET S : T # {} =>
    \A a \in A[T \ {pick[T]}] : step[pick[T]][a] \in A[T]

FoldsIn(g, S, base, pick, step, A) ==
  /\ g = [T \in SUBSET S |-> g[T]]
  /\ Folds(g, S, base, pick, step)
  /\ \A T \in SUBSET S : g[T] \in A[T]

\* A fold exists, with its value for each set in A[T], when every step stays
\* within these sets.
LEMMA FoldExists ==
  ASSUME NEW S, IsFiniteSet(S), NEW pick, Picks(pick, S), NEW A, NEW base,
         base \in A[{}], NEW step, StaysIn(S, pick, step, A)
  PROVE  \E g : FoldsIn(g, S, base, pick, step, A)
<1> DEFINE small(n) == {T \in SUBSET S : Cardinality(T) <= n}
           value(g, T) == IF T = {} THEN base ELSE step[pick[T]][g[T \ {pick[T]}]]
           Good(g, n) == /\ g = [T \in small(n) |-> g[T]]
                         /\ \A T \in small(n) : g[T] = value(g, T) /\ g[T] \in A[T]
           P == {n \in Nat : \E g : Good(g, n)}
<1>1. \A T \in SUBSET S : IsFiniteSet(T) /\ Cardinality(T) \in Nat
  BY FS_Subset, FS_CardinalityType
<1>2. 0 \in P
  <2> DEFINE g == [T \in small(0) |-> base]
  <2>1. ASSUME NEW T \in small(0) PROVE T = {}
    <3>1. Cardinality(T) = 0
      BY <1>1
    <3> QED BY <1>1, <3>1, FS_EmptySet
  <2>2. Good(g, 0)
    BY <2>1
  <2> HIDE DEF g, Good
  <2> QED BY <2>2
<1>3. ASSUME NEW n \in Nat, n \in P PROVE n + 1 \in P
  <2>1. PICK g : Good(g, n)
    BY <1>3
  <2> DEFINE h == [T \in small(n + 1) |-> value(g, T)]
  <2>2. ASSUME NEW T \in small(n + 1), T # {}
        PROVE  T \ {pick[T]} \in small(n) /\ g[T \ {pick[T]}] \in A[T \ {pick[T]}]
    <3>1. pick[T] \in T
      BY <2>2 DEF Picks
    <3>2. Cardinality(T \ {pick[T]}) = Cardinality(T) - 1
      BY <1>1, <3>1, FS_RemoveElement
    <3>3. T \ {pick[T]} \in small(n)
      BY <1>1, <3>2
    <3> QED BY <2>1, <3>3
  <2>3. \A T \in small(n + 1) : value(g, T) \in A[T]
    BY <2>2 DEF StaysIn
  <2>5. ASSUME NEW T \in small(n) PROVE T \in small(n + 1) /\ h[T] = g[T]
    <3>1. T \in small(n + 1)
      BY <1>1
    <3>2. h[T] = value(g, T)
      BY <3>1
    <3> QED BY <2>1, <3>1, <3>2
  <2>6. ASSUME NEW T \in small(n + 1) PROVE h[T] = value(h, T) /\ h[T] \in A[T]
    <3>1. h[T] = value(g, T)
      OBVIOUS
    <3>2. CASE T # {}
      <4>1. h[T \ {pick[T]}] = g[T \ {pick[T]}]
        BY <2>2, <2>5, <3>2
      <4> QED BY <2>3, <3>1, <4>1
    <3> QED BY <2>3, <3>1, <3>2
  <2>7. Good(h, n + 1)
    BY <2>6
  <2>8. n + 1 \in Nat
    OBVIOUS
  <2> HIDE DEF h, Good
  <2> QED BY <2>7, <2>8
<1>4. Nat \subseteq P
  <2> HIDE DEF P
  <2> QED BY <1>2, <1>3, Induction
<1>5. Cardinality(S) \in P
  BY <1>1, <1>4
<1>6. PICK g : Good(g, Cardinality(S))
  BY <1>5
<1>7. small(Cardinality(S)) = SUBSET S
  <2>1. \A T \in SUBSET S : Cardinality(T) <= Cardinality(S)
    BY FS_Subset
  <2> QED BY <2>1
<1> HIDE DEF small
<1> QED BY <1>6, <1>7 DEF Folds, FoldsIn

LitsOf(V) == {lit \in Lit : VarOf(lit) \in V}

\* The clauses over the variables V that all assignments of M satisfy, and the
\* literals over V that are true in all of them.
Sound(V, M) == {c \in SUBSET LitsOf(V) : \A m \in M : Holds(m, c)}
Facts(V, M) == {lit \in LitsOf(V) : \A m \in M : True(m, lit)}

\* Those of them that are no tautologies.
Proper(V, M) == {c \in Sound(V, M) : \A lit \in c : -lit \notin c}

SoundEntries(V, M) == [witness : SUBSET Lit, clause : Sound(V, M)]

\* The databases over the variables V that all assignments of M satisfy.
Databases(V, M) ==
  {r \in [irr : SUBSET Proper(V, M), red : SUBSET Proper(V, M),
          units : SUBSET Facts(V, M), unsat : BOOLEAN, status : [Var -> Status],
          stack : Seq(SoundEntries(V, M)), tainted : SUBSET Lit] :
     /\ r.unsat => M = {}
     /\ \A v \in Var : v \in V => r.status[v] # "unused"}

\* There are finitely many variables and literals.
LEMMA LitsFinite == IsFiniteSet(Lit) /\ IsFiniteSet(Var)
<1>1. -MaxVar \in Int /\ MaxVar \in Int
  BY MaxVarAssumption
<1>2. IsFiniteSet((-MaxVar)..MaxVar)
  BY <1>1, FS_Interval
<1>3. Lit \subseteq (-MaxVar)..MaxVar /\ Var \subseteq (-MaxVar)..MaxVar
  BY MaxVarAssumption DEF Lit, Var
<1> QED BY <1>2, <1>3, FS_Subset

\* The literals over V are closed under negation.
LEMMA LitsOfFacts ==
  ASSUME NEW V
  PROVE  /\ LitsOf(V) \subseteq Lit
         /\ \A lit \in LitsOf(V) : -lit \in LitsOf(V) /\ lit \in Int /\ - -lit = lit
         /\ \A lit \in Lit : lit \in LitsOf(V) <=> VarOf(lit) \in V
  BY LitFacts DEF LitsOf

\* A literal is true where its negation is not.
LEMMA TrueNegated ==
  ASSUME NEW lit \in Lit, NEW m
  PROVE  True(m, -lit) <=> ~True(m, lit)
  BY LitFacts DEF True

\* Negating a set of literals twice gives the set.
LEMMA NegatedFacts ==
  ASSUME NEW lits, lits \subseteq Lit
  PROVE  /\ Negated(lits) \subseteq Lit
         /\ \A lit \in Lit : lit \in Negated(lits) <=> -lit \in lits
         /\ Negated(Negated(lits)) = lits
  BY LitFacts DEF Negated

\* Sets of literals and of clauses are finite.
LEMMA ClausesFinite ==
  ASSUME NEW V, NEW M
  PROVE  /\ \A c \in SUBSET LitsOf(V) : IsFiniteSet(c) /\ Cardinality(c) \in Nat
         /\ \A cs \in SUBSET Sound(V, M) : IsFiniteSet(cs) /\ Cardinality(cs) \in Nat
         /\ \A lits \in SUBSET Facts(V, M) : IsFiniteSet(lits)
<1>1. LitsOf(V) \in SUBSET Lit
  BY LitsOfFacts
<1>2. IsFiniteSet(LitsOf(V))
  BY <1>1, LitsFinite, FS_Subset
<1>3. IsFiniteSet(SUBSET LitsOf(V))
  BY <1>2, FS_SUBSET
<1>4. ASSUME NEW c \in SUBSET LitsOf(V) PROVE IsFiniteSet(c) /\ Cardinality(c) \in Nat
  BY <1>2, FS_Subset, FS_CardinalityType
<1>5. ASSUME NEW cs \in SUBSET Sound(V, M) PROVE IsFiniteSet(cs) /\ Cardinality(cs) \in Nat
  <2>1. cs \in SUBSET (SUBSET LitsOf(V))
    BY DEF Sound
  <2> QED BY <1>3, <2>1, FS_Subset, FS_CardinalityType
<1>6. ASSUME NEW lits \in SUBSET Facts(V, M) PROVE IsFiniteSet(lits)
  BY <1>2, FS_Subset DEF Facts
<1> QED BY <1>4, <1>5, <1>6

\* What the sets of clauses and facts that hold in M have in common: supersets
\* of a clause hold, false literals may be left out, and an empty clause or two
\* contradictory facts leave no assignment in M.
LEMMA SoundFacts ==
  ASSUME NEW V, NEW M
  PROVE  /\ Sound(V, M) \subseteq SUBSET LitsOf(V)
         /\ Facts(V, M) \subseteq LitsOf(V)
         /\ \A c \in Sound(V, M) : \A d \in SUBSET LitsOf(V) : c \subseteq d => d \in Sound(V, M)
         /\ \A lit \in LitsOf(V) : {lit} \in Sound(V, M) <=> lit \in Facts(V, M)
         /\ {} \in Sound(V, M) => M = {}
         /\ \A c \in Sound(V, M) : \A lits \in SUBSET Facts(V, M) :
              Unfalsified(lits, c) \in Sound(V, M)
         /\ \A c \in Sound(V, M) : \A lits \in SUBSET Facts(V, M) :
              c \subseteq Negated(lits) => M = {}
         /\ \A lit \in Facts(V, M) : -lit \in Facts(V, M) => M = {}
<1>1. Sound(V, M) \subseteq SUBSET LitsOf(V) /\ Facts(V, M) \subseteq LitsOf(V)
  BY DEF Sound, Facts
<1>2. \A c \in Sound(V, M) : \A d \in SUBSET LitsOf(V) : c \subseteq d => d \in Sound(V, M)
  BY DEF Sound, Holds
<1>3. \A lit \in LitsOf(V) : {lit} \in Sound(V, M) <=> lit \in Facts(V, M)
  BY DEF Sound, Holds, Facts
<1>4. {} \in Sound(V, M) => M = {}
  BY DEF Sound, Holds
<1>5. ASSUME NEW c \in Sound(V, M), NEW lits \in SUBSET Facts(V, M), NEW m \in M
      PROVE  Holds(m, Unfalsified(lits, c))
  <2>1. PICK lit \in c : True(m, lit)
    BY DEF Sound, Holds
  <2>2. lit \in Lit
    BY <1>1, LitsOfFacts
  <2>3. lit \notin Negated(lits)
    <3>1. ASSUME -lit \in lits PROVE FALSE
      BY <2>1, <2>2, <3>1, TrueNegated DEF Facts
    <3>2. lits \subseteq Lit
      BY <1>1, LitsOfFacts
    <3> QED BY <2>2, <3>1, <3>2, NegatedFacts
  <2> QED BY <2>1, <2>3 DEF Unfalsified, Holds
<1>6. ASSUME NEW c \in Sound(V, M), NEW lits \in SUBSET Facts(V, M)
      PROVE  Unfalsified(lits, c) \in Sound(V, M)
  BY <1>5 DEF Sound, Unfalsified
<1>7. ASSUME NEW c \in Sound(V, M), NEW lits \in SUBSET Facts(V, M),
             c \subseteq Negated(lits)
      PROVE  M = {}
  <2>1. Unfalsified(lits, c) = {}
    BY <1>7 DEF Unfalsified
  <2> QED BY <1>4, <1>6, <2>1
<1>8. ASSUME NEW lit \in Facts(V, M), -lit \in Facts(V, M) PROVE M = {}
  <2>1. lit \in Lit
    BY <1>1, LitsOfFacts
  <2>2. \A m \in M : True(m, lit) /\ True(m, -lit)
    BY <1>8 DEF Facts
  <2> QED BY <2>1, <2>2, TrueNegated
<1> QED BY <1>1, <1>2, <1>3, <1>4, <1>6, <1>7, <1>8

\* A sound part of a proper clause is proper.
LEMMA ProperFacts ==
  ASSUME NEW V, NEW M
  PROVE  /\ Proper(V, M) \subseteq Sound(V, M)
         /\ \A c \in Proper(V, M) : \A d \in Sound(V, M) : d \subseteq c => d \in Proper(V, M)
         /\ \A c \in Proper(V, M) : \A lits \in SUBSET Facts(V, M) :
              Unfalsified(lits, c) \in Proper(V, M)
<1>1. /\ Proper(V, M) \subseteq Sound(V, M)
      /\ \A c \in Proper(V, M) : \A d \in Sound(V, M) : d \subseteq c => d \in Proper(V, M)
  BY DEF Proper
<1>2. \A c \in Proper(V, M) : \A lits \in SUBSET Facts(V, M) :
        Unfalsified(lits, c) \in Sound(V, M) /\ Unfalsified(lits, c) \subseteq c
  BY <1>1, SoundFacts DEF Unfalsified
<1> QED BY <1>1, <1>2

\* A clause is sound when every assignment satisfies one of its literals.
LEMMA SoundIf ==
  ASSUME NEW V, NEW M, NEW c \in SUBSET LitsOf(V), \A m \in M : \E lit \in c : True(m, lit)
  PROVE  c \in Sound(V, M)
  BY DEF Sound, Holds

\* Fewer assignments satisfy more.
LEMMA FewerAssignments ==
  ASSUME NEW V, NEW M, NEW N, N \subseteq M
  PROVE  Sound(V, M) \subseteq Sound(V, N) /\ Facts(V, M) \subseteq Facts(V, N)
  BY DEF Sound, Facts

-----------------------------------------------------------------------------
(* Propagation. *)

\* The only literal of a clause that is not falsified is true.
LEMMA UnitSound ==
  ASSUME NEW V, NEW M, NEW cs \in SUBSET Sound(V, M), NEW known \in SUBSET Facts(V, M)
  PROVE  UNION {r \in {Unfalsified(known, c) : c \in cs} : Cardinality(r) = 1}
           \subseteq Facts(V, M)
<1>1. ASSUME NEW c \in cs, NEW r, r = Unfalsified(known, c), Cardinality(r) = 1, NEW lit \in r
      PROVE  lit \in Facts(V, M)
  <2>1. r \in Sound(V, M)
    BY <1>1, SoundFacts
  <2>2. r \in SUBSET LitsOf(V)
    BY <2>1, SoundFacts
  <2>3. PICK x : r = {x}
    BY <1>1, <2>2, ClausesFinite, FS_Singleton
  <2> QED BY <1>1, <2>1, <2>2, <2>3, SoundFacts
<1> QED BY <1>1

\* Unit propagation over clauses that hold derives facts.
LEMMA PropagationSound ==
  ASSUME NEW V, NEW M, NEW cs \in SUBSET Sound(V, M), NEW lits \in SUBSET Facts(V, M)
  PROVE  Propagation(cs, lits) \in SUBSET Facts(V, M)
<1> DEFINE S == SUBSET Facts(V, M)
           n == MaxVar
           next(known) ==
             known \cup UNION {r \in {Unfalsified(known, c) : c \in cs} : Cardinality(r) = 1}
           step == [i \in 1..n |-> [known \in S |-> next(known)]]
           body(f, i) == IF i = 0 THEN lits ELSE next(f[i - 1])
           Walks(f) == f = [i \in 0..n |-> body(f, i)]
<1>1. n \in Nat /\ lits \in S
  BY MaxVarAssumption
<1>2. \A known \in S : next(known) \in S
  BY UnitSound
<1>3. step \in [1..n -> [S -> S]]
  BY <1>2
<1>4. \E g : Steps(g, n, S, lits, step)
  <2> HIDE DEF step, n, S
  <2> QED BY <1>1, <1>3, Recursion
<1>5. PICK g \in [0..n -> S] : g[0] = lits /\ \A i \in 1..n : g[i] = step[i][g[i - 1]]
  <2> HIDE DEF step, n, S
  <2> QED BY <1>4 DEF Steps
<1>6. ASSUME NEW i \in 0..n PROVE g[i] = body(g, i)
  <2>1. CASE i = 0
    BY <1>5, <2>1
  <2>2. CASE i \in 1..n
    <3>1. g[i - 1] \in S /\ i # 0
      BY <1>1, <2>2
    <3> HIDE DEF next, S
    <3> QED BY <1>5, <2>2, <3>1
  <2> QED BY <1>1, <2>1, <2>2
<1>7. Walks(g)
  <2> HIDE DEF body
  <2> QED BY <1>6
<1>8. Walks(CHOOSE f : Walks(f))
  <2> HIDE DEF Walks
  <2> QED BY <1>7
<1>9. Propagation(cs, lits) = (CHOOSE f : Walks(f))[n]
  BY DEF Propagation
<1>10. ASSUME NEW f, Walks(f) PROVE f[n] \in S
  <2>1. f[0] \in S
    BY <1>1, <1>10
  <2>2. ASSUME NEW i \in 1..n, f[i - 1] \in S PROVE f[i] \in S
    <3>1. f[i] = next(f[i - 1])
      <4> HIDE DEF next
      <4>1. i \in 0..n /\ i # 0
        BY <1>1
      <4>2. f[i] = body(f, i)
        BY <1>10, <4>1
      <4> QED BY <4>1, <4>2
    <3> QED BY <1>2, <2>2, <3>1
  <2> HIDE DEF Walks, n, S
  <2>3. \A i \in 0..n : f[i] \in S
    BY <1>1, <2>1, <2>2, Typed
  <2> QED BY <1>1, <2>3
<1> HIDE DEF Walks
<1> QED BY <1>8, <1>9, <1>10

\* So does the propagation of new units.
LEMMA NewUnitsSound ==
  ASSUME NEW V, NEW M, NEW cs \in SUBSET Sound(V, M), NEW units \in SUBSET Facts(V, M),
         NEW work \in SUBSET Facts(V, M)
  PROVE  NewUnits(cs, units, work) \in SUBSET Facts(V, M)
<1> DEFINE S == SUBSET Facts(V, M)
           n == MaxVar
           next(known) ==
             known \cup UNION {r \in {Unfalsified(units \cup known, c) :
                                           c \in {d \in cs : d \cap Negated(known) # {}}} :
                                    Cardinality(r) = 1}
           step == [i \in 1..n |-> [known \in S |-> next(known)]]
           body(f, i) == IF i = 0 THEN work ELSE next(f[i - 1])
           Walks(f) == f = [i \in 0..n |-> body(f, i)]
<1>1. n \in Nat
  BY MaxVarAssumption
<1>2. work \in S
  OBVIOUS
<1>3. ASSUME NEW known \in S PROVE next(known) \in S
  <2>1. units \cup known \in SUBSET Facts(V, M)
    OBVIOUS
  <2>2. {d \in cs : d \cap Negated(known) # {}} \in SUBSET Sound(V, M)
    OBVIOUS
  <2>3. UNION {r \in {Unfalsified(units \cup known, c) :
                         c \in {d \in cs : d \cap Negated(known) # {}}} : Cardinality(r) = 1}
          \subseteq Facts(V, M)
    BY <2>1, <2>2, UnitSound
  <2> QED BY <2>3
<1>4. step \in [1..n -> [S -> S]]
  <2> HIDE DEF next
  <2> QED BY <1>3
<1>5. \E g : Steps(g, n, S, work, step)
  <2> HIDE DEF step, n, S
  <2> QED BY <1>1, <1>2, <1>4, Recursion
<1>6. PICK g \in [0..n -> S] :
        g[0] = work /\ \A i \in 1..n : g[i] = step[i][g[i - 1]]
  <2> HIDE DEF step, n, S
  <2> QED BY <1>5 DEF Steps
<1>7. ASSUME NEW i \in 0..n PROVE g[i] = body(g, i)
  <2>1. CASE i = 0
    BY <1>6, <2>1
  <2>2. CASE i \in 1..n
    <3>1. g[i - 1] \in S /\ i # 0
      BY <1>1, <2>2
    <3> HIDE DEF next, S
    <3> QED BY <1>6, <2>2, <3>1
  <2>3. i = 0 \/ i \in 1..n
    BY <1>1
  <2> HIDE DEF body
  <2> QED BY <2>1, <2>2, <2>3
<1>8. Walks(g)
  <2> HIDE DEF body
  <2> QED BY <1>7
<1>9. Walks(CHOOSE f : Walks(f))
  <2> HIDE DEF Walks
  <2> QED BY <1>8
<1>10. NewUnits(cs, units, work) = (CHOOSE f : Walks(f))[n]
  BY DEF NewUnits
<1>11. ASSUME NEW f, Walks(f) PROVE f[n] \in S
  <2>1. f[0] \in S
    <3> HIDE DEF next, S
    <3> QED BY <1>1, <1>2, <1>11
  <2>2. ASSUME NEW i \in 1..n, f[i - 1] \in S PROVE f[i] \in S
    <3>1. i \in 0..n /\ i # 0
      BY <1>1
    <3>2. f[i] = body(f, i)
      BY <1>11, <3>1
    <3>3. f[i] = next(f[i - 1])
      BY <3>1, <3>2
    <3> HIDE DEF next, S, Walks
    <3> QED BY <1>3, <2>2, <3>3
  <2> HIDE DEF Walks, n, S
  <2>3. \A i \in 0..n : f[i] \in S
    BY <1>1, <2>1, <2>2, Typed
  <2> QED BY <1>1, <2>3
<1> HIDE DEF Walks
<1> QED BY <1>9, <1>10, <1>11

\* A clause that holds is falsified by facts only if M is empty.
LEMMA ConflictSound ==
  ASSUME NEW V, NEW M, NEW cs \in SUBSET Sound(V, M), NEW lits \in SUBSET Facts(V, M),
         Conflicting(cs, lits)
  PROVE  M = {}
<1>1. CASE \E lit \in lits : -lit \in lits
  BY <1>1, SoundFacts
<1>2. CASE \E c \in cs : c \subseteq Negated(lits)
  BY <1>2, SoundFacts
<1> QED BY <1>1, <1>2 DEF Conflicting

\* The negation of a clause that does not hold.
LEMMA NegationSound ==
  ASSUME NEW V, NEW m, NEW c \in SUBSET LitsOf(V), ~Holds(m, c)
  PROVE  Negated(c) \in SUBSET Facts(V, {m})
<1>1. ASSUME NEW lit \in c PROVE -lit \in Facts(V, {m})
  <2>1. lit \in Lit /\ -lit \in LitsOf(V)
    BY LitsOfFacts
  <2>2. ~True(m, lit)
    BY DEF Holds
  <2> QED BY <2>1, <2>2, TrueNegated DEF Facts
<1> QED BY <1>1 DEF Negated

\* A clause with reverse unit propagation follows.
LEMMA RupSound ==
  ASSUME NEW V, NEW M, NEW cs \in SUBSET Sound(V, M), NEW units \in SUBSET Facts(V, M),
         NEW c \in SUBSET LitsOf(V), Rup(cs, units, c)
  PROVE  c \in Sound(V, M)
<1>1. ASSUME NEW m \in M, ~Holds(m, c) PROVE FALSE
  <2>1. cs \in SUBSET Sound(V, {m}) /\ units \in SUBSET Facts(V, {m})
    BY FewerAssignments
  <2>2. units \cup Negated(c) \in SUBSET Facts(V, {m})
    BY <1>1, <2>1, NegationSound
  <2>3. Propagation(cs, units \cup Negated(c)) \in SUBSET Facts(V, {m})
    BY <2>1, <2>2, PropagationSound
  <2>4. {m} = {}
    BY <2>1, <2>3, ConflictSound DEF Rup
  <2> QED BY <2>4
<1> QED BY <1>1 DEF Sound

Kinds == {"irr", "red"}

\* The parts of a database.
LEMMA DatabaseFacts ==
  ASSUME NEW V, NEW M, NEW r \in Databases(V, M)
  PROVE  /\ r.irr \in SUBSET Sound(V, M) /\ r.red \in SUBSET Sound(V, M)
         /\ r.irr \in SUBSET Proper(V, M) /\ r.red \in SUBSET Proper(V, M)
         /\ Clauses(r) \in SUBSET Proper(V, M)
         /\ Clauses(r) \in SUBSET Sound(V, M)
         /\ r.units \in SUBSET Facts(V, M)
         /\ r.stack \in Seq(SoundEntries(V, M))
         /\ r.unsat \in BOOLEAN /\ (r.unsat => M = {})
         /\ r.status \in [Var -> Status] /\ \A v \in Var : v \in V => r.status[v] # "unused"
         /\ r.tainted \in SUBSET Lit
         /\ \A k \in Kinds : r[k] \in SUBSET Sound(V, M) /\ r[k] \in SUBSET Proper(V, M)
  BY ProperFacts DEF Databases, Clauses, Kinds

\* Setting unsat is right when no assignment is left.
LEMMA UnsatKeeps ==
  ASSUME NEW V, NEW M, NEW r \in Databases(V, M), M = {}
  PROVE  Unsat(r) \in Databases(V, M)
  BY DEF Databases, Unsat

WithUnits(r, lits) == [r EXCEPT !.units = lits]
MoreUnits(r, lits) == [r EXCEPT !.units = @ \cup lits]
WithIrr(r, cs) == [r EXCEPT !.irr = cs]
WithRed(r, cs) == [r EXCEPT !.red = cs]

\* Facts can be added as units.
LEMMA UnitsKeep ==
  ASSUME NEW V, NEW M, NEW r \in Databases(V, M), NEW lits \in SUBSET Facts(V, M)
  PROVE  /\ WithUnits(r, lits) \in Databases(V, M)
         /\ MoreUnits(r, lits) \in Databases(V, M)
<1>1. r.units \cup lits \in SUBSET Facts(V, M)
  BY DEF Databases
<1> QED BY <1>1 DEF Databases, WithUnits, MoreUnits

\* assign_unit with a fact.
LEMMA AssignKeeps ==
  ASSUME NEW V, NEW M, NEW r \in Databases(V, M), NEW lit \in Facts(V, M)
  PROVE  AssignUnit(r, lit) \in Databases(V, M)
  BY DEF Databases, AssignUnit

\* Clauses that hold, without complementary literals, can be added to either
\* list.
LEMMA ClausesKeep ==
  ASSUME NEW V, NEW M, NEW r \in Databases(V, M), NEW cs \in SUBSET Proper(V, M)
  PROVE  /\ WithIrr(r, cs) \in Databases(V, M)
         /\ WithRed(r, cs) \in Databases(V, M)
  BY DEF Databases, WithIrr, WithRed

\* propagate at the root level keeps what holds.
LEMMA PropagateKeeps ==
  ASSUME NEW V, NEW M, NEW r \in Databases(V, M)
  PROVE  Propagate(r) \in Databases(V, M)
<1> DEFINE lits == Propagation(Clauses(r), r.units)
<1>1. Clauses(r) \in SUBSET Sound(V, M) /\ r.units \in SUBSET Facts(V, M)
  BY DatabaseFacts
<1>2. lits \in SUBSET Facts(V, M)
  BY <1>1, PropagationSound
<1>3. CASE r.unsat
  BY <1>3 DEF Propagate
<1>4. CASE ~r.unsat /\ Conflicting(Clauses(r), lits)
  <2>1. M = {}
    BY <1>1, <1>2, <1>4, ConflictSound
  <2>2. Propagate(r) = Unsat(r)
    BY <1>4 DEF Propagate
  <2> QED BY <2>1, <2>2, UnsatKeeps
<1>5. CASE ~r.unsat /\ ~Conflicting(Clauses(r), lits)
  <2>1. Propagate(r) = WithUnits(r, lits)
    BY <1>5 DEF Propagate, WithUnits
  <2> HIDE DEF lits
  <2> QED BY <1>2, <2>1, UnitsKeep
<1> QED BY <1>3, <1>4, <1>5

\* new_derived_clause, or assign_unit when one literal is left.
LEMMA DeriveKeeps ==
  ASSUME NEW V, NEW M, NEW r \in Databases(V, M), NEW c \in Proper(V, M), NEW k \in Kinds
  PROVE  Derive(r, c, k) \in Databases(V, M)
<1>1. CASE c = {}
  <2>1. M = {}
    BY <1>1, SoundFacts, ProperFacts
  <2>2. Derive(r, c, k) = Unsat(r)
    <3>1. Cardinality(c) # 1
      BY <1>1, FS_EmptySet
    <3> QED BY <1>1, <3>1 DEF Derive
  <2> QED BY <2>1, <2>2, UnsatKeeps
<1>2. CASE c # {} /\ Cardinality(c) = 1
  <2>1. c \in SUBSET LitsOf(V) /\ c \in Sound(V, M)
    BY SoundFacts, ProperFacts
  <2>2. PICK x : c = {x}
    BY <1>2, <2>1, ClausesFinite, FS_Singleton
  <2>3. c \in SUBSET Facts(V, M)
    BY <2>1, <2>2, SoundFacts
  <2>4. Derive(r, c, k) = MoreUnits(r, c)
    BY <1>2 DEF Derive, MoreUnits
  <2> QED BY <2>3, <2>4, UnitsKeep
<1>3. CASE c # {} /\ Cardinality(c) # 1
  <2>1. Derive(r, c, k) = [r EXCEPT ![k] = @ \cup {c}]
    BY <1>3 DEF Derive
  <2>2. CASE k = "irr"
    <3>1. r.irr \cup {c} \in SUBSET Proper(V, M)
      BY DatabaseFacts
    <3> QED BY <2>1, <2>2, <3>1 DEF Databases
  <2>3. CASE k = "red"
    <3>1. r.red \cup {c} \in SUBSET Proper(V, M)
      BY DatabaseFacts
    <3> QED BY <2>1, <2>3, <3>1 DEF Databases
  <2> QED BY <2>2, <2>3 DEF Kinds
<1> QED BY <1>1, <1>2, <1>3

\* mark_garbage leaves less to hold.
LEMMA DropKeeps ==
  ASSUME NEW V, NEW M, NEW r \in Databases(V, M), NEW cs
  PROVE  /\ Drop(r, cs) \in Databases(V, M)
         /\ \A c : \A k \in Kinds : MarkGarbage(r, c, k) \in Databases(V, M)
  BY DEF Databases, Drop, MarkGarbage, Kinds

\* strengthen_clause and its like: a clause replaced by one that holds.
LEMMA ReplaceKeeps ==
  ASSUME NEW V, NEW M, NEW r \in Databases(V, M), NEW c, NEW d \in Proper(V, M), NEW k \in Kinds
  PROVE  Replace(r, c, d, k) \in Databases(V, M)
  BY DropKeeps, DeriveKeeps DEF Replace

\* A redundant clause that holds may become irredundant.
LEMMA PromoteKeeps ==
  ASSUME NEW V, NEW M, NEW r \in Databases(V, M), NEW c \in Proper(V, M)
  PROVE  Promote(r, c) \in Databases(V, M)
  BY DEF Promote, Databases

\* What garbage collection leaves of clauses that hold, holds.
LEMMA CollectedSound ==
  ASSUME NEW V, NEW M, NEW units \in SUBSET Facts(V, M), NEW cs \in SUBSET Proper(V, M)
  PROVE  Collected(units, cs) \in SUBSET Proper(V, M)
  BY ProperFacts DEF Collected

\* garbage_collection keeps what holds.
LEMMA CollectKeeps ==
  ASSUME NEW V, NEW M, NEW r \in Databases(V, M)
  PROVE  Collect(r) \in Databases(V, M)
<1>1. /\ Collected(r.units, r.irr) \in SUBSET Proper(V, M)
      /\ Collected(r.units, r.red) \in SUBSET Proper(V, M)
  BY DatabaseFacts, CollectedSound
<1> QED BY <1>1 DEF Collect, Databases

\* mark_eliminated, mark_pure, mark_substituted and their like do not touch the
\* clauses.
LEMMA SetStatusKeeps ==
  ASSUME NEW V, NEW M, NEW r \in Databases(V, M), NEW lit \in Lit, NEW x \in Status \ {"unused"}
  PROVE  SetStatus(r, lit, x) \in Databases(V, M)
<1>1. VarOf(lit) \in Var
  BY LitFacts
<1> QED BY <1>1 DEF SetStatus, Databases

\* Entries whose clauses hold can be pushed on the extension stack.
LEMMA PushKeeps ==
  ASSUME NEW V, NEW M, NEW r \in Databases(V, M), NEW entries \in Seq(SoundEntries(V, M))
  PROVE  Push(r, entries) \in Databases(V, M)
<1>1. r.stack \o entries \in Seq(SoundEntries(V, M))
  BY DatabaseFacts
<1> QED BY <1>1 DEF Push, Databases

\* More variables, none of them unused, allow more clauses.
LEMMA Widen ==
  ASSUME NEW V, NEW W, NEW M, V \subseteq W, NEW r \in Databases(V, M),
         \A v \in Var : v \in W => r.status[v] # "unused"
  PROVE  r \in Databases(W, M)
<1>1. LitsOf(V) \subseteq LitsOf(W)
  BY DEF LitsOf
<1>2. /\ Sound(V, M) \subseteq Sound(W, M) /\ Facts(V, M) \subseteq Facts(W, M)
      /\ Proper(V, M) \subseteq Proper(W, M)
  BY <1>1 DEF Sound, Facts, Proper
<1>3. SoundEntries(V, M) \subseteq SoundEntries(W, M)
  BY <1>2 DEF SoundEntries
<1>4. r.stack \in Seq(SoundEntries(W, M))
  BY <1>3, DatabaseFacts
<1> QED BY <1>2, <1>4 DEF Databases

\* The entries of sound clauses are sound.
LEMMA EntriesSound ==
  ASSUME NEW V, NEW M, NEW cs \in SUBSET Sound(V, M), NEW witness \in SUBSET Lit
  PROVE  Entries(witness, cs) \in Seq(SoundEntries(V, M))
<1> DEFINE S == cs
           base == <<>>
           A(T) == Seq(SoundEntries(V, M))
           pick(T) == CHOOSE e \in T : TRUE
           Op(a, x) == Append(a, Entry(witness, x))
           first == [T \in SUBSET S |-> pick(T)]
           sets == [T \in SUBSET S |-> A(T)]
           step == [x \in S |-> [a \in UNION {A(T) : T \in SUBSET S} |-> Op(a, x)]]
           body(g, T) == IF T = {} THEN base
                         ELSE Op(g[T \ {pick(T)}], pick(T))
           Is(g) == g = [T \in SUBSET S |-> body(g, T)]
<1>1. IsFiniteSet(S)
  BY ClausesFinite
<1>2. ASSUME NEW T \in SUBSET S, T # {} PROVE pick(T) \in T
  BY <1>2
<1>3. base \in A({})
  OBVIOUS
<1>4. ASSUME NEW T \in SUBSET S, NEW x \in T, NEW a \in A(T \ {x}) PROVE Op(a, x) \in A(T)
  <2>1. Entry(witness, x) \in SoundEntries(V, M)
    BY DEF Entry, SoundEntries
  <2> QED BY <2>1
<1>5. Entries(witness, cs) = (CHOOSE g : Is(g))[S]
  BY DEF Entries, FoldSet, MapThenFoldSet
<1> HIDE DEF A, Op, pick, S, base
<1>6. Picks(first, S)
  BY <1>2 DEF Picks
<1>7. ASSUME NEW T \in SUBSET S, T # {}
      PROVE  /\ first[T] = pick(T) /\ pick(T) \in T /\ pick(T) \in S
             /\ T \ {pick(T)} \in SUBSET S
             /\ \A a \in A(T \ {pick(T)}) :
                  step[pick(T)][a] = Op(a, pick(T)) /\ Op(a, pick(T)) \in A(T)
  <2>1. pick(T) \in T
    BY <1>2, <1>7
  <2>2. ASSUME NEW a \in A(T \ {pick(T)}) PROVE Op(a, pick(T)) \in A(T)
    BY <1>4, <2>1
  <2> QED BY <2>1, <2>2
<1>8. base \in sets[{}] /\ \A T \in SUBSET S : sets[T] = A(T)
  BY <1>3
<1>9. PICK g : FoldsIn(g, S, base, first, step, sets)
  <2>1. ASSUME NEW T \in SUBSET S, T # {}, NEW a \in sets[T \ {first[T]}]
        PROVE  step[first[T]][a] \in sets[T]
    <3> HIDE DEF step, first, sets
    <3>1. first[T] = pick(T) /\ T \ {pick(T)} \in SUBSET S
      BY <1>7, <2>1
    <3>2. a \in A(T \ {pick(T)})
      BY <1>8, <2>1, <3>1
    <3> QED BY <1>7, <1>8, <2>1, <3>1, <3>2
  <2> HIDE DEF step, first, sets
  <2>2. StaysIn(S, first, step, sets)
    BY <2>1 DEF StaysIn
  <2>3. base \in sets[{}]
    BY <1>8
  <2> QED BY <1>1, <1>6, <2>2, <2>3, FoldExists
<1>10. ASSUME NEW T \in SUBSET S PROVE g[T] = body(g, T)
  <2>1. CASE T = {}
    BY <1>9, <2>1 DEF Folds, FoldsIn
  <2>2. CASE T # {}
    <3>1. g[T] = step[first[T]][g[T \ {first[T]}]]
      <4> HIDE DEF step, first
      <4> QED BY <1>9, <2>2 DEF Folds, FoldsIn
    <3>2. g[T \ {pick(T)}] \in A(T \ {pick(T)})
      BY <1>7, <1>8, <1>9, <2>2 DEF FoldsIn
    <3> HIDE DEF step, first
    <3> QED BY <1>7, <2>2, <3>1, <3>2
  <2> QED BY <2>1, <2>2
<1>11. Is(g)
  <2>1. g = [T \in SUBSET S |-> g[T]]
    BY <1>9 DEF FoldsIn
  <2> HIDE DEF body
  <2> QED BY <1>10, <2>1
<1>12. Is(CHOOSE h : Is(h))
  <2> HIDE DEF Is
  <2> QED BY <1>11
<1>13. ASSUME NEW h, Is(h) PROVE h[S] \in A(S)
  <2> DEFINE Q == {T \in SUBSET S : h[T] \in A(T)}
  <2>1. \A T \in SUBSET S : h[T] = body(h, T)
    BY <1>13
  <2>2. {} \in Q
    BY <1>3, <2>1
  <2>3. ASSUME NEW T \in SUBSET S, T # {}, T \ {first[T]} \in Q PROVE T \in Q
    <3>1. h[T] = Op(h[T \ {pick(T)}], pick(T))
      BY <2>1, <2>3
    <3>2. h[T \ {pick(T)}] \in A(T \ {pick(T)})
      <4> HIDE DEF first
      <4> QED BY <1>7, <2>3
    <3> HIDE DEF first
    <3> QED BY <1>7, <2>3, <3>1, <3>2
  <2>4. SUBSET S \subseteq Q
    <3> HIDE DEF Q, first
    <3> QED BY <1>1, <1>6, <2>2, <2>3, FoldInduction
  <2> QED BY <2>4
<1>14. Entries(witness, cs) \in A(S)
  <2> HIDE DEF Is
  <2> QED BY <1>5, <1>12, <1>13
<1> QED BY <1>14 DEF A

\* push_on_extension_stack with clauses that hold.
LEMMA WeakenKeeps ==
  ASSUME NEW V, NEW M, NEW r \in Databases(V, M), NEW witness \in SUBSET Lit,
         NEW cs \in SUBSET Sound(V, M)
  PROVE  Weaken(r, witness, cs) \in Databases(V, M)
  BY EntriesSound, PushKeeps, DropKeeps DEF Weaken

\* internalize puts a variable to use, and activates it again when it was
\* removed.
LEMMA InternalizeKeeps ==
  ASSUME NEW V, NEW M, NEW r \in Databases(V, M), NEW lit \in Lit
  PROVE  Internalize(r, lit) \in Databases(V \cup {VarOf(lit)}, M)
<1>1. VarOf(lit) \in Var
  BY LitFacts
<1> DEFINE t == SetStatus(r, lit, "active")
           taint == IF -lit \in Witness(r) THEN r.tainted \cup {lit} ELSE r.tainted
<1>2. t \in Databases(V, M)
  BY SetStatusKeeps DEF Status
<1>3. t.status[VarOf(lit)] = "active" /\ t.tainted = r.tainted
  BY <1>1 DEF SetStatus, Databases
<1>4. t \in Databases(V \cup {VarOf(lit)}, M)
  <2>1. \A v \in Var : v \in V \cup {VarOf(lit)} => t.status[v] # "unused"
    BY <1>2, <1>3, DatabaseFacts
  <2> HIDE DEF t
  <2> QED BY <1>2, <2>1, Widen
<1>5. taint \in SUBSET Lit
  BY DatabaseFacts
<1>6. Internalize(r, lit) = [t EXCEPT !.tainted = taint]
  BY <1>3 DEF Internalize
<1> HIDE DEF t, taint
<1> QED BY <1>4, <1>5, <1>6 DEF Databases
\* The variables of all its literals are used then.
LEMMA InternalizeAllKeeps ==
  ASSUME NEW V, NEW M, NEW r \in Databases(V, M), NEW lits \in SUBSET Lit
  PROVE  InternalizeAll(r, lits) \in Databases(V \cup Vars(lits), M)
<1> DEFINE S == lits
           base == r
           A(T) == Databases(V \cup Vars(T), M)
           pick(T) == CHOOSE e \in T : TRUE
           Op(a, x) == Internalize(a, x)
           first == [T \in SUBSET S |-> pick(T)]
           sets == [T \in SUBSET S |-> A(T)]
           step == [x \in S |-> [a \in UNION {A(T) : T \in SUBSET S} |-> Op(a, x)]]
           body(g, T) == IF T = {} THEN base
                         ELSE Op(g[T \ {pick(T)}], pick(T))
           Is(g) == g = [T \in SUBSET S |-> body(g, T)]
<1>1. IsFiniteSet(S)
  BY LitsFinite, FS_Subset
<1>2. ASSUME NEW T \in SUBSET S, T # {} PROVE pick(T) \in T
  BY <1>2
<1>3. base \in A({})
  <2>1. V \cup Vars({}) = V
    BY DEF Vars
  <2> QED BY <2>1
<1>4. ASSUME NEW T \in SUBSET S, NEW x \in T, NEW a \in A(T \ {x}) PROVE Op(a, x) \in A(T)
  <2>1. (V \cup Vars(T \ {x})) \cup {VarOf(x)} = V \cup Vars(T)
    BY DEF Vars
  <2>2. x \in Lit
    OBVIOUS
  <2> QED BY <2>1, <2>2, InternalizeKeeps
<1>5. InternalizeAll(r, lits) = (CHOOSE g : Is(g))[S]
  BY DEF InternalizeAll, FoldSet, MapThenFoldSet
<1> HIDE DEF A, Op, pick, S, base
<1>6. Picks(first, S)
  BY <1>2 DEF Picks
<1>7. ASSUME NEW T \in SUBSET S, T # {}
      PROVE  /\ first[T] = pick(T) /\ pick(T) \in T /\ pick(T) \in S
             /\ T \ {pick(T)} \in SUBSET S
             /\ \A a \in A(T \ {pick(T)}) :
                  step[pick(T)][a] = Op(a, pick(T)) /\ Op(a, pick(T)) \in A(T)
  <2>1. pick(T) \in T
    BY <1>2, <1>7
  <2>2. ASSUME NEW a \in A(T \ {pick(T)}) PROVE Op(a, pick(T)) \in A(T)
    BY <1>4, <2>1
  <2> QED BY <2>1, <2>2
<1>8. base \in sets[{}] /\ \A T \in SUBSET S : sets[T] = A(T)
  BY <1>3
<1>9. PICK g : FoldsIn(g, S, base, first, step, sets)
  <2>1. ASSUME NEW T \in SUBSET S, T # {}, NEW a \in sets[T \ {first[T]}]
        PROVE  step[first[T]][a] \in sets[T]
    <3> HIDE DEF step, first, sets
    <3>1. first[T] = pick(T) /\ T \ {pick(T)} \in SUBSET S
      BY <1>7, <2>1
    <3>2. a \in A(T \ {pick(T)})
      BY <1>8, <2>1, <3>1
    <3> QED BY <1>7, <1>8, <2>1, <3>1, <3>2
  <2> HIDE DEF step, first, sets
  <2>2. StaysIn(S, first, step, sets)
    BY <2>1 DEF StaysIn
  <2>3. base \in sets[{}]
    BY <1>8
  <2> QED BY <1>1, <1>6, <2>2, <2>3, FoldExists
<1>10. ASSUME NEW T \in SUBSET S PROVE g[T] = body(g, T)
  <2>1. CASE T = {}
    BY <1>9, <2>1 DEF Folds, FoldsIn
  <2>2. CASE T # {}
    <3>1. g[T] = step[first[T]][g[T \ {first[T]}]]
      <4> HIDE DEF step, first
      <4> QED BY <1>9, <2>2 DEF Folds, FoldsIn
    <3>2. g[T \ {pick(T)}] \in A(T \ {pick(T)})
      BY <1>7, <1>8, <1>9, <2>2 DEF FoldsIn
    <3> HIDE DEF step, first
    <3> QED BY <1>7, <2>2, <3>1, <3>2
  <2> QED BY <2>1, <2>2
<1>11. Is(g)
  <2>1. g = [T \in SUBSET S |-> g[T]]
    BY <1>9 DEF FoldsIn
  <2> HIDE DEF body
  <2> QED BY <1>10, <2>1
<1>12. Is(CHOOSE h : Is(h))
  <2> HIDE DEF Is
  <2> QED BY <1>11
<1>13. ASSUME NEW h, Is(h) PROVE h[S] \in A(S)
  <2> DEFINE Q == {T \in SUBSET S : h[T] \in A(T)}
  <2>1. \A T \in SUBSET S : h[T] = body(h, T)
    BY <1>13
  <2>2. {} \in Q
    BY <1>3, <2>1
  <2>3. ASSUME NEW T \in SUBSET S, T # {}, T \ {first[T]} \in Q PROVE T \in Q
    <3>1. h[T] = Op(h[T \ {pick(T)}], pick(T))
      BY <2>1, <2>3
    <3>2. h[T \ {pick(T)}] \in A(T \ {pick(T)})
      <4> HIDE DEF first
      <4> QED BY <1>7, <2>3
    <3> HIDE DEF first
    <3> QED BY <1>7, <2>3, <3>1, <3>2
  <2>4. SUBSET S \subseteq Q
    <3> HIDE DEF Q, first
    <3> QED BY <1>1, <1>6, <2>2, <2>3, FoldInduction
  <2> QED BY <2>4
<1>14. InternalizeAll(r, lits) \in A(S)
  <2> HIDE DEF Is
  <2> QED BY <1>5, <1>12, <1>13
<1> QED BY <1>14 DEF A, S

\* add of a clause of the user that holds in all assignments of M.
LEMMA AddOriginalKeeps ==
  ASSUME NEW V, NEW M, NEW r \in Databases(V, M), NEW c \in SUBSET Lit,
         \A m \in M : Holds(m, c)
  PROVE  AddOriginal(r, c) \in Databases(V \cup Vars(c), M)
<1> DEFINE W == V \cup Vars(c)
           t == InternalizeAll(r, c)
           rest == Unfalsified(t.units, c)
<1>1. t \in Databases(W, M)
  BY InternalizeAllKeeps
<1>2. c \in Sound(W, M)
  BY DEF LitsOf, Vars, Sound
<1>3. rest \in Sound(W, M)
  BY <1>1, <1>2, DatabaseFacts, SoundFacts
<1> HIDE DEF W, t, rest
<1>4. CASE \E lit \in c : -lit \in c
  <2>1. AddOriginal(r, c) = t
    BY <1>4 DEF AddOriginal, t
  <2> QED BY <1>1, <2>1 DEF W
<1>5. CASE ~(\E lit \in c : -lit \in c)
  <2>1. c \in Proper(W, M)
    BY <1>2, <1>5 DEF Proper
  <2>2. rest \in Proper(W, M)
    BY <1>3, <2>1, ProperFacts DEF rest, Unfalsified
  <2>3. Derive(t, rest, "irr") \in Databases(W, M)
    BY <1>1, <2>2, DeriveKeeps DEF Kinds
  <2>4. Propagate(Derive(t, rest, "irr")) \in Databases(W, M)
    BY <2>3, PropagateKeeps
  <2>5. AddOriginal(r, c) \in {t, Derive(t, rest, "irr"), Propagate(Derive(t, rest, "irr"))}
    BY DEF AddOriginal, t, rest
  <2> QED BY <1>1, <2>3, <2>4, <2>5 DEF W
<1> QED BY <1>4, <1>5

\* A sound clause brings no other variables.
LEMMA AddKnownKeeps ==
  ASSUME NEW V, NEW M, NEW r \in Databases(V, M), NEW c \in Sound(V, M)
  PROVE  AddOriginal(r, c) \in Databases(V, M)
<1>1. V \cup Vars(c) = V
  BY DEF Sound, LitsOf, Vars
<1>2. c \in SUBSET Lit /\ \A m \in M : Holds(m, c)
  BY DEF Sound, LitsOf
<1>3. AddOriginal(r, c) \in Databases(V \cup Vars(c), M)
  BY <1>2, AddOriginalKeeps
<1> QED BY <1>1, <1>3

Restoring(V, M) ==
  [s : Databases(V, M), keep : Seq(SoundEntries(V, M)), tainted : SUBSET Lit]

\* One entry of the extension stack restored, or kept, by restore_clauses.
LEMMA RestoreEntryKeeps ==
  ASSUME NEW V, NEW M, NEW t \in Restoring(V, M), NEW e \in SoundEntries(V, M)
  PROVE  RestoreEntry(t, e) \in Restoring(V, M)
<1>1. Append(t.keep, e) \in Seq(SoundEntries(V, M))
  BY DEF Restoring
<1>2. AddOriginal(t.s, e.clause) \in Databases(V, M)
  BY AddKnownKeeps DEF Restoring, SoundEntries
<1>3. e.clause \subseteq Lit
  BY SoundFacts, LitsOfFacts DEF SoundEntries
<1>4. t.tainted \cup (e.clause \cap Negated(Witness(t.s))) \in SUBSET Lit
  BY <1>3 DEF Restoring
<1>5. CASE Negated(e.witness) \cap t.tainted = {}
  BY <1>1, <1>5 DEF RestoreEntry, Restoring
<1>6. CASE Negated(e.witness) \cap t.tainted # {}
  BY <1>2, <1>4, <1>6 DEF RestoreEntry, Restoring
<1> QED BY <1>5, <1>6

RestoredAll(r) ==
  FoldLeft(RestoreEntry, [s |-> r, keep |-> <<>>, tainted |-> r.tainted], r.stack)

\* So does the whole stack.
LEMMA RestoredAllKeeps ==
  ASSUME NEW V, NEW M, NEW r \in Databases(V, M)
  PROVE  RestoredAll(r) \in Restoring(V, M)
<1> DEFINE S == DOMAIN r.stack
           base == [s |-> r, keep |-> <<>>, tainted |-> r.tainted]
           A(T) == Restoring(V, M)
           pick(T) == Max(T)
           Op(a, x) == RestoreEntry(a, r.stack[x])
           first == [T \in SUBSET S |-> pick(T)]
           sets == [T \in SUBSET S |-> A(T)]
           step == [x \in S |-> [a \in UNION {A(T) : T \in SUBSET S} |-> Op(a, x)]]
           body(g, T) == IF T = {} THEN base
                         ELSE Op(g[T \ {pick(T)}], pick(T))
           Is(g) == g = [T \in SUBSET S |-> body(g, T)]
<1>1. IsFiniteSet(S)
  <2>1. DOMAIN r.stack = 1..Len(r.stack) /\ Len(r.stack) \in Nat
    BY DatabaseFacts
  <2> QED BY <2>1, FS_Interval
<1>2. ASSUME NEW T \in SUBSET S, T # {} PROVE pick(T) \in T
  <2>1. T \subseteq 0..Len(r.stack) /\ Len(r.stack) \in Nat
    BY DatabaseFacts
  <2> QED BY <1>2, <2>1, MaxOfBounded
<1>3. base \in A({})
  BY DatabaseFacts DEF Restoring
<1>4. ASSUME NEW T \in SUBSET S, NEW x \in T, NEW a \in A(T \ {x}) PROVE Op(a, x) \in A(T)
  <2>1. r.stack[x] \in SoundEntries(V, M)
    BY DatabaseFacts
  <2> QED BY <2>1, RestoreEntryKeeps
<1>5. RestoredAll(r) = (CHOOSE g : Is(g))[S]
  BY DEF RestoredAll, FoldLeft, MapThenFoldSet
<1> HIDE DEF A, Op, pick, S, base
<1>6. Picks(first, S)
  BY <1>2 DEF Picks
<1>7. ASSUME NEW T \in SUBSET S, T # {}
      PROVE  /\ first[T] = pick(T) /\ pick(T) \in T /\ pick(T) \in S
             /\ T \ {pick(T)} \in SUBSET S
             /\ \A a \in A(T \ {pick(T)}) :
                  step[pick(T)][a] = Op(a, pick(T)) /\ Op(a, pick(T)) \in A(T)
  <2>1. pick(T) \in T
    BY <1>2, <1>7
  <2>2. ASSUME NEW a \in A(T \ {pick(T)}) PROVE Op(a, pick(T)) \in A(T)
    BY <1>4, <2>1
  <2> QED BY <2>1, <2>2
<1>8. base \in sets[{}] /\ \A T \in SUBSET S : sets[T] = A(T)
  BY <1>3
<1>9. PICK g : FoldsIn(g, S, base, first, step, sets)
  <2>1. ASSUME NEW T \in SUBSET S, T # {}, NEW a \in sets[T \ {first[T]}]
        PROVE  step[first[T]][a] \in sets[T]
    <3> HIDE DEF step, first, sets
    <3>1. first[T] = pick(T) /\ T \ {pick(T)} \in SUBSET S
      BY <1>7, <2>1
    <3>2. a \in A(T \ {pick(T)})
      BY <1>8, <2>1, <3>1
    <3> QED BY <1>7, <1>8, <2>1, <3>1, <3>2
  <2> HIDE DEF step, first, sets
  <2>2. StaysIn(S, first, step, sets)
    BY <2>1 DEF StaysIn
  <2>3. base \in sets[{}]
    BY <1>8
  <2> QED BY <1>1, <1>6, <2>2, <2>3, FoldExists
<1>10. ASSUME NEW T \in SUBSET S PROVE g[T] = body(g, T)
  <2>1. CASE T = {}
    BY <1>9, <2>1 DEF Folds, FoldsIn
  <2>2. CASE T # {}
    <3>1. g[T] = step[first[T]][g[T \ {first[T]}]]
      <4> HIDE DEF step, first
      <4> QED BY <1>9, <2>2 DEF Folds, FoldsIn
    <3>2. g[T \ {pick(T)}] \in A(T \ {pick(T)})
      BY <1>7, <1>8, <1>9, <2>2 DEF FoldsIn
    <3> HIDE DEF step, first
    <3> QED BY <1>7, <2>2, <3>1, <3>2
  <2> QED BY <2>1, <2>2
<1>11. Is(g)
  <2>1. g = [T \in SUBSET S |-> g[T]]
    BY <1>9 DEF FoldsIn
  <2> HIDE DEF body
  <2> QED BY <1>10, <2>1
<1>12. Is(CHOOSE h : Is(h))
  <2> HIDE DEF Is
  <2> QED BY <1>11
<1>13. ASSUME NEW h, Is(h) PROVE h[S] \in A(S)
  <2> DEFINE Q == {T \in SUBSET S : h[T] \in A(T)}
  <2>1. \A T \in SUBSET S : h[T] = body(h, T)
    BY <1>13
  <2>2. {} \in Q
    BY <1>3, <2>1
  <2>3. ASSUME NEW T \in SUBSET S, T # {}, T \ {first[T]} \in Q PROVE T \in Q
    <3>1. h[T] = Op(h[T \ {pick(T)}], pick(T))
      BY <2>1, <2>3
    <3>2. h[T \ {pick(T)}] \in A(T \ {pick(T)})
      <4> HIDE DEF first
      <4> QED BY <1>7, <2>3
    <3> HIDE DEF first
    <3> QED BY <1>7, <2>3, <3>1, <3>2
  <2>4. SUBSET S \subseteq Q
    <3> HIDE DEF Q, first
    <3> QED BY <1>1, <1>6, <2>2, <2>3, FoldInduction
  <2> QED BY <2>4
<1>14. RestoredAll(r) \in A(S)
  <2> HIDE DEF Is
  <2> QED BY <1>5, <1>12, <1>13
<1> QED BY <1>14 DEF A

\* restore_clauses puts back only clauses that hold, as every clause on the
\* extension stack does.
LEMMA RestoreKeeps ==
  ASSUME NEW V, NEW M, NEW r \in Databases(V, M)
  PROVE  Restore(r) \in Databases(V, M)
<1> DEFINE t == RestoredAll(r)
<1>1. t \in Restoring(V, M)
  BY RestoredAllKeeps
<1>2. RestoreClauses(r) = [t.s EXCEPT !.stack = t.keep, !.tainted = {}]
  BY DEF RestoreClauses, RestoredAll
<1>3. t.s \in Databases(V, M) /\ t.keep \in Seq(SoundEntries(V, M))
  BY <1>1 DEF Restoring
<1>4. RestoreClauses(r) \in Databases(V, M)
  <2> HIDE DEF t
  <2> QED BY <1>2, <1>3 DEF Databases
<1> QED BY <1>4, PropagateKeeps DEF Restore

-----------------------------------------------------------------------------
(* Elimination. *)

\* elim_propagate keeps the database sound.
LEMMA ElimPropagateKeeps ==
  ASSUME NEW V, NEW M, NEW r \in Databases(V, M), NEW root \in Facts(V, M)
  PROVE  ElimPropagate(r, root) \in Databases(V, M)
<1> DEFINE lits == NewUnits(r.irr, r.units, {root})
           touched == {c \in r.irr : c \cap (lits \cup Negated(lits)) # {}}
           t == MoreUnits(r, lits)
           cs == {c \in t.irr : c \notin touched \/ ~SatisfiedBy(t.units, c)}
<1>1. lits \in SUBSET Facts(V, M)
  BY DatabaseFacts, NewUnitsSound
<1>2. t \in Databases(V, M)
  <2> HIDE DEF lits
  <2> QED BY <1>1, UnitsKeep
<1>3. ElimPropagate(r, root) = IF Conflicting(touched, t.units) THEN Unsat(r) ELSE WithIrr(t, cs)
  BY DEF ElimPropagate, MoreUnits, WithIrr
<1>4. touched \in SUBSET Sound(V, M) /\ t.units \in SUBSET Facts(V, M)
  <2> HIDE DEF t, lits
  <2> QED BY <1>2, DatabaseFacts
<1>5. cs \in SUBSET Proper(V, M)
  <2> HIDE DEF t, touched
  <2> QED BY <1>2, DatabaseFacts
<1> HIDE DEF t, touched, cs, lits
<1>6. CASE Conflicting(touched, t.units)
  <2>1. M = {}
    BY <1>4, <1>6, ConflictSound
  <2> QED BY <1>3, <1>6, <2>1, UnsatKeeps
<1>7. CASE ~Conflicting(touched, t.units)
  BY <1>2, <1>3, <1>5, <1>7, ClausesKeep
<1> QED BY <1>6, <1>7

\* So does a unit with the propagation that follows it.
LEMMA ElimUnitKeeps ==
  ASSUME NEW V, NEW M, NEW r \in Databases(V, M), NEW lit \in Facts(V, M)
  PROVE  ElimUnit(r, lit) \in Databases(V, M)
  BY AssignKeeps, ElimPropagateKeeps DEF ElimUnit

\* A clause without its falsified literals is sound.
LEMMA SeenSound ==
  ASSUME NEW V, NEW M, NEW r \in Databases(V, M), NEW c \in Sound(V, M)
  PROVE  Seen(r, c) \in Sound(V, M) /\ Seen(r, c) \subseteq c
  BY DatabaseFacts, SoundFacts DEF Seen, Unfalsified

\* Two clauses of one literal each and the same other one make that one true.
LEMMA ClashSound ==
  ASSUME NEW V, NEW M, NEW a \in LitsOf(V), NEW b \in LitsOf(V),
         {a, b} \in Sound(V, M), {a, -b} \in Sound(V, M)
  PROVE  a \in Facts(V, M)
<1>1. ASSUME NEW m \in M PROVE True(m, a)
  <2>1. (True(m, a) \/ True(m, b)) /\ (True(m, a) \/ True(m, -b))
    BY DEF Sound, Holds
  <2> QED BY <2>1, TrueNegated, LitsOfFacts
<1> QED BY <1>1 DEF Facts

\* A binary clause with a literal that has no value: this literal and the second.
LEMMA BinarySound ==
  ASSUME NEW V, NEW M, NEW r \in Databases(V, M), NEW first, ~Fixed(r, first),
         NEW c \in Binaries(r, first)
  PROVE  /\ c \in r.irr /\ first \in LitsOf(V) /\ Second(r, c, first) \in LitsOf(V)
         /\ {first, Second(r, c, first)} \in Sound(V, M)
<1>1. c \in r.irr /\ c \in Sound(V, M) /\ first \in c /\ Cardinality(Seen(r, c)) = 2
  BY DatabaseFacts DEF Binaries, Occs
<1>2. Seen(r, c) \in Sound(V, M) /\ Seen(r, c) \subseteq c
  BY <1>1, SeenSound
<1>3. Seen(r, c) \in SUBSET LitsOf(V) /\ first \in LitsOf(V)
  BY <1>1, <1>2, SoundFacts
<1>4. first \in Seen(r, c)
  <2>1. r.units \subseteq Lit /\ first \in Lit
    BY <1>3, DatabaseFacts, SoundFacts, LitsOfFacts
  <2>2. first \notin Negated(r.units)
    BY <2>1, NegatedFacts DEF Fixed
  <2> QED BY <1>1, <2>2 DEF Seen, Unfalsified
<1>5. IsFiniteSet(Seen(r, c))
  BY <1>3, ClausesFinite
<1>6. Cardinality(Seen(r, c) \ {first}) = 1 /\ IsFiniteSet(Seen(r, c) \ {first})
  BY <1>1, <1>4, <1>5, FS_RemoveElement
<1>7. PICK x : Seen(r, c) \ {first} = {x}
  BY <1>6, FS_Singleton
<1>8. Seen(r, c) = {first, x} /\ x # first
  BY <1>4, <1>7
<1>9. Second(r, c, first) = x
  BY <1>8 DEF Second
<1> QED BY <1>1, <1>2, <1>3, <1>8, <1>9

\* The literals that mark_binary_literals marks.
LEMMA MarksSound ==
  ASSUME NEW V, NEW M, NEW r \in Databases(V, M), NEW first, ~Fixed(r, first)
  PROVE  \A lit \in Seconds(r, first) :
           /\ lit \in LitsOf(V) /\ first \in LitsOf(V)
           /\ {first, lit} \in Sound(V, M)
  BY BinarySound DEF Seconds

\* mark_binary_literals keeps the database sound.
LEMMA MarkBinariesKeeps ==
  ASSUME NEW V, NEW M, NEW r \in Databases(V, M), NEW first
  PROVE  MarkBinaries(r, first) \in Databases(V, M)
<1> DEFINE clash == \E lit \in Seconds(r, first) : -lit \in Seconds(r, first)
<1>1. CASE r.unsat \/ Fixed(r, first)
  BY <1>1 DEF MarkBinaries
<1>2. CASE ~(r.unsat \/ Fixed(r, first)) /\ clash
  <2>1. PICK lit \in Seconds(r, first) : -lit \in Seconds(r, first)
    BY <1>2
  <2>2. first \in Facts(V, M)
    BY <1>2, <2>1, MarksSound, ClashSound
  <2>3. MarkBinaries(r, first) = ElimUnit(r, first)
    BY <1>2 DEF MarkBinaries
  <2> QED BY <2>2, <2>3, ElimUnitKeeps
<1>3. CASE ~(r.unsat \/ Fixed(r, first)) /\ ~clash
  <2>1. PICK gone : MarkBinaries(r, first) = [r EXCEPT !.irr = @ \ gone]
    BY <1>3 DEF MarkBinaries
  <2>2. r.irr \ gone \in SUBSET Sound(V, M)
    BY DatabaseFacts
  <2> QED BY <2>1, <2>2 DEF Databases
<1> QED BY <1>1, <1>2, <1>3

\* A unit that find_equivalence finds is implied.
LEMMA EquivalenceUnitSound ==
  ASSUME NEW V, NEW M, NEW r \in Databases(V, M), NEW pivot, ~Fixed(r, pivot),
         NEW marks, \A lit \in marks : lit \in LitsOf(V) /\ pivot \in LitsOf(V)
                                         /\ {pivot, lit} \in Sound(V, M),
         NEW c
  PROVE  EquivalenceUnit(r, c, pivot, marks) \subseteq Facts(V, M)
<1>1. ASSUME NEW lit \in EquivalenceUnit(r, c, pivot, marks) PROVE lit \in Facts(V, M)
  <2>1. lit \in marks /\ c \in Binaries(r, -pivot) /\ lit = Second(r, c, -pivot)
    BY DEF EquivalenceUnit
  <2>2. lit \in LitsOf(V) /\ pivot \in LitsOf(V) /\ {pivot, lit} \in Sound(V, M)
    BY <2>1
  <2>3. - -pivot = pivot
    BY <2>2, LitsOfFacts
  <2>4. ~Fixed(r, -pivot)
    BY <2>3 DEF Fixed
  <2>5. {-pivot, lit} \in Sound(V, M)
    BY <2>1, <2>4, BinarySound
  <2>6. {lit, pivot} \in Sound(V, M) /\ {lit, -pivot} \in Sound(V, M)
    <3>1. {lit, pivot} = {pivot, lit} /\ {lit, -pivot} = {-pivot, lit}
      OBVIOUS
    <3> QED BY <2>2, <2>5, <3>1
  <2> QED BY <2>2, <2>6, ClashSound
<1> QED BY <1>1

\* A literal that all clauses of an unsatisfiable core share is implied.
LEMMA CoreSound ==
  ASSUME NEW V, NEW M, M \subseteq SUBSET Var, NEW gates \in SUBSET Sound(V, M),
         NEW p \in Lit, \A c \in gates : p \in c /\ -p \notin c,
         NoModel({c \ {p, -p} : c \in gates}, {}), gates # {}
  PROVE  p \in Facts(V, M)
<1>1. p \in LitsOf(V)
  BY SoundFacts
<1>2. ASSUME NEW m \in M, ~True(m, p) PROVE FALSE
  <2>1. ASSUME NEW c \in gates PROVE Holds(m, c \ {p, -p})
    <3>1. PICK lit \in c : True(m, lit)
      BY DEF Sound, Holds
    <3> QED BY <1>2, <3>1 DEF Holds
  <2>2. IsModel(m, {c \ {p, -p} : c \in gates}, {})
    BY <2>1 DEF IsModel
  <2> QED BY <2>2 DEF NoModel
<1> QED BY <1>1, <1>2 DEF Facts

\* The resolvent of two clauses is sound.
LEMMA ResolventSound ==
  ASSUME NEW V, NEW M, NEW c \in Sound(V, M), NEW d \in Sound(V, M), NEW pivot \in Lit
  PROVE  (c \ {pivot}) \cup (d \ {-pivot}) \in Sound(V, M)
<1> DEFINE res == (c \ {pivot}) \cup (d \ {-pivot})
<1>1. res \in SUBSET LitsOf(V)
  BY SoundFacts
<1>2. ASSUME NEW m \in M PROVE \E lit \in res : True(m, lit)
  <2>1. PICK x \in c : True(m, x)
    BY DEF Sound, Holds
  <2>2. PICK y \in d : True(m, y)
    BY DEF Sound, Holds
  <2>3. x # pivot \/ y # -pivot
    BY <2>1, <2>2, TrueNegated
  <2> QED BY <2>1, <2>2, <2>3
<1> HIDE DEF res
<1>3. res \in Sound(V, M)
  BY <1>1, <1>2, SoundIf
<1> QED BY <1>3 DEF res

\* Elements of the resolvent sets: sets with at most one sound clause.
Resolved(V, M) ==
  [s : Databases(V, M), resolvent : SUBSET Proper(V, M)]

\* A smaller set within a set of one element more is all but that element.
LEMMA AlmostAll ==
  ASSUME NEW S, IsFiniteSet(S), NEW x, NEW T, IsFiniteSet(T), S \ {x} \subseteq T,
         Cardinality(S) > Cardinality(T)
  PROVE  S \ {x} = T
<1>1. IsFiniteSet(S \ {x}) /\ Cardinality(S \ {x}) \in Nat /\ Cardinality(T) \in Nat
      /\ Cardinality(S) \in Nat
  BY FS_RemoveElement, FS_CardinalityType
<1>2. Cardinality(S \ {x}) >= Cardinality(S) - 1
  BY <1>1, FS_RemoveElement
<1>3. Cardinality(S \ {x}) <= Cardinality(T)
  BY FS_Subset
<1>4. Cardinality(S \ {x}) = Cardinality(T)
  BY <1>1, <1>2, <1>3
<1> QED BY <1>4, FS_Subset

\* Self-subsumption keeps the database sound.
LEMMA SelfSubsumeKeeps ==
  ASSUME NEW V, NEW M, NEW r \in Databases(V, M), NEW c, NEW pivot,
         Seen(r, c) \ {pivot} \in Proper(V, M)
  PROVE  SelfSubsume(r, c, pivot) \in Databases(V, M)
<1>1. (r.irr \ {c}) \cup {Seen(r, c) \ {pivot}} \in SUBSET Proper(V, M)
  BY DatabaseFacts
<1> QED BY <1>1 DEF SelfSubsume, Databases

\* resolve_clauses keeps the database sound, and its resolvent is sound.
LEMMA ResolveKeeps ==
  ASSUME NEW V, NEW M, NEW r \in Databases(V, M), NEW c, NEW d, NEW pivot \in Lit,
         NEW eagerly \in BOOLEAN
  PROVE  resolve_clauses(r, c, d, pivot, eagerly) \in Resolved(V, M)
<1> DEFINE res == Resolvent(r, c, d, pivot)
           size == Cardinality(res)
           shorter == IF Cardinality(c) > Cardinality(d) THEN d ELSE c
           Only(t) == [s |-> t, resolvent |-> {}]
           cuts(e) == Cardinality(Seen(r, e)) > size
           unit == CHOOSE lit \in res : TRUE
           assigned == IF eagerly THEN ElimUnit(r, unit) ELSE AssignUnit(r, unit)
           without == WithIrr(r, r.irr \ {d})
           both == SelfSubsume(without, c, pivot)
           left == SelfSubsume(r, c, pivot)
           right == SelfSubsume(r, d, -pivot)
           there == {c, d} \cap r.irr = {c, d}
           clash == \E lit \in res : -lit \in res
           all == resolve_clauses(r, c, d, pivot, eagerly)
<1>1. all = IF ~there THEN Only(r)
            ELSE IF ~Open(r, shorter) THEN Only(Drop(r, {shorter}))
            ELSE IF ~Open(r, c) \/ ~Open(r, d) THEN Only(Drop(r, {c, d} \ {shorter}))
            ELSE IF clash THEN Only(r)
            ELSE IF size = 0 THEN Only(Unsat(r))
            ELSE IF size = 1 THEN Only(assigned)
            ELSE IF cuts(c) /\ cuts(d) THEN Only(both)
            ELSE IF cuts(c) THEN Only(left)
            ELSE IF cuts(d) THEN Only(right)
            ELSE [s |-> r, resolvent |-> {res}]
  BY DEF resolve_clauses, WithIrr
<1>2. \A t \in Databases(V, M) : Only(t) \in Resolved(V, M)
  BY DEF Resolved
<1>3. /\ Only(r) \in Resolved(V, M)
      /\ Only(Drop(r, {shorter})) \in Resolved(V, M)
      /\ Only(Drop(r, {c, d} \ {shorter})) \in Resolved(V, M)
  <2> HIDE DEF shorter, Only
  <2> QED BY <1>2, DropKeeps
<1>4. ASSUME there, ~clash
      PROVE  /\ size = 0 => Only(Unsat(r)) \in Resolved(V, M)
             /\ size = 1 => Only(assigned) \in Resolved(V, M)
             /\ cuts(c) => Only(both) \in Resolved(V, M) /\ Only(left) \in Resolved(V, M)
             /\ cuts(d) => Only(right) \in Resolved(V, M)
             /\ [s |-> r, resolvent |-> {res}] \in Resolved(V, M)
  <2>1. c \in Sound(V, M) /\ d \in Sound(V, M)
    BY <1>4, DatabaseFacts
  <2>2. Seen(r, c) \in Sound(V, M) /\ Seen(r, d) \in Sound(V, M)
    BY <2>1, SeenSound
  <2>3. res \in Proper(V, M) /\ res \in Sound(V, M)
    <3>1. res \in Sound(V, M)
      BY <2>2, ResolventSound DEF Resolvent
    <3> HIDE DEF res
    <3> QED BY <1>4, <3>1 DEF Proper
  <2>4. /\ res \in SUBSET LitsOf(V)
        /\ Seen(r, c) \in SUBSET LitsOf(V) /\ Seen(r, d) \in SUBSET LitsOf(V)
    BY <2>2, <2>3, SoundFacts
  <2>5. /\ IsFiniteSet(res) /\ size \in Nat
        /\ IsFiniteSet(Seen(r, c)) /\ IsFiniteSet(Seen(r, d))
    BY <2>4, ClausesFinite
  <2>6. Seen(r, c) \ {pivot} \subseteq res /\ Seen(r, d) \ {-pivot} \subseteq res
    BY DEF Resolvent
  <2> HIDE DEF res, Only
  <2>7. ASSUME cuts(c) PROVE Seen(r, c) \ {pivot} \in Proper(V, M)
    <3>1. Seen(r, c) \ {pivot} = res
      BY <2>5, <2>6, <2>7, AlmostAll
    <3> QED BY <2>3, <3>1
  <2>8. ASSUME cuts(d) PROVE Seen(r, d) \ {-pivot} \in Proper(V, M)
    <3>1. Seen(r, d) \ {-pivot} = res
      BY <2>5, <2>6, <2>8, AlmostAll
    <3> QED BY <2>3, <3>1
  <2> HIDE DEF cuts
  <2>9. ASSUME size = 0 PROVE Only(Unsat(r)) \in Resolved(V, M)
    <3>1. res = {}
      BY <2>5, <2>9, FS_EmptySet
    <3>2. M = {}
      BY <2>3, <3>1, SoundFacts
    <3> QED BY <1>2, <3>2, UnsatKeeps
  <2>10. ASSUME size = 1 PROVE Only(assigned) \in Resolved(V, M)
    <3>1. PICK x : res = {x}
      BY <2>5, <2>10, FS_Singleton
    <3>2. unit = x
      BY <3>1
    <3>3. unit \in Facts(V, M)
      BY <2>3, <2>4, <3>1, <3>2, SoundFacts
    <3> HIDE DEF unit
    <3>4. ElimUnit(r, unit) \in Databases(V, M) /\ AssignUnit(r, unit) \in Databases(V, M)
      BY <3>3, ElimUnitKeeps, AssignKeeps
    <3> QED BY <1>2, <3>4
  <2>11. ASSUME cuts(c) PROVE Only(both) \in Resolved(V, M) /\ Only(left) \in Resolved(V, M)
    <3>1. without \in Databases(V, M)
      BY DatabaseFacts, ClausesKeep
    <3>2. Seen(without, c) = Seen(r, c)
      BY DEF WithIrr, Databases, Seen
    <3> HIDE DEF without
    <3>3. both \in Databases(V, M) /\ left \in Databases(V, M)
      BY <2>7, <2>11, <3>1, <3>2, SelfSubsumeKeeps
    <3> QED BY <1>2, <3>3
  <2>12. ASSUME cuts(d) PROVE Only(right) \in Resolved(V, M)
    <3>1. right \in Databases(V, M)
      BY <2>8, <2>12, SelfSubsumeKeeps
    <3> QED BY <1>2, <3>1
  <2>13. [s |-> r, resolvent |-> {res}] \in Resolved(V, M)
    BY <2>3 DEF Resolved
  <2> QED BY <2>9, <2>10, <2>11, <2>12, <2>13
<1> HIDE DEF cuts, all, Only, res, size, shorter, both, left, right, assigned, there, clash
<1>5. all \in Resolved(V, M)
  BY <1>1, <1>3, <1>4
<1> QED BY <1>5 DEF all

\* One pair of elim_resolvents_are_bounded and of elim_add_resolvents.
LEMMA PairsKeep ==
  ASSUME NEW V, NEW M, NEW r \in Databases(V, M), NEW j, j.pivot \in Lit, NEW pair
  PROVE  /\ CountPair(r, j, pair).s \in Databases(V, M)
         /\ AddPair(r, j, pair).s \in Databases(V, M)
<1> DEFINE a == resolve_clauses(r, pair[1], pair[2], j.pivot, TRUE)
           b == resolve_clauses(r, pair[1], pair[2], j.pivot, FALSE)
<1>1. a \in Resolved(V, M) /\ b \in Resolved(V, M)
  BY ResolveKeeps
<1>2. CountPair(r, j, pair).s = a.s
  BY DEF CountPair
<1>3. AddPair(r, j, pair).s = WithIrr(b.s, b.s.irr \cup b.resolvent)
  BY DEF AddPair, WithIrr
<1> HIDE DEF a, b
<1>4. b.s \in Databases(V, M) /\ b.s.irr \cup b.resolvent \in SUBSET Proper(V, M)
  BY <1>1, DatabaseFacts DEF Resolved
<1>5. WithIrr(b.s, b.s.irr \cup b.resolvent) \in Databases(V, M)
  BY <1>4, ClausesKeep
<1> QED BY <1>1, <1>2, <1>3, <1>5 DEF Resolved

\* mark_eliminated_clauses_as_garbage keeps the database sound.
LEMMA FinishEliminationKeeps ==
  ASSUME NEW V, NEW M, NEW r \in Databases(V, M), NEW j, j.pivot \in Lit
  PROVE  FinishElimination(r, j) \in Databases(V, M)
<1> DEFINE ps == Occs(r.irr, j.pivot)
           ns == Occs(r.irr, -j.pivot)
           Pushed(cs) == IF j.gates = {} THEN cs ELSE cs \cap j.gates
           entries == Entries({j.pivot}, Pushed(ps)) \o Entries({-j.pivot}, Pushed(ns))
           t == Push(r, entries)
           u == WithIrr(t, t.irr \ (ps \cup ns))
<1>1. Pushed(ps) \in SUBSET Sound(V, M) /\ Pushed(ns) \in SUBSET Sound(V, M)
  BY DatabaseFacts DEF Occs
<1>2. {j.pivot} \in SUBSET Lit /\ {-j.pivot} \in SUBSET Lit
  BY LitFacts
<1>3. /\ Entries({j.pivot}, Pushed(ps)) \in Seq(SoundEntries(V, M))
      /\ Entries({-j.pivot}, Pushed(ns)) \in Seq(SoundEntries(V, M))
  <2> HIDE DEF Pushed
  <2> QED BY <1>1, <1>2, EntriesSound
<1>4. entries \in Seq(SoundEntries(V, M))
  BY <1>3
<1>5. FinishElimination(r, j) \in {u, SetStatus(u, j.pivot, "eliminated")}
  BY DEF FinishElimination, WithIrr
<1> HIDE DEF entries
<1>6. t \in Databases(V, M)
  BY <1>4, PushKeeps
<1> HIDE DEF t
<1>7. u \in Databases(V, M)
  BY <1>6, DatabaseFacts, ClausesKeep
<1> HIDE DEF u
<1>8. SetStatus(u, j.pivot, "eliminated") \in Databases(V, M)
  BY <1>7, SetStatusKeeps DEF Status
<1> QED BY <1>5, <1>7, <1>8

Backwards(V, M) == [s : Databases(V, M), queue : SUBSET Proper(V, M), stop : BOOLEAN]

\* A clause strengthened by one that has all its other literals: it loses the
\* literal that the other one has negated.
LEMMA StrengthenSound ==
  ASSUME NEW V, NEW M, NEW d \in Proper(V, M), NEW lits \in Proper(V, M), NEW x \in Lit,
         x \in d, -x \in lits, lits \ {-x} \subseteq d
  PROVE  d \ {x} \in Proper(V, M)
<1>1. d \ {x} \in SUBSET LitsOf(V)
  BY SoundFacts, ProperFacts
<1>2. x \notin lits
  <2>1. - -x = x
    BY LitFacts
  <2> QED BY <2>1 DEF Proper
<1>3. ASSUME NEW m \in M PROVE \E lit \in d \ {x} : True(m, lit)
  <2>1. PICK y \in d : True(m, y)
    BY DEF Proper, Sound, Holds
  <2>2. PICK z \in lits : True(m, z)
    BY DEF Proper, Sound, Holds
  <2>3. CASE y # x
    BY <2>1, <2>3
  <2>4. CASE y = x
    <3>1. ~True(m, -x)
      BY <2>1, <2>4, TrueNegated
    <3>2. z # -x
      BY <2>2, <3>1
    <3> QED BY <1>2, <2>2, <3>2
  <2> QED BY <2>3, <2>4
<1>4. d \ {x} \in Sound(V, M)
  BY <1>1, <1>3, SoundIf
<1> QED BY <1>4, ProperFacts

\* elim_backward_clause, one clause.
LEMMA BackwardPairKeeps ==
  ASSUME NEW V, NEW M, NEW t \in Backwards(V, M), NEW c \in Proper(V, M), NEW d
  PROVE  BackwardPair(c, t, d) \in Backwards(V, M)
<1> DEFINE r == t.s
           lits == Seen(r, c)
           negated == {lit \in Seen(r, d) : -lit \in lits}
           twice == Cardinality(negated) > 1
           covers == lits \ Negated(negated) \subseteq d
           rest == Seen(r, d) \ negated
           skip == t.stop \/ d \notin r.irr \/ d = c \/ Cardinality(d) < Cardinality(lits)
           unit == CHOOSE lit \in rest : TRUE
           dropped == [t EXCEPT !.s = Drop(r, {d})]
           subsumed == [t EXCEPT !.s = WithIrr(r, r.irr \ {d})]
           assigned == [t EXCEPT !.s = ElimUnit(r, unit), !.stop = TRUE]
           shorter == [t EXCEPT !.s = WithIrr(r, (r.irr \ {d}) \cup {d \ negated}),
                                !.queue = @ \cup {d \ negated}]
           all == BackwardPair(c, t, d)
<1>1. all = IF skip THEN t
            ELSE IF ~Open(r, d) THEN dropped
            ELSE IF twice THEN [t EXCEPT !.stop = TRUE]
            ELSE IF ~covers THEN t
            ELSE IF negated = {} THEN subsumed
            ELSE IF Cardinality(rest) = 1 THEN assigned
            ELSE shorter
  BY DEF BackwardPair, WithIrr
<1>2. r \in Databases(V, M)
  BY DEF Backwards
<1>3. dropped \in Backwards(V, M)
  <2>1. Drop(r, {d}) \in Databases(V, M)
    BY <1>2, DropKeeps
  <2> QED BY <2>1 DEF Backwards
<1>4. subsumed \in Backwards(V, M)
  <2>1. r.irr \ {d} \in SUBSET Proper(V, M)
    BY <1>2, DatabaseFacts
  <2>2. WithIrr(r, r.irr \ {d}) \in Databases(V, M)
    BY <1>2, <2>1, ClausesKeep
  <2> QED BY <2>2 DEF Backwards
<1>5. ASSUME ~skip, ~twice, covers, negated # {}
      PROVE  /\ Cardinality(rest) = 1 => assigned \in Backwards(V, M)
             /\ shorter \in Backwards(V, M)
  <2>1. d \in r.irr /\ d \in Proper(V, M)
    BY <1>2, <1>5, DatabaseFacts
  <2>2. lits \in Proper(V, M) /\ lits \subseteq c
    BY <1>2, SeenSound, ProperFacts
  <2>3. Seen(r, d) \subseteq d /\ Seen(r, d) \in Proper(V, M)
    BY <1>2, <2>1, SeenSound, ProperFacts
  <2>4. Seen(r, d) \in SUBSET LitsOf(V) /\ d \in SUBSET LitsOf(V)
    BY <2>1, <2>3, SoundFacts, ProperFacts
  <2>5. negated \in SUBSET LitsOf(V) /\ rest \in SUBSET LitsOf(V)
    BY <2>4
  <2>6. PICK x : negated = {x}
    <3>1. IsFiniteSet(negated) /\ Cardinality(negated) \in Nat
      BY <2>5, ClausesFinite
    <3>2. Cardinality(negated) # 0
      BY <1>5, <3>1, FS_EmptySet
    <3>3. Cardinality(negated) = 1
      BY <1>5, <3>1, <3>2
    <3> QED BY <3>1, <3>3, FS_Singleton
  <2>7. x \in Seen(r, d) /\ -x \in lits /\ x \in Lit
    BY <2>5, <2>6, LitsOfFacts
  <2>8. Negated(negated) = {-x}
    BY <2>6 DEF Negated
  <2>9. lits \ {-x} \subseteq d
    BY <1>5, <2>8
  <2>10. d \ {x} \in Proper(V, M)
    BY <2>1, <2>2, <2>3, <2>7, <2>9, StrengthenSound
  <2>11. d \ negated \in Proper(V, M)
    BY <2>6, <2>10
  <2>12. shorter \in Backwards(V, M)
    <3>1. (r.irr \ {d}) \cup {d \ negated} \in SUBSET Proper(V, M)
      BY <1>2, <2>11, DatabaseFacts
    <3>2. WithIrr(r, (r.irr \ {d}) \cup {d \ negated}) \in Databases(V, M)
      BY <1>2, <3>1, ClausesKeep
    <3>3. t.queue \cup {d \ negated} \in SUBSET Proper(V, M)
      BY <2>11 DEF Backwards
    <3> QED BY <3>2, <3>3 DEF Backwards
  <2>13. ASSUME Cardinality(rest) = 1 PROVE assigned \in Backwards(V, M)
    <3>1. rest = Unfalsified(r.units, d \ {x})
      BY <2>6 DEF Seen, Unfalsified
    <3>2. rest \in Sound(V, M)
      <4>1. r.units \in SUBSET Facts(V, M)
        BY <1>2, DatabaseFacts
      <4>2. Unfalsified(r.units, d \ {x}) \in Proper(V, M)
        BY <2>10, <4>1, ProperFacts
      <4> QED BY <3>1, <4>2, ProperFacts
    <3>3. PICK y : rest = {y}
      BY <2>5, <2>13, ClausesFinite, FS_Singleton
    <3>4. unit = y
      BY <3>3
    <3>5. unit \in Facts(V, M)
      BY <2>5, <3>2, <3>3, <3>4, SoundFacts
    <3>6. ElimUnit(r, unit) \in Databases(V, M)
      BY <1>2, <3>5, ElimUnitKeeps
    <3> QED BY <3>6 DEF Backwards
  <2> QED BY <2>12, <2>13
<1>6. [t EXCEPT !.stop = TRUE] \in Backwards(V, M)
  BY DEF Backwards
<1> HIDE DEF r, lits, negated, twice, covers, rest, skip, unit, dropped, subsumed, assigned, shorter, all
<1>7. all \in Backwards(V, M)
  BY <1>1, <1>3, <1>4, <1>5, <1>6
<1> QED BY <1>7 DEF all

BackwardAll(r, c, best) ==
  FoldSet(LAMBDA d, t : BackwardPair(c, t, d),
          [s |-> r, queue |-> {}, stop |-> FALSE], Occs(r.irr, best))

\* elim_backward_clause, of all clauses that share a literal with c.
LEMMA BackwardAllKeep ==
  ASSUME NEW V, NEW M, NEW r \in Databases(V, M), NEW c \in Proper(V, M), NEW best
  PROVE  BackwardAll(r, c, best) \in Backwards(V, M)
<1> DEFINE S == Occs(r.irr, best)
           base == [s |-> r, queue |-> {}, stop |-> FALSE]
           A(T) == Backwards(V, M)
           pick(T) == CHOOSE e \in T : TRUE
           Op(a, x) == BackwardPair(c, a, x)
           first == [T \in SUBSET S |-> pick(T)]
           sets == [T \in SUBSET S |-> A(T)]
           step == [x \in S |-> [a \in UNION {A(T) : T \in SUBSET S} |-> Op(a, x)]]
           body(g, T) == IF T = {} THEN base
                         ELSE Op(g[T \ {pick(T)}], pick(T))
           Is(g) == g = [T \in SUBSET S |-> body(g, T)]
<1>1. IsFiniteSet(S)
  <2>1. Occs(r.irr, best) \in SUBSET Sound(V, M)
    BY DatabaseFacts DEF Occs
  <2> QED BY <2>1, ClausesFinite
<1>2. ASSUME NEW T \in SUBSET S, T # {} PROVE pick(T) \in T
  BY <1>2
<1>3. base \in A({})
  BY DEF Backwards
<1>4. ASSUME NEW T \in SUBSET S, NEW x \in T, NEW a \in A(T \ {x}) PROVE Op(a, x) \in A(T)
  BY BackwardPairKeeps
<1>5. BackwardAll(r, c, best) = (CHOOSE g : Is(g))[S]
  BY DEF BackwardAll, FoldSet, MapThenFoldSet
<1> HIDE DEF A, Op, pick, S, base
<1>6. Picks(first, S)
  BY <1>2 DEF Picks
<1>7. ASSUME NEW T \in SUBSET S, T # {}
      PROVE  /\ first[T] = pick(T) /\ pick(T) \in T /\ pick(T) \in S
             /\ T \ {pick(T)} \in SUBSET S
             /\ \A a \in A(T \ {pick(T)}) :
                  step[pick(T)][a] = Op(a, pick(T)) /\ Op(a, pick(T)) \in A(T)
  <2>1. pick(T) \in T
    BY <1>2, <1>7
  <2>2. ASSUME NEW a \in A(T \ {pick(T)}) PROVE Op(a, pick(T)) \in A(T)
    BY <1>4, <2>1
  <2> QED BY <2>1, <2>2
<1>8. base \in sets[{}] /\ \A T \in SUBSET S : sets[T] = A(T)
  BY <1>3
<1>9. PICK g : FoldsIn(g, S, base, first, step, sets)
  <2>1. ASSUME NEW T \in SUBSET S, T # {}, NEW a \in sets[T \ {first[T]}]
        PROVE  step[first[T]][a] \in sets[T]
    <3> HIDE DEF step, first, sets
    <3>1. first[T] = pick(T) /\ T \ {pick(T)} \in SUBSET S
      BY <1>7, <2>1
    <3>2. a \in A(T \ {pick(T)})
      BY <1>8, <2>1, <3>1
    <3> QED BY <1>7, <1>8, <2>1, <3>1, <3>2
  <2> HIDE DEF step, first, sets
  <2>2. StaysIn(S, first, step, sets)
    BY <2>1 DEF StaysIn
  <2>3. base \in sets[{}]
    BY <1>8
  <2> QED BY <1>1, <1>6, <2>2, <2>3, FoldExists
<1>10. ASSUME NEW T \in SUBSET S PROVE g[T] = body(g, T)
  <2>1. CASE T = {}
    BY <1>9, <2>1 DEF Folds, FoldsIn
  <2>2. CASE T # {}
    <3>1. g[T] = step[first[T]][g[T \ {first[T]}]]
      <4> HIDE DEF step, first
      <4> QED BY <1>9, <2>2 DEF Folds, FoldsIn
    <3>2. g[T \ {pick(T)}] \in A(T \ {pick(T)})
      BY <1>7, <1>8, <1>9, <2>2 DEF FoldsIn
    <3> HIDE DEF step, first
    <3> QED BY <1>7, <2>2, <3>1, <3>2
  <2> QED BY <2>1, <2>2
<1>11. Is(g)
  <2>1. g = [T \in SUBSET S |-> g[T]]
    BY <1>9 DEF FoldsIn
  <2> HIDE DEF body
  <2> QED BY <1>10, <2>1
<1>12. Is(CHOOSE h : Is(h))
  <2> HIDE DEF Is
  <2> QED BY <1>11
<1>13. ASSUME NEW h, Is(h) PROVE h[S] \in A(S)
  <2> DEFINE Q == {T \in SUBSET S : h[T] \in A(T)}
  <2>1. \A T \in SUBSET S : h[T] = body(h, T)
    BY <1>13
  <2>2. {} \in Q
    BY <1>3, <2>1
  <2>3. ASSUME NEW T \in SUBSET S, T # {}, T \ {first[T]} \in Q PROVE T \in Q
    <3>1. h[T] = Op(h[T \ {pick(T)}], pick(T))
      BY <2>1, <2>3
    <3>2. h[T \ {pick(T)}] \in A(T \ {pick(T)})
      <4> HIDE DEF first
      <4> QED BY <1>7, <2>3
    <3> HIDE DEF first
    <3> QED BY <1>7, <2>3, <3>1, <3>2
  <2>4. SUBSET S \subseteq Q
    <3> HIDE DEF Q, first
    <3> QED BY <1>1, <1>6, <2>2, <2>3, FoldInduction
  <2> QED BY <2>4
<1>14. BackwardAll(r, c, best) \in A(S)
  <2> HIDE DEF Is
  <2> QED BY <1>5, <1>12, <1>13
<1> QED BY <1>14 DEF A

\* elim_backward_clause: what it removes, strengthens and schedules.
LEMMA BackwardClauseKeeps ==
  ASSUME NEW V, NEW M, NEW r \in Databases(V, M), NEW c \in Proper(V, M), NEW best
  PROVE  BackwardClause(r, c, best) \in Backwards(V, M)
<1>1. CASE ~Open(r, c)
  <2>1. BackwardClause(r, c, best) = [s |-> Drop(r, {c}), queue |-> {}, stop |-> FALSE]
    BY <1>1 DEF BackwardClause
  <2> QED BY <2>1, DropKeeps DEF Backwards
<1>2. CASE Open(r, c)
  <2>1. BackwardClause(r, c, best) = BackwardAll(r, c, best)
    BY <1>2 DEF BackwardClause, BackwardAll
  <2> QED BY <2>1, BackwardAllKeep
<1> QED BY <1>1, <1>2

\* mark_redundant_clauses_with_eliminated_variables_as_garbage.
LEMMA DropEliminatedKeeps ==
  ASSUME NEW V, NEW M, NEW r \in Databases(V, M)
  PROVE  DropEliminated(r) \in Databases(V, M)
<1>1. PICK cs \in SUBSET r.red : DropEliminated(r) = WithRed(r, cs)
  BY DEF DropEliminated, WithRed
<1> QED BY <1>1, DatabaseFacts, ClausesKeep

\* The end of an elimination round.
LEMMA EndElimKeeps ==
  ASSUME NEW V, NEW M, NEW r \in Databases(V, M)
  PROVE  EndElim(r) \in Databases(V, M)
  BY DropEliminatedKeeps, PropagateKeeps DEF EndElim

-----------------------------------------------------------------------------
(* Blocking. *)

\* block_literal moves clauses that hold to the extension stack.
LEMMA BlockLiteralKeeps ==
  ASSUME NEW V, NEW M, NEW r \in Databases(V, M), NEW lit \in Lit
  PROVE  block_literal(r, lit) \in Databases(V, M)
<1>1. {lit} \in SUBSET Lit
  OBVIOUS
<1>2. \A cs \in SUBSET r.irr : Weaken(r, {lit}, cs) \in Databases(V, M)
  BY <1>1, DatabaseFacts, WeakenKeeps
<1>3. BlockPure(r, lit) \in Databases(V, M)
  <2>1. Occs(r.irr, lit) \in SUBSET r.irr
    BY DEF Occs
  <2> QED BY <1>2, <2>1, SetStatusKeeps DEF BlockPure, Status
<1>4. BlockOne(r, lit) \in Databases(V, M)
  <2>1. PICK cs \in SUBSET r.irr : BlockOne(r, lit) = Weaken(r, {lit}, cs)
    BY DEF BlockOne, Occs
  <2> QED BY <1>2, <2>1
<1>5. BlockMany(r, lit) \in Databases(V, M)
  <2> DEFINE cs == {c \in block_candidates(r, lit) : is_blocked_clause(r, c, lit)}
  <2>1. BlockMany(r, lit) = r \/ BlockMany(r, lit) = Weaken(r, {lit}, cs)
    BY DEF BlockMany
  <2>2. cs \in SUBSET r.irr
    BY DEF block_candidates, Occs
  <2> HIDE DEF cs
  <2> QED BY <1>2, <2>1, <2>2
<1>6. block_literal(r, lit) \in {BlockPure(r, lit), BlockOne(r, lit), BlockMany(r, lit)}
  BY DEF block_literal
<1> QED BY <1>3, <1>4, <1>5, <1>6

\* mark_satisfied_clauses_as_garbage.
LEMMA DropSatisfiedKeeps ==
  ASSUME NEW V, NEW M, NEW r \in Databases(V, M)
  PROVE  DropSatisfied(r) \in Databases(V, M)
  BY DropKeeps DEF DropSatisfied

\* condition moves a clause that holds to the extension stack.
LEMMA ConditionKeeps ==
  ASSUME NEW V, NEW M, NEW r \in Databases(V, M), NEW lits \in SUBSET Lit, NEW c \in r.irr
  PROVE  Condition(r, lits, c) \in Databases(V, M)
<1> DEFINE open == {d \in r.irr : ~SatisfiedBy(r.units, d)}
           autarky == Autarky(open, lits, c)
<1>1. autarky \in SUBSET Lit
  BY DEF Autarky
<1>2. Condition(r, lits, c) \in {r, Weaken(r, autarky, {c})}
  BY DEF Condition
<1>3. {c} \in SUBSET Sound(V, M)
  BY DatabaseFacts
<1> HIDE DEF autarky
<1> QED BY <1>1, <1>2, <1>3, WeakenKeeps

-----------------------------------------------------------------------------
(* Covered clauses. *)

\* A record with these fields.
Has(j, fields) == fields \subseteq DOMAIN j

CoverGood(j, V, M) ==
  /\ Has(j, {"name", "phase", "clause", "added", "covered", "entries"})
  /\ j.name = "cover" /\ j.phase \in {"extend", "covered"}
  /\ j.clause \in Sound(V, M) /\ j.covered \in SUBSET LitsOf(V)
  /\ j.entries \in Seq(SoundEntries(V, M))

\* cover_clause starts from a clause that holds.
LEMMA CoverJobGood ==
  ASSUME NEW V, NEW M, NEW r \in Databases(V, M), NEW c \in r.irr
  PROVE  CoverGood(CoverJob(r, c), V, M)
<1>1. c \in Sound(V, M) /\ Unfalsified(r.units, c) \in SUBSET LitsOf(V)
  BY DatabaseFacts, SoundFacts DEF Unfalsified
<1>2. <<>> \in Seq(SoundEntries(V, M))
  OBVIOUS
<1> QED BY <1>1, <1>2 DEF CoverGood, CoverJob, Has

\* asymmetric_literal_addition adds to the extended clause, which thereby goes
\* on to hold.
LEMMA AsymmetricGood ==
  ASSUME NEW V, NEW M, NEW r, NEW j, CoverGood(j, V, M), NEW phase \in {"extend", "covered"}
  PROVE  CoverGood([AsymmetricAddition(r, j) EXCEPT !.phase = phase], V, M)
<1>1. PICK x : AsymmetricAddition(r, j) = [j EXCEPT !.added = x]
  BY DEF AsymmetricAddition
<1> QED BY <1>1 DEF CoverGood, Has

\* The entries of covered_literal_addition have clauses that hold, supersets of
\* the clause to be covered.
LEMMA CoverEntrySound ==
  ASSUME NEW V, NEW M, NEW r, NEW j, CoverGood(j, V, M), NEW lit \in Lit
  PROVE  Append(j.entries, CoverEntry(r, j, lit)) \in Seq(SoundEntries(V, M))
<1>1. j.covered \cup j.clause \in SUBSET LitsOf(V)
  BY SoundFacts DEF CoverGood
<1>2. j.covered \cup j.clause \in Sound(V, M)
  BY <1>1, SoundFacts DEF CoverGood
<1>3. CoverEntry(r, j, lit) \in SoundEntries(V, M)
  BY <1>2 DEF CoverEntry, Entry, SoundEntries
<1> QED BY <1>3 DEF CoverGood

\* covered_literal_addition adds to the extended clause and pushes an entry
\* with it.
LEMMA CoveredGood ==
  ASSUME NEW V, NEW M, NEW r \in Databases(V, M), NEW j, CoverGood(j, V, M), NEW lit \in Lit,
         Candidates(r, j, lit) # {}, NEW phase \in {"extend", "covered"}
  PROVE  CoverGood([CoveredAddition(r, j, lit) EXCEPT !.phase = phase], V, M)
<1> DEFINE shared == Intersection(r, j, lit)
           entries == Append(j.entries, CoverEntry(r, j, lit))
<1>1. shared \in SUBSET LitsOf(V)
  <2>1. PICK d \in Candidates(r, j, lit) : TRUE
    OBVIOUS
  <2>2. d \in SUBSET LitsOf(V)
    BY <2>1, DatabaseFacts, SoundFacts DEF Candidates, Occs
  <2> QED BY <2>1, <2>2 DEF Intersection
<1>2. entries \in Seq(SoundEntries(V, M))
  BY CoverEntrySound
<1>3. CoveredAddition(r, j, lit) =
        [j EXCEPT !.added = @ \cup shared, !.covered = @ \cup shared, !.entries = entries]
  BY DEF CoveredAddition
<1> HIDE DEF shared, entries
<1> QED BY <1>1, <1>2, <1>3 DEF CoverGood, Has

\* The end of cover_clause: the entries are pushed and the clause goes.
LEMMA RemoveCoveredKeeps ==
  ASSUME NEW V, NEW M, NEW r \in Databases(V, M), NEW c, NEW entries \in Seq(SoundEntries(V, M))
  PROVE  RemoveCovered(r, c, entries) \in Databases(V, M)
  BY PushKeeps, DropKeeps DEF RemoveCovered

-----------------------------------------------------------------------------
(* Subsumption. *)

\* subsume_clause, which makes a subsuming redundant clause irredundant when
\* the subsumed one is.
LEMMA SubsumeClauseKeeps ==
  ASSUME NEW V, NEW M, NEW r \in Databases(V, M), NEW d \in Clauses(r), NEW c, NEW k \in Kinds
  PROVE  subsume_clause(r, d, c, k) \in Databases(V, M)
<1>1. Promote(r, d) \in Databases(V, M)
  BY DatabaseFacts, PromoteKeeps
<1> QED BY <1>1, DropKeeps DEF subsume_clause

\* Self-subsuming resolution: a clause without the literal in which another
\* differs from it holds.
LEMMA StrengthenedSound ==
  ASSUME NEW V, NEW M, NEW c \in Proper(V, M), NEW d \in Proper(V, M), Strengthens(d, c)
  PROVE  c \ Negated(Flipped(d, c)) \in Proper(V, M)
<1>1. c \in SUBSET LitsOf(V) /\ d \in SUBSET LitsOf(V)
  BY SoundFacts, ProperFacts
<1>2. Flipped(d, c) \in SUBSET LitsOf(V)
  BY <1>1 DEF Flipped
<1>3. PICK y : Flipped(d, c) = {y}
  BY <1>2, ClausesFinite, FS_Singleton DEF Strengthens
<1>4. y \in d /\ -y \in c /\ y \in Lit /\ -y \in Lit /\ - -y = y
  BY <1>2, <1>3, LitsOfFacts, LitFacts DEF Flipped
<1>5. Negated(Flipped(d, c)) = {-y}
  BY <1>3 DEF Negated
<1>6. d \ {y} \subseteq c
  BY <1>3 DEF Strengthens
<1>7. c \ {-y} \in Proper(V, M)
  BY <1>4, <1>6, StrengthenSound
<1> QED BY <1>5, <1>7

\* try_to_subsume_clause, whatever it does with the clause.
LEMMA SubsumeKeeps ==
  ASSUME NEW V, NEW M, NEW r \in Databases(V, M), NEW k \in Kinds, NEW c \in r[k],
         NEW t \in try_to_subsume_clause(r, c, k)
  PROVE  t \in Databases(V, M)
<1>1. c \in Proper(V, M)
  BY DatabaseFacts
<1>2. CASE \E d \in Clauses(r) : t = subsume_clause(r, d, c, k)
  BY <1>2, SubsumeClauseKeeps
<1>3. CASE \E d \in Clauses(r) : Strengthens(d, c) /\ t = Replace(r, c, c \ Negated(Flipped(d, c)), k)
  <2>1. PICK d \in Clauses(r) : Strengthens(d, c) /\ t = Replace(r, c, c \ Negated(Flipped(d, c)), k)
    BY <1>3
  <2>2. d \in Proper(V, M)
    BY <2>1, DatabaseFacts
  <2>3. c \ Negated(Flipped(d, c)) \in Proper(V, M)
    BY <1>1, <2>1, <2>2, StrengthenedSound
  <2> QED BY <2>1, <2>3, ReplaceKeeps
<1> QED BY <1>2, <1>3 DEF try_to_subsume_clause, Subsuming

\* What a literal implies through binary clauses is true with it.
ImpliedBy(V, M, lit) ==
  {other \in Lit : other = lit \/ (other \in LitsOf(V) /\ \A m \in M : True(m, lit) => True(m, other))}

\* Literals reached along binary clauses that hold are implied.
LEMMA ImpliedSound ==
  ASSUME NEW V, NEW M, NEW cs \in SUBSET Sound(V, M), NEW lit \in Lit
  PROVE  Implied(cs, lit) \in {x \in SUBSET ImpliedBy(V, M, lit) : lit \in x}
<1> DEFINE S == {x \in SUBSET ImpliedBy(V, M, lit) : lit \in x}
           n == 2 * MaxVar
           next(known) ==
             known \cup {other \in Lit : \E l \in known : {-l, other} \in cs}
           step == [i \in 1..n |-> [known \in S |-> next(known)]]
           body(f, i) == IF i = 0 THEN {lit} ELSE next(f[i - 1])
           Walks(f) == f = [i \in 0..n |-> body(f, i)]
<1>1. n \in Nat
  BY MaxVarAssumption
<1>2. {lit} \in S
  BY DEF ImpliedBy
<1>3. ASSUME NEW known \in S PROVE next(known) \in S
  <2>1. ASSUME NEW other \in Lit, NEW l \in known, {-l, other} \in cs
        PROVE  other \in ImpliedBy(V, M, lit)
    <3>1. {-l, other} \in Sound(V, M)
      BY <2>1
    <3>2. other \in LitsOf(V)
      BY <3>1, SoundFacts
    <3>3. l \in Lit /\ \A m \in M : True(m, lit) => True(m, l)
      BY DEF ImpliedBy
    <3>4. ASSUME NEW m \in M, True(m, lit) PROVE True(m, other)
      <4>1. True(m, -l) \/ True(m, other)
        BY <3>1 DEF Sound, Holds
      <4> QED BY <3>3, <3>4, <4>1, TrueNegated
    <3> QED BY <3>2, <3>4 DEF ImpliedBy
  <2>2. known \in SUBSET ImpliedBy(V, M, lit) /\ lit \in known
    OBVIOUS
  <2> QED BY <2>1, <2>2
<1>4. step \in [1..n -> [S -> S]]
  <2> HIDE DEF next
  <2> QED BY <1>3
<1>5. \E g : Steps(g, n, S, {lit}, step)
  <2> HIDE DEF step, n, S
  <2> QED BY <1>1, <1>2, <1>4, Recursion
<1>6. PICK g \in [0..n -> S] :
        g[0] = {lit} /\ \A i \in 1..n : g[i] = step[i][g[i - 1]]
  <2> HIDE DEF step, n, S
  <2> QED BY <1>5 DEF Steps
<1>7. ASSUME NEW i \in 0..n PROVE g[i] = body(g, i)
  <2>1. CASE i = 0
    BY <1>6, <2>1
  <2>2. CASE i \in 1..n
    <3>1. g[i - 1] \in S /\ i # 0
      BY <1>1, <2>2
    <3> HIDE DEF next, S
    <3> QED BY <1>6, <2>2, <3>1
  <2>3. i = 0 \/ i \in 1..n
    BY <1>1
  <2> HIDE DEF body
  <2> QED BY <2>1, <2>2, <2>3
<1>8. Walks(g)
  <2> HIDE DEF body
  <2> QED BY <1>7
<1>9. Walks(CHOOSE f : Walks(f))
  <2> HIDE DEF Walks
  <2> QED BY <1>8
<1>10. Implied(cs, lit) = (CHOOSE f : Walks(f))[n]
  BY DEF Implied
<1>11. ASSUME NEW f, Walks(f) PROVE f[n] \in S
  <2>1. f[0] \in S
    <3> HIDE DEF next, S
    <3> QED BY <1>1, <1>2, <1>11
  <2>2. ASSUME NEW i \in 1..n, f[i - 1] \in S PROVE f[i] \in S
    <3>1. i \in 0..n /\ i # 0
      BY <1>1
    <3>2. f[i] = body(f, i)
      BY <1>11, <3>1
    <3>3. f[i] = next(f[i - 1])
      BY <3>1, <3>2
    <3> HIDE DEF next, S, Walks
    <3> QED BY <1>3, <2>2, <3>3
  <2> HIDE DEF Walks, n, S
  <2>3. \A i \in 0..n : f[i] \in S
    BY <1>1, <2>1, <2>2, Typed
  <2> QED BY <1>1, <2>3
<1> HIDE DEF Walks
<1> QED BY <1>9, <1>10, <1>11

\* The binary ones of clauses that hold.
LEMMA BinariesSound ==
  ASSUME NEW V, NEW M, NEW cs \in SUBSET Sound(V, M)
  PROVE  BinaryClauses(cs) \in SUBSET Sound(V, M)
  BY DEF BinaryClauses

\* A literal that implies another one and its negation is false.
LEMMA FailedSound ==
  ASSUME NEW V, NEW M, NEW cs \in SUBSET Sound(V, M), NEW lit \in LitsOf(V),
         NEW other \in Implied(cs, lit), -other \in Implied(cs, lit)
  PROVE  -lit \in Facts(V, M)
<1>1. lit \in Lit /\ -lit \in LitsOf(V)
  BY LitsOfFacts
<1>2. Implied(cs, lit) \in SUBSET ImpliedBy(V, M, lit)
  BY <1>1, ImpliedSound
<1>3. other \in Lit /\ \A m \in M : True(m, lit) => True(m, other) /\ True(m, -other)
  BY <1>2 DEF ImpliedBy
<1> QED BY <1>1, <1>3, TrueNegated DEF Facts

\* transred: a literal that implies its own negation fails.
LEMMA FailedSourcesSound ==
  ASSUME NEW V, NEW M, NEW r \in Databases(V, M), NEW k \in Kinds, NEW c \in r[k]
  PROVE  FailedSources(r, c, k) \subseteq Facts(V, M)
<1> DEFINE graph == BinaryClauses(Others(r, c, k))
<1>1. Others(r, c, k) \in SUBSET Sound(V, M)
  BY DatabaseFacts DEF Others
<1>2. graph \in SUBSET Sound(V, M)
  BY <1>1, BinariesSound
<1>3. ASSUME NEW lit \in FailedSources(r, c, k) PROVE lit \in Facts(V, M)
  <2>1. lit \in LitsOf(V)
    BY DatabaseFacts, SoundFacts DEF FailedSources
  <2>2. -lit \in LitsOf(V) /\ - -lit = lit
    BY <2>1, LitsOfFacts
  <2>3. PICK other \in Implied(graph, -lit) : -other \in Implied(graph, -lit)
    BY DEF FailedSources
  <2> HIDE DEF graph
  <2> QED BY <1>2, <2>2, <2>3, FailedSound
<1> QED BY <1>3

\* Two binary clauses that differ in one literal derive a unit.
LEMMA HyperUnarySound ==
  ASSUME NEW V, NEW M, NEW r \in Databases(V, M)
  PROVE  HyperUnary(r) \in SUBSET Facts(V, M)
<1>1. ASSUME NEW lit \in HyperUnary(r) PROVE lit \in Facts(V, M)
  <2>1. PICK other \in Lit : {{lit, other}, {lit, -other}} \subseteq Clauses(r)
    BY DEF HyperUnary
  <2>2. {lit, other} \in Sound(V, M) /\ {lit, -other} \in Sound(V, M)
    BY <2>1, DatabaseFacts
  <2>3. lit \in LitsOf(V) /\ other \in LitsOf(V)
    BY <2>2, SoundFacts
  <2> QED BY <2>2, <2>3, ClashSound
<1> QED BY <1>1

\* mark_duplicated_binary_clauses_as_garbage, one list at a time.
LEMMA DuplicateBinaryKeeps ==
  ASSUME NEW V, NEW M, NEW r \in Databases(V, M)
  PROVE  DuplicateBinary(r) \in Databases(V, M)
<1>1. DuplicateBinary(r) = WithRed(r, r.red \ BinaryClauses(r.irr))
  BY DEF DuplicateBinary, WithRed
<1> QED BY <1>1, DatabaseFacts, ClausesKeep

\* mark_duplicated_binary_clauses_as_garbage and deduplicate_all_clauses.
LEMMA DeduplicateKeeps ==
  ASSUME NEW V, NEW M, NEW r \in Databases(V, M)
  PROVE  /\ mark_duplicated_binary_clauses_as_garbage(r) \in Databases(V, M)
         /\ DeduplicateAll(r) \in Databases(V, M)
<1>1. mark_duplicated_binary_clauses_as_garbage(r)
        = Propagate(MoreUnits(DuplicateBinary(r), HyperUnary(r)))
  BY DEF mark_duplicated_binary_clauses_as_garbage, MoreUnits
<1>2. MoreUnits(DuplicateBinary(r), HyperUnary(r)) \in Databases(V, M)
  BY HyperUnarySound, DuplicateBinaryKeeps, UnitsKeep
<1>3. Propagate(MoreUnits(DuplicateBinary(r), HyperUnary(r))) \in Databases(V, M)
  BY <1>2, PropagateKeeps
<1>4. DeduplicateAll(r) = WithRed(Collect(r), Collect(r).red \ Collect(r).irr)
  BY DEF DeduplicateAll, WithRed
<1>5. Collect(r) \in Databases(V, M)
  BY CollectKeeps
<1>6. WithRed(Collect(r), Collect(r).red \ Collect(r).irr) \in Databases(V, M)
  BY <1>5, DatabaseFacts, ClausesKeep
<1> QED BY <1>1, <1>3, <1>4, <1>6

\* hyper_ternary_resolve derives a resolvent of two clauses that hold.
LEMMA TernaryKeeps ==
  ASSUME NEW V, NEW M, NEW r \in Databases(V, M), NEW ck \in Kinds, NEW dk \in Kinds,
         NEW pivot \in Lit, NEW c \in r[ck], NEW d \in r[dk],
         NEW res \in hyper_ternary_resolve(r, c, pivot, d)
  PROVE  TernaryResolve(r, c, ck, d, dk, res) \in Databases(V, M)
<1>1. c \in Sound(V, M) /\ d \in Sound(V, M)
  BY DatabaseFacts
<1>2. res = (c \ {pivot}) \cup (d \ {-pivot}) /\ \A lit \in res : -lit \notin res
  BY DEF hyper_ternary_resolve
<1>3. res \in Proper(V, M)
  BY <1>1, <1>2, ResolventSound DEF Proper
<1>4. \A k \in Kinds, t \in Databases(V, M) : Derive(t, res, k) \in Databases(V, M)
  BY <1>3, DeriveKeeps
<1>5. MarkGarbage(MarkGarbage(r, c, ck), d, dk) \in Databases(V, M)
  BY DropKeeps
<1>6. \E k \in Kinds : TernaryResolve(r, c, ck, d, dk, res) \in
         {Derive(r, res, k), Derive(MarkGarbage(MarkGarbage(r, c, ck), d, dk), res, k)}
  BY DEF TernaryResolve, Kinds
<1> QED BY <1>4, <1>5, <1>6

-----------------------------------------------------------------------------
(* Equivalent literals. *)

\* Literals that are equal, or over V and equivalent in all assignments of M.
Same(a, b, V, M) ==
  a = b \/ (a \in LitsOf(V) /\ b \in LitsOf(V) /\ \A m \in M : True(m, a) <=> True(m, b))

\* Functions that map each literal to an equivalent one.
Reprs(V, M) == {f \in [Lit -> Lit] : \A lit \in Lit : Same(lit, f[lit], V, M)}

\* The literals of a strongly connected component have the same value in all
\* assignments of M.
LEMMA ComponentSound ==
  ASSUME NEW V, NEW M, NEW r \in Databases(V, M), NEW lit \in Lit
  PROVE  /\ lit \in Component(r, lit) /\ Component(r, lit) \subseteq Lit
         /\ \A other \in Component(r, lit) : Same(lit, other, V, M)
<1> DEFINE graph == ActiveBinaries(r)
<1>1. graph \in SUBSET Sound(V, M)
  BY DatabaseFacts DEF ActiveBinaries, BinaryClauses
<1> HIDE DEF graph
<1>2. \A a \in Lit : Implied(graph, a) \in SUBSET ImpliedBy(V, M, a) /\ a \in Implied(graph, a)
  <2>1. ASSUME NEW a \in Lit
        PROVE  Implied(graph, a) \in {x \in SUBSET ImpliedBy(V, M, a) : a \in x}
    BY <1>1, ImpliedSound
  <2> QED BY <2>1
<1>3. ASSUME NEW other \in Component(r, lit) PROVE other \in Lit /\ Same(lit, other, V, M)
  <2>1. other \in Implied(graph, lit) /\ lit \in Implied(graph, other)
    BY DEF Component, graph
  <2>2. other \in ImpliedBy(V, M, lit) /\ other \in Lit
    BY <1>2, <2>1 DEF ImpliedBy
  <2>3. lit \in ImpliedBy(V, M, other)
    BY <1>2, <2>1, <2>2
  <2> QED BY <2>2, <2>3 DEF ImpliedBy, Same
<1>4. lit \in Component(r, lit)
  BY <1>2 DEF Component, graph
<1> QED BY <1>3, <1>4

\* A component with a literal and its negation leaves no assignment.
LEMMA ContradictorySound ==
  ASSUME NEW V, NEW M, NEW r \in Databases(V, M), Contradictory(r)
  PROVE  M = {}
<1>1. PICK v \in Var : -v \in Component(r, v)
  BY DEF Contradictory, Actives
<1>2. v \in Lit /\ -v \in Lit /\ v # -v
  BY VarFacts
<1>3. Same(v, -v, V, M)
  BY <1>1, <1>2, ComponentSound
<1>4. \A m \in M : True(m, v) <=> True(m, -v)
  BY <1>2, <1>3 DEF Same
<1> QED BY <1>2, <1>4, TrueNegated

\* decompose_round replaces a literal by one of the same value.
LEMMA RepresentativeSound ==
  ASSUME NEW V, NEW M, NEW r \in Databases(V, M), NEW frozen, NEW lit \in Lit
  PROVE  Representative(r, frozen, lit) \in Lit /\ Same(lit, Representative(r, frozen, lit), V, M)
<1> DEFINE scc == Component(r, lit)
           nums == {VarOf(other) : other \in scc}
           repr == CHOOSE x \in scc : \A other \in scc : VarOf(x) <= VarOf(other)
<1>1. lit \in scc /\ scc \subseteq Lit /\ \A other \in scc : Same(lit, other, V, M)
  BY ComponentSound
<1> HIDE DEF scc
<1>2. nums \subseteq Nat /\ nums # {}
  BY <1>1, LitFacts
<1>3. PICK n \in nums : \A k \in nums : n <= k
  <2> HIDE DEF nums
  <2> QED BY <1>2, LeastNumber
<1>4. PICK x \in scc : \A other \in scc : VarOf(x) <= VarOf(other)
  BY <1>3
<1>5. repr \in scc
  BY <1>4
<1>6. Representative(r, frozen, lit) = lit \/ Representative(r, frozen, lit) = repr
  BY DEF Representative, scc
<1> HIDE DEF repr
<1> QED BY <1>1, <1>5, <1>6 DEF Same

\* Two literals of the same value make two binary clauses hold.
LEMMA BothSound ==
  ASSUME NEW V, NEW M, NEW a \in Lit, NEW b \in Lit, Same(a, b, V, M), a # b
  PROVE  {-a, b} \in Sound(V, M) /\ {a, -b} \in Sound(V, M)
<1>1. {-a, b} \in SUBSET LitsOf(V) /\ {a, -b} \in SUBSET LitsOf(V)
  BY LitsOfFacts DEF Same
<1>2. ASSUME NEW m \in M
      PROVE (\E lit \in {-a, b} : True(m, lit)) /\ (\E lit \in {a, -b} : True(m, lit))
  <2>1. True(m, a) <=> True(m, b)
    BY DEF Same
  <2> QED BY <2>1, TrueNegated
<1> QED BY <1>1, <1>2, SoundIf

BothEntries(reprs, v) ==
  IF reprs[v] = v THEN <<>>
  ELSE << Entry({-v}, {-v, reprs[v]}), Entry({v}, {v, -reprs[v]}) >>

\* The two entries pushed for a substituted variable hold.
LEMMA BothEntriesSound ==
  ASSUME NEW V, NEW M, NEW reprs \in Reprs(V, M), NEW v \in Var
  PROVE  BothEntries(reprs, v) \in Seq(SoundEntries(V, M))
<1>1. v \in Lit /\ -v \in Lit /\ reprs[v] \in Lit /\ Same(v, reprs[v], V, M)
  BY VarFacts DEF Reprs
<1>2. CASE reprs[v] = v
  BY <1>2 DEF BothEntries
<1>3. CASE reprs[v] # v
  <2>1. {-v, reprs[v]} \in Sound(V, M) /\ {v, -reprs[v]} \in Sound(V, M)
    BY <1>1, <1>3, BothSound
  <2>2. /\ Entry({-v}, {-v, reprs[v]}) \in SoundEntries(V, M)
        /\ Entry({v}, {v, -reprs[v]}) \in SoundEntries(V, M)
    BY <1>1, <2>1 DEF Entry, SoundEntries
  <2> QED BY <1>3, <2>2 DEF BothEntries
<1> QED BY <1>2, <1>3

\* All entries that decompose_round pushes hold.
LEMMA EquivalenceEntriesSound ==
  ASSUME NEW V, NEW M, NEW r, NEW reprs \in Reprs(V, M)
  PROVE  EquivalenceEntries(r, reprs) \in Seq(SoundEntries(V, M))
<1> DEFINE S == DOMAIN [v \in 1..MaxVar |-> v]
           base == <<>>
           A(T) == Seq(SoundEntries(V, M))
           pick(T) == Max(T)
           Op(a, x) == a \o BothEntries(reprs, [v \in 1..MaxVar |-> v][x])
           first == [T \in SUBSET S |-> pick(T)]
           sets == [T \in SUBSET S |-> A(T)]
           step == [x \in S |-> [a \in UNION {A(T) : T \in SUBSET S} |-> Op(a, x)]]
           body(g, T) == IF T = {} THEN base
                         ELSE Op(g[T \ {pick(T)}], pick(T))
           Is(g) == g = [T \in SUBSET S |-> body(g, T)]
<1>1. IsFiniteSet(S)
  <2>1. MaxVar \in Nat
    BY MaxVarAssumption
  <2>2. DOMAIN [v \in 1..MaxVar |-> v] = 1..MaxVar
    OBVIOUS
  <2> QED BY <2>1, <2>2, FS_Interval
<1>2. ASSUME NEW T \in SUBSET S, T # {} PROVE pick(T) \in T
  <2>1. T \subseteq 0..MaxVar /\ MaxVar \in Nat
    BY MaxVarAssumption
  <2> QED BY <1>2, <2>1, MaxOfBounded
<1>3. base \in A({})
  OBVIOUS
<1>4. ASSUME NEW T \in SUBSET S, NEW x \in T, NEW a \in A(T \ {x}) PROVE Op(a, x) \in A(T)
  <2>1. [v \in 1..MaxVar |-> v][x] \in Var
    BY DEF Var
  <2>2. BothEntries(reprs, [v \in 1..MaxVar |-> v][x]) \in Seq(SoundEntries(V, M))
    BY <2>1, BothEntriesSound
  <2>3. a \in Seq(SoundEntries(V, M))
    OBVIOUS
  <2> QED BY <2>2, <2>3
<1>5. EquivalenceEntries(r, reprs) = (CHOOSE g : Is(g))[S]
  BY DEF EquivalenceEntries, FoldLeft, MapThenFoldSet, BothEntries
<1> HIDE DEF A, Op, pick, S, base
<1>6. Picks(first, S)
  BY <1>2 DEF Picks
<1>7. ASSUME NEW T \in SUBSET S, T # {}
      PROVE  /\ first[T] = pick(T) /\ pick(T) \in T /\ pick(T) \in S
             /\ T \ {pick(T)} \in SUBSET S
             /\ \A a \in A(T \ {pick(T)}) :
                  step[pick(T)][a] = Op(a, pick(T)) /\ Op(a, pick(T)) \in A(T)
  <2>1. pick(T) \in T
    BY <1>2, <1>7
  <2>2. ASSUME NEW a \in A(T \ {pick(T)}) PROVE Op(a, pick(T)) \in A(T)
    BY <1>4, <2>1
  <2> QED BY <2>1, <2>2
<1>8. base \in sets[{}] /\ \A T \in SUBSET S : sets[T] = A(T)
  BY <1>3
<1>9. PICK g : FoldsIn(g, S, base, first, step, sets)
  <2>1. ASSUME NEW T \in SUBSET S, T # {}, NEW a \in sets[T \ {first[T]}]
        PROVE  step[first[T]][a] \in sets[T]
    <3> HIDE DEF step, first, sets
    <3>1. first[T] = pick(T) /\ T \ {pick(T)} \in SUBSET S
      BY <1>7, <2>1
    <3>2. a \in A(T \ {pick(T)})
      BY <1>8, <2>1, <3>1
    <3> QED BY <1>7, <1>8, <2>1, <3>1, <3>2
  <2> HIDE DEF step, first, sets
  <2>2. StaysIn(S, first, step, sets)
    BY <2>1 DEF StaysIn
  <2>3. base \in sets[{}]
    BY <1>8
  <2> QED BY <1>1, <1>6, <2>2, <2>3, FoldExists
<1>10. ASSUME NEW T \in SUBSET S PROVE g[T] = body(g, T)
  <2>1. CASE T = {}
    BY <1>9, <2>1 DEF Folds, FoldsIn
  <2>2. CASE T # {}
    <3>1. g[T] = step[first[T]][g[T \ {first[T]}]]
      <4> HIDE DEF step, first
      <4> QED BY <1>9, <2>2 DEF Folds, FoldsIn
    <3>2. g[T \ {pick(T)}] \in A(T \ {pick(T)})
      BY <1>7, <1>8, <1>9, <2>2 DEF FoldsIn
    <3> HIDE DEF step, first
    <3> QED BY <1>7, <2>2, <3>1, <3>2
  <2> QED BY <2>1, <2>2
<1>11. Is(g)
  <2>1. g = [T \in SUBSET S |-> g[T]]
    BY <1>9 DEF FoldsIn
  <2> HIDE DEF body
  <2> QED BY <1>10, <2>1
<1>12. Is(CHOOSE h : Is(h))
  <2> HIDE DEF Is
  <2> QED BY <1>11
<1>13. ASSUME NEW h, Is(h) PROVE h[S] \in A(S)
  <2> DEFINE Q == {T \in SUBSET S : h[T] \in A(T)}
  <2>1. \A T \in SUBSET S : h[T] = body(h, T)
    BY <1>13
  <2>2. {} \in Q
    BY <1>3, <2>1
  <2>3. ASSUME NEW T \in SUBSET S, T # {}, T \ {first[T]} \in Q PROVE T \in Q
    <3>1. h[T] = Op(h[T \ {pick(T)}], pick(T))
      BY <2>1, <2>3
    <3>2. h[T \ {pick(T)}] \in A(T \ {pick(T)})
      <4> HIDE DEF first
      <4> QED BY <1>7, <2>3
    <3> HIDE DEF first
    <3> QED BY <1>7, <2>3, <3>1, <3>2
  <2>4. SUBSET S \subseteq Q
    <3> HIDE DEF Q, first
    <3> QED BY <1>1, <1>6, <2>2, <2>3, FoldInduction
  <2> QED BY <2>4
<1>14. EquivalenceEntries(r, reprs) \in A(S)
  <2> HIDE DEF Is
  <2> QED BY <1>5, <1>12, <1>13
<1> QED BY <1>14 DEF A

\* A clause with its literals replaced by equivalent ones.
LEMMA ReplacedSound ==
  ASSUME NEW V, NEW M, NEW reprs \in Reprs(V, M), NEW c \in Sound(V, M)
  PROVE  {reprs[lit] : lit \in c} \in Sound(V, M)
<1> DEFINE d == {reprs[lit] : lit \in c}
<1>1. c \subseteq LitsOf(V) /\ c \subseteq Lit
  BY SoundFacts, LitsOfFacts
<1>2. \A lit \in c : Same(lit, reprs[lit], V, M)
  BY <1>1 DEF Reprs
<1>3. d \in SUBSET LitsOf(V)
  BY <1>1, <1>2 DEF Same
<1>4. ASSUME NEW m \in M PROVE \E lit \in d : True(m, lit)
  <2>1. PICK x \in c : True(m, x)
    BY DEF Sound, Holds
  <2>2. True(m, reprs[x])
    BY <1>2, <2>1 DEF Same
  <2> QED BY <2>2
<1> HIDE DEF d
<1>5. d \in Sound(V, M)
  BY <1>3, <1>4, SoundIf
<1> QED BY <1>5 DEF d

\* A clause with its literals replaced by their representatives holds.
LEMMA SubstituteKeeps ==
  ASSUME NEW V, NEW M, NEW r \in Databases(V, M), NEW reprs \in Reprs(V, M),
         NEW c \in Sound(V, M), NEW k \in Kinds
  PROVE  Substitute(r, reprs, c, k) \in Databases(V, M)
<1> DEFINE open == Unfalsified(r.units, c)
           moved == {reprs[lit] : lit \in open}
           rest == moved \ Negated(r.units)
           satisfied == \/ SatisfiedBy(r.units, c \cup rest)
                        \/ \E lit \in rest : -lit \in rest
<1>1. Substitute(r, reprs, c, k) =
        IF \A lit \in c : reprs[lit] = lit THEN r
        ELSE IF satisfied THEN MarkGarbage(r, c, k)
        ELSE Replace(r, c, rest, k)
  BY DEF Substitute
<1>2. open \in Sound(V, M)
  BY DatabaseFacts, SoundFacts
<1>3. moved \in Sound(V, M)
  <2> HIDE DEF open
  <2> QED BY <1>2, ReplacedSound
<1>4. rest \in Sound(V, M)
  <2>1. rest = Unfalsified(r.units, moved)
    BY DEF Unfalsified
  <2> HIDE DEF moved, rest
  <2> QED BY <1>3, <2>1, DatabaseFacts, SoundFacts
<1>5. ~satisfied => rest \in Proper(V, M)
  <2> HIDE DEF rest
  <2> QED BY <1>4 DEF Proper
<1>6. MarkGarbage(r, c, k) \in Databases(V, M)
  BY DropKeeps
<1> HIDE DEF rest, satisfied
<1>7. ~satisfied => Replace(r, c, rest, k) \in Databases(V, M)
  BY <1>5, ReplaceKeeps
<1> QED BY <1>1, <1>6, <1>7

SubstituteSet(r, reprs, cs, k) ==
  FoldSet(LAMBDA c, u : Substitute(u, reprs, c, k), r, cs)

\* The same for a set of clauses of one kind.
LEMMA SubstituteSetKeeps ==
  ASSUME NEW V, NEW M, NEW r \in Databases(V, M), NEW reprs \in Reprs(V, M),
         NEW cs \in SUBSET Sound(V, M), NEW k \in Kinds
  PROVE  SubstituteSet(r, reprs, cs, k) \in Databases(V, M)
<1> DEFINE S == cs
           base == r
           A(T) == Databases(V, M)
           pick(T) == CHOOSE e \in T : TRUE
           Op(a, x) == Substitute(a, reprs, x, k)
           first == [T \in SUBSET S |-> pick(T)]
           sets == [T \in SUBSET S |-> A(T)]
           step == [x \in S |-> [a \in UNION {A(T) : T \in SUBSET S} |-> Op(a, x)]]
           body(g, T) == IF T = {} THEN base
                         ELSE Op(g[T \ {pick(T)}], pick(T))
           Is(g) == g = [T \in SUBSET S |-> body(g, T)]
<1>1. IsFiniteSet(S)
  BY ClausesFinite
<1>2. ASSUME NEW T \in SUBSET S, T # {} PROVE pick(T) \in T
  BY <1>2
<1>3. base \in A({})
  OBVIOUS
<1>4. ASSUME NEW T \in SUBSET S, NEW x \in T, NEW a \in A(T \ {x}) PROVE Op(a, x) \in A(T)
  <2>1. x \in Sound(V, M)
    OBVIOUS
  <2> QED BY <2>1, SubstituteKeeps
<1>5. SubstituteSet(r, reprs, cs, k) = (CHOOSE g : Is(g))[S]
  BY DEF SubstituteSet, FoldSet, MapThenFoldSet
<1> HIDE DEF A, Op, pick, S, base
<1>6. Picks(first, S)
  BY <1>2 DEF Picks
<1>7. ASSUME NEW T \in SUBSET S, T # {}
      PROVE  /\ first[T] = pick(T) /\ pick(T) \in T /\ pick(T) \in S
             /\ T \ {pick(T)} \in SUBSET S
             /\ \A a \in A(T \ {pick(T)}) :
                  step[pick(T)][a] = Op(a, pick(T)) /\ Op(a, pick(T)) \in A(T)
  <2>1. pick(T) \in T
    BY <1>2, <1>7
  <2>2. ASSUME NEW a \in A(T \ {pick(T)}) PROVE Op(a, pick(T)) \in A(T)
    BY <1>4, <2>1
  <2> QED BY <2>1, <2>2
<1>8. base \in sets[{}] /\ \A T \in SUBSET S : sets[T] = A(T)
  BY <1>3
<1>9. PICK g : FoldsIn(g, S, base, first, step, sets)
  <2>1. ASSUME NEW T \in SUBSET S, T # {}, NEW a \in sets[T \ {first[T]}]
        PROVE  step[first[T]][a] \in sets[T]
    <3> HIDE DEF step, first, sets
    <3>1. first[T] = pick(T) /\ T \ {pick(T)} \in SUBSET S
      BY <1>7, <2>1
    <3>2. a \in A(T \ {pick(T)})
      BY <1>8, <2>1, <3>1
    <3> QED BY <1>7, <1>8, <2>1, <3>1, <3>2
  <2> HIDE DEF step, first, sets
  <2>2. StaysIn(S, first, step, sets)
    BY <2>1 DEF StaysIn
  <2>3. base \in sets[{}]
    BY <1>8
  <2> QED BY <1>1, <1>6, <2>2, <2>3, FoldExists
<1>10. ASSUME NEW T \in SUBSET S PROVE g[T] = body(g, T)
  <2>1. CASE T = {}
    BY <1>9, <2>1 DEF Folds, FoldsIn
  <2>2. CASE T # {}
    <3>1. g[T] = step[first[T]][g[T \ {first[T]}]]
      <4> HIDE DEF step, first
      <4> QED BY <1>9, <2>2 DEF Folds, FoldsIn
    <3>2. g[T \ {pick(T)}] \in A(T \ {pick(T)})
      BY <1>7, <1>8, <1>9, <2>2 DEF FoldsIn
    <3> HIDE DEF step, first
    <3> QED BY <1>7, <2>2, <3>1, <3>2
  <2> QED BY <2>1, <2>2
<1>11. Is(g)
  <2>1. g = [T \in SUBSET S |-> g[T]]
    BY <1>9 DEF FoldsIn
  <2> HIDE DEF body
  <2> QED BY <1>10, <2>1
<1>12. Is(CHOOSE h : Is(h))
  <2> HIDE DEF Is
  <2> QED BY <1>11
<1>13. ASSUME NEW h, Is(h) PROVE h[S] \in A(S)
  <2> DEFINE Q == {T \in SUBSET S : h[T] \in A(T)}
  <2>1. \A T \in SUBSET S : h[T] = body(h, T)
    BY <1>13
  <2>2. {} \in Q
    BY <1>3, <2>1
  <2>3. ASSUME NEW T \in SUBSET S, T # {}, T \ {first[T]} \in Q PROVE T \in Q
    <3>1. h[T] = Op(h[T \ {pick(T)}], pick(T))
      BY <2>1, <2>3
    <3>2. h[T \ {pick(T)}] \in A(T \ {pick(T)})
      <4> HIDE DEF first
      <4> QED BY <1>7, <2>3
    <3> HIDE DEF first
    <3> QED BY <1>7, <2>3, <3>1, <3>2
  <2>4. SUBSET S \subseteq Q
    <3> HIDE DEF Q, first
    <3> QED BY <1>1, <1>6, <2>2, <2>3, FoldInduction
  <2> QED BY <2>4
<1>14. SubstituteSet(r, reprs, cs, k) \in A(S)
  <2> HIDE DEF Is
  <2> QED BY <1>5, <1>12, <1>13
<1> QED BY <1>14 DEF A

\* The same for all clauses.
LEMMA SubstituteAllKeeps ==
  ASSUME NEW V, NEW M, NEW r \in Databases(V, M), NEW reprs \in Reprs(V, M)
  PROVE  SubstituteAll(r, reprs) \in Databases(V, M)
<1> DEFINE t == SubstituteSet(r, reprs, r.irr, "irr")
<1>1. t \in Databases(V, M)
  BY DatabaseFacts, SubstituteSetKeeps DEF Kinds
<1>2. SubstituteAll(r, reprs) = SubstituteSet(t, reprs, t.red, "red")
  BY DEF SubstituteAll, SubstituteSet
<1> HIDE DEF t
<1> QED BY <1>1, <1>2, DatabaseFacts, SubstituteSetKeeps DEF Kinds

\* decompose_round derives only what follows: its units, its conflict, its
\* substituted clauses and its entries on the extension stack.
LEMMA DecomposeKeeps ==
  ASSUME NEW V, NEW M, NEW r \in Databases(V, M), NEW frozen
  PROVE  decompose_round(r, frozen) \in Databases(V, M)
<1> DEFINE reprs == [lit \in Lit |-> Representative(r, frozen, lit)]
           p == Push(r, EquivalenceEntries(r, reprs))
           t == Propagate(SubstituteAll(p, reprs))
           Gone(v) == Active(t, v) /\ reprs[v] # v /\ ~Fixed(t, reprs[v])
           status == [v \in Var |-> IF Gone(v) THEN "substituted" ELSE t.status[v]]
<1>1. reprs \in Reprs(V, M)
  BY RepresentativeSound DEF Reprs
<1> HIDE DEF reprs
<1>2. p \in Databases(V, M)
  BY <1>1, EquivalenceEntriesSound, PushKeeps
<1> HIDE DEF p
<1>3. t \in Databases(V, M)
  BY <1>1, <1>2, SubstituteAllKeeps, PropagateKeeps
<1>4. decompose_round(r, frozen) =
        IF Contradictory(r) THEN Unsat(r) ELSE IF t.unsat THEN t
        ELSE [t EXCEPT !.status = status]
  BY DEF decompose_round, reprs, p
<1> HIDE DEF t, Gone
<1>5. [t EXCEPT !.status = status] \in Databases(V, M)
  <2>1. status \in [Var -> Status] /\ \A v \in Var : v \in V => status[v] # "unused"
    BY <1>3, DatabaseFacts DEF Status
  <2> HIDE DEF status
  <2> QED BY <1>3, <2>1 DEF Databases
<1>6. Contradictory(r) => Unsat(r) \in Databases(V, M)
  BY ContradictorySound, UnsatKeeps
<1> HIDE DEF status
<1> QED BY <1>3, <1>4, <1>5, <1>6

-----------------------------------------------------------------------------
(* Failed literals: the tree of the literals that a probe implies. *)

\* parent is a tree of literals over V with the root probe: ranks decrease
\* from each literal to its parent.
Ranked(parent, rank) ==
  /\ rank \in [DOMAIN parent -> 1..Cardinality(DOMAIN parent)]
  /\ \A lit \in DOMAIN parent : parent[lit] # 0 => rank[parent[lit]] < rank[lit]

Tree(parent, probe, V) ==
  /\ parent \in [DOMAIN parent -> DOMAIN parent \cup {0}]
  /\ DOMAIN parent \in SUBSET LitsOf(V) /\ probe \in DOMAIN parent
  /\ \A lit \in DOMAIN parent : parent[lit] = 0 => lit = probe
  /\ \E rank : Ranked(parent, rank)

\* There are at most two literals for each variable.
LEMMA LitsCount ==
  ASSUME NEW lits \in SUBSET Lit
  PROVE  IsFiniteSet(lits) /\ Cardinality(lits) \in 0..(2 * MaxVar)
<1> DEFINE low == (-MaxVar)..(-1)
           high == 1..MaxVar
<1>1. MaxVar \in Nat /\ -MaxVar \in Int /\ -1 \in Int /\ 1 \in Int
  BY MaxVarAssumption
<1>2. IsFiniteSet(low) /\ Cardinality(low) = MaxVar
  <2>1. IsFiniteSet(low) /\ Cardinality(low) = IF -MaxVar > -1 THEN 0 ELSE (-1) - (-MaxVar) + 1
    BY <1>1, FS_Interval
  <2> QED BY <1>1, <2>1
<1>3. IsFiniteSet(high) /\ Cardinality(high) = MaxVar
  <2>1. IsFiniteSet(high) /\ Cardinality(high) = IF 1 > MaxVar THEN 0 ELSE MaxVar - 1 + 1
    BY <1>1, FS_Interval
  <2> QED BY <1>1, <2>1
<1>4. Lit \subseteq low \cup high
  BY <1>1 DEF Lit, Var
<1>5. low \cap high = {}
  BY <1>1
<1> HIDE DEF low, high
<1>6. IsFiniteSet(low \cup high) /\ Cardinality(low \cup high) = 2 * MaxVar
  <2>1. Cardinality(low \cap high) = 0
    BY <1>5, FS_EmptySet
  <2>2. /\ IsFiniteSet(low \cup high)
        /\ Cardinality(low \cup high) = Cardinality(low) + Cardinality(high) - Cardinality(low \cap high)
    BY <1>2, <1>3, FS_Union
  <2> QED BY <1>1, <1>2, <1>3, <2>1, <2>2
<1>7. lits \in SUBSET (low \cup high)
  BY <1>4
<1>8. IsFiniteSet(lits) /\ Cardinality(lits) <= 2 * MaxVar
  BY <1>6, <1>7, FS_Subset
<1> QED BY <1>1, <1>8, FS_CardinalityType

\* The ways up a tree from lit.
Upward(parent, lit) ==
  {path \in Seq(DOMAIN parent) :
     /\ Len(path) > 0 /\ path[1] = lit
     /\ \A i \in 1..(Len(path) - 1) : parent[path[i]] # 0 /\ path[i + 1] = parent[path[i]]}

UpwardStep(parent, path) ==
  LET top == parent[Last(path)] IN IF top = 0 THEN path ELSE Append(path, top)

\* A step towards the probe stays in the tree of the probe's implications and
\* reaches the root or makes the path longer.
LEMMA UpwardStepKeeps ==
  ASSUME NEW parent, NEW probe, NEW V, Tree(parent, probe, V), NEW lit \in DOMAIN parent,
         NEW path \in Upward(parent, lit)
  PROVE  /\ UpwardStep(parent, path) \in Upward(parent, lit)
         /\ Last(path) \in DOMAIN parent
         /\ \/ parent[Last(path)] = 0 /\ UpwardStep(parent, path) = path
            \/ parent[Last(path)] # 0 /\ Len(UpwardStep(parent, path)) = Len(path) + 1
<1> DEFINE top == parent[Last(path)]
           more == Append(path, top)
<1>1. /\ path \in Seq(DOMAIN parent) /\ Len(path) > 0 /\ path[1] = lit
      /\ \A i \in 1..(Len(path) - 1) : parent[path[i]] # 0 /\ path[i + 1] = parent[path[i]]
  BY DEF Upward
<1>2. Len(path) \in Nat /\ Last(path) = path[Len(path)] /\ Last(path) \in DOMAIN parent
  BY <1>1 DEF Last
<1>3. top \in DOMAIN parent \cup {0}
  BY <1>2 DEF Tree
<1>4. CASE top = 0
  BY <1>2, <1>4 DEF UpwardStep
<1>5. CASE top # 0
  <2>1. top \in DOMAIN parent
    BY <1>3, <1>5
  <2>2. /\ more \in Seq(DOMAIN parent) /\ Len(more) = Len(path) + 1
        /\ \A i \in 1..Len(path) : more[i] = path[i]
        /\ more[Len(path) + 1] = top
    BY <1>1, <2>1
  <2>3. ASSUME NEW i \in 1..(Len(more) - 1)
        PROVE  parent[more[i]] # 0 /\ more[i + 1] = parent[more[i]]
    <3>1. CASE i = Len(path)
      BY <1>2, <1>5, <2>2, <3>1
    <3>2. CASE i \in 1..(Len(path) - 1)
      BY <1>1, <1>2, <2>2, <3>2
    <3> QED BY <1>2, <2>2, <3>1, <3>2
  <2>6. Len(more) > 0 /\ more[1] = lit
    BY <1>1, <1>2, <2>2
  <2>4. more \in Upward(parent, lit)
    <3> HIDE DEF more
    <3> QED BY <2>2, <2>3, <2>6 DEF Upward
  <2>5. UpwardStep(parent, path) = more
    BY <1>5 DEF UpwardStep
  <2> QED BY <1>2, <1>5, <2>2, <2>4, <2>5
<1> QED BY <1>4, <1>5

\* Ranks bound the length of such a way.
LEMMA UpwardRank ==
  ASSUME NEW parent, NEW probe, NEW V, Tree(parent, probe, V), NEW lit \in DOMAIN parent,
         NEW path \in Upward(parent, lit), NEW rank, Ranked(parent, rank)
  PROVE  \A i \in 1..Len(path) : path[i] \in DOMAIN parent /\ rank[path[i]] \in Nat
                                 /\ rank[path[i]] + i <= rank[lit] + 1
<1>1. /\ path \in Seq(DOMAIN parent) /\ Len(path) \in Nat /\ Len(path) > 0 /\ path[1] = lit
      /\ \A i \in 1..(Len(path) - 1) : parent[path[i]] # 0 /\ path[i + 1] = parent[path[i]]
  BY DEF Upward
<1>2. \A i \in 1..Len(path) : path[i] \in DOMAIN parent
  BY <1>1
<1>3. \A l \in DOMAIN parent : rank[l] \in Nat
  <2>1. Cardinality(DOMAIN parent) \in Nat
    BY LitsCount, LitsOfFacts, MaxVarAssumption DEF Tree
  <2> QED BY <2>1 DEF Ranked
<1> DEFINE n == Len(path) - 1
           T == {i \in 0..n : rank[path[i + 1]] + i <= rank[lit]}
<1>4. n \in Nat
  BY <1>1
<1>5. 0 \in T
  BY <1>1, <1>3, <1>4
<1>6. ASSUME NEW i \in 1..n, i - 1 \in T PROVE i \in T
  <2>1. path[i + 1] = parent[path[i]] /\ parent[path[i]] # 0
    BY <1>1, <1>4
  <2>2. path[i] \in DOMAIN parent /\ path[i + 1] \in DOMAIN parent
    BY <1>1, <1>2
  <2>3. rank[path[i + 1]] < rank[path[i]]
    BY <2>1, <2>2 DEF Ranked
  <2>4. rank[path[i]] + (i - 1) <= rank[lit]
    BY <1>6
  <2> QED BY <1>3, <1>4, <2>2, <2>3, <2>4
<1>7. \A i \in 0..n : i \in T
  <2> HIDE DEF T, n
  <2> QED BY <1>4, <1>5, <1>6, InductionUpTo
<1>8. ASSUME NEW i \in 1..Len(path) PROVE rank[path[i]] + i <= rank[lit] + 1
  <2>1. i - 1 \in 0..n
    BY <1>1
  <2>2. rank[path[(i - 1) + 1]] + (i - 1) <= rank[lit]
    BY <1>7, <2>1
  <2>3. (i - 1) + 1 = i
    OBVIOUS
  <2> QED BY <1>2, <1>3, <2>2, <2>3
<1> QED BY <1>2, <1>3, <1>8

\* A sequence with one element.
LEMMA Singleton ==
  ASSUME NEW S, NEW x \in S
  PROVE  <<x>> \in Seq(S) /\ Len(<<x>>) = 1 /\ <<x>>[1] = x
<1> DEFINE q == <<x>>
<1>1. q \in Seq(S)
  OBVIOUS
<1>2. Len(q) = 1
  OBVIOUS
<1>3. q[1] = x
  OBVIOUS
<1> QED BY <1>1, <1>2, <1>3

\* The way from a literal up to the root of the tree.
LEMMA PathFacts ==
  ASSUME NEW j, NEW V, NEW probe, Tree(j.parent, probe, V), NEW lit \in DOMAIN j.parent
  PROVE  Path(j, lit) \in Upward(j.parent, lit) /\ j.parent[Last(Path(j, lit))] = 0
<1> DEFINE S == Upward(j.parent, lit)
           n == 2 * MaxVar
           next(known) ==
             UpwardStep(j.parent, known)
           step == [i \in 1..n |-> [known \in S |-> next(known)]]
           body(f, i) == IF i = 0 THEN <<lit>> ELSE next(f[i - 1])
           Walks(f) == f = [i \in 0..n |-> body(f, i)]
<1>1. n \in Nat
  BY MaxVarAssumption
<1>2. <<lit>> \in S
  <2>1. <<lit>> \in Seq(DOMAIN j.parent) /\ Len(<<lit>>) = 1 /\ <<lit>>[1] = lit
    BY Singleton
  <2>2. 1..(1 - 1) = {}
    OBVIOUS
  <2> QED BY <2>1, <2>2 DEF Upward
<1>3. ASSUME NEW known \in S PROVE next(known) \in S
  BY UpwardStepKeeps
<1>4. step \in [1..n -> [S -> S]]
  <2> HIDE DEF next
  <2> QED BY <1>3
<1>5. \E g : Steps(g, n, S, <<lit>>, step)
  <2> HIDE DEF step, n, S
  <2> QED BY <1>1, <1>2, <1>4, Recursion
<1>6. PICK g \in [0..n -> S] :
        g[0] = <<lit>> /\ \A i \in 1..n : g[i] = step[i][g[i - 1]]
  <2> HIDE DEF step, n, S
  <2> QED BY <1>5 DEF Steps
<1>7. ASSUME NEW i \in 0..n PROVE g[i] = body(g, i)
  <2>1. CASE i = 0
    BY <1>6, <2>1
  <2>2. CASE i \in 1..n
    <3>1. g[i - 1] \in S /\ i # 0
      BY <1>1, <2>2
    <3> HIDE DEF next, S
    <3> QED BY <1>6, <2>2, <3>1
  <2>3. i = 0 \/ i \in 1..n
    BY <1>1
  <2> HIDE DEF body
  <2> QED BY <2>1, <2>2, <2>3
<1>8. Walks(g)
  <2> HIDE DEF body
  <2> QED BY <1>7
<1>9. Walks(CHOOSE f : Walks(f))
  <2> HIDE DEF Walks
  <2> QED BY <1>8
<1>10. Path(j, lit) = (CHOOSE f : Walks(f))[n]
  BY DEF Path, UpwardStep
<1>11. ASSUME NEW f, Walks(f) PROVE f[n] \in S /\ j.parent[Last(f[n])] = 0
  <2> DEFINE T == {i \in 0..n : /\ f[i] \in S
                                /\ \/ j.parent[Last(f[i])] = 0
                                   \/ Len(f[i]) = i + 1}
  <2>1. f[0] = <<lit>> /\ Len(<<lit>>) = 0 + 1
    BY <1>1, <1>11
  <2>2. 0 \in T
    <3> HIDE DEF S
    <3> QED BY <1>1, <1>2, <2>1
  <2>3. ASSUME NEW i \in 1..n, i - 1 \in T PROVE i \in T
    <3>1. i \in 0..n /\ i # 0 /\ (i - 1) + 1 = i
      BY <1>1
    <3>2. f[i] = body(f, i)
      BY <1>11, <3>1
    <3>3. f[i] = next(f[i - 1])
      BY <3>1, <3>2
    <3>4. f[i - 1] \in Upward(j.parent, lit)
      BY <2>3
    <3>5. /\ f[i] \in S
          /\ \/ j.parent[Last(f[i - 1])] = 0 /\ f[i] = f[i - 1]
             \/ j.parent[Last(f[i - 1])] # 0 /\ Len(f[i]) = Len(f[i - 1]) + 1
      BY <3>3, <3>4, UpwardStepKeeps
    <3> HIDE DEF next, S, Walks
    <3> QED BY <2>3, <3>1, <3>5
  <2>4. n \in T
    <3>1. \A i \in 0..n : i \in T
      <4> HIDE DEF T, n
      <4> QED BY <1>1, <2>2, <2>3, InductionUpTo
    <3> QED BY <1>1, <3>1
  <2>5. ASSUME Len(f[n]) = n + 1 PROVE FALSE
    <3>1. PICK rank : Ranked(j.parent, rank)
      BY DEF Tree
    <3>2. f[n] \in Upward(j.parent, lit)
      BY <2>4
    <3>3. n + 1 \in 1..Len(f[n])
      BY <1>1, <2>5
    <3>4. /\ f[n][n + 1] \in DOMAIN j.parent /\ rank[f[n][n + 1]] \in Nat
          /\ rank[f[n][n + 1]] + (n + 1) <= rank[lit] + 1
      BY <3>1, <3>2, <3>3, UpwardRank
    <3>5. Cardinality(DOMAIN j.parent) \in 0..n
      BY LitsCount, LitsOfFacts DEF Tree
    <3>6. rank[f[n][n + 1]] \in 1..Cardinality(DOMAIN j.parent) /\ rank[lit] \in 1..Cardinality(DOMAIN j.parent)
      BY <3>1, <3>4 DEF Ranked
    <3> HIDE DEF n
    <3> QED BY <1>1, <3>4, <3>5, <3>6
  <2> QED BY <2>4, <2>5
<1> HIDE DEF Walks
<1> QED BY <1>9, <1>10, <1>11

Above(j, lit) == ToSet(Path(j, lit))

\* Sets with the parent of every element.
Closed(X, parent) == \A lit \in X : parent[lit] # 0 => parent[lit] \in X

\* The way up is the least set with lit and with all parents.
LEMMA AboveFacts ==
  ASSUME NEW j, NEW V, NEW probe, Tree(j.parent, probe, V), NEW lit \in DOMAIN j.parent
  PROVE  /\ lit \in Above(j, lit) /\ Above(j, lit) \in SUBSET DOMAIN j.parent
         /\ Closed(Above(j, lit), j.parent) /\ probe \in Above(j, lit)
         /\ \A X : lit \in X /\ Closed(X, j.parent) => Above(j, lit) \subseteq X
<1> DEFINE path == Path(j, lit)
<1>1. path \in Upward(j.parent, lit) /\ j.parent[Last(path)] = 0
  BY PathFacts
<1> HIDE DEF path
<1>2. /\ path \in Seq(DOMAIN j.parent) /\ Len(path) \in Nat /\ Len(path) > 0 /\ path[1] = lit
      /\ \A i \in 1..(Len(path) - 1) : j.parent[path[i]] # 0 /\ path[i + 1] = j.parent[path[i]]
  BY <1>1 DEF Upward
<1>3. Above(j, lit) = {path[i] : i \in 1..Len(path)}
  BY <1>2 DEF Above, ToSet, path
<1>4. lit \in Above(j, lit) /\ Above(j, lit) \in SUBSET DOMAIN j.parent
  BY <1>2, <1>3
<1>5. Last(path) \in Above(j, lit) /\ Last(path) = path[Len(path)]
  BY <1>2, <1>3 DEF Last
<1>6. probe \in Above(j, lit)
  BY <1>1, <1>4, <1>5 DEF Tree
<1>7. ASSUME NEW i \in 1..Len(path), j.parent[path[i]] # 0
      PROVE  j.parent[path[i]] \in Above(j, lit)
  <2>1. i # Len(path)
    BY <1>1, <1>5, <1>7
  <2>2. i \in 1..(Len(path) - 1) /\ i + 1 \in 1..Len(path)
    BY <1>2, <2>1
  <2> QED BY <1>2, <1>3, <2>2
<1>8. Closed(Above(j, lit), j.parent)
  BY <1>3, <1>7 DEF Closed
<1>9. ASSUME NEW X, lit \in X, Closed(X, j.parent) PROVE Above(j, lit) \subseteq X
  <2> DEFINE n == Len(path) - 1
             T == {i \in 0..n : path[i + 1] \in X}
  <2>1. n \in Nat /\ 0 \in T
    BY <1>2, <1>9
  <2>2. ASSUME NEW i \in 1..n, i - 1 \in T PROVE i \in T
    <3>1. path[i] \in X
      <4>1. (i - 1) + 1 = i
        OBVIOUS
      <4> QED BY <2>2, <4>1
    <3>2. j.parent[path[i]] # 0 /\ path[i + 1] = j.parent[path[i]]
      BY <1>2
    <3> QED BY <1>9, <2>1, <3>1, <3>2 DEF Closed
  <2>3. \A i \in 0..n : i \in T
    <3> HIDE DEF T, n
    <3> QED BY <2>1, <2>2, InductionUpTo
  <2>4. ASSUME NEW i \in 1..Len(path) PROVE path[i] \in X
    <3>1. i - 1 \in 0..n /\ (i - 1) + 1 = i
      BY <1>2
    <3> QED BY <2>3, <3>1
  <2> QED BY <1>3, <2>4
<1> QED BY <1>4, <1>6, <1>8, <1>9

\* Of two literals on the way up one is above the other.
LEMMA AboveLinear ==
  ASSUME NEW j, NEW V, NEW probe, Tree(j.parent, probe, V), NEW lit \in DOMAIN j.parent,
         NEW a \in Above(j, lit), NEW b \in Above(j, lit)
  PROVE  a \in Above(j, b) \/ b \in Above(j, a)
<1> DEFINE path == Path(j, lit)
<1>1. path \in Upward(j.parent, lit)
  BY PathFacts
<1> HIDE DEF path
<1>2. /\ path \in Seq(DOMAIN j.parent) /\ Len(path) \in Nat /\ Len(path) > 0
      /\ \A i \in 1..(Len(path) - 1) : j.parent[path[i]] # 0 /\ path[i + 1] = j.parent[path[i]]
  BY <1>1 DEF Upward
<1>3. Above(j, lit) = {path[i] : i \in 1..Len(path)}
  BY <1>2 DEF Above, ToSet, path
<1>4. ASSUME NEW k \in 1..Len(path), NEW l \in 1..Len(path), k <= l
      PROVE  path[l] \in Above(j, path[k])
  <2> DEFINE n == l - k
             T == {i \in 0..n : path[k + i] \in Above(j, path[k])}
  <2>1. path[k] \in DOMAIN j.parent
    BY <1>2
  <2>2. n \in Nat /\ 0 \in T
    <3>1. path[k] \in Above(j, path[k])
      BY <2>1, AboveFacts
    <3>2. k + 0 = k
      OBVIOUS
    <3> QED BY <1>2, <1>4, <3>1, <3>2
  <2>3. ASSUME NEW i \in 1..n, i - 1 \in T PROVE i \in T
    <3>1. k + (i - 1) \in 1..(Len(path) - 1) /\ (k + (i - 1)) + 1 = k + i
      BY <1>2, <1>4
    <3>2. /\ j.parent[path[k + (i - 1)]] # 0
          /\ path[k + i] = j.parent[path[k + (i - 1)]]
      BY <1>2, <3>1
    <3>3. path[k + (i - 1)] \in Above(j, path[k])
      BY <2>3
    <3>4. Closed(Above(j, path[k]), j.parent)
      BY <2>1, AboveFacts
    <3>5. path[k + i] \in Above(j, path[k])
      BY <3>2, <3>3, <3>4 DEF Closed
    <3> QED BY <2>2, <3>5
  <2>4. n \in T
    <3>1. \A i \in 0..n : i \in T
      <4> HIDE DEF T, n
      <4> QED BY <2>2, <2>3, InductionUpTo
    <3> QED BY <2>2, <3>1
  <2>5. k + n = l
    OBVIOUS
  <2> QED BY <2>4, <2>5
<1>5. PICK k \in 1..Len(path), l \in 1..Len(path) : a = path[k] /\ b = path[l]
  BY <1>3
<1>6. k <= l \/ l <= k
  BY <1>2
<1> QED BY <1>4, <1>5, <1>6

\* Ranks decrease on the way up.
LEMMA AboveRank ==
  ASSUME NEW j, NEW V, NEW probe, Tree(j.parent, probe, V), NEW rank, Ranked(j.parent, rank),
         NEW lit \in DOMAIN j.parent, NEW a \in Above(j, lit), a # lit
  PROVE  rank[a] < rank[lit]
<1> DEFINE X == {x \in DOMAIN j.parent : x = lit \/ rank[x] < rank[lit]}
<1>1. \A l \in DOMAIN j.parent : rank[l] \in Nat
  <2>1. Cardinality(DOMAIN j.parent) \in Nat
    BY LitsCount, LitsOfFacts, MaxVarAssumption DEF Tree
  <2> QED BY <2>1 DEF Ranked
<1>2. ASSUME NEW x \in X, j.parent[x] # 0 PROVE j.parent[x] \in X
  <2>1. j.parent[x] \in DOMAIN j.parent
    BY <1>2 DEF Tree
  <2>2. rank[j.parent[x]] < rank[x]
    BY <1>2 DEF Ranked
  <2> QED BY <1>1, <2>1, <2>2
<1>3. lit \in X /\ Closed(X, j.parent)
  BY <1>2 DEF Closed
<1> HIDE DEF X
<1>4. a \in X
  BY <1>3, AboveFacts
<1> QED BY <1>4 DEF X

\* There is a dominator: it is above all of lits, and all that is above all
\* of them is above it.
LEMMA DominatorFacts ==
  ASSUME NEW j, NEW V, NEW probe, Tree(j.parent, probe, V),
         NEW lits \in SUBSET DOMAIN j.parent, lits # {}
  PROVE  /\ Dominator(j, lits) \in DOMAIN j.parent
         /\ \A lit \in lits : Dominator(j, lits) \in Above(j, lit)
<1> DEFINE common == {d \in DOMAIN j.parent : \A lit \in lits : d \in Above(j, lit)}
<1>1. PICK rank : Ranked(j.parent, rank)
  BY DEF Tree
<1>2. probe \in common
  BY AboveFacts DEF Tree
<1>3. Cardinality(DOMAIN j.parent) \in Nat
  BY LitsCount, LitsOfFacts, MaxVarAssumption DEF Tree
<1> DEFINE b == Cardinality(DOMAIN j.parent)
           ranks == {rank[d] : d \in common}
<1>4. ranks \subseteq 0..b /\ ranks # {} /\ b \in Nat
  BY <1>1, <1>2, <1>3 DEF Ranked
<1>5. PICK d \in common : \A e \in common : rank[e] <= rank[d]
  <2> HIDE DEF ranks, b
  <2>1. Max(ranks) \in ranks /\ \A x \in ranks : x <= Max(ranks)
    BY <1>4, MaxOfBounded
  <2>2. PICK d \in common : rank[d] = Max(ranks)
    BY <2>1 DEF ranks
  <2> QED BY <2>1, <2>2 DEF ranks
<1>6. PICK lit \in lits : TRUE
  OBVIOUS
<1>7. ASSUME NEW e \in common PROVE e \in Above(j, d)
  <2>1. lit \in DOMAIN j.parent /\ d \in Above(j, lit) /\ e \in Above(j, lit)
    BY <1>6
  <2>2. e \in Above(j, d) \/ d \in Above(j, e)
    BY <2>1, AboveLinear
  <2>3. CASE d = e
    BY <2>3, AboveFacts
  <2>4. CASE d \in Above(j, e) /\ d # e
    <3>1. rank[d] < rank[e]
      BY <1>1, <2>4, AboveRank
    <3>2. rank[d] \in 1..b /\ rank[e] \in 1..b
      BY <1>1 DEF Ranked
    <3> QED BY <1>3, <1>5, <3>1, <3>2
  <2> QED BY <2>2, <2>3, <2>4
<1>8. common \subseteq Above(j, d)
  BY <1>7
<1>9. Dominator(j, lits) = CHOOSE x \in common : common \subseteq Above(j, x)
  BY DEF Dominator, Above
<1>10. Dominator(j, lits) \in common
  <2> HIDE DEF common
  <2> QED BY <1>8, <1>9
<1> QED BY <1>10

\* No unit is left to propagate, and nothing is in conflict.
Quiet(r) ==
  /\ \A lit \in r.units : -lit \notin r.units
  /\ \A c \in Clauses(r) :
       SatisfiedBy(r.units, c) \/ \E a, b \in c : a # b /\ -a \notin r.units /\ -b \notin r.units

\* Propagation takes its first round.
LEMMA FirstRound ==
  ASSUME NEW cs \in SUBSET Clause, NEW lits \in SUBSET Lit, NEW c \in cs, Cardinality(Unfalsified(lits, c)) = 1
  PROVE  Unfalsified(lits, c) \subseteq Propagation(cs, lits)
<1> DEFINE S == SUBSET Lit
           n == MaxVar
           next(known) ==
             known \cup UNION {r \in {Unfalsified(known, d) : d \in cs} : Cardinality(r) = 1}
           step == [i \in 1..n |-> [known \in S |-> next(known)]]
           body(f, i) == IF i = 0 THEN lits ELSE next(f[i - 1])
           Walks(f) == f = [i \in 0..n |-> body(f, i)]
<1>1. n \in Nat
  BY MaxVarAssumption
<1>2. lits \in S
  OBVIOUS
<1>3. ASSUME NEW known \in S PROVE next(known) \in S
  BY DEF Unfalsified, Clause
<1>4. step \in [1..n -> [S -> S]]
  <2> HIDE DEF next
  <2> QED BY <1>3
<1>5. \E g : Steps(g, n, S, lits, step)
  <2> HIDE DEF step, n, S
  <2> QED BY <1>1, <1>2, <1>4, Recursion
<1>6. PICK g \in [0..n -> S] :
        g[0] = lits /\ \A i \in 1..n : g[i] = step[i][g[i - 1]]
  <2> HIDE DEF step, n, S
  <2> QED BY <1>5 DEF Steps
<1>7. ASSUME NEW i \in 0..n PROVE g[i] = body(g, i)
  <2>1. CASE i = 0
    BY <1>6, <2>1
  <2>2. CASE i \in 1..n
    <3>1. g[i - 1] \in S /\ i # 0
      BY <1>1, <2>2
    <3> HIDE DEF next, S
    <3> QED BY <1>6, <2>2, <3>1
  <2>3. i = 0 \/ i \in 1..n
    BY <1>1
  <2> HIDE DEF body
  <2> QED BY <2>1, <2>2, <2>3
<1>8. Walks(g)
  <2> HIDE DEF body
  <2> QED BY <1>7
<1>9. Walks(CHOOSE f : Walks(f))
  <2> HIDE DEF Walks
  <2> QED BY <1>8
<1>10. Propagation(cs, lits) = (CHOOSE f : Walks(f))[n]
  BY DEF Propagation
<1>11. ASSUME NEW f, Walks(f) PROVE Unfalsified(lits, c) \subseteq f[n]
  <2> DEFINE T == {i \in 0..(n - 1) : Unfalsified(lits, c) \subseteq f[i + 1]}
  <2>1. n - 1 \in Nat
    BY MaxVarAssumption
  <2>2. f[0] = lits
    BY <1>1, <1>11
  <2>3. \A i \in 1..n : f[i] = next(f[i - 1])
    <3>1. ASSUME NEW i \in 1..n PROVE f[i] = next(f[i - 1])
      <4>1. i \in 0..n /\ i # 0
        BY <1>1
      <4>2. f[i] = body(f, i)
        BY <1>11, <4>1
      <4> QED BY <4>1, <4>2
    <3> QED BY <3>1
  <2> HIDE DEF Walks
  <2>4. 0 \in T
    <3>1. f[1] = next(f[0])
      <4> HIDE DEF next
      <4>1. 1 \in 1..n /\ 1 - 1 = 0
        BY <1>1, <2>1
      <4> QED BY <2>3, <4>1
    <3>2. Unfalsified(lits, c) \subseteq next(lits)
      OBVIOUS
    <3>3. 0 + 1 = 1
      OBVIOUS
    <3> HIDE DEF next
    <3> QED BY <2>1, <2>2, <3>1, <3>2, <3>3
  <2>5. ASSUME NEW i \in 1..(n - 1), i - 1 \in T PROVE i \in T
    <3>1. i + 1 \in 1..n /\ (i + 1) - 1 = i /\ (i - 1) + 1 = i
      BY <1>1
    <3>2. f[i + 1] = next(f[i])
      <4> HIDE DEF next
      <4> QED BY <2>3, <3>1
    <3>3. f[i] \subseteq next(f[i])
      OBVIOUS
    <3> HIDE DEF next
    <3> QED BY <2>5, <3>1, <3>2, <3>3
  <2>6. \A i \in 0..(n - 1) : i \in T
    <3> HIDE DEF T, n
    <3> QED BY <2>1, <2>4, <2>5, InductionUpTo
  <2>7. n - 1 \in 0..(n - 1) /\ (n - 1) + 1 = n
    BY <1>1, <2>1
  <2> HIDE DEF n
  <2> QED BY <2>6, <2>7
<1> HIDE DEF Walks
<1> QED BY <1>9, <1>10, <1>11

\* After propagation no clause is falsified or has a single literal left.
LEMMA PropagatedQuiet ==
  ASSUME NEW V, NEW M, NEW r \in Databases(V, M), Propagated(r), ~r.unsat
  PROVE  Quiet(r)
<1> DEFINE lits == Propagation(Clauses(r), r.units)
<1>1. Propagate(r) = r /\ r.unsat = FALSE
  BY DatabaseFacts DEF Propagated
<1>2. ~Conflicting(Clauses(r), lits)
  <2>1. ASSUME Conflicting(Clauses(r), lits) PROVE FALSE
    <3>1. Propagate(r) = Unsat(r)
      BY <1>1, <2>1 DEF Propagate
    <3>2. Unsat(r).unsat = TRUE
      BY DEF Unsat, Databases
    <3> QED BY <1>1, <3>1, <3>2
  <2> QED BY <2>1
<1>3. lits = r.units
  <2>1. Propagate(r) = WithUnits(r, lits)
    BY <1>1, <1>2 DEF Propagate, WithUnits
  <2>2. WithUnits(r, lits).units = lits
    BY DEF WithUnits, Databases
  <2> QED BY <1>1, <2>1, <2>2
<1>4. Clauses(r) \in SUBSET Clause /\ r.units \in SUBSET Lit
  BY DatabaseFacts, SoundFacts, LitsOfFacts DEF Clause
<1>5. ASSUME NEW c \in Clauses(r), ~SatisfiedBy(r.units, c)
      PROVE  \E a, b \in c : a # b /\ -a \notin r.units /\ -b \notin r.units
  <2> DEFINE rest == Unfalsified(r.units, c)
  <2>1. rest \subseteq c /\ \A a \in rest : -a \notin r.units
    <3>1. c \subseteq Lit
      BY <1>4 DEF Clause
    <3> QED BY <1>4, <3>1, NegatedFacts DEF Unfalsified
  <2>2. rest # {}
    <3>1. ~(c \subseteq Negated(r.units))
      BY <1>2, <1>3 DEF Conflicting
    <3> QED BY <3>1 DEF Unfalsified
  <2>3. Cardinality(rest) # 1
    <3>1. ASSUME Cardinality(rest) = 1 PROVE FALSE
      <4>1. rest \subseteq lits
        BY <1>4, <3>1, FirstRound
      <4> QED BY <1>3, <1>5, <2>1, <2>2, <4>1 DEF SatisfiedBy
    <3> QED BY <3>1
  <2>4. PICK a \in rest : TRUE
    BY <2>2
  <2>5. \E b \in rest : b # a
    <3>1. ASSUME rest = {a} PROVE FALSE
      <4> HIDE DEF rest
      <4> QED BY <2>3, <3>1, FS_Singleton
    <3> QED BY <2>4, <3>1
  <2> HIDE DEF rest
  <2> QED BY <2>1, <2>4, <2>5
<1>6. \A lit \in r.units : -lit \notin r.units
  BY <1>2, <1>3 DEF Conflicting
<1> QED BY <1>5, <1>6 DEF Quiet

ProbeGood(j, r, V, M) ==
  /\ Has(j, {"name", "phase", "probe", "parent"})
  /\ j.name = "probe" /\ j.phase = "propagate"
  /\ Tree(j.parent, j.probe, V) /\ Quiet(r)
  /\ \A lit \in DOMAIN j.parent :
       /\ -lit \notin DOMAIN j.parent /\ ~Fixed(r, lit)
       /\ j.parent[lit] # 0 => \A m \in M : True(m, j.parent[lit]) => True(m, lit)

\* The probe alone is a tree of implications.
LEMMA ProbeJobGood ==
  ASSUME NEW V, NEW M, NEW r \in Databases(V, M), NEW probe \in LitsOf(V), ~Fixed(r, probe),
         Propagated(r), ~r.unsat
  PROVE  ProbeGood(ProbeJob(probe), r, V, M)
<1> DEFINE parent == [lit \in {probe} |-> 0]
           rank == [lit \in {probe} |-> 1]
<1>1. IsFiniteSet({probe}) /\ Cardinality({probe}) = 1
  BY FS_Singleton
<1>2. probe # -probe
  BY LitsOfFacts, LitFacts
<1>3. Ranked(parent, rank)
  BY <1>1 DEF Ranked
<1>4. DOMAIN parent = {probe} /\ parent[probe] = 0
  OBVIOUS
<1>5. Tree(parent, probe, V)
  <2>1. parent \in [DOMAIN parent -> DOMAIN parent \cup {0}]
    OBVIOUS
  <2> HIDE DEF parent, rank
  <2> QED BY <1>3, <1>4, <2>1 DEF Tree
<1>6. Quiet(r)
  BY PropagatedQuiet
<1>7. ProbeJob(probe) = [name |-> "probe", phase |-> "propagate", probe |-> probe, parent |-> parent]
  BY DEF ProbeJob
<1> HIDE DEF parent
<1> QED BY <1>2, <1>4, <1>5, <1>6, <1>7 DEF ProbeGood, Has

\* What is above a literal implies it.
LEMMA AboveSound ==
  ASSUME NEW V, NEW M, NEW r, NEW j, ProbeGood(j, r, V, M), NEW lit \in DOMAIN j.parent,
         NEW a \in Above(j, lit), NEW m \in M, True(m, a)
  PROVE  True(m, lit)
<1> DEFINE X == {x \in DOMAIN j.parent : True(m, x) => True(m, lit)}
<1>1. Tree(j.parent, j.probe, V)
  BY DEF ProbeGood
<1>2. ASSUME NEW x \in X, j.parent[x] # 0 PROVE j.parent[x] \in X
  <2>1. j.parent[x] \in DOMAIN j.parent
    BY <1>1, <1>2 DEF Tree
  <2>2. True(m, j.parent[x]) => True(m, x)
    BY <1>2 DEF ProbeGood
  <2> QED BY <2>1, <2>2
<1>3. lit \in X /\ Closed(X, j.parent)
  BY <1>2 DEF Closed
<1> HIDE DEF X
<1>4. a \in X
  BY <1>1, <1>3, AboveFacts
<1> QED BY <1>4 DEF X

\* The literals that are true with a probe.
LEMMA ProbeLits ==
  ASSUME NEW V, NEW M, NEW r \in Databases(V, M), NEW j, ProbeGood(j, r, V, M)
  PROVE  /\ DOMAIN j.parent \subseteq LitsOf(V) /\ r.units \subseteq LitsOf(V)
         /\ TrueIn(r, j) \subseteq LitsOf(V) /\ TrueIn(r, j) \subseteq Lit
         /\ \A lit \in Lit : lit \in FalseIn(r, j) <=> -lit \in TrueIn(r, j)
         /\ \A lit \in TrueIn(r, j) : -lit \notin TrueIn(r, j)
<1>1. DOMAIN j.parent \subseteq LitsOf(V) /\ r.units \subseteq LitsOf(V)
  BY DatabaseFacts, SoundFacts DEF ProbeGood, Tree
<1>2. TrueIn(r, j) \subseteq LitsOf(V) /\ TrueIn(r, j) \subseteq Lit
  BY <1>1, LitsOfFacts DEF TrueIn
<1>3. \A lit \in Lit : lit \in FalseIn(r, j) <=> -lit \in TrueIn(r, j)
  BY <1>2, NegatedFacts DEF FalseIn
<1>4. ASSUME NEW lit \in TrueIn(r, j), -lit \in TrueIn(r, j) PROVE FALSE
  <2>1. - -lit = lit
    BY <1>2, LitFacts
  <2> QED BY <1>4, <2>1 DEF TrueIn, ProbeGood, Quiet, Fixed
<1> QED BY <1>1, <1>2, <1>3, <1>4

\* A clause that forces a literal during a probe: the others are false, and
\* those that the probe made false are its reasons.
LEMMA ForcedFacts ==
  ASSUME NEW V, NEW M, NEW r \in Databases(V, M), NEW j, ProbeGood(j, r, V, M),
         NEW cs \in SUBSET Clauses(r), NEW c \in Forcing(r, j, cs), NEW x, x = Forced(r, j, c)
  PROVE  /\ c \in Clauses(r) /\ x \in c /\ x \in LitsOf(V)
         /\ x \notin TrueIn(r, j) /\ -x \notin TrueIn(r, j)
         /\ \A lit \in c \ {x} : -lit \in TrueIn(r, j)
         /\ Reasons(j, c) \in SUBSET DOMAIN j.parent /\ Reasons(j, c) # {}
<1>1. c \in Clauses(r) /\ c \cap TrueIn(r, j) = {} /\ Cardinality(c \ FalseIn(r, j)) = 1
  BY DEF Forcing
<1>2. c \in SUBSET LitsOf(V) /\ c \subseteq Lit
  BY <1>1, DatabaseFacts, SoundFacts, LitsOfFacts
<1> DEFINE rest == c \ FalseIn(r, j)
<1>3. PICK y : rest = {y}
  <2>1. rest \in SUBSET LitsOf(V)
    BY <1>2
  <2> HIDE DEF rest
  <2>2. IsFiniteSet(rest) /\ Cardinality(rest) = 1
    BY <1>1, <2>1, ClausesFinite DEF rest
  <2> QED BY <2>2, FS_Singleton
<1>4. x \in c /\ x \notin FalseIn(r, j)
  <2>1. y \in c /\ y \notin FalseIn(r, j)
    BY <1>3
  <2> QED BY <2>1 DEF Forced
<1>5. x = y
  BY <1>3, <1>4
<1>6. x \in LitsOf(V) /\ x \in Lit
  BY <1>2, <1>4
<1>7. x \notin TrueIn(r, j) /\ -x \notin TrueIn(r, j)
  BY <1>1, <1>4, <1>6, ProbeLits
<1>8. \A lit \in c \ {x} : -lit \in TrueIn(r, j)
  BY <1>2, <1>3, <1>5, ProbeLits
<1>9. Reasons(j, c) \in SUBSET DOMAIN j.parent
  BY DEF Reasons
<1>10. Reasons(j, c) # {}
  <2>1. ~SatisfiedBy(r.units, c)
    BY <1>1 DEF SatisfiedBy, TrueIn
  <2>2. PICK a \in c, b \in c : a # b /\ -a \notin r.units /\ -b \notin r.units
    BY <1>1, <2>1 DEF ProbeGood, Quiet
  <2>3. PICK l \in c : l # x /\ -l \notin r.units
    BY <2>2
  <2>4. -l \in DOMAIN j.parent
    BY <1>8, <2>3 DEF TrueIn
  <2>5. -l \in Negated(c)
    BY DEF Negated
  <2> QED BY <2>4, <2>5 DEF Reasons
<1> QED BY <1>1, <1>4, <1>6, <1>7, <1>8, <1>9, <1>10

\* A literal that all reasons follow from implies the forced literal.
LEMMA ForcedSound ==
  ASSUME NEW V, NEW M, NEW r \in Databases(V, M), NEW j, ProbeGood(j, r, V, M),
         NEW cs \in SUBSET Clauses(r), NEW c \in Forcing(r, j, cs), NEW x, x = Forced(r, j, c),
         NEW m \in M, \A lit \in Reasons(j, c) : True(m, lit)
  PROVE  True(m, x)
<1>1. /\ c \in Clauses(r) /\ x \in c /\ \A lit \in c \ {x} : -lit \in TrueIn(r, j)
  BY ForcedFacts
<1>2. c \in Sound(V, M) /\ c \subseteq Lit
  BY <1>1, DatabaseFacts, SoundFacts, LitsOfFacts
<1>3. PICK l \in c : True(m, l)
  BY <1>2 DEF Sound, Holds
<1>4. ASSUME l # x PROVE FALSE
  <2>1. l \in Lit /\ -l \in TrueIn(r, j)
    BY <1>1, <1>2, <1>4
  <2>2. True(m, -l)
    <3>1. CASE -l \in r.units
      BY <3>1, DatabaseFacts DEF Facts
    <3>2. CASE -l \in DOMAIN j.parent
      BY <3>2 DEF Reasons, Negated
    <3> QED BY <2>1, <3>1, <3>2 DEF TrueIn
  <2> QED BY <1>3, <2>1, <2>2, TrueNegated
<1> QED BY <1>3, <1>4

\* The tree goes on to be one with a literal that its parent implies.
LEMMA ProbeAssignGood ==
  ASSUME NEW V, NEW M, NEW r \in Databases(V, M), NEW j, ProbeGood(j, r, V, M),
         NEW x \in LitsOf(V), x \notin TrueIn(r, j), -x \notin TrueIn(r, j),
         NEW p \in DOMAIN j.parent, \A m \in M : True(m, p) => True(m, x)
  PROVE  ProbeGood(ProbeAssign(j, x, p), r, V, M)
<1> DEFINE D == DOMAIN j.parent
           parent == [l \in D \cup {x} |-> IF l = x THEN p ELSE j.parent[l]]
           n == Cardinality(D)
<1>1. x \notin D /\ -x \notin D /\ ~Fixed(r, x)
  BY DEF TrueIn, Fixed
<1>2. Tree(j.parent, j.probe, V) /\ D \in SUBSET LitsOf(V)
  BY DEF ProbeGood, Tree
<1>3. IsFiniteSet(D) /\ n \in Nat
  BY <1>2, LitsCount, LitsOfFacts, MaxVarAssumption
<1>4. Cardinality(D \cup {x}) = n + 1
  BY <1>1, <1>3, FS_AddElement
<1>5. PICK rank : Ranked(j.parent, rank)
  BY <1>2 DEF Tree
<1>6. rank \in [D -> 1..n] /\ \A l \in D : j.parent[l] # 0 => rank[j.parent[l]] < rank[l]
  BY <1>5 DEF Ranked
<1> DEFINE more == [l \in D \cup {x} |-> IF l = x THEN n + 1 ELSE rank[l]]
<1>7. DOMAIN parent = D \cup {x} /\ parent[x] = p /\ \A l \in D : parent[l] = j.parent[l]
  BY <1>1
<1>8. \A l \in D : j.parent[l] \in D \cup {0} /\ (j.parent[l] = 0 => l = j.probe)
  BY <1>2 DEF Tree
<1>9. 0 \notin D /\ x # 0
  BY <1>2, LitsOfFacts, LitFacts
<1>10. more \in [D \cup {x} -> 1..(n + 1)] /\ \A l \in D : more[l] = rank[l] /\ more[x] = n + 1
  BY <1>1, <1>3, <1>6
<1> HIDE DEF parent, more, n
<1>11. ASSUME NEW l \in D \cup {x}, parent[l] # 0 PROVE more[parent[l]] < more[l]
  <2>1. CASE l = x
    BY <1>3, <1>6, <1>7, <1>10, <2>1
  <2>2. CASE l \in D
    BY <1>6, <1>7, <1>8, <1>10, <1>11, <2>2
  <2> QED BY <2>1, <2>2
<1>12. Ranked(parent, more)
  BY <1>4, <1>7, <1>10, <1>11 DEF Ranked
<1>13. parent \in [D \cup {x} -> D \cup {x} \cup {0}]
  <2>1. parent = [l \in D \cup {x} |-> parent[l]]
    BY DEF parent
  <2>2. \A l \in D \cup {x} : parent[l] \in D \cup {x} \cup {0}
    BY <1>7, <1>8
  <2> QED BY <2>1, <2>2
<1>14. \A l \in D \cup {x} : parent[l] = 0 => l = j.probe
  BY <1>7, <1>8, <1>9
<1>15. Tree(parent, j.probe, V)
  BY <1>2, <1>7, <1>12, <1>13, <1>14 DEF Tree
<1>16. ASSUME NEW l \in D \cup {x}
       PROVE  /\ -l \notin D \cup {x} /\ ~Fixed(r, l)
              /\ parent[l] # 0 => \A m \in M : True(m, parent[l]) => True(m, l)
  <2>1. l \in Lit /\ x \in Lit /\ (-l = x => l = -x) /\ -l # l
    BY <1>2, LitsOfFacts, LitFacts
  <2>2. CASE l = x
    BY <1>1, <1>7, <2>1, <2>2
  <2>3. CASE l \in D
    <3>1. -l \notin D /\ ~Fixed(r, l) /\ (j.parent[l] # 0 => \A m \in M : True(m, j.parent[l]) => True(m, l))
      BY <2>3 DEF ProbeGood
    <3> QED BY <1>1, <1>7, <2>1, <2>3, <3>1
  <2> QED BY <2>2, <2>3
<1>17. ProbeAssign(j, x, p) = [j EXCEPT !.parent = parent]
  BY DEF ProbeAssign, parent
<1>18. /\ DOMAIN ProbeAssign(j, x, p) = DOMAIN j /\ ProbeAssign(j, x, p).parent = parent
       /\ ProbeAssign(j, x, p).name = j.name /\ ProbeAssign(j, x, p).phase = j.phase
       /\ ProbeAssign(j, x, p).probe = j.probe
  BY <1>17 DEF ProbeGood, Has
<1> QED BY <1>7, <1>15, <1>16, <1>18 DEF ProbeGood, Has

\* The clauses of one kind are clauses of the database.
LEMMA KindClauses ==
  ASSUME NEW r, NEW k \in Kinds
  PROVE  r[k] \in SUBSET Clauses(r)
  BY DEF Kinds, Clauses

\* A pair has two elements.
LEMMA PairCount ==
  ASSUME NEW a, NEW b, a # b
  PROVE  IsFiniteSet({a, b}) /\ Cardinality({a, b}) = 2
<1>1. IsFiniteSet({a}) /\ Cardinality({a}) = 1
  BY FS_Singleton
<1>2. /\ IsFiniteSet({a} \cup {b})
      /\ Cardinality({a} \cup {b}) = IF b \in {a} THEN Cardinality({a}) ELSE Cardinality({a}) + 1
  BY <1>1, FS_AddElement
<1>3. {a} \cup {b} = {a, b}
  OBVIOUS
<1> QED BY <1>1, <1>2, <1>3

\* A new binary clause.
LEMMA PairDerived ==
  ASSUME NEW V, NEW M, NEW r \in Databases(V, M), NEW c, Cardinality(c) = 2, NEW k \in Kinds
  PROVE  /\ Derive(r, c, k).units = r.units
         /\ Clauses(Derive(r, c, k)) \subseteq Clauses(r) \cup {c}
<1>1. c # {}
  BY FS_EmptySet
<1>2. Derive(r, c, k) = [r EXCEPT ![k] = @ \cup {c}]
  BY <1>1 DEF Derive
<1>3. CASE k = "irr"
  BY <1>2, <1>3 DEF Databases, Clauses
<1>4. CASE k = "red"
  BY <1>2, <1>4 DEF Databases, Clauses
<1> QED BY <1>3, <1>4 DEF Kinds

\* mark_garbage leaves the units alone and adds no clause.
LEMMA GarbageLess ==
  ASSUME NEW V, NEW M, NEW r \in Databases(V, M), NEW c, NEW k \in Kinds
  PROVE  MarkGarbage(r, c, k).units = r.units /\ Clauses(MarkGarbage(r, c, k)) \subseteq Clauses(r)
<1>1. CASE k = "irr"
  BY <1>1 DEF Databases, Clauses, MarkGarbage
<1>2. CASE k = "red"
  BY <1>2 DEF Databases, Clauses, MarkGarbage
<1> QED BY <1>1, <1>2 DEF Kinds

\* hyper_binary_resolve: the dominator of the reasons implies the forced
\* literal, so that the derived binary clause holds and the dominator is a
\* parent for it.
LEMMA HyperBinaryKeeps ==
  ASSUME NEW V, NEW M, NEW r \in Databases(V, M), NEW j, ProbeGood(j, r, V, M),
         NEW k \in Kinds, NEW c \in Forcing(r, j, r[k])
  PROVE  /\ hyper_binary_resolve(r, j, c, k) \in Databases(V, M)
         /\ ProbeGood(ProbeAssign(j, Forced(r, j, c), Dominator(j, Reasons(j, c))),
                      hyper_binary_resolve(r, j, c, k), V, M)
<1> DEFINE x == Forced(r, j, c)
           dom == Dominator(j, Reasons(j, c))
           new == {-dom, x}
           t == hyper_binary_resolve(r, j, c, k)
<1>1. /\ c \in Clauses(r) /\ x \in c /\ x \in LitsOf(V)
      /\ x \notin TrueIn(r, j) /\ -x \notin TrueIn(r, j)
      /\ Reasons(j, c) \in SUBSET DOMAIN j.parent /\ Reasons(j, c) # {}
  BY KindClauses, ForcedFacts
<1>2. dom \in DOMAIN j.parent /\ \A lit \in Reasons(j, c) : dom \in Above(j, lit)
  BY <1>1, DominatorFacts DEF ProbeGood
<1>3. ASSUME NEW m \in M, True(m, dom) PROVE True(m, x)
  <2>1. \A lit \in Reasons(j, c) : True(m, lit)
    BY <1>1, <1>2, <1>3, AboveSound
  <2> QED BY <2>1, KindClauses, ForcedSound
<1> HIDE DEF x, dom
<1>4. dom \in LitsOf(V) /\ dom \in TrueIn(r, j) /\ dom \in Lit /\ -dom \in LitsOf(V) /\ x \in Lit
  BY <1>1, <1>2, ProbeLits, LitsOfFacts DEF TrueIn
<1>5. -dom # x /\ dom # x /\ - -dom = dom /\ - -x = x /\ -dom # dom /\ -x # x
  <2>1. - -dom = dom /\ - -x = x /\ -dom # dom /\ -x # x
    BY <1>4, LitFacts
  <2> QED BY <1>1, <1>4, <2>1
<1>6. new \in Proper(V, M)
  <2>1. ASSUME NEW m \in M PROVE \E lit \in new : True(m, lit)
    BY <1>3, <1>4, TrueNegated
  <2>2. new \in Sound(V, M)
    BY <1>1, <1>4, <2>1, SoundIf
  <2> QED BY <1>5, <2>2 DEF Proper
<1>7. t \in {r, Replace(r, c, new, k), Derive(r, new, "red")}
  BY DEF hyper_binary_resolve, x, dom
<1>8. "red" \in Kinds
  BY DEF Kinds
<1>9. MarkGarbage(r, c, k) \in Databases(V, M)
  BY DropKeeps
<1> HIDE DEF t
<1>10. t \in Databases(V, M)
  <2> HIDE DEF new
  <2> QED BY <1>6, <1>7, <1>8, ReplaceKeeps, DeriveKeeps
<1>11. t.units = r.units /\ Clauses(t) \subseteq Clauses(r) \cup {new}
  <2>1. CASE t = r
    BY <2>1
  <2>2. CASE t = Replace(r, c, new, k)
    <3>1. /\ t.units = MarkGarbage(r, c, k).units
          /\ Clauses(t) \subseteq Clauses(MarkGarbage(r, c, k)) \cup {new}
      <4>1. Cardinality(new) = 2
        BY <1>5, PairCount
      <4> HIDE DEF new
      <4> QED BY <1>5, <1>9, <2>2, <4>1, PairDerived DEF Replace
    <3> QED BY <3>1, GarbageLess
  <2>3. CASE t = Derive(r, new, "red")
    <3>1. Cardinality(new) = 2
      BY <1>5, PairCount
    <3> HIDE DEF new
    <3> QED BY <1>5, <1>8, <2>3, <3>1, PairDerived
  <2> QED BY <1>7, <2>1, <2>2, <2>3
<1>12. Quiet(t)
  <2>1. -x \notin r.units /\ - -dom \notin r.units
    BY <1>1, <1>2, <1>5 DEF TrueIn, ProbeGood, Fixed
  <2>2. ASSUME NEW d \in Clauses(t)
        PROVE  SatisfiedBy(t.units, d) \/ \E a, b \in d : a # b /\ -a \notin t.units /\ -b \notin t.units
    <3>1. CASE d = new
      <4>1. -dom \in d /\ x \in d
        BY <3>1
      <4> QED BY <1>5, <1>11, <2>1, <4>1
    <3>2. CASE d \in Clauses(r)
      BY <1>11, <3>2 DEF ProbeGood, Quiet
    <3> QED BY <1>11, <3>1, <3>2
  <2> QED BY <1>11, <2>2 DEF ProbeGood, Quiet
<1>13. ProbeGood(j, t, V, M)
  BY <1>11, <1>12 DEF ProbeGood, Fixed
<1>14. x \notin TrueIn(t, j) /\ -x \notin TrueIn(t, j)
  BY <1>1, <1>11 DEF TrueIn
<1>15. ProbeGood(ProbeAssign(j, x, dom), t, V, M)
  BY <1>1, <1>2, <1>3, <1>10, <1>13, <1>14, ProbeAssignGood
<1> QED BY <1>10, <1>15 DEF t, x, dom

\* A literal forced by a binary clause is implied by the single reason.
LEMMA ProbeBinaryGood ==
  ASSUME NEW V, NEW M, NEW r \in Databases(V, M), NEW j, ProbeGood(j, r, V, M),
         NEW c \in Forcing(r, j, BinaryClauses(Clauses(r))), NEW p \in Reasons(j, c)
  PROVE  ProbeGood(ProbeAssign(j, Forced(r, j, c), p), r, V, M)
<1> DEFINE x == Forced(r, j, c)
<1>1. BinaryClauses(Clauses(r)) \in SUBSET Clauses(r) /\ Cardinality(c) = 2
  BY DEF BinaryClauses, Forcing
<1>2. /\ c \in Clauses(r) /\ x \in c /\ x \in LitsOf(V)
      /\ x \notin TrueIn(r, j) /\ -x \notin TrueIn(r, j)
      /\ Reasons(j, c) \in SUBSET DOMAIN j.parent
      /\ \A lit \in c \ {x} : -lit \in TrueIn(r, j)
  BY <1>1, ForcedFacts
<1>3. c \subseteq Lit /\ IsFiniteSet(c)
  BY <1>2, DatabaseFacts, SoundFacts, LitsOfFacts, ClausesFinite
<1>4. \A lit \in Reasons(j, c) : lit \in Lit /\ -lit \in c /\ lit \in TrueIn(r, j) /\ -lit # x
  <2>1. ASSUME NEW lit \in Reasons(j, c)
        PROVE  lit \in Lit /\ -lit \in c /\ lit \in TrueIn(r, j) /\ -lit # x
    <3>1. lit \in DOMAIN j.parent /\ lit \in TrueIn(r, j) /\ lit \in Lit
      BY <1>2, ProbeLits DEF TrueIn
    <3>2. -lit \in c
      BY <1>3, <3>1, NegatedFacts DEF Reasons
    <3>3. -lit = x => lit = -x
      BY <3>1, LitFacts
    <3> QED BY <1>2, <3>1, <3>2, <3>3
  <2> QED BY <2>1
<1>5. ASSUME NEW lit \in Reasons(j, c) PROVE lit = p
  <2>1. IsFiniteSet(c \ {x}) /\ Cardinality(c \ {x}) = 1
    <3>1. /\ IsFiniteSet(c \ {x})
          /\ Cardinality(c \ {x}) = IF x \in c THEN Cardinality(c) - 1 ELSE Cardinality(c)
      BY <1>3, FS_RemoveElement
    <3> QED BY <1>1, <1>2, <3>1
  <2>2. PICK y : c \ {x} = {y}
    BY <2>1, FS_Singleton
  <2>3. -lit = y /\ -p = y
    BY <1>4, <2>2
  <2> QED BY <1>4, <2>3, LitFacts
<1>6. ASSUME NEW m \in M, True(m, p) PROVE True(m, x)
  <2>1. \A lit \in Reasons(j, c) : True(m, lit)
    BY <1>5, <1>6
  <2> QED BY <1>1, <2>1, ForcedSound
<1>7. p \in DOMAIN j.parent
  BY <1>2
<1> HIDE DEF x
<1>8. ProbeGood(ProbeAssign(j, x, p), r, V, M)
  BY <1>2, <1>6, <1>7, ProbeAssignGood
<1> QED BY <1>8 DEF x

\* All literals on the way up from the dominator of a conflict are false.
LEMMA FailedPath ==
  ASSUME NEW V, NEW M, NEW r \in Databases(V, M), NEW j, ProbeGood(j, r, V, M),
         NEW c \in Falsified(r, j)
  PROVE  LET path == Path(j, Dominator(j, Reasons(j, c)))
         IN  path \in Seq(LitsOf(V)) /\ \A i \in 1..Len(path) : -path[i] \in Facts(V, M)
<1> DEFINE dom == Dominator(j, Reasons(j, c))
           path == Path(j, dom)
<1>1. c \in Clauses(r) /\ c \subseteq FalseIn(r, j)
  BY DEF Falsified
<1>2. c \in Sound(V, M) /\ c \subseteq Lit
  BY <1>1, DatabaseFacts, SoundFacts, LitsOfFacts
<1>3. \A lit \in c : -lit \in TrueIn(r, j) /\ lit \notin TrueIn(r, j)
  <2>1. ASSUME NEW lit \in c PROVE -lit \in TrueIn(r, j) /\ lit \notin TrueIn(r, j)
    <3>1. lit \in Lit /\ -lit \in TrueIn(r, j)
      BY <1>1, <1>2, ProbeLits
    <3> QED BY <3>1, ProbeLits
  <2> QED BY <2>1
<1>4. Reasons(j, c) \in SUBSET DOMAIN j.parent
  BY DEF Reasons
<1>5. Reasons(j, c) # {}
  <2>1. ~SatisfiedBy(r.units, c)
    BY <1>3 DEF SatisfiedBy, TrueIn
  <2>2. PICK a \in c : -a \notin r.units
    BY <1>1, <2>1 DEF ProbeGood, Quiet
  <2>3. -a \in DOMAIN j.parent /\ -a \in Negated(c)
    BY <1>3, <2>2 DEF TrueIn, Negated
  <2> QED BY <2>3 DEF Reasons
<1>6. dom \in DOMAIN j.parent /\ \A lit \in Reasons(j, c) : dom \in Above(j, lit)
  BY <1>4, <1>5, DominatorFacts DEF ProbeGood
<1> HIDE DEF dom
<1>7. ASSUME NEW m \in M, True(m, dom) PROVE FALSE
  <2>1. \A lit \in Reasons(j, c) : True(m, lit)
    BY <1>4, <1>6, <1>7, AboveSound
  <2>2. PICK l \in c : True(m, l)
    BY <1>2 DEF Sound, Holds
  <2>3. True(m, -l)
    <3>1. CASE -l \in r.units
      BY <3>1, DatabaseFacts DEF Facts
    <3>2. CASE -l \in DOMAIN j.parent
      BY <2>1, <3>2 DEF Reasons, Negated
    <3> QED BY <1>3, <3>1, <3>2 DEF TrueIn
  <2> QED BY <1>2, <2>2, <2>3, TrueNegated
<1>8. path \in Upward(j.parent, dom)
  BY <1>6, PathFacts DEF ProbeGood
<1>9. path \in Seq(DOMAIN j.parent) /\ Len(path) \in Nat
  BY <1>8 DEF Upward
<1> HIDE DEF path
<1>10. path \in Seq(LitsOf(V))
  <2>1. DOMAIN j.parent \in SUBSET LitsOf(V)
    BY ProbeLits
  <2>2. ASSUME NEW i \in 1..Len(path) PROVE path[i] \in LitsOf(V)
    BY <1>9, <2>1
  <2>3. path = [i \in 1..Len(path) |-> path[i]]
    BY <1>9
  <2> QED BY <1>9, <2>2, <2>3
<1>11. ASSUME NEW i \in 1..Len(path) PROVE -path[i] \in Facts(V, M)
  <2>1. path[i] \in Above(j, dom)
    BY <1>9 DEF Above, ToSet, path
  <2>2. path[i] \in LitsOf(V) /\ -path[i] \in LitsOf(V) /\ path[i] \in Lit
    BY <1>10, LitsOfFacts
  <2>3. ASSUME NEW m \in M, True(m, path[i]) PROVE FALSE
    BY <1>6, <1>7, <2>1, <2>3, AboveSound
  <2> QED BY <2>2, <2>3, TrueNegated DEF Facts
<1> QED BY <1>10, <1>11 DEF path, dom

\* failed_literal assigns the negation of one literal on the path to the UIP.
LEMMA FailParentKeeps ==
  ASSUME NEW V, NEW M, NEW r \in Databases(V, M), NEW lit, -lit \in Facts(V, M)
  PROVE  FailParent(r, lit) \in Databases(V, M)
<1>1. CASE r.unsat \/ -lit \in r.units
  BY <1>1 DEF FailParent
<1>2. CASE ~(r.unsat \/ -lit \in r.units) /\ lit \in r.units
  <2>1. lit \in Facts(V, M)
    BY <1>2, DatabaseFacts
  <2>2. M = {}
    BY <2>1, SoundFacts
  <2>3. FailParent(r, lit) = Unsat(r)
    BY <1>2 DEF FailParent
  <2> QED BY <2>2, <2>3, UnsatKeeps
<1>3. CASE ~(r.unsat \/ -lit \in r.units) /\ lit \notin r.units
  <2>1. FailParent(r, lit) = Propagate(AssignUnit(r, -lit))
    BY <1>3 DEF FailParent
  <2> QED BY <2>1, AssignKeeps, PropagateKeeps
<1> QED BY <1>1, <1>2, <1>3

FailedPaths(V, M) ==
  {path \in Seq(LitsOf(V)) : \A i \in 1..Len(path) : -path[i] \in Facts(V, M)}

FailAll(r, path) == FoldLeft(FailParent, r, path)

\* The same for all literals on the path.
LEMMA FailAllKeep ==
  ASSUME NEW V, NEW M, NEW r \in Databases(V, M), NEW path \in FailedPaths(V, M)
  PROVE  FailAll(r, path) \in Databases(V, M)
<1> DEFINE S == DOMAIN path
           base == r
           A(T) == Databases(V, M)
           pick(T) == Max(T)
           Op(a, x) == FailParent(a, path[x])
           first == [T \in SUBSET S |-> pick(T)]
           sets == [T \in SUBSET S |-> A(T)]
           step == [x \in S |-> [a \in UNION {A(T) : T \in SUBSET S} |-> Op(a, x)]]
           body(g, T) == IF T = {} THEN base
                         ELSE Op(g[T \ {pick(T)}], pick(T))
           Is(g) == g = [T \in SUBSET S |-> body(g, T)]
<1>1. IsFiniteSet(S)
  <2>1. DOMAIN path = 1..Len(path) /\ Len(path) \in Nat
    BY DEF FailedPaths
  <2> QED BY <2>1, FS_Interval
<1>2. ASSUME NEW T \in SUBSET S, T # {} PROVE pick(T) \in T
  <2>1. T \subseteq 0..Len(path) /\ Len(path) \in Nat
    BY DEF FailedPaths
  <2> QED BY <1>2, <2>1, MaxOfBounded
<1>3. base \in A({})
  OBVIOUS
<1>4. ASSUME NEW T \in SUBSET S, NEW x \in T, NEW a \in A(T \ {x}) PROVE Op(a, x) \in A(T)
  <2>1. x \in 1..Len(path)
    BY DEF FailedPaths
  <2>2. -path[x] \in Facts(V, M)
    BY <2>1 DEF FailedPaths
  <2> QED BY <2>2, FailParentKeeps
<1>5. FailAll(r, path) = (CHOOSE g : Is(g))[S]
  BY DEF FailAll, FoldLeft, MapThenFoldSet
<1> HIDE DEF A, Op, pick, S, base
<1>6. Picks(first, S)
  BY <1>2 DEF Picks
<1>7. ASSUME NEW T \in SUBSET S, T # {}
      PROVE  /\ first[T] = pick(T) /\ pick(T) \in T /\ pick(T) \in S
             /\ T \ {pick(T)} \in SUBSET S
             /\ \A a \in A(T \ {pick(T)}) :
                  step[pick(T)][a] = Op(a, pick(T)) /\ Op(a, pick(T)) \in A(T)
  <2>1. pick(T) \in T
    BY <1>2, <1>7
  <2>2. ASSUME NEW a \in A(T \ {pick(T)}) PROVE Op(a, pick(T)) \in A(T)
    BY <1>4, <2>1
  <2> QED BY <2>1, <2>2
<1>8. base \in sets[{}] /\ \A T \in SUBSET S : sets[T] = A(T)
  BY <1>3
<1>9. PICK g : FoldsIn(g, S, base, first, step, sets)
  <2>1. ASSUME NEW T \in SUBSET S, T # {}, NEW a \in sets[T \ {first[T]}]
        PROVE  step[first[T]][a] \in sets[T]
    <3> HIDE DEF step, first, sets
    <3>1. first[T] = pick(T) /\ T \ {pick(T)} \in SUBSET S
      BY <1>7, <2>1
    <3>2. a \in A(T \ {pick(T)})
      BY <1>8, <2>1, <3>1
    <3> QED BY <1>7, <1>8, <2>1, <3>1, <3>2
  <2> HIDE DEF step, first, sets
  <2>2. StaysIn(S, first, step, sets)
    BY <2>1 DEF StaysIn
  <2>3. base \in sets[{}]
    BY <1>8
  <2> QED BY <1>1, <1>6, <2>2, <2>3, FoldExists
<1>10. ASSUME NEW T \in SUBSET S PROVE g[T] = body(g, T)
  <2>1. CASE T = {}
    BY <1>9, <2>1 DEF Folds, FoldsIn
  <2>2. CASE T # {}
    <3>1. g[T] = step[first[T]][g[T \ {first[T]}]]
      <4> HIDE DEF step, first
      <4> QED BY <1>9, <2>2 DEF Folds, FoldsIn
    <3>2. g[T \ {pick(T)}] \in A(T \ {pick(T)})
      BY <1>7, <1>8, <1>9, <2>2 DEF FoldsIn
    <3> HIDE DEF step, first
    <3> QED BY <1>7, <2>2, <3>1, <3>2
  <2> QED BY <2>1, <2>2
<1>11. Is(g)
  <2>1. g = [T \in SUBSET S |-> g[T]]
    BY <1>9 DEF FoldsIn
  <2> HIDE DEF body
  <2> QED BY <1>10, <2>1
<1>12. Is(CHOOSE h : Is(h))
  <2> HIDE DEF Is
  <2> QED BY <1>11
<1>13. ASSUME NEW h, Is(h) PROVE h[S] \in A(S)
  <2> DEFINE Q == {T \in SUBSET S : h[T] \in A(T)}
  <2>1. \A T \in SUBSET S : h[T] = body(h, T)
    BY <1>13
  <2>2. {} \in Q
    BY <1>3, <2>1
  <2>3. ASSUME NEW T \in SUBSET S, T # {}, T \ {first[T]} \in Q PROVE T \in Q
    <3>1. h[T] = Op(h[T \ {pick(T)}], pick(T))
      BY <2>1, <2>3
    <3>2. h[T \ {pick(T)}] \in A(T \ {pick(T)})
      <4> HIDE DEF first
      <4> QED BY <1>7, <2>3
    <3> HIDE DEF first
    <3> QED BY <1>7, <2>3, <3>1, <3>2
  <2>4. SUBSET S \subseteq Q
    <3> HIDE DEF Q, first
    <3> QED BY <1>1, <1>6, <2>2, <2>3, FoldInduction
  <2> QED BY <2>4
<1>14. FailAll(r, path) \in A(S)
  <2> HIDE DEF Is
  <2> QED BY <1>5, <1>12, <1>13
<1> QED BY <1>14 DEF A

\* failed_literal: the UIP of a conflict, and all literals that imply it, are
\* false in all assignments of M.
LEMMA FailedLiteralKeeps ==
  ASSUME NEW V, NEW M, NEW r \in Databases(V, M), NEW j, ProbeGood(j, r, V, M),
         NEW c \in Falsified(r, j)
  PROVE  failed_literal(r, j, c) \in Databases(V, M)
<1> DEFINE path == Path(j, Dominator(j, Reasons(j, c)))
<1>1. path \in Seq(LitsOf(V)) /\ \A i \in 1..Len(path) : -path[i] \in Facts(V, M)
  BY FailedPath
<1>2. failed_literal(r, j, c) = FailAll(r, path)
  BY DEF failed_literal, FailAll
<1> HIDE DEF path
<1>3. path \in FailedPaths(V, M)
  BY <1>1 DEF FailedPaths
<1> QED BY <1>2, <1>3, FailAllKeep

\* A failed literal of the binary implication graph (backbone.cpp).
LEMMA BackboneKeeps ==
  ASSUME NEW V, NEW M, NEW r \in Databases(V, M), NEW lit \in BackboneFailed(r), lit \in LitsOf(V)
  PROVE  Backbone(r, lit) \in Databases(V, M)
<1> DEFINE graph == ActiveBinaries(r)
<1>1. graph \in SUBSET Sound(V, M)
  BY DatabaseFacts DEF ActiveBinaries, BinaryClauses
<1>2. PICK other \in Implied(graph, lit) : -other \in Implied(graph, lit)
  BY DEF BackboneFailed
<1> HIDE DEF graph
<1>3. -lit \in Facts(V, M)
  BY <1>1, <1>2, FailedSound
<1>4. Backbone(r, lit) \in {r, Propagate(AssignUnit(r, -lit))}
  BY DEF Backbone
<1> QED BY <1>3, <1>4, AssignKeeps, PropagateKeeps

-----------------------------------------------------------------------------
(* Vivification and instantiation. *)

\* A clause whose literal may be flipped loses it.
LEMMA InstantiatedSound ==
  ASSUME NEW V, NEW M, NEW c \in Proper(V, M), NEW lit \in c,
         {-lit} \cup (c \ {lit}) \in Sound(V, M)
  PROVE  c \ {lit} \in Proper(V, M)
<1> DEFINE d == {-lit} \cup (c \ {lit})
<1>1. c \in Sound(V, M) /\ lit \in Lit /\ -lit \notin c
  BY SoundFacts, LitsOfFacts DEF Proper
<1>2. (c \ {lit}) \cup (d \ {-lit}) \in Sound(V, M)
  BY <1>1, ResolventSound
<1>3. (c \ {lit}) \cup (d \ {-lit}) = c \ {lit}
  BY <1>1
<1> HIDE DEF d
<1>4. c \ {lit} \in Sound(V, M)
  BY <1>2, <1>3
<1> QED BY <1>4, ProperFacts

\* vivify_clause, whatever it does with the clause: subsumption, a unit, or a
\* shorter clause derived by propagating the negation of its literals.
LEMMA VivifyKeeps ==
  ASSUME NEW V, NEW M, NEW r \in Databases(V, M), NEW k \in Kinds, NEW c \in r[k],
         NEW t \in vivify_clause(r, c, k)
  PROVE  t \in Databases(V, M)
<1> DEFINE open == Unfalsified(r.units, c)
<1>1. c \in Proper(V, M) /\ Clauses(r) \in SUBSET Sound(V, M) /\ r.units \in SUBSET Facts(V, M)
  BY DatabaseFacts
<1>2. open \in Proper(V, M)
  BY <1>1, ProperFacts
<1>3. open \in SUBSET LitsOf(V) /\ open \in Sound(V, M)
  BY <1>2, ProperFacts, SoundFacts
<1>4. MarkGarbage(r, c, k) \in Databases(V, M)
  BY DropKeeps
<1>5. ASSUME NEW d \in VivifySubsuming(r, c, k) PROVE vivify_subsume_clause(r, d, c, k) \in Databases(V, M)
  <2>1. d \in Clauses(r)
    BY GarbageLess DEF VivifySubsuming
  <2> QED BY <2>1, SubsumeClauseKeeps DEF vivify_subsume_clause
<1> HIDE DEF open
<1>6. ASSUME NEW lits \in VivifyShrunken(r, c) PROVE lits \in Proper(V, M)
  <2>1. lits \subseteq open /\ Rup(Clauses(r), r.units, lits)
    BY DEF VivifyShrunken, open
  <2>2. lits \in SUBSET LitsOf(V)
    BY <1>3, <2>1
  <2>3. lits \in Sound(V, M)
    BY <1>1, <2>1, <2>2, RupSound
  <2> QED BY <1>2, <2>1, <2>3, ProperFacts
<1>7. ASSUME NEW lits \in VivifyInstantiated(r, c) PROVE lits \in Proper(V, M)
  <2>1. PICK lit \in open : /\ lits = open \ {lit}
                            /\ Rup(Clauses(r), r.units, {-lit} \cup (open \ {lit}))
    BY DEF VivifyInstantiated, open
  <2>2. {-lit} \cup (open \ {lit}) \in SUBSET LitsOf(V)
    BY <1>3, <2>1, LitsOfFacts
  <2>3. {-lit} \cup (open \ {lit}) \in Sound(V, M)
    BY <1>1, <2>1, <2>2, RupSound
  <2> QED BY <1>2, <2>1, <2>3, InstantiatedSound
<1>8. ASSUME NEW lits \in VivifyShrunken(r, c) \cup VivifyInstantiated(r, c)
      PROVE  vivify_strengthen(r, c, lits, k) \in Databases(V, M)
  <2>1. lits \in Proper(V, M)
    BY <1>6, <1>7
  <2> QED BY <2>1, ReplaceKeeps, PropagateKeeps DEF vivify_strengthen
<1>9. \/ t = MarkGarbage(r, c, k)
      \/ \E d \in VivifySubsuming(r, c, k) : t = vivify_subsume_clause(r, d, c, k)
      \/ \E lits \in VivifyShrunken(r, c) \cup VivifyInstantiated(r, c) :
           t = vivify_strengthen(r, c, lits, k)
  BY DEF vivify_clause
<1> QED BY <1>4, <1>5, <1>8, <1>9

\* instantiate_candidate removes a literal whose assignment together with the
\* negation of the others runs into a conflict.
LEMMA InstantiateKeeps ==
  ASSUME NEW V, NEW M, NEW r \in Databases(V, M), NEW c \in r.irr, NEW lit \in c
  PROVE  instantiate_candidate(r, c, lit) \in Databases(V, M)
<1> DEFINE d == {-lit} \cup (c \ {lit})
<1>1. c \in Proper(V, M) /\ Clauses(r) \in SUBSET Sound(V, M) /\ r.units \in SUBSET Facts(V, M)
  BY DatabaseFacts
<1>2. c \in SUBSET LitsOf(V) /\ lit \in Lit /\ - -lit = lit /\ d \in SUBSET LitsOf(V)
  BY <1>1, ProperFacts, SoundFacts, LitsOfFacts
<1>3. CASE Conflicting(Clauses(r), inst_propagate(r, c, lit))
  <2>1. Negated(d) = {lit} \cup Negated(c \ {lit})
    BY <1>2 DEF Negated
  <2>2. r.units \cup Negated(d) = r.units \cup {lit} \cup Negated(c \ {lit})
    BY <2>1
  <2>3. Rup(Clauses(r), r.units, d)
    BY <1>3, <2>2 DEF Rup, inst_propagate
  <2>4. d \in Sound(V, M)
    BY <1>1, <1>2, <2>3, RupSound
  <2>5. c \ {lit} \in Proper(V, M)
    BY <1>1, <2>4, InstantiatedSound
  <2>6. instantiate_candidate(r, c, lit) = Replace(r, c, c \ {lit}, "irr")
    BY <1>3 DEF instantiate_candidate
  <2> QED BY <2>5, <2>6, ReplaceKeeps DEF Kinds
<1>4. CASE ~Conflicting(Clauses(r), inst_propagate(r, c, lit))
  BY <1>4 DEF instantiate_candidate
<1> QED BY <1>3, <1>4

-----------------------------------------------------------------------------
(* Factoring. *)

\* A set of clauses that hold can be derived.
LEMMA DeriveAllKeeps ==
  ASSUME NEW V, NEW M, NEW r \in Databases(V, M), NEW cs \in SUBSET Proper(V, M)
  PROVE  DeriveAll(r, cs) \in Databases(V, M)
<1> DEFINE S == cs
           base == r
           A(T) == Databases(V, M)
           pick(T) == CHOOSE e \in T : TRUE
           Op(a, x) == Derive(a, x, "irr")
           first == [T \in SUBSET S |-> pick(T)]
           sets == [T \in SUBSET S |-> A(T)]
           step == [x \in S |-> [a \in UNION {A(T) : T \in SUBSET S} |-> Op(a, x)]]
           body(g, T) == IF T = {} THEN base
                         ELSE Op(g[T \ {pick(T)}], pick(T))
           Is(g) == g = [T \in SUBSET S |-> body(g, T)]
<1>1. IsFiniteSet(S)
  BY ClausesFinite, ProperFacts
<1>2. ASSUME NEW T \in SUBSET S, T # {} PROVE pick(T) \in T
  BY <1>2
<1>3. base \in A({})
  OBVIOUS
<1>4. ASSUME NEW T \in SUBSET S, NEW x \in T, NEW a \in A(T \ {x}) PROVE Op(a, x) \in A(T)
  BY DeriveKeeps DEF Kinds
<1>5. DeriveAll(r, cs) = (CHOOSE g : Is(g))[S]
  BY DEF DeriveAll, FoldSet, MapThenFoldSet
<1> HIDE DEF A, Op, pick, S, base
<1>6. Picks(first, S)
  BY <1>2 DEF Picks
<1>7. ASSUME NEW T \in SUBSET S, T # {}
      PROVE  /\ first[T] = pick(T) /\ pick(T) \in T /\ pick(T) \in S
             /\ T \ {pick(T)} \in SUBSET S
             /\ \A a \in A(T \ {pick(T)}) :
                  step[pick(T)][a] = Op(a, pick(T)) /\ Op(a, pick(T)) \in A(T)
  <2>1. pick(T) \in T
    BY <1>2, <1>7
  <2>2. ASSUME NEW a \in A(T \ {pick(T)}) PROVE Op(a, pick(T)) \in A(T)
    BY <1>4, <2>1
  <2> QED BY <2>1, <2>2
<1>8. base \in sets[{}] /\ \A T \in SUBSET S : sets[T] = A(T)
  BY <1>3
<1>9. PICK g : FoldsIn(g, S, base, first, step, sets)
  <2>1. ASSUME NEW T \in SUBSET S, T # {}, NEW a \in sets[T \ {first[T]}]
        PROVE  step[first[T]][a] \in sets[T]
    <3> HIDE DEF step, first, sets
    <3>1. first[T] = pick(T) /\ T \ {pick(T)} \in SUBSET S
      BY <1>7, <2>1
    <3>2. a \in A(T \ {pick(T)})
      BY <1>8, <2>1, <3>1
    <3> QED BY <1>7, <1>8, <2>1, <3>1, <3>2
  <2> HIDE DEF step, first, sets
  <2>2. StaysIn(S, first, step, sets)
    BY <2>1 DEF StaysIn
  <2>3. base \in sets[{}]
    BY <1>8
  <2> QED BY <1>1, <1>6, <2>2, <2>3, FoldExists
<1>10. ASSUME NEW T \in SUBSET S PROVE g[T] = body(g, T)
  <2>1. CASE T = {}
    BY <1>9, <2>1 DEF Folds, FoldsIn
  <2>2. CASE T # {}
    <3>1. g[T] = step[first[T]][g[T \ {first[T]}]]
      <4> HIDE DEF step, first
      <4> QED BY <1>9, <2>2 DEF Folds, FoldsIn
    <3>2. g[T \ {pick(T)}] \in A(T \ {pick(T)})
      BY <1>7, <1>8, <1>9, <2>2 DEF FoldsIn
    <3> HIDE DEF step, first
    <3> QED BY <1>7, <2>2, <3>1, <3>2
  <2> QED BY <2>1, <2>2
<1>11. Is(g)
  <2>1. g = [T \in SUBSET S |-> g[T]]
    BY <1>9 DEF FoldsIn
  <2> HIDE DEF body
  <2> QED BY <1>10, <2>1
<1>12. Is(CHOOSE h : Is(h))
  <2> HIDE DEF Is
  <2> QED BY <1>11
<1>13. ASSUME NEW h, Is(h) PROVE h[S] \in A(S)
  <2> DEFINE Q == {T \in SUBSET S : h[T] \in A(T)}
  <2>1. \A T \in SUBSET S : h[T] = body(h, T)
    BY <1>13
  <2>2. {} \in Q
    BY <1>3, <2>1
  <2>3. ASSUME NEW T \in SUBSET S, T # {}, T \ {first[T]} \in Q PROVE T \in Q
    <3>1. h[T] = Op(h[T \ {pick(T)}], pick(T))
      BY <2>1, <2>3
    <3>2. h[T \ {pick(T)}] \in A(T \ {pick(T)})
      <4> HIDE DEF first
      <4> QED BY <1>7, <2>3
    <3> HIDE DEF first
    <3> QED BY <1>7, <2>3, <3>1, <3>2
  <2>4. SUBSET S \subseteq Q
    <3> HIDE DEF Q, first
    <3> QED BY <1>1, <1>6, <2>2, <2>3, FoldInduction
  <2> QED BY <2>4
<1>14. DeriveAll(r, cs) \in A(S)
  <2> HIDE DEF Is
  <2> QED BY <1>5, <1>12, <1>13
<1> QED BY <1>14 DEF A

\* A quotient together with each factor is a clause of the database.
LEMMA CandidatesSound ==
  ASSUME NEW V, NEW M, NEW r \in Databases(V, M), NEW factors,
         NEW q \in Quotients(r, factors), NEW f \in factors
  PROVE  q \cup {f} \in Proper(V, M)
  BY DatabaseFacts DEF Quotients, FactorCandidates, Clauses

\* Quotients of factors that clash are implied.
LEMMA QuotientsSound ==
  ASSUME NEW V, NEW M, NEW r \in Databases(V, M), NEW factors, SelfSubsuming(factors)
  PROVE  Quotients(r, factors) \in SUBSET Proper(V, M)
<1>1. PICK f \in factors : -f \in factors
  BY DEF SelfSubsuming
<1>2. ASSUME NEW q \in Quotients(r, factors) PROVE q \in Proper(V, M)
  <2>1. q \cup {f} \in Proper(V, M) /\ q \cup {-f} \in Proper(V, M)
    BY <1>1, CandidatesSound
  <2>2. q \cup {f} \in Sound(V, M) /\ q \cup {-f} \in Sound(V, M) /\ q \cup {f} \in SUBSET LitsOf(V)
    BY <2>1, ProperFacts, SoundFacts
  <2>3. f \in Lit /\ q \in SUBSET LitsOf(V)
    BY <2>2, LitsOfFacts
  <2>4. ASSUME NEW m \in M PROVE \E lit \in q : True(m, lit)
    <3>1. (\E lit \in q \cup {f} : True(m, lit)) /\ (\E lit \in q \cup {-f} : True(m, lit))
      BY <2>2 DEF Sound, Holds
    <3> QED BY <2>3, <3>1, TrueNegated
  <2>5. q \in Sound(V, M)
    BY <2>3, <2>4, SoundIf
  <2> QED BY <2>1, <2>5, ProperFacts
<1> QED BY <1>2

\* The value of the fresh variable: false when all factors are true.
Extended(m, factors, x) ==
  IF \A f \in factors : True(m, f) THEN m \ {x} ELSE m \cup {x}
ExtendedAll(M, factors, x) == {Extended(m, factors, x) : m \in M}

\* An assignment extended to a fresh variable x: it is false where all factors
\* are true, and nothing else changes.
LEMMA ExtendedTrue ==
  ASSUME NEW V, NEW m, NEW factors, NEW x \in Var, x \notin V
  PROVE  /\ \A lit \in LitsOf(V) : True(Extended(m, factors, x), lit) <=> True(m, lit)
         /\ True(Extended(m, factors, x), x) <=> ~(\A f \in factors : True(m, f))
<1>1. ASSUME NEW lit \in LitsOf(V) PROVE True(Extended(m, factors, x), lit) <=> True(m, lit)
  <2>1. lit \in Lit /\ VarOf(lit) # x
    BY LitsOfFacts DEF LitsOf
  <2>2. VarOf(lit) \in Extended(m, factors, x) <=> VarOf(lit) \in m
    BY <2>1 DEF Extended
  <2> QED BY <2>1, <2>2, TrueDepends
<1>2. True(Extended(m, factors, x), x) <=> ~(\A f \in factors : True(m, f))
  <2>1. x > 0 /\ x \in Nat
    BY VarFacts
  <2>2. x \in Extended(m, factors, x) <=> ~(\A f \in factors : True(m, f))
    BY DEF Extended
  <2> QED BY <2>1, <2>2 DEF True
<1> QED BY <1>1, <1>2

\* Nothing that held before is lost in the extended assignments.
LEMMA ExtendedKeeps ==
  ASSUME NEW V, NEW M, NEW r \in Databases(V, M), NEW factors, NEW x \in Var, x \notin V
  PROVE  r \in Databases(V, ExtendedAll(M, factors, x))
<1> DEFINE N == ExtendedAll(M, factors, x)
<1>1. ASSUME NEW n \in N PROVE \E m \in M : \A lit \in LitsOf(V) : True(n, lit) <=> True(m, lit)
  <2>1. PICK m \in M : n = Extended(m, factors, x)
    BY DEF ExtendedAll
  <2> QED BY <2>1, ExtendedTrue
<1>2. M = {} => N = {}
  BY DEF ExtendedAll
<1> HIDE DEF N
<1>3. Sound(V, M) \subseteq Sound(V, N)
  <2>1. ASSUME NEW c \in Sound(V, M), NEW n \in N PROVE Holds(n, c)
    <3>1. PICK m \in M : \A lit \in LitsOf(V) : True(n, lit) <=> True(m, lit)
      BY <1>1
    <3>2. c \subseteq LitsOf(V) /\ Holds(m, c)
      BY DEF Sound
    <3> QED BY <3>1, <3>2 DEF Holds
  <2> QED BY <2>1 DEF Sound
<1>4. Facts(V, M) \subseteq Facts(V, N)
  BY <1>1 DEF Facts
<1>5. Proper(V, M) \subseteq Proper(V, N) /\ SoundEntries(V, M) \subseteq SoundEntries(V, N)
  BY <1>3 DEF Proper, SoundEntries
<1>6. r.stack \in Seq(SoundEntries(V, N))
  BY <1>5, DatabaseFacts
<1>7. r \in Databases(V, N)
  BY <1>2, <1>4, <1>5, <1>6 DEF Databases
<1> QED BY <1>7 DEF N

\* The clauses with the fresh variable.
LEMMA FactoredSound ==
  ASSUME NEW V, NEW M, NEW r \in Databases(V, M), NEW factors \in SUBSET LitsOf(V),
         NEW x \in Var, x \notin V
  PROVE  Dividers(factors, x) \cup Divided(Quotients(r, factors), x)
           \in SUBSET Proper(V \cup {x}, ExtendedAll(M, factors, x))
<1> DEFINE N == ExtendedAll(M, factors, x)
           W == V \cup {x}
<1>1. x \in LitsOf(W) /\ -x \in LitsOf(W) /\ LitsOf(V) \subseteq LitsOf(W) /\ x \in Lit /\ x # -x
  BY VarFacts DEF LitsOf
<1>2. \A lit \in LitsOf(V) : lit # x /\ lit # -x /\ lit \in Lit /\ - -lit = lit /\ -lit \in LitsOf(V)
  BY VarFacts, LitsOfFacts DEF LitsOf
<1>3. ASSUME NEW f \in factors PROVE {x, f} \in Proper(W, N)
  <2>1. {x, f} \in SUBSET LitsOf(W)
    BY <1>1
  <2>2. ASSUME NEW n \in N PROVE \E lit \in {x, f} : True(n, lit)
    <3>1. PICK m \in M : n = Extended(m, factors, x)
      BY DEF ExtendedAll
    <3>2. True(n, f) <=> True(m, f)
      BY <3>1, ExtendedTrue
    <3>3. True(n, x) <=> ~(\A g \in factors : True(m, g))
      BY <3>1, ExtendedTrue
    <3> QED BY <3>2, <3>3
  <2> HIDE DEF N, W
  <2>3. {x, f} \in Sound(W, N)
    BY <2>1, <2>2, SoundIf
  <2>4. \A lit \in {x, f} : -lit \notin {x, f}
    <3>1. -x # f /\ -f # x /\ -f # f
      <4>1. f \in LitsOf(V) /\ f \in Lit
        BY <1>2
      <4> QED BY <1>2, <4>1, LitFacts
    <3> QED BY <1>1, <3>1
  <2> QED BY <2>3, <2>4 DEF Proper
<1>4. ASSUME NEW q \in Quotients(r, factors), factors # {} PROVE {-x} \cup q \in Proper(W, N)
  <2>1. PICK f0 \in factors : TRUE
    BY <1>4
  <2>2. q \cup {f0} \in Proper(V, M)
    BY CandidatesSound
  <2>3. q \in SUBSET LitsOf(V) /\ \A lit \in q : -lit \notin q
    BY <2>2, ProperFacts, SoundFacts DEF Proper
  <2>4. {-x} \cup q \in SUBSET LitsOf(W)
    BY <1>1, <2>3
  <2>5. ASSUME NEW n \in N PROVE \E lit \in {-x} \cup q : True(n, lit)
    <3>1. PICK m \in M : n = Extended(m, factors, x)
      BY DEF ExtendedAll
    <3>2. True(n, x) <=> ~(\A g \in factors : True(m, g))
      BY <3>1, ExtendedTrue
    <3>3. CASE ~True(n, x)
      BY <1>1, <3>3, TrueNegated
    <3>4. CASE True(n, x)
      <4>1. PICK g \in factors : ~True(m, g)
        BY <3>2, <3>4
      <4>2. q \cup {g} \in Sound(V, M)
        BY CandidatesSound, ProperFacts
      <4>3. PICK lit \in q \cup {g} : True(m, lit)
        BY <4>2 DEF Sound, Holds
      <4>4. lit \in q
        BY <4>1, <4>3
      <4>5. True(n, lit)
        BY <2>3, <3>1, <4>3, <4>4, ExtendedTrue
      <4> QED BY <4>4, <4>5
    <3> QED BY <3>3, <3>4
  <2> HIDE DEF N, W
  <2>6. {-x} \cup q \in Sound(W, N)
    BY <2>4, <2>5, SoundIf
  <2>7. \A lit \in {-x} \cup q : -lit \notin {-x} \cup q
    <3>1. - -x = x /\ x \notin q /\ -x \notin q
      BY <1>1, <1>2, <2>3, LitFacts
    <3>2. \A lit \in q : -lit # -x
      BY <1>2, <2>3
    <3> QED BY <1>1, <2>3, <3>1, <3>2
  <2> QED BY <2>6, <2>7 DEF Proper
<1>5. factors = {} => Quotients(r, factors) \subseteq Clauses(r)
  BY DEF Quotients, FactorCandidates, Clauses
<1>6. ASSUME NEW q \in Quotients(r, factors), factors = {} PROVE {-x} \cup q \in Proper(W, N)
  <2>1. q \in Proper(V, M)
    BY <1>5, <1>6, DatabaseFacts
  <2>2. q \in SUBSET LitsOf(V) /\ \A lit \in q : -lit \notin q
    BY <2>1, ProperFacts, SoundFacts DEF Proper
  <2>3. {-x} \cup q \in SUBSET LitsOf(W)
    BY <1>1, <2>2
  <2>4. ASSUME NEW n \in N PROVE \E lit \in {-x} \cup q : True(n, lit)
    <3>1. PICK m \in M : n = Extended(m, factors, x)
      BY DEF ExtendedAll
    <3>2. ~True(n, x)
      BY <1>6, <3>1, ExtendedTrue
    <3> QED BY <1>1, <3>2, TrueNegated
  <2> HIDE DEF N, W
  <2>5. {-x} \cup q \in Sound(W, N)
    BY <2>3, <2>4, SoundIf
  <2>6. \A lit \in {-x} \cup q : -lit \notin {-x} \cup q
    <3>1. - -x = x /\ x \notin q /\ -x \notin q
      BY <1>1, <1>2, <2>2, LitFacts
    <3>2. \A lit \in q : -lit # -x
      BY <1>2, <2>2
    <3> QED BY <1>1, <2>2, <3>1, <3>2
  <2> QED BY <2>5, <2>6 DEF Proper
<1>7. ASSUME NEW c \in Dividers(factors, x) \cup Divided(Quotients(r, factors), x)
      PROVE  c \in Proper(W, N)
  <2>1. CASE \E f \in factors : c = {x, f}
    BY <1>3, <2>1
  <2>2. CASE \E q \in Quotients(r, factors) : c = {-x} \cup q
    BY <1>4, <1>6, <2>2
  <2> QED BY <2>1, <2>2 DEF Dividers, Divided
<1> HIDE DEF N, W
<1>8. Dividers(factors, x) \cup Divided(Quotients(r, factors), x) \in SUBSET Proper(W, N)
  BY <1>7
<1> QED BY <1>8 DEF N, W

\* apply_factoring with two complementary factors adds the quotients, which are
\* resolvents.
LEMMA FactorKeeps ==
  ASSUME NEW V, NEW M, NEW r \in Databases(V, M), NEW factors, SelfSubsuming(factors), NEW x
  PROVE  apply_factoring(r, factors, x) \in Databases(V, M)
<1>1. Quotients(r, factors) \in SUBSET Proper(V, M)
  BY QuotientsSound
<1>2. apply_factoring(r, factors, x)
        = Propagate(Drop(DeriveAll(r, Quotients(r, factors)), Products(factors, Quotients(r, factors))))
  BY DEF apply_factoring
<1> QED BY <1>1, <1>2, DeriveAllKeeps, DropKeeps, PropagateKeeps

\* apply_factoring with a fresh variable: its clauses hold in all assignments
\* of M once these are extended to the variable as its definition says.
LEMMA FactorFreshKeeps ==
  ASSUME NEW V, NEW M, NEW r \in Databases(V, M), NEW factors \in SUBSET LitsOf(V),
         ~SelfSubsuming(factors), NEW x \in Var, r.status[x] = "unused"
  PROVE  apply_factoring(r, factors, x)
           \in Databases(V \cup {x}, ExtendedAll(M, factors, x))
<1> DEFINE N == ExtendedAll(M, factors, x)
           W == V \cup {x}
           new == Dividers(factors, x) \cup Divided(Quotients(r, factors), x)
           t == SetStatus(r, x, "active")
<1>1. x \notin V /\ x \in Lit /\ VarOf(x) = x
  BY DatabaseFacts, VarFacts
<1>2. new \in SUBSET Proper(W, N)
  BY <1>1, FactoredSound
<1>3. r \in Databases(V, N)
  BY <1>1, ExtendedKeeps
<1>4. t \in Databases(V, N)
  BY <1>1, <1>3, SetStatusKeeps DEF Status
<1>5. \A v \in Var : v \in W => t.status[v] # "unused"
  <2>1. t.status = [r.status EXCEPT ![x] = "active"]
    BY <1>1 DEF SetStatus, Databases
  <2>2. r.status \in [Var -> Status] /\ \A v \in Var : v \in V => r.status[v] # "unused"
    BY DatabaseFacts
  <2> QED BY <2>1, <2>2
<1>6. t \in Databases(W, N)
  <2>1. V \subseteq W
    OBVIOUS
  <2> HIDE DEF W, t, N
  <2> QED BY <1>4, <1>5, <2>1, Widen
<1>7. apply_factoring(r, factors, x)
        = Propagate(Drop(DeriveAll(t, new), Products(factors, Quotients(r, factors))))
  BY DEF apply_factoring
<1> HIDE DEF N, W, new, t
<1>8. apply_factoring(r, factors, x) \in Databases(W, N)
  BY <1>2, <1>6, <1>7, DeriveAllKeeps, DropKeeps, PropagateKeeps
<1> QED BY <1>8 DEF N, W

-----------------------------------------------------------------------------
(* Sweeping. *)

Equivalences(V, M) ==
  {e \in [lit : LitsOf(V), repr : LitsOf(V)] : \A m \in M : True(m, e.lit) <=> True(m, e.repr)}

Sweeps(V, M) == [s : Databases(V, M), work : SUBSET Facts(V, M)]

\* A literal is replaced by an equivalent one.
LEMMA ExchangedSound ==
  ASSUME NEW V, NEW M, NEW c \in Proper(V, M), NEW lit \in LitsOf(V), NEW repr \in LitsOf(V),
         \A m \in M : True(m, lit) <=> True(m, repr), -repr \notin c,
         NEW units \in SUBSET Facts(V, M)
  PROVE  ({repr} \cup (c \ {lit})) \ Negated(units) \in Proper(V, M)
<1> DEFINE d == {repr} \cup (c \ {lit})
<1>1. c \in Sound(V, M) /\ c \in SUBSET LitsOf(V)
  BY ProperFacts, SoundFacts
<1>2. d \in SUBSET LitsOf(V)
  BY <1>1
<1>3. ASSUME NEW m \in M PROVE \E l \in d : True(m, l)
  <2>1. PICK l \in c : True(m, l)
    BY <1>1 DEF Sound, Holds
  <2> QED BY <2>1
<1>4. \A l \in d : -l \notin d
  <2>1. \A l \in LitsOf(V) : - -l = l /\ -l # l
    BY LitsOfFacts, LitFacts
  <2>2. ASSUME NEW l \in d, -l \in d PROVE FALSE
    <3>1. CASE l = repr
      BY <2>1, <2>2, <3>1
    <3>2. CASE l \in c /\ -l = repr
      BY <1>1, <2>1, <3>2
    <3>3. CASE l \in c /\ -l \in c
      BY <3>3 DEF Proper
    <3> QED BY <2>2, <3>1, <3>2, <3>3
  <2> QED BY <2>2
<1> HIDE DEF d
<1>5. d \in Sound(V, M)
  BY <1>2, <1>3, SoundIf
<1>6. d \in Proper(V, M)
  BY <1>4, <1>5 DEF Proper
<1>7. Unfalsified(units, d) \in Proper(V, M)
  BY <1>6, ProperFacts
<1> QED BY <1>7 DEF Unfalsified, d

\* A clause in which sweeping replaces a literal by one of the same value.
LEMMA SubstituteClauseKeeps ==
  ASSUME NEW V, NEW M, NEW t \in Sweeps(V, M), NEW c \in Proper(V, M), NEW k \in Kinds,
         NEW lit \in LitsOf(V), NEW repr \in LitsOf(V),
         \A m \in M : True(m, lit) <=> True(m, repr)
  PROVE  SubstituteClause(t, c, k, lit, repr) \in Sweeps(V, M)
<1> DEFINE r == t.s
           new == ({repr} \cup (c \ {lit})) \ Negated(r.units)
           unit == Cardinality(new) = 1
           same == Fixed(r, lit) \/ Fixed(r, repr) \/ r.unsat
           gone == -repr \in c \/ SatisfiedBy(r.units, c)
           all == SubstituteClause(t, c, k, lit, repr)
           dropped == [t EXCEPT !.s = MarkGarbage(r, c, k)]
           more == IF unit THEN t.work \cup new ELSE t.work
           replaced == [t EXCEPT !.s = Replace(r, c, new, k), !.work = more]
<1>1. all = IF same THEN t ELSE IF gone THEN dropped ELSE replaced
  BY DEF SubstituteClause
<1>2. r \in Databases(V, M) /\ t.work \in SUBSET Facts(V, M)
  BY DEF Sweeps
<1>3. dropped \in Sweeps(V, M)
  <2>1. MarkGarbage(r, c, k) \in Databases(V, M)
    BY <1>2, DropKeeps
  <2> HIDE DEF r
  <2> QED BY <2>1 DEF Sweeps
<1>4. ASSUME ~gone PROVE replaced \in Sweeps(V, M)
  <2>1. r.units \in SUBSET Facts(V, M)
    BY <1>2, DatabaseFacts
  <2>2. -repr \notin c
    BY <1>4
  <2> HIDE DEF r
  <2>3. new \in Proper(V, M)
    BY <2>1, <2>2, ExchangedSound
  <2> HIDE DEF new
  <2>4. Replace(r, c, new, k) \in Databases(V, M)
    BY <1>2, <2>3, ReplaceKeeps
  <2>5. more \in SUBSET Facts(V, M)
    <3>1. ASSUME unit PROVE new \in SUBSET Facts(V, M)
      <4>1. new \in Sound(V, M) /\ new \in SUBSET LitsOf(V)
        BY <2>3, ProperFacts, SoundFacts
      <4>2. PICK x : new = {x}
        BY <3>1, <4>1, ClausesFinite, FS_Singleton
      <4> QED BY <4>1, <4>2, SoundFacts
    <3> HIDE DEF unit
    <3> QED BY <1>2, <3>1
  <2> HIDE DEF more
  <2> QED BY <2>4, <2>5 DEF Sweeps
<1> HIDE DEF all, same, gone, dropped, replaced
<1>5. all \in Sweeps(V, M)
  BY <1>1, <1>3, <1>4
<1> QED BY <1>5 DEF all

\* The same for all clauses of one kind in which the literal occurs.
LEMMA SubstitutedKeeps ==
  ASSUME NEW V, NEW M, NEW t \in Sweeps(V, M), NEW eq \in Equivalences(V, M),
         NEW lit, NEW repr, NEW k \in Kinds,
         <<lit, repr>> = <<eq.lit, eq.repr>> \/ <<lit, repr>> = << -eq.lit, -eq.repr >>
  PROVE  Substituted(t, lit, repr, k) \in Sweeps(V, M)
<1> DEFINE S == Occs(t.s[k], lit)
           base == t
           A(T) == Sweeps(V, M)
           pick(T) == CHOOSE e \in T : TRUE
           Op(a, x) == SubstituteClause(a, x, k, lit, repr)
           first == [T \in SUBSET S |-> pick(T)]
           sets == [T \in SUBSET S |-> A(T)]
           step == [x \in S |-> [a \in UNION {A(T) : T \in SUBSET S} |-> Op(a, x)]]
           body(g, T) == IF T = {} THEN base
                         ELSE Op(g[T \ {pick(T)}], pick(T))
           Is(g) == g = [T \in SUBSET S |-> body(g, T)]
<1>1. IsFiniteSet(S)
  <2>1. t.s[k] \in SUBSET Sound(V, M)
    BY DatabaseFacts DEF Sweeps
  <2>2. Occs(t.s[k], lit) \in SUBSET Sound(V, M)
    BY <2>1 DEF Occs
  <2> QED BY <2>2, ClausesFinite
<1>2. ASSUME NEW T \in SUBSET S, T # {} PROVE pick(T) \in T
  BY <1>2
<1>3. base \in A({})
  OBVIOUS
<1>4. ASSUME NEW T \in SUBSET S, NEW x \in T, NEW a \in A(T \ {x}) PROVE Op(a, x) \in A(T)
  <2>1. t.s[k] \in SUBSET Proper(V, M)
    BY DatabaseFacts DEF Sweeps
  <2>2. x \in Proper(V, M)
    BY <2>1 DEF Occs
  <2>3. /\ lit \in LitsOf(V) /\ repr \in LitsOf(V)
        /\ \A m \in M : True(m, lit) <=> True(m, repr)
    <3>1. eq.lit \in LitsOf(V) /\ eq.repr \in LitsOf(V) /\ \A m \in M : True(m, eq.lit) <=> True(m, eq.repr)
      BY DEF Equivalences
    <3>2. /\ eq.lit \in Lit /\ eq.repr \in Lit /\ -eq.lit \in LitsOf(V) /\ -eq.repr \in LitsOf(V)
      BY <3>1, LitsOfFacts
    <3>3. \A m \in M : True(m, -eq.lit) <=> True(m, -eq.repr)
      BY <3>1, <3>2, TrueNegated
    <3> QED BY <3>1, <3>2, <3>3
  <2> QED BY <2>2, <2>3, SubstituteClauseKeeps
<1>5. Substituted(t, lit, repr, k) = (CHOOSE g : Is(g))[S]
  BY DEF Substituted, FoldSet, MapThenFoldSet
<1> HIDE DEF A, Op, pick, S, base
<1>6. Picks(first, S)
  BY <1>2 DEF Picks
<1>7. ASSUME NEW T \in SUBSET S, T # {}
      PROVE  /\ first[T] = pick(T) /\ pick(T) \in T /\ pick(T) \in S
             /\ T \ {pick(T)} \in SUBSET S
             /\ \A a \in A(T \ {pick(T)}) :
                  step[pick(T)][a] = Op(a, pick(T)) /\ Op(a, pick(T)) \in A(T)
  <2>1. pick(T) \in T
    BY <1>2, <1>7
  <2>2. ASSUME NEW a \in A(T \ {pick(T)}) PROVE Op(a, pick(T)) \in A(T)
    BY <1>4, <2>1
  <2> QED BY <2>1, <2>2
<1>8. base \in sets[{}] /\ \A T \in SUBSET S : sets[T] = A(T)
  BY <1>3
<1>9. PICK g : FoldsIn(g, S, base, first, step, sets)
  <2>1. ASSUME NEW T \in SUBSET S, T # {}, NEW a \in sets[T \ {first[T]}]
        PROVE  step[first[T]][a] \in sets[T]
    <3> HIDE DEF step, first, sets
    <3>1. first[T] = pick(T) /\ T \ {pick(T)} \in SUBSET S
      BY <1>7, <2>1
    <3>2. a \in A(T \ {pick(T)})
      BY <1>8, <2>1, <3>1
    <3> QED BY <1>7, <1>8, <2>1, <3>1, <3>2
  <2> HIDE DEF step, first, sets
  <2>2. StaysIn(S, first, step, sets)
    BY <2>1 DEF StaysIn
  <2>3. base \in sets[{}]
    BY <1>8
  <2> QED BY <1>1, <1>6, <2>2, <2>3, FoldExists
<1>10. ASSUME NEW T \in SUBSET S PROVE g[T] = body(g, T)
  <2>1. CASE T = {}
    BY <1>9, <2>1 DEF Folds, FoldsIn
  <2>2. CASE T # {}
    <3>1. g[T] = step[first[T]][g[T \ {first[T]}]]
      <4> HIDE DEF step, first
      <4> QED BY <1>9, <2>2 DEF Folds, FoldsIn
    <3>2. g[T \ {pick(T)}] \in A(T \ {pick(T)})
      BY <1>7, <1>8, <1>9, <2>2 DEF FoldsIn
    <3> HIDE DEF step, first
    <3> QED BY <1>7, <2>2, <3>1, <3>2
  <2> QED BY <2>1, <2>2
<1>11. Is(g)
  <2>1. g = [T \in SUBSET S |-> g[T]]
    BY <1>9 DEF FoldsIn
  <2> HIDE DEF body
  <2> QED BY <1>10, <2>1
<1>12. Is(CHOOSE h : Is(h))
  <2> HIDE DEF Is
  <2> QED BY <1>11
<1>13. ASSUME NEW h, Is(h) PROVE h[S] \in A(S)
  <2> DEFINE Q == {T \in SUBSET S : h[T] \in A(T)}
  <2>1. \A T \in SUBSET S : h[T] = body(h, T)
    BY <1>13
  <2>2. {} \in Q
    BY <1>3, <2>1
  <2>3. ASSUME NEW T \in SUBSET S, T # {}, T \ {first[T]} \in Q PROVE T \in Q
    <3>1. h[T] = Op(h[T \ {pick(T)}], pick(T))
      BY <2>1, <2>3
    <3>2. h[T \ {pick(T)}] \in A(T \ {pick(T)})
      <4> HIDE DEF first
      <4> QED BY <1>7, <2>3
    <3> HIDE DEF first
    <3> QED BY <1>7, <2>3, <3>1, <3>2
  <2>4. SUBSET S \subseteq Q
    <3> HIDE DEF Q, first
    <3> QED BY <1>1, <1>6, <2>2, <2>3, FoldInduction
  <2> QED BY <2>4
<1>14. Substituted(t, lit, repr, k) \in A(S)
  <2> HIDE DEF Is
  <2> QED BY <1>5, <1>12, <1>13
<1> QED BY <1>14 DEF A

\* A binary clause of an equivalence.
LEMMA SweepBinaryKeeps ==
  ASSUME NEW V, NEW M, NEW t \in Sweeps(V, M), NEW a, NEW b, {a, b} \in Sound(V, M)
  PROVE  SweepBinary(t, a, b) \in Sweeps(V, M)
<1> DEFINE r == t.s
           false == {l \in {a, b} : -l \in r.units}
           left == {a, b} \ false
<1>1. r \in Databases(V, M)
  BY DEF Sweeps
<1>2. r.units \in SUBSET Facts(V, M) /\ r.units \in SUBSET Lit /\ {a, b} \subseteq Lit
  BY <1>1, DatabaseFacts, SoundFacts, LitsOfFacts
<1>3. left = Unfalsified(r.units, {a, b})
  BY <1>2, NegatedFacts DEF Unfalsified
<1>4. left \in Sound(V, M) /\ left \in SUBSET LitsOf(V)
  BY <1>2, <1>3, SoundFacts
<1>5. SweepBinary(t, a, b) = IF r.unsat \/ false = {} THEN t
                             ELSE IF left = {} THEN [t EXCEPT !.s = Unsat(r)]
                             ELSE [t EXCEPT !.s = MoreUnits(r, left)]
  BY DEF SweepBinary, MoreUnits, Sweeps
<1>6. ASSUME left = {} PROVE [t EXCEPT !.s = Unsat(r)] \in Sweeps(V, M)
  <2>1. M = {}
    BY <1>4, <1>6, SoundFacts
  <2>2. Unsat(r) \in Databases(V, M)
    BY <1>1, <2>1, UnsatKeeps
  <2> HIDE DEF r
  <2> QED BY <2>2 DEF Sweeps
<1>7. ASSUME false # {}, left # {} PROVE [t EXCEPT !.s = MoreUnits(r, left)] \in Sweeps(V, M)
  <2>1. PICK x : left = {x}
    BY <1>7
  <2>2. left \in SUBSET Facts(V, M)
    <3> HIDE DEF left
    <3> QED BY <1>4, <2>1, SoundFacts
  <2> HIDE DEF left
  <2>3. MoreUnits(r, left) \in Databases(V, M)
    BY <1>1, <2>2, UnitsKeep
  <2> HIDE DEF r
  <2> QED BY <2>3 DEF Sweeps
<1> HIDE DEF false, left, r
<1> QED BY <1>5, <1>6, <1>7

\* An equivalence makes two binary clauses hold.
LEMMA EquivalenceClauses ==
  ASSUME NEW V, NEW M, NEW e \in Equivalences(V, M)
  PROVE  /\ {-e.lit, e.repr} \in Sound(V, M) /\ {- -e.lit, -e.repr} \in Sound(V, M)
         /\ e.lit \in Lit /\ e.repr \in Lit
<1>1. e.lit \in LitsOf(V) /\ e.repr \in LitsOf(V) /\ \A m \in M : True(m, e.lit) <=> True(m, e.repr)
  BY DEF Equivalences
<1>2. /\ e.lit \in Lit /\ e.repr \in Lit /\ -e.lit \in LitsOf(V) /\ -e.repr \in LitsOf(V)
      /\ - -e.lit = e.lit
  BY <1>1, LitsOfFacts
<1>3. {-e.lit, e.repr} \in SUBSET LitsOf(V) /\ {e.lit, -e.repr} \in SUBSET LitsOf(V)
  BY <1>1, <1>2
<1>4. ASSUME NEW m \in M
      PROVE  (\E l \in {-e.lit, e.repr} : True(m, l)) /\ (\E l \in {e.lit, -e.repr} : True(m, l))
  BY <1>1, <1>2, TrueNegated
<1> QED BY <1>2, <1>3, <1>4, SoundIf

\* Both directions of a substitution.
LEMMA SideKeeps ==
  ASSUME NEW V, NEW M, NEW t \in Sweeps(V, M), NEW e \in Equivalences(V, M)
  PROVE  /\ SubstituteSide(t, e.lit, e.repr) \in Sweeps(V, M)
         /\ SubstituteSide(t, -e.lit, -e.repr) \in Sweeps(V, M)
<1>1. "irr" \in Kinds /\ "red" \in Kinds
  BY DEF Kinds
<1>2. substitute_connected_clauses(t, e.lit, e.repr) \in Sweeps(V, M)
  BY <1>1, SubstitutedKeeps DEF substitute_connected_clauses
<1>3. substitute_connected_clauses(t, -e.lit, -e.repr) \in Sweeps(V, M)
  BY <1>1, SubstitutedKeeps DEF substitute_connected_clauses
<1>4. {-e.lit, e.repr} \in Sound(V, M) /\ {- -e.lit, -e.repr} \in Sound(V, M)
  BY EquivalenceClauses
<1> QED BY <1>2, <1>3, <1>4, SweepBinaryKeeps DEF SubstituteSide

\* substitute_connected_clauses for one equivalence.
LEMMA SubstituteEquivalenceKeeps ==
  ASSUME NEW V, NEW M, NEW t \in Sweeps(V, M), NEW e \in Equivalences(V, M)
  PROVE  SubstituteEquivalence(t, e) \in Sweeps(V, M)
<1>1. SubstituteSide(SubstituteSide(t, -e.lit, -e.repr), e.lit, e.repr) \in Sweeps(V, M)
  BY SideKeeps
<1>2. ASSUME NEW u \in Sweeps(V, M) PROVE MarkSubstituted(u, e) \in Sweeps(V, M)
  <2>1. SetStatus(u.s, e.lit, "substituted") \in Databases(V, M)
    BY EquivalenceClauses, SetStatusKeeps DEF Sweeps, Status
  <2>2. [u EXCEPT !.s = SetStatus(u.s, e.lit, "substituted")] \in Sweeps(V, M)
    BY <2>1 DEF Sweeps
  <2>3. MarkSubstituted(u, e) \in {u, [u EXCEPT !.s = SetStatus(u.s, e.lit, "substituted")]}
    BY DEF MarkSubstituted
  <2> QED BY <2>2, <2>3
<1> QED BY <1>1, <1>2 DEF SubstituteEquivalence

SweepAll(t, merged) == FoldLeft(SubstituteEquivalence, t, merged)

\* The same for all equivalences that the sweep of a variable found.
LEMMA SweepAllKeeps ==
  ASSUME NEW V, NEW M, NEW t \in Sweeps(V, M), NEW merged \in Seq(Equivalences(V, M))
  PROVE  SweepAll(t, merged) \in Sweeps(V, M)
<1> DEFINE S == DOMAIN merged
           base == t
           A(T) == Sweeps(V, M)
           pick(T) == Max(T)
           Op(a, x) == SubstituteEquivalence(a, merged[x])
           first == [T \in SUBSET S |-> pick(T)]
           sets == [T \in SUBSET S |-> A(T)]
           step == [x \in S |-> [a \in UNION {A(T) : T \in SUBSET S} |-> Op(a, x)]]
           body(g, T) == IF T = {} THEN base
                         ELSE Op(g[T \ {pick(T)}], pick(T))
           Is(g) == g = [T \in SUBSET S |-> body(g, T)]
<1>1. IsFiniteSet(S)
  <2>1. DOMAIN merged = 1..Len(merged) /\ Len(merged) \in Nat
    OBVIOUS
  <2> QED BY <2>1, FS_Interval
<1>2. ASSUME NEW T \in SUBSET S, T # {} PROVE pick(T) \in T
  <2>1. T \subseteq 0..Len(merged) /\ Len(merged) \in Nat
    OBVIOUS
  <2> QED BY <1>2, <2>1, MaxOfBounded
<1>3. base \in A({})
  OBVIOUS
<1>4. ASSUME NEW T \in SUBSET S, NEW x \in T, NEW a \in A(T \ {x}) PROVE Op(a, x) \in A(T)
  <2>1. merged[x] \in Equivalences(V, M)
    OBVIOUS
  <2> QED BY <2>1, SubstituteEquivalenceKeeps
<1>5. SweepAll(t, merged) = (CHOOSE g : Is(g))[S]
  BY DEF SweepAll, FoldLeft, MapThenFoldSet
<1> HIDE DEF A, Op, pick, S, base
<1>6. Picks(first, S)
  BY <1>2 DEF Picks
<1>7. ASSUME NEW T \in SUBSET S, T # {}
      PROVE  /\ first[T] = pick(T) /\ pick(T) \in T /\ pick(T) \in S
             /\ T \ {pick(T)} \in SUBSET S
             /\ \A a \in A(T \ {pick(T)}) :
                  step[pick(T)][a] = Op(a, pick(T)) /\ Op(a, pick(T)) \in A(T)
  <2>1. pick(T) \in T
    BY <1>2, <1>7
  <2>2. ASSUME NEW a \in A(T \ {pick(T)}) PROVE Op(a, pick(T)) \in A(T)
    BY <1>4, <2>1
  <2> QED BY <2>1, <2>2
<1>8. base \in sets[{}] /\ \A T \in SUBSET S : sets[T] = A(T)
  BY <1>3
<1>9. PICK g : FoldsIn(g, S, base, first, step, sets)
  <2>1. ASSUME NEW T \in SUBSET S, T # {}, NEW a \in sets[T \ {first[T]}]
        PROVE  step[first[T]][a] \in sets[T]
    <3> HIDE DEF step, first, sets
    <3>1. first[T] = pick(T) /\ T \ {pick(T)} \in SUBSET S
      BY <1>7, <2>1
    <3>2. a \in A(T \ {pick(T)})
      BY <1>8, <2>1, <3>1
    <3> QED BY <1>7, <1>8, <2>1, <3>1, <3>2
  <2> HIDE DEF step, first, sets
  <2>2. StaysIn(S, first, step, sets)
    BY <2>1 DEF StaysIn
  <2>3. base \in sets[{}]
    BY <1>8
  <2> QED BY <1>1, <1>6, <2>2, <2>3, FoldExists
<1>10. ASSUME NEW T \in SUBSET S PROVE g[T] = body(g, T)
  <2>1. CASE T = {}
    BY <1>9, <2>1 DEF Folds, FoldsIn
  <2>2. CASE T # {}
    <3>1. g[T] = step[first[T]][g[T \ {first[T]}]]
      <4> HIDE DEF step, first
      <4> QED BY <1>9, <2>2 DEF Folds, FoldsIn
    <3>2. g[T \ {pick(T)}] \in A(T \ {pick(T)})
      BY <1>7, <1>8, <1>9, <2>2 DEF FoldsIn
    <3> HIDE DEF step, first
    <3> QED BY <1>7, <2>2, <3>1, <3>2
  <2> QED BY <2>1, <2>2
<1>11. Is(g)
  <2>1. g = [T \in SUBSET S |-> g[T]]
    BY <1>9 DEF FoldsIn
  <2> HIDE DEF body
  <2> QED BY <1>10, <2>1
<1>12. Is(CHOOSE h : Is(h))
  <2> HIDE DEF Is
  <2> QED BY <1>11
<1>13. ASSUME NEW h, Is(h) PROVE h[S] \in A(S)
  <2> DEFINE Q == {T \in SUBSET S : h[T] \in A(T)}
  <2>1. \A T \in SUBSET S : h[T] = body(h, T)
    BY <1>13
  <2>2. {} \in Q
    BY <1>3, <2>1
  <2>3. ASSUME NEW T \in SUBSET S, T # {}, T \ {first[T]} \in Q PROVE T \in Q
    <3>1. h[T] = Op(h[T \ {pick(T)}], pick(T))
      BY <2>1, <2>3
    <3>2. h[T \ {pick(T)}] \in A(T \ {pick(T)})
      <4> HIDE DEF first
      <4> QED BY <1>7, <2>3
    <3> HIDE DEF first
    <3> QED BY <1>7, <2>3, <3>1, <3>2
  <2>4. SUBSET S \subseteq Q
    <3> HIDE DEF Q, first
    <3> QED BY <1>1, <1>6, <2>2, <2>3, FoldInduction
  <2> QED BY <2>4
<1>14. SweepAll(t, merged) \in A(S)
  <2> HIDE DEF Is
  <2> QED BY <1>5, <1>12, <1>13
<1> QED BY <1>14 DEF A

\* The clauses that sweeping gives to the sub-solver hold.
LEMMA SweepableSound ==
  ASSUME NEW V, NEW M, NEW r \in Databases(V, M)
  PROVE  Sweepable(r) \in SUBSET Proper(V, M) /\ Sweepable(r) \in SUBSET Sound(V, M)
  BY DatabaseFacts DEF Sweepable

\* sweep_dense_propagate over the units that the sweep found.
LEMMA DensePropagateKeeps ==
  ASSUME NEW V, NEW M, NEW r \in Databases(V, M), NEW work \in SUBSET Facts(V, M)
  PROVE  DensePropagate(r, work) \in Databases(V, M)
<1> DEFINE lits == NewUnits(Sweepable(r), r.units, work)
           t == MoreUnits(r, lits)
           seen == {c \in Sweepable(r) : c \cap Negated(lits) # {}}
<1>1. r.units \in SUBSET Facts(V, M) /\ Sweepable(r) \in SUBSET Sound(V, M)
  BY DatabaseFacts, SweepableSound
<1>2. lits \in SUBSET Facts(V, M)
  BY <1>1, NewUnitsSound
<1>3. DensePropagate(r, work) = IF r.unsat \/ Conflicting(seen, t.units) THEN Unsat(r)
                                ELSE Drop(t, {c \in Clauses(r) : c \cap lits # {}})
  BY DEF DensePropagate, MoreUnits
<1> HIDE DEF lits
<1>4. t \in Databases(V, M)
  BY <1>2, UnitsKeep
<1>5. ASSUME r.unsat \/ Conflicting(seen, t.units) PROVE M = {}
  <2>1. t.units \in SUBSET Facts(V, M)
    BY <1>4, DatabaseFacts
  <2>2. seen \in SUBSET Sound(V, M)
    BY <1>1
  <2> HIDE DEF seen, t
  <2> QED BY <1>5, <2>1, <2>2, ConflictSound, DatabaseFacts
<1> HIDE DEF seen, t
<1> QED BY <1>3, <1>4, <1>5, UnsatKeeps, DropKeeps

\* Clauses that have no model with a literal's negation imply the literal.
LEMMA NoModelFacts ==
  ASSUME NEW V, NEW M, M \subseteq SUBSET Var, NEW cs \in SUBSET Sound(V, M), NEW lits,
         NoModel(cs, lits), NEW m \in M
  PROVE  \E lit \in lits : ~True(m, lit)
<1>1. \A c \in cs : Holds(m, c)
  BY DEF Sound
<1>2. m \in SUBSET Var
  OBVIOUS
<1> QED BY <1>1, <1>2 DEF NoModel, IsModel

SweepGood(j, V, M) ==
  /\ Has(j, {"name", "phase"}) /\ j.name = "sweep" /\ j.phase \in {"round", "variable"}
  /\ j.phase = "variable" =>
       /\ Has(j, {"clauses", "merged", "work"})
       /\ j.clauses \in SUBSET Sound(V, M) /\ j.merged \in Seq(Equivalences(V, M))
       /\ j.work \in SUBSET Facts(V, M)

\* A round of sweeping starts with nothing to substitute.
LEMMA SweepRoundGood ==
  ASSUME NEW V, NEW M
  PROVE  SweepGood(SweepRound, V, M)
  BY DEF SweepGood, SweepRound, Has

\* The environment of a variable consists of clauses that hold: if the sub-
\* solver finds no model of it, no assignment is left.
LEMMA SweepVariableGood ==
  ASSUME NEW V, NEW M, M \subseteq SUBSET Var, NEW r \in Databases(V, M)
  PROVE  SweepGood(SweepJob(r), V, M) /\ (NoModel(Environment(r), {}) => M = {})
<1>1. Environment(r) \in SUBSET Proper(V, M)
  BY DatabaseFacts, SweepableSound, CollectedSound DEF Environment
<1>2. Environment(r) \in SUBSET Sound(V, M)
  BY <1>1, ProperFacts
<1>3. NoModel(Environment(r), {}) => M = {}
  <2>1. ASSUME NoModel(Environment(r), {}), NEW m \in M PROVE FALSE
    <3>1. \E lit \in {} : ~True(m, lit)
      BY <1>2, <2>1, NoModelFacts
    <3> QED BY <3>1
  <2> QED BY <2>1
<1>4. <<>> \in Seq(Equivalences(V, M))
  OBVIOUS
<1>5. SweepGood(SweepJob(r), V, M)
  BY <1>2, <1>4 DEF SweepGood, SweepJob, Has
<1> QED BY <1>3, <1>5

\* Sweeping looks at literals in use only.
LEMMA RepresentativesUsed ==
  ASSUME NEW V, NEW M, NEW r, NEW j, SweepGood(j, V, M), j.phase = "variable", NEW lit \in Lit,
         VarOf(lit) \in Representatives(r, j)
  PROVE  lit \in LitsOf(V)
<1>1. PICK c \in j.clauses : VarOf(lit) \in Vars(c)
  BY DEF Representatives
<1>2. c \in SUBSET LitsOf(V)
  BY SoundFacts DEF SweepGood
<1> QED BY <1>1, <1>2 DEF Vars, LitsOf

\* A literal true in all models of the environment is a fact.
LEMMA SweepUnitKeeps ==
  ASSUME NEW V, NEW M, M \subseteq SUBSET Var, NEW r \in Databases(V, M), NEW j, SweepGood(j, V, M),
         j.phase = "variable", NEW lit \in SweepFixed(r, j)
  PROVE  /\ AssignUnit(r, lit) \in Databases(V, M)
         /\ SweepGood([j EXCEPT !.work = @ \cup {lit}], V, M)
<1>1. lit \in Lit /\ VarOf(lit) \in Representatives(r, j) /\ NoModel(j.clauses, {-lit})
  BY DEF SweepFixed
<1>2. lit \in LitsOf(V)
  BY <1>1, RepresentativesUsed
<1>3. ASSUME NEW m \in M PROVE ~True(m, -lit)
  <2>1. j.clauses \in SUBSET Sound(V, M)
    BY DEF SweepGood
  <2>2. \E l \in {-lit} : ~True(m, l)
    BY <1>1, <2>1, NoModelFacts
  <2> QED BY <2>2
<1>4. lit \in Facts(V, M)
  BY <1>1, <1>2, <1>3, TrueNegated DEF Facts
<1>5. AssignUnit(r, lit) \in Databases(V, M)
  BY <1>4, AssignKeeps
<1>6. SweepGood([j EXCEPT !.work = @ \cup {lit}], V, M)
  BY <1>4 DEF SweepGood, Has
<1> QED BY <1>5, <1>6

\* Two literals equal in all models of the environment are equal in all
\* assignments of M, and so are the entries for them.
LEMMA SweepEquivalenceKeeps ==
  ASSUME NEW V, NEW M, M \subseteq SUBSET Var, NEW r \in Databases(V, M), NEW j, SweepGood(j, V, M),
         j.phase = "variable", NEW frozen, NEW p \in SweepEquivalent(r, j, frozen)
  PROVE  /\ PushEquivalence(r, p[1], p[2]) \in Databases(V, M)
         /\ SweepGood([j EXCEPT !.merged = Append(@, [lit |-> p[1], repr |-> p[2]])], V, M)
<1> DEFINE e == [lit |-> p[1], repr |-> p[2]]
<1>1. /\ p[1] \in Var /\ p[2] \in Lit
      /\ {p[1], VarOf(p[2])} \subseteq Representatives(r, j)
      /\ NoModel(j.clauses, {p[1], -p[2]}) /\ NoModel(j.clauses, {-p[1], p[2]})
  BY DEF SweepEquivalent
<1>2. p[1] \in Lit /\ VarOf(p[1]) = p[1] /\ -p[1] \in Lit /\ -p[2] \in Lit
  BY <1>1, VarFacts, LitFacts
<1>3. p[1] \in LitsOf(V) /\ p[2] \in LitsOf(V)
  BY <1>1, <1>2, RepresentativesUsed
<1>4. ASSUME NEW m \in M PROVE True(m, p[1]) <=> True(m, p[2])
  <2>1. j.clauses \in SUBSET Sound(V, M)
    BY DEF SweepGood
  <2>2. (\E lit \in {p[1], -p[2]} : ~True(m, lit)) /\ (\E lit \in {-p[1], p[2]} : ~True(m, lit))
    BY <1>1, <2>1, NoModelFacts
  <2> QED BY <1>1, <1>2, <2>2, TrueNegated
<1>5. e \in Equivalences(V, M) /\ e.lit = p[1] /\ e.repr = p[2]
  BY <1>3, <1>4 DEF Equivalences
<1>6. {-p[1], p[2]} \in Sound(V, M) /\ {p[1], -p[2]} \in Sound(V, M)
  <2>1. {-e.lit, e.repr} \in Sound(V, M) /\ {- -e.lit, -e.repr} \in Sound(V, M)
    BY <1>5, EquivalenceClauses
  <2> HIDE DEF e
  <2>2. - -p[1] = p[1]
    BY <1>2, LitFacts
  <2> QED BY <1>5, <2>1, <2>2
<1>7. /\ Entry({p[1]}, {p[1], -p[2]}) \in SoundEntries(V, M)
      /\ Entry({-p[1]}, {-p[1], p[2]}) \in SoundEntries(V, M)
  BY <1>2, <1>6 DEF Entry, SoundEntries
<1>8. << Entry({p[1]}, {p[1], -p[2]}), Entry({-p[1]}, {-p[1], p[2]}) >> \in Seq(SoundEntries(V, M))
  BY <1>7
<1>9. PushEquivalence(r, p[1], p[2]) \in Databases(V, M)
  BY <1>8, PushKeeps DEF PushEquivalence
<1>10. Append(j.merged, e) \in Seq(Equivalences(V, M))
  BY <1>5 DEF SweepGood
<1>11. SweepGood([j EXCEPT !.merged = Append(@, e)], V, M)
  <2> HIDE DEF e
  <2> QED BY <1>10 DEF SweepGood, Has
<1> QED BY <1>9, <1>11

\* The end of sweep_variable: substitution and propagation.
LEMMA FinishVariableKeeps ==
  ASSUME NEW V, NEW M, NEW r \in Databases(V, M), NEW j, SweepGood(j, V, M), j.phase = "variable"
  PROVE  FinishVariable(r, j) \in Databases(V, M)
<1> DEFINE t == [s |-> r, work |-> j.work]
           u == SweepAll(t, j.merged)
<1>1. t \in Sweeps(V, M)
  BY DEF Sweeps, SweepGood
<1>2. u \in Sweeps(V, M)
  <2> HIDE DEF t
  <2> QED BY <1>1, SweepAllKeeps DEF SweepGood
<1>3. FinishVariable(r, j) = DensePropagate(u.s, u.work)
  BY DEF FinishVariable, SweepAll
<1> HIDE DEF u
<1> QED BY <1>2, <1>3, DensePropagateKeeps DEF Sweeps
==============================================================================

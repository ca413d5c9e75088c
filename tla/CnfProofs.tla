------------------------------ MODULE CnfProofs ------------------------------
(***************************************************************************)
(* Lemmas that the proofs about the R layer share: induction as the least  *)
(* counterexample of a set of numbers, the maximum that sat_n_vars is, and *)
(* what an assignment makes of a literal.                                  *)
(***************************************************************************)
EXTENDS Cnf, FiniteSetsExt, FiniteSetTheorems, TLAPS

\* A set of numbers that is not empty has a least one.
LEMMA LeastNumber ==
  ASSUME NEW S, S \subseteq Nat, S # {}
  PROVE  \E m \in S : \A n \in S : m <= n
<1>1. IsWellFoundedOn(OpToRel(<, Nat), Nat)
  BY NatLessThanWellFounded
<1>2. PICK m \in S : \A n \in S : <<n, m>> \notin OpToRel(<, Nat)
  BY <1>1, WFMin
<1>3. ASSUME NEW n \in S PROVE m <= n
  <2>1. ~(n < m)
    BY <1>2 DEF OpToRel
  <2> QED BY <2>1
<1> QED BY <1>3

\* What holds of 0, and of the next number after each, holds of every number.
LEMMA Induction ==
  ASSUME NEW S, 0 \in S, \A n \in Nat : n \in S => n + 1 \in S
  PROVE  Nat \subseteq S
<1> SUFFICES ASSUME ~(Nat \subseteq S) PROVE FALSE
  OBVIOUS
<1>1. PICK m \in Nat \ S : \A n \in Nat \ S : m <= n
  <2> DEFINE T == Nat \ S
  <2>1. T \subseteq Nat /\ T # {}
    OBVIOUS
  <2> QED BY <2>1, LeastNumber
<1>2. m - 1 \in Nat /\ m - 1 \in S
  BY <1>1
<1> QED BY <1>1, <1>2

\* A bounded set of numbers that is not empty has a maximum, and Max is it.
LEMMA MaxOfBounded ==
  ASSUME NEW b \in Nat, NEW S, S \subseteq 0..b, S # {}
  PROVE  Max(S) \in S /\ \A x \in S : x <= Max(S)
<1> DEFINE T == {b - x : x \in S}
<1>1. PICK m \in T : \A n \in T : m <= n
  <2>1. ASSUME NEW x \in S PROVE b - x \in Nat
    OBVIOUS
  <2>2. T \subseteq Nat /\ T # {}
    BY <2>1
  <2> QED BY <2>2, LeastNumber
<1>2. PICK x \in S : m = b - x
  BY <1>1
<1>3. \A y \in S : x >= y
  BY <1>1, <1>2
<1> QED BY <1>2, <1>3 DEF Max

\* A member that no other exceeds is the maximum.
LEMMA MaxIs ==
  ASSUME NEW S, S \subseteq Int, NEW m \in S, \A x \in S : x <= m
  PROVE  Max(S) = m
<1>1. PICK x \in S : x = Max(S) /\ \A y \in S : x >= y
  BY DEF Max
<1> QED BY <1>1

\* Literals are integers other than 0, and have a variable.
LEMMA LitFacts ==
  ASSUME NEW lit \in Lit
  PROVE  /\ lit \in Int /\ lit # 0
         /\ VarOf(lit) \in Var /\ VarOf(lit) \in Nat
         /\ -lit \in Lit /\ VarOf(-lit) = VarOf(lit)
  BY MaxVarAssumption DEF Lit, Var, VarOf

\* Variables are literals.
LEMMA VarFacts ==
  ASSUME NEW v \in Var
  PROVE  /\ v \in Lit /\ -v \in Lit /\ v \in Nat /\ v > 0
         /\ VarOf(v) = v /\ VarOf(-v) = v
  BY MaxVarAssumption DEF Lit, Var, VarOf

\* The largest of a number of variables and the variables of some literals.
LEMMA MaxVarOf ==
  ASSUME NEW n \in 0..MaxVar, NEW lits, lits \subseteq Lit
  PROVE  LET m == Max({n} \cup {VarOf(lit) : lit \in lits})
         IN  /\ m \in n..MaxVar
             /\ m \in {n} \cup {VarOf(lit) : lit \in lits}
             /\ \A lit \in lits : VarOf(lit) <= m
<1> DEFINE S == {n} \cup {VarOf(lit) : lit \in lits}
<1>1. MaxVar \in Nat
  BY MaxVarAssumption
<1>2. ASSUME NEW lit \in lits PROVE VarOf(lit) \in 0..MaxVar
  BY LitFacts, <1>1 DEF Var
<1>3. S \subseteq 0..MaxVar /\ S # {}
  BY <1>2
<1>4. Max(S) \in S /\ \A x \in S : x <= Max(S)
  BY <1>1, <1>3, MaxOfBounded
<1>5. Max(S) \in n..MaxVar
  BY <1>3, <1>4
<1> QED BY <1>4, <1>5

\* A literal depends on its own variable only.
LEMMA TrueDepends ==
  ASSUME NEW lit \in Lit, NEW p, NEW q,
         VarOf(lit) \in p <=> VarOf(lit) \in q
  PROVE  True(p, lit) <=> True(q, lit)
  BY LitFacts DEF True, VarOf

\* A model depends on the variables of the clauses and the assumptions only.
LEMMA ModelDepends ==
  ASSUME NEW F, F \subseteq SUBSET Lit, NEW A, A \subseteq Lit, NEW p, NEW q,
         \A c \in F : \A lit \in c : VarOf(lit) \in p <=> VarOf(lit) \in q,
         \A lit \in A : VarOf(lit) \in p <=> VarOf(lit) \in q
  PROVE  IsModel(p, F, A) <=> IsModel(q, F, A)
<1>1. ASSUME NEW c \in F, NEW lit \in c PROVE True(p, lit) <=> True(q, lit)
  <2>1. lit \in Lit
    OBVIOUS
  <2> QED BY <2>1, TrueDepends
<1>2. ASSUME NEW lit \in A PROVE True(p, lit) <=> True(q, lit)
  <2>1. lit \in Lit
    OBVIOUS
  <2> QED BY <2>1, TrueDepends
<1>3. ASSUME NEW c \in F PROVE Holds(p, c) <=> Holds(q, c)
  BY <1>1 DEF Holds
<1> QED BY <1>2, <1>3 DEF IsModel
=============================================================================

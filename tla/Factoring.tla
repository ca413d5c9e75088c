------------------------------ MODULE Factoring ------------------------------
(***************************************************************************)
(* Bounded variable addition: clauses f \/ q for all f of a set of factors *)
(* and all q of a set of quotients are replaced, with a fresh variable x,  *)
(* by x \/ f for the factors and -x \/ q for the quotients.                *)
(***************************************************************************)
EXTENDS Subsumption

CONSTANT UserVars  \* variables of the user; the others are for extensions

ASSUME UserVarsAssumption == UserVars \in 0..MaxVar

Fresh(s) == {v \in Var : v > UserVars /\ s.status[v] = "unused"}

\* factor_mode: irredundant clauses, and the binary ones of both kinds.
FactorCandidates(s) == s.irr \cup {c \in s.red : Cardinality(c) = 2}

\* next_factor, factorize_next: what remains of the clauses with every factor.
Quotients(s, factors) ==
  {q \in {c \ factors : c \in FactorCandidates(s)} :
     \A f \in factors : q \cup {f} \in FactorCandidates(s)}

Products(factors, quotients) == {{f} \cup q : f \in factors, q \in quotients}

\* best_quotient: fewer clauses afterwards.
Reduction(factors, quotients) ==
  Cardinality(factors) * Cardinality(quotients)
    - (Cardinality(factors) + Cardinality(quotients))

Factors(s) ==
  {fs \in SUBSET {lit \in Lit : Active(s, lit)} :
     /\ Cardinality(fs) >= 2
     /\ Reduction(fs, Quotients(s, fs)) > ElimBound}

DeriveAll(s, cs) == FoldSet(LAMBDA c, t : Derive(t, c, "irr"), s, cs)

\* self_subsuming_factor: two factors clash, and the quotients are implied.
SelfSubsuming(factors) == \E f \in factors : -f \in factors

\* add_factored_divider, add_factored_quotient with the fresh variable.
Dividers(factors, x) == {{x, f} : f \in factors}
Divided(quotients, x) == {{-x} \cup q : q \in quotients}

\* apply_factoring, with the propagation at the end of factor.
apply_factoring(s, factors, x) ==
  LET quotients == Quotients(s, factors)
      new == IF SelfSubsuming(factors) THEN quotients
             ELSE Dividers(factors, x) \cup Divided(quotients, x)
      t   == IF SelfSubsuming(factors) THEN s
             ELSE SetStatus(s, x, "active")
  IN  Propagate(Drop(DeriveAll(t, new), Products(factors, quotients)))
=============================================================================

------------------------ MODULE CardinalityEncodings ------------------------
(***************************************************************************)
(* The cardinality encodings of R/cardinality.R: "at most", "at least" and *)
(* "exactly" k of some literals, as clauses over the literals and          *)
(* auxiliary variables above `top'.  An encoding is a record: its clauses, *)
(* the highest variable it uses, and whether it fits below the ceiling.    *)
(* The order in which the clauses are built is left out.                   *)
(***************************************************************************)
EXTENDS Cnf, Sequences, FiniteSetsExt, Combinatorics

CONSTANT PairwiseMax  \* "auto" builds at most this many pairwise clauses (64)

ASSUME PairwiseMaxAssumption == PairwiseMax \in Nat

Encoding(clauses, top) == [ok |-> TRUE, clauses |-> clauses, top |-> top]
TooLarge(top)          == [ok |-> FALSE, clauses |-> {}, top |-> top]

Negated(literals) == [i \in DOMAIN literals |-> -literals[i]]
Units(literals)   == {{literals[i]} : i \in DOMAIN literals}

-----------------------------------------------------------------------------
\* mutant: off by one
encode_pairwise_k(literals, k) ==
  {{-literals[i] : i \in idx} : idx \in kSubset(k, DOMAIN literals)}

\* Forbid every (k+1)-subset.
encode_pairwise(literals, k) ==
  {{-literals[i] : i \in idx} : idx \in kSubset(k + 1, DOMAIN literals)}

\* Sinz's sequential counter: s(i, j) says that at least j of the first i
\* literals are true.  1 <= k < n here.
encode_sequential(literals, k, top) ==
  LET n       == Len(literals)
      s(i, j) == top + (i - 1) * k + j
      Middle  == 2..(n - 1)
  IN  Encoding(
        {{-literals[1], s(1, 1)}}
        \cup {{-s(1, j)} : j \in 2..k}
        \cup {{-literals[i], s(i, 1)} : i \in Middle}
        \cup {{-s(i - 1, 1), s(i, 1)} : i \in Middle}
        \cup {{-literals[i], -s(i - 1, j - 1), s(i, j)} : i \in Middle, j \in 2..k}
        \cup {{-s(i - 1, j), s(i, j)} : i \in Middle, j \in 2..k}
        \cup {{-literals[i], -s(i - 1, k)} : i \in Middle}
        \cup {{-literals[n], -s(n - 1, k)}},
        top + (n - 1) * k)

choose_encoding(encoding, n, k) ==
  CASE encoding # "auto"   -> encoding
    [] k = 0 \/ k >= n     -> "pairwise"
    [] OTHER               -> IF choose(n, k + 1) <= PairwiseMax
                              THEN "pairwise" ELSE "sequential"

encode_at_most(literals, k, encoding, top) ==
  LET n == Len(literals)
  IN  CASE k >= n -> Encoding({}, top)
        [] k = 0  -> Encoding(Units(Negated(literals)), top)
        [] OTHER  ->
             IF choose_encoding(encoding, n, k) = "pairwise"
             THEN Encoding(encode_pairwise(literals, k), top)
             ELSE IF top + (n - 1) * k > MaxVar
                  THEN TooLarge(top)
                  ELSE encode_sequential(literals, k, top)

encode_at_least(literals, k, encoding, top) ==
  LET n == Len(literals)
  IN  CASE k = 0 -> Encoding({}, top)
        [] k > n -> Encoding({{}}, top)
        [] OTHER -> encode_at_most(Negated(literals), n - k, encoding, top)

\* mutant: both halves allocate above the same variable
encode_exactly_overlapping(literals, k, encoding, top) ==
  LET lower == encode_at_least(literals, k, encoding, top)
      upper == encode_at_most(literals, k, encoding, top)
  IN  IF lower.ok /\ upper.ok
      THEN Encoding(lower.clauses \cup upper.clauses, Max({lower.top, upper.top}))
      ELSE TooLarge(top)

\* The second half allocates above the first.
encode_exactly(literals, k, encoding, top) ==
  LET lower == encode_at_least(literals, k, encoding, top)
      upper == encode_at_most(literals, k, encoding, lower.top)
  IN  IF lower.ok /\ upper.ok
      THEN Encoding(lower.clauses \cup upper.clauses, upper.top)
      ELSE TooLarge(top)

\* mutant: auxiliaries start right above the variables the solver knows
aux_floor_known(n_vars, literals) == n_vars

\* The floor clears the variables in use and the literals themselves.
aux_floor(n_vars, literals) ==
  Max({n_vars} \cup {VarOf(literals[i]) : i \in DOMAIN literals})

check_distinct(literals) ==
  \A i, j \in DOMAIN literals : VarOf(literals[i]) = VarOf(literals[j]) => i = j

\* The arguments of sat_at_most, sat_at_least and sat_exactly.
CardinalityCalls ==
  [op : {"at_most", "at_least", "exactly"}, literals : Seq(Int), k : Nat,
   encoding : {"auto", "pairwise", "sequential"}]

encode(call, top) ==
  CASE call.op = "at_most"  -> encode_at_most(call.literals, call.k, call.encoding, top)
    [] call.op = "at_least" -> encode_at_least(call.literals, call.k, call.encoding, top)
    [] call.op = "exactly"  -> encode_exactly(call.literals, call.k, call.encoding, top)

-----------------------------------------------------------------------------
(* What the calls are documented to require. *)

Count(vars, literals) ==
  Quantify(DOMAIN literals, LAMBDA i : True(vars, literals[i]))

Requires(call, vars) ==
  LET n == Count(vars, call.literals)
  IN  CASE call.op = "at_most"  -> n <= call.k
        [] call.op = "at_least" -> n >= call.k
        [] call.op = "exactly"  -> n = call.k

VarsIn(clauses) == {VarOf(lit) : lit \in UNION clauses}
=============================================================================

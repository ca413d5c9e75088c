--------------------------- MODULE EncodingCalls ---------------------------
(***************************************************************************)
(* One call of sat_at_most, sat_at_least or sat_exactly, encoded on a      *)
(* solver that knows some number of variables, and compared with what the  *)
(* call is documented to require.                                          *)
(***************************************************************************)
EXTENDS CardinalityEncodings

CONSTANTS
  Requests,  \* the calls
  Known      \* the numbers of variables the solver may know beforehand

\* The literals have passed as_literals and check_distinct.
ASSUME RequestsAssumption ==
  /\ \A call \in Requests : /\ call \in CardinalityCalls
                            /\ call.literals \in Seq(Lit)
                            /\ check_distinct(call.literals)
  /\ Known \subseteq 0..MaxVar

VARIABLES request, known, encoded

Nothing == Encoding({}, -1)

EncodeInit ==
  /\ request \in Requests
  /\ known \in Known
  /\ encoded = Nothing

Floor == aux_floor(known, request.literals)

Encode ==
  /\ encoded = Nothing
  /\ encoded' = encode(request, Floor)
  /\ UNCHANGED <<request, known>>

EncodeSpec == EncodeInit /\ [][Encode]_<<request, known, encoded>>

UserVars == {VarOf(request.literals[i]) : i \in DOMAIN request.literals}

\* An assignment of the user's variables extends to a model of the clauses
\* exactly when it has the number of true literals asked for: no encoding
\* loses a solution or admits a wrong one (encode_at_most, encode_at_least,
\* sat_exactly).
EncodingExact ==
  encoded # Nothing /\ encoded.ok =>
    \A vars \in SUBSET UserVars :
      Requires(request, vars) <=>
        \E aux \in SUBSET ((Floor + 1)..encoded.top) :
          IsModel(vars \cup aux, encoded.clauses, {})

\* The clauses mention the user's variables and exactly the auxiliary range
\* that add_cardinality records, all of it below the ceiling: nothing the
\* solver knew is touched, and once they are added sat_n_vars covers the range.
AuxiliariesAreTheRange ==
  encoded # Nothing /\ encoded.ok =>
    /\ VarsIn(encoded.clauses) \ UserVars = (Floor + 1)..encoded.top
    /\ VarsIn(encoded.clauses) \subseteq Var
=============================================================================

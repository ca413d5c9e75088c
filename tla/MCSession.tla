------------------------------ MODULE MCSession ------------------------------
(* Small instances of SolverSession for TLC. *)
EXTENDS SolverSession

Cardinal(op, literals, k, encoding) ==
  [op |-> op, literals |-> literals, k |-> k, encoding |-> encoding]

\* Variables 3 to 6 can end up on either side, depending on who comes first;
\* the bound of the fourth call is vacuous, and does not claim variable 5.
FormulasS == {{{-1}, {4}}, {{0}}}
CardinalitiesS ==
  { Cardinal("at_most", <<1, 2, 3>>, 1, "auto"),
    Cardinal("exactly", <<1, -2>>, 1, "sequential"),
    Cardinal("at_least", <<2, -4>>, 2, "pairwise"),
    Cardinal("at_most", <<5>>, 1, "auto"),
    Cardinal("at_most", <<1, -1>>, 1, "pairwise") }
QueriesS == {{-3}}

\* With Ctrl-C every prefix of a call can stay behind: fewer inputs.
FormulasI == {{{-1}, {4}}}
CardinalitiesI == { Cardinal("at_most", <<1, 2, 3>>, 1, "sequential"),
                    Cardinal("exactly", <<1, -2>>, 1, "sequential") }
QueriesI == {{-3}}
=============================================================================

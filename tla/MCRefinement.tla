---------------------------- MODULE MCRefinement ----------------------------
(* A small instance of HandleRefinement for TLC, with plain options. *)
EXTENDS HandleRefinement

\* A literal the C layer must refuse is among the inputs.
ClausesR == {<<1>>, <<-1, 2>>, <<>>, <<0>>}
AssumptionsR == {<<>>, <<-1>>, <<1, -2>>}
ConstraintsR == {<<-2>>, <<>>}
OptionsR == {<<"factorcheck", 0>>}
=============================================================================

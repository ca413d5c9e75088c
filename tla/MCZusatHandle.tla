---------------------------- MODULE MCZusatHandle ----------------------------
(* Small instances of ZusatHandle for TLC. *)
EXTENDS ZusatHandle

Clauses1 == {<<1>>, <<-1, 2>>, <<>>, <<1, 0>>}
Assumptions1 == {<<>>, <<-1>>, <<1, -2>>}
Constraints1 == {<<-2>>, <<>>}
Options1 == {<<"factorcheck", 2>>, <<"factorcheck", 3>>}

\* One clause, one constraint: a sat_simplify between them and the sat_solve.
ClausesShort == {<<1>>}
AssumptionsShort == {<<>>}
ConstraintsShort == {<<-1>>}
OptionsPlain == {<<"factorcheck", 0>>}
=============================================================================

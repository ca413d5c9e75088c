----------------------------- MODULE MCEnumerate -----------------------------
(* A small instance of Enumerate for TLC. *)
EXTENDS Enumerate

FormulasE == {{}, {{1, 2}}, {{1, -2}, {-1}, {2}}, {{1}, {-1, 2}}}
ProjectionsE == {NoVars, {}, {1, 3}}
AssumptionsE == {{}, {-1}, {3}}
ConstraintsE == {{}, {{-2, 3}}, {{}}}
\* No enumeration over three variables has nine rows: 9 stands for Inf.
LimitsE == {0, 2, 9}
=============================================================================

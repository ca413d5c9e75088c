------------------------------ MODULE MCDimacs ------------------------------
(* Dimacs over two variables: formulas with and without empty clauses, and *)
(* comments whose second line would be a clause.                           *)
EXTENDS Dimacs

MCValue ==
  [w \in {"0", "-0", "1", "+1", "-1", "2", "-2", "3"} |->
     CASE w \in {"0", "-0"} -> 0
       [] w \in {"1", "+1"} -> 1
       [] w = "-1" -> -1
       [] w = "2" -> 2
       [] w = "-2" -> -2
       [] w = "3" -> 3]

MCText ==
  [n \in -2..2 |-> CASE n = -2 -> "-2" [] n = -1 -> "-1" [] n = 0 -> "0"
                     [] n = 1 -> "1" [] n = 2 -> "2"]

MCFormulas ==
  {<<>>, <<<<>>>>, <<<<1, -2>>, <<2>>>>, <<<<>>, <<-1>>>>, <<<<2>>, <<>>>>}

MCComments == {<<>>, <<<<>>>>, <<<<<<"a">>, <<"1", "0">>>>, <<<<"b">>>>>>}
=============================================================================

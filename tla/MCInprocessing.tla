--------------------------- MODULE MCInprocessing ----------------------------
(***************************************************************************)
(* Sessions for Inprocessing: formulas that have what a technique looks    *)
(* for, the techniques that work on them together, and calls that use the  *)
(* removed variables again.                                                *)
(***************************************************************************)
EXTENDS Inprocessing

add(lits)   == [op |-> "add", lits |-> lits]
assume(lit) == [op |-> "assume", lits |-> <<lit>>]
solve       == [op |-> "solve", lits |-> <<>>]

Adds(clauses) == [i \in DOMAIN clauses |-> add(clauses[i])]

\* Two definitions with the same inputs, as clauses.
TwoAnds ==
  << <<1, -3, -4>>, <<-1, 3>>, <<-1, 4>>, <<2, -3, -4>>, <<-2, 3>>, <<-2, 4>>, <<1, 2, 5>> >>
TwoXors ==
  << <<1, 3, -4>>, <<1, -3, 4>>, <<-1, 3, 4>>, <<-1, -3, -4>>,
     <<2, 3, -4>>, <<2, -3, 4>>, <<-2, 3, 4>>, <<-2, -3, -4>>, <<1, 2, 5>> >>
TwoItes ==
  << <<1, -3, -4>>, <<-1, -3, 4>>, <<1, 3, -5>>, <<-1, 3, 5>>,
     <<2, -3, -4>>, <<-2, -3, 4>>, <<2, 3, -5>>, <<-2, 3, 5>> >>

\* An ITE gate that an equivalence or a unit turns into an AND or XOR gate.
OneIte == << <<1, -3, -4>>, <<-1, -3, 4>>, <<1, 3, -5>>, <<-1, 3, 5>> >>

OneXor == << <<1, 3, -4>>, <<1, -3, 4>>, <<-1, 3, 4>>, <<-1, -3, -4>>, <<1, 5>> >>
Majority ==
  << <<-1, 2, 3>>, <<-1, 2, 4>>, <<-1, 3, 4>>, <<1, -2, -3>>, <<1, -2, -4>>, <<1, -3, -4>> >>
FailedClauses == << <<1, 2, 3>>, <<1, -2, 3>>, <<1, 2, -3>>, <<1, -2, -3>>, <<-1, 4>> >>
Covered == << <<1, 2>>, <<-1, 3>>, <<-2, 3, 4>>, <<-3, -4>> >>
Equivalent == << <<1, -2>>, <<2, -3>>, <<3, -1>>, <<1, 4, 5>>, <<-3, -4, 2>> >>
Implications == << <<-1, 2>>, <<-2, 3>>, <<-1, 3>>, <<-3, 4, -1>>, <<-3, -4>> >>
Long == << <<1, 2, 3, 4>>, <<1, 2, -3>>, <<-1, 2, 4>>, <<-2, 3, 4>>, <<1, 3>> >>
Ternaries == << <<1, 2, 3>>, <<-1, 2, 4>>, <<1, 2, -3>>, <<-2, -3, 4>> >>
Factorable == << <<1, 3>>, <<2, 3>>, <<1, 4>>, <<2, 4>>, <<1, 5>>, <<2, 5>> >>
SelfFactorable ==
  << <<1, 2, 3>>, <<-1, 2, 3>>, <<1, 2, 4>>, <<-1, 2, 4>>, <<1, 4, 5>>, <<-1, 4, 5>> >>
Unsatisfiable == << <<1, 2>>, <<1, -2>>, <<-1, 2>>, <<-1, -2>> >>

\* 1 = 2 needs a clause that the search learns.
Learnable == << <<1, -2>>, <<-1, 2, 3>>, <<-1, 2, -3>>, <<1, 4, 5>> >>

\* The formula is solved, its variables are used again, and it is solved again.
Again(clauses, calls) == Adds(clauses) \o <<solve>> \o calls \o <<solve>>

Session(calls, techniques, starts) ==
  [calls |-> calls, techniques |-> techniques, starts |-> starts]

Eliminations ==
  {Session(Again(clauses, <<add(<<-1, -3>>)>>), {"elim", "gates"}, 3) :
     clauses \in {TwoAnds, OneIte, OneXor, Equivalent}}
    \cup
  {Session(Again(Long, <<assume(2), add(<<-4>>)>>), techniques, 3) :
     techniques \in {{"elim", "gates"}, {"elim", "cover"}, {"elimfast", "block"}}}
    \cup
  {Session(Again(clauses, <<add(<<-1, 5>>)>>), {"elim", "gates", "definition"}, 2) :
     clauses \in {Majority, FailedClauses}}

Removals ==
  {Session(Again(Covered, <<add(<<-1, -3>>)>>), {"block", "cover"}, 1),
   Session(Adds(Covered) \o <<solve>>, {"block", "cover"}, 2),
   Session(Adds(Long) \o <<solve>>, {"cover"}, 2),
   Session(Again(Ternaries, <<assume(-4), add(<<-1>>)>>), {"block", "instantiate"}, 2),
   Session(Adds(Ternaries) \o <<assume(-4), solve, add(<<-2>>), solve>>, {"condition"}, 1)}

Strengthenings ==
  {Session(Again(clauses, <<add(<<-2, 1>>)>>), techniques, 2) :
     clauses \in {Equivalent, Implications, Long},
     techniques \in {{"subsume", "learn"}, {"deduplicate", "transred", "learn"},
                     {"ternary", "decompose"}, {"probe", "backbone"}, {"vivify", "learn"}}}

Factorings ==
  {Session(Again(clauses, <<add(<<-1, -4>>)>>), {"factor", "elim"}, 3) :
     clauses \in {Factorable, SelfFactorable}}

Sweeps ==
  {Session(Again(clauses, <<add(<<-1, -5>>), assume(2)>>), {"sweep"}, 2) :
     clauses \in {TwoAnds, Equivalent, Implications, Unsatisfiable}}

Closures ==
  {Session(Again(clauses, <<add(<<-1, -2>>)>>), {"congruence", "decompose"}, 2) :
     clauses \in {TwoAnds, TwoXors, TwoItes}}
    \cup
  {Session(Adds(OneIte \o <<clause>>) \o <<solve>>, {"congruence", "learn"}, 2) :
     clause \in {<<a, b>> : a, b \in UserLits} \cup {<<a>> : a \in UserLits}}
    \cup
  {Session(Again(Learnable, <<add(<<-1, -2>>)>>), {"congruence", "learn"}, 2)}

\* A variable that would be removed is assumed in the first solve and free in
\* the second one.
Assumed(clauses, techniques) ==
  {Session(Adds(clauses) \o <<assume(lit), solve, add(<<-1, -2>>), solve>>, techniques, 2) :
     lit \in {2, -3}}

Freezings ==
  Assumed(Equivalent, {"decompose"}) \cup Assumed(TwoAnds, {"congruence", "decompose"})
    \cup Assumed(Long, {"elim", "gates"}) \cup Assumed(Covered, {"block", "cover"})
    \cup Assumed(Equivalent, {"elimfast", "instantiate"})

AllSessions ==
  Eliminations \cup Removals \cup Strengthenings \cup Factorings \cup Sweeps \cup Closures
    \cup Freezings
=============================================================================

------------------------------- MODULE MCCdcl -------------------------------
(***************************************************************************)
(* Sessions for the search.                                                *)
(***************************************************************************)
EXTENDS Cdcl

add(lits)       == [op |-> "add", lits |-> lits]
assume(lit)     == [op |-> "assume", lits |-> <<lit>>]
constrain(lits) == [op |-> "constrain", lits |-> lits]
solve           == [op |-> "solve", lits |-> <<>>]

\* Unsatisfiable, with nothing to propagate at the root level: clauses are
\* learned, strengthened and subsumed, units are learned, the empty clause is.
Contradiction ==
  << add(<<1, 2, 3>>), add(<<1, 2, -3>>), add(<<1, -2, 3>>),
     add(<<1, -2, -3>>), add(<<-1, 2>>), add(<<-1, -2, 3>>),
     add(<<-1, -2, -3>>), solve >>

\* A conflict over two literals of a lower level, one of which implies the
\* other: the learned clause shrinks,
Shrinks ==
  << add(<<-1, 2>>), add(<<-3, 4>>), add(<<-1, -2, -3, -4>>), solve >>

\* or not, when it does so only with a literal of a still lower level.
ShrinksNot ==
  << add(<<-2, -1, 3>>), add(<<-4, 5>>), add(<<-5, -4, -2, -3>>),
     assume(1), solve >>

\* A learned clause comes to subsume a clause of the formula.
TakesOver ==
  << add(<<3, -1, -2>>), add(<<-2, 4>>), add(<<-2, 5>>),
     add(<<-4, -5, -1, -3>>), assume(3), assume(1), assume(2), solve,
     assume(1), assume(2), solve >>

\* Assumptions that fail by propagation, by clashing and at the root level,
\* a constraint that fails or is chosen from, clauses added in between.
Incremental ==
  << add(<<-1, 2>>), add(<<-2, -3, 5>>), add(<<-5, -2>>),
     assume(4), assume(1), assume(3), solve,
     assume(1), constrain(<<3, -2>>), solve,
     assume(1), assume(4), assume(-1), solve,
     constrain(<<3, 4, 4>>), assume(2), solve,
     add(<<-2, 2>>), add(<<-4, -4>>), assume(3), assume(4), solve,
     constrain(<<4>>), solve,
     add(<<4, 2>>), add(<<-2, 1>>), add(<<-1, 3, 4>>), solve, solve >>

\* With chronological backtracking a literal implied at a low level is
\* assigned above literals of higher levels,
OutOfOrder ==
  << add(<<-2, -1, 3>>), add(<<-4, -5>>), add(<<-1, -2, -5>>),
     add(<<-3, -1, -4>>), add(<<2, -1, -5>>), add(<<1, 3, 4>>), solve >>

\* and so is a unit, which reduce has to propagate at the root level first.
UnitOutOfOrder ==
  << add(<<-5, 2>>), add(<<-5, 4>>), add(<<-2, -4, -1>>), add(<<-3, 2>>),
     add(<<-3, -2>>), add(<<3, 1, 5>>), solve >>

SearchSessions == {Contradiction, Shrinks, ShrinksNot, TakesOver, Incremental,
                   OutOfOrder, UnitOutOfOrder}
Chronological  == {[chrono |-> 1, always |-> FALSE], [chrono |-> 2, always |-> TRUE]}
Positive == Var
=============================================================================

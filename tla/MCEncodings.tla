----------------------------- MODULE MCEncodings -----------------------------
(* Every small call of sat_at_most, sat_at_least and sat_exactly for TLC. *)
EXTENDS EncodingCalls

\* Up to four literals of either sign; five would add nothing but time.
Literals ==
  {lits \in UNION {[1..n -> Lit \cap (-4)..4] : n \in 0..4} :
     /\ check_distinct(lits)
     /\ Len(lits) > 3 => \A i \in 1..2 : lits[i] > 0
     /\ \A i, j \in DOMAIN lits : i < j => VarOf(lits[i]) < VarOf(lits[j])}

RequestsE ==
  [op : {"at_most", "at_least", "exactly"}, literals : Literals, k : 0..5,
   encoding : {"auto", "pairwise", "sequential"}]
=============================================================================

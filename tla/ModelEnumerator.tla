--------------------------- MODULE ModelEnumerator ---------------------------
(***************************************************************************)
(* What sat_solutions() promises: distinct answers, none that is not one,  *)
(* and "exhausted" only when every answer has been given.  Answers is what *)
(* there is to enumerate, fixed when the call begins.                      *)
(***************************************************************************)
EXTENDS Naturals, FiniteSets

CONSTANTS
  Row,    \* rows an enumeration can report
  Limits  \* the values of `limit'

VARIABLES
  phase,    \* "running", "done" or "raised"
  answers,  \* the rows there are
  limit,    \* how many may be reported
  given,    \* the rows reported so far
  reason    \* why the call ended: "limit", "exhausted" or "unknown"

enumerator == <<phase, answers, limit, given, reason>>

EnumInit ==
  /\ phase = "running"
  /\ answers \in SUBSET Row
  /\ limit \in Limits
  /\ given = {}
  /\ reason = "limit"

\* One more row, never one given before.
Give ==
  /\ phase = "running"
  /\ Cardinality(given) < limit
  /\ \E row \in answers \ given : given' = given \cup {row}
  /\ UNCHANGED <<phase, answers, limit, reason>>

Stop(why) ==
  /\ phase = "running"
  /\ why = "exhausted" => given = answers
  /\ why = "limit" => Cardinality(given) = limit
  /\ phase' = "done"
  /\ reason' = why
  /\ UNCHANGED <<answers, limit, given>>

\* An error leaves the call; no result is returned.
Raise ==
  /\ phase = "running"
  /\ phase' = "raised"
  /\ UNCHANGED <<answers, limit, given, reason>>

EnumNext ==
  \/ Give \/ Raise
  \/ \E why \in {"limit", "exhausted", "unknown"} : Stop(why)

EnumSpec == EnumInit /\ [][EnumNext]_enumerator
=============================================================================

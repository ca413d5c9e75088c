------------------------- MODULE ProofTracingProofs -------------------------
(***************************************************************************)
(* The theorems about sat_trace_proof: type correctness, that an attempt   *)
(* that raises takes back what it set, and that one that returns traces in *)
(* the first format enabled, for every number of interrupts.  Neither is   *)
(* inductive: both are about the moment the call ends, and hold there      *)
(* because of what the options were at each statement before it.  Progress *)
(* says that, statement by statement.                                      *)
(***************************************************************************)
EXTENDS ProofTracing, TLAPS

\* The options found, with both settings of the proof format replaced.
Set(before, binary, lrat) == [before EXCEPT !.binary = binary, !.lrat = lrat]

\* The lrat option that asks for a format.
LratFor(format) == IF format = "lrat" THEN 1 ELSE 0

\* While sat_trace_proof runs, the history is about this call.
Recorded ==
  call.at # "idle" =>
    /\ last.ended = "never"
    /\ last.format = call.format
    /\ last.binary = call.binary

\* From the registration of on.exit on, `previous' is what the call found.
Remembered ==
  call.at \notin {"idle", "previous"} =>
    call.previous = [binary |-> last.before.binary, lrat |-> last.before.lrat]

\* What the body has set so far when each of its statements begins.
Progress ==
  /\ call.at \in {"previous", "binary"} => opts = last.before
  /\ call.at = "lrat" => opts = Set(last.before, call.binary, last.before.lrat)
  /\ call.at \in {"trace", "started"} =>
       opts = Set(last.before, call.binary, LratFor(call.format))
  /\ call.at = "started" => tracer = Connected

\* The options that sat_trace_proof never sets are as they were found.
OthersKept ==
  \A name \in OptionNames \ {"binary", "lrat"} : opts[name] = last.before[name]

\* What on.exit still has to take back.
TakenBack ==
  /\ call.at \in OnExit => OthersKept
  /\ call.at = "restore_lrat" => opts.binary = last.before.binary

TraceInv ==
  /\ TypeOK
  /\ Recorded /\ Remembered /\ Progress /\ TakenBack
  /\ OptionsRestored /\ FormatAsAsked

-----------------------------------------------------------------------------
\* Options that agree on binary, on lrat and on the others are the same.
LEMMA OptionsByNames ==
  ASSUME NEW o \in Options, NEW p \in Options,
         o.binary = p.binary, o.lrat = p.lrat,
         \A name \in OptionNames \ {"binary", "lrat"} : o[name] = p[name]
  PROVE  o = p
<1>1. \A name \in OptionNames : o[name] = p[name]
  OBVIOUS
<1> QED BY <1>1 DEF Options

\* The solver starts with the default options and no call in progress.
LEMMA TraceInit == Init => TraceInv
  BY InterruptAssumption
  DEF Init, TraceInv, TypeOK, Recorded, Remembered, Progress, TakenBack,
      OptionsRestored, FormatAsAsked, Options, Defaults, OptionNames,
      FormatOptions, Bit, Tracers, NoTracer, NoCall, Idle, Body, OnExit

\* Every step keeps the types.
LEMMA TypeStep == TypeOK /\ [Next]_vars => TypeOK'
<1> SUFFICES ASSUME TypeOK, [Next]_vars PROVE TypeOK'
  OBVIOUS
<1>d. Defaults \in Options
  BY DEF Defaults, Options, Bit
<1> USE DEF TypeOK, Bit, Body, OnExit, Idle
<1>1. ASSUME NEW name \in OptionNames, NEW value \in Bit,
             sat_option(name, value)
      PROVE  TypeOK'
  <2>1. opts' \in Options
    BY <1>1 DEF sat_option, Options
  <2> QED BY <1>1, <1>d, <2>1 DEF sat_option, NoCall
<1>2. CASE sat_add
  BY <1>2 DEF sat_add
<1>3. CASE sat_close_proof
  BY <1>3, <1>d DEF sat_close_proof, Tracers, NoCall
<1>4. ASSUME NEW format \in {"drat", "lrat"}, NEW binary \in Bit,
             sat_trace_proof(format, binary)
      PROVE  TypeOK'
  <2>1. call' = [at |-> "previous", format |-> format, binary |-> binary,
                 previous |-> [binary |-> 0, lrat |-> 0]]
    BY <1>4 DEF sat_trace_proof
  <2>2. [binary |-> 0, lrat |-> 0] \in [binary : Bit, lrat : Bit]
    OBVIOUS
  <2> QED BY <1>4, <2>1, <2>2 DEF sat_trace_proof
<1>5. CASE ReadPrevious
  BY <1>5 DEF ReadPrevious, Options, OptionNames, FormatOptions
<1>6. CASE SetBinary
  BY <1>6 DEF SetBinary, Options, OptionNames, FormatOptions
<1>7. CASE SetLrat
  BY <1>7 DEF SetLrat, Options, OptionNames, FormatOptions
<1>8. CASE TraceProof
  <2>1. Connected \in Tracers
    BY DEF Connected, Tracers, Options, OptionNames, FormatOptions
  <2> QED BY <1>8, <2>1 DEF TraceProof
<1>9. CASE Started
  BY <1>9 DEF Started
<1>10. CASE RestoreBinary
  BY <1>10 DEF RestoreBinary, Options, OptionNames, FormatOptions
<1>11. CASE RestoreLrat
  BY <1>11 DEF RestoreLrat, Options, OptionNames, FormatOptions
<1>12. CASE Interrupt
  BY <1>12, InterruptAssumption DEF Interrupt
<1>13. CASE UNCHANGED vars
  BY <1>13 DEF vars
<1> QED
  BY <1>1, <1>2, <1>3, <1>4, <1>5, <1>6, <1>7, <1>8, <1>9, <1>10, <1>11,
     <1>12, <1>13 DEF Next

\* Every step keeps what is known at each statement.
LEMMA ProgressStep ==
  TraceInv /\ [Next]_vars =>
    /\ Recorded' /\ Remembered' /\ Progress' /\ TakenBack'
    /\ OptionsRestored' /\ FormatAsAsked'
<1> SUFFICES ASSUME TraceInv, [Next]_vars
             PROVE  /\ Recorded' /\ Remembered' /\ Progress' /\ TakenBack'
                    /\ OptionsRestored' /\ FormatAsAsked'
  OBVIOUS
<1> USE DEF TraceInv, Recorded, Remembered, Progress, TakenBack,
            OptionsRestored, FormatAsAsked, Body, OnExit, Idle, Set, LratFor,
            OptionNames, FormatOptions, OthersKept, Enabled
<1>t. TypeOK /\ TypeOK'
  BY TypeStep
<1>1. ASSUME NEW name \in OptionNames, NEW value \in Bit,
             sat_option(name, value)
      PROVE  /\ Recorded' /\ Remembered' /\ Progress' /\ TakenBack'
             /\ OptionsRestored' /\ FormatAsAsked'
  BY <1>1, <1>t DEF sat_option, TypeOK, NoCall
<1>2. CASE sat_add
  BY <1>2 DEF sat_add, Connected
<1>3. CASE sat_close_proof
  BY <1>3, <1>t DEF sat_close_proof, TypeOK, NoCall
<1>4. ASSUME NEW format \in {"drat", "lrat"}, NEW binary \in Bit,
             sat_trace_proof(format, binary)
      PROVE  /\ Recorded' /\ Remembered' /\ Progress' /\ TakenBack'
             /\ OptionsRestored' /\ FormatAsAsked'
  BY <1>4, <1>t DEF sat_trace_proof, TypeOK
<1>5. CASE ReadPrevious
  BY <1>5, <1>t DEF ReadPrevious, TypeOK
<1>6. CASE SetBinary
  BY <1>6, <1>t DEF SetBinary, TypeOK, Options
<1>7. CASE SetLrat
  <2>1. opts' = Set(last'.before, call'.binary, LratFor(call'.format))
    <3>1. opts = Set(last.before, call.binary, last.before.lrat)
      BY <1>7 DEF SetLrat
    <3>2. opts' = [opts EXCEPT !.lrat = LratFor(call.format)]
      BY <1>7 DEF SetLrat
    <3>3. last.before \in [OptionNames -> Bit]
      BY <1>t DEF TypeOK, Options
    <3>4. opts' = Set(last.before, call.binary, LratFor(call.format))
      <4> HIDE DEF LratFor, OptionNames
      <4> QED BY <3>1, <3>2, <3>3
    <3>5. last' = last /\ call'.binary = call.binary /\ call'.format = call.format
      BY <1>7, <1>t DEF SetLrat, TypeOK
    <3> QED
      <4> HIDE DEF Set, LratFor
      <4> QED BY <3>4, <3>5
  <2> QED BY <1>7, <1>t, <2>1 DEF SetLrat, TypeOK
<1>8. CASE TraceProof
  <2>1. CASE call'.at = "started"
    <3>1. tracer' = Connected /\ Connected' = Connected
      BY <1>8, <2>1, <1>t DEF TraceProof, TypeOK, Connected
    <3> QED BY <1>8, <1>t, <2>1, <3>1 DEF TraceProof, TypeOK
  <2>2. CASE call'.at = "restore_binary"
    <3>1. OthersKept
      BY <1>8, <1>t DEF TraceProof, TypeOK, Options
    <3> QED BY <1>8, <1>t, <2>2, <3>1 DEF TraceProof, TypeOK
  <2> QED BY <1>8, <1>t, <2>1, <2>2 DEF TraceProof, TypeOK
<1>9. CASE Started
  <2>1. /\ opts = Set(last.before, last.binary, LratFor(last.format))
        /\ tracer = Connected
    BY <1>9 DEF Started
  <2>2. /\ opts.binary = last.binary
        /\ opts.lrat = LratFor(last.format)
        /\ OthersKept
    BY <2>1, <1>t DEF TypeOK, Options
  <2>3. /\ tracer.format \in Enabled
        /\ \A f \in Enabled : Rank[tracer.format] <= Rank[f]
        /\ tracer.binary = last.binary
    BY <2>1, <2>2, <1>t DEF TypeOK, Connected, Options, Bit, Rank
  <2> QED BY <1>9, <1>t, <2>3 DEF Started, TypeOK
<1>10. CASE RestoreBinary
  BY <1>10, <1>t DEF RestoreBinary, TypeOK, Options
<1>11. CASE RestoreLrat
  <2>1. opts' = last'.before
    <3>1. opts' \in Options /\ last'.before \in Options
      BY <1>t DEF TypeOK
    <3>2. /\ opts'.binary = last'.before.binary
          /\ opts'.lrat = last'.before.lrat
          /\ OthersKept'
      BY <1>11, <1>t DEF RestoreLrat, TypeOK, Options
    <3> QED BY <3>1, <3>2, OptionsByNames
  <2> QED BY <1>11, <1>t, <2>1 DEF RestoreLrat, TypeOK
<1>12. CASE Interrupt
  <2>1. CASE call.at \in Body \ {"previous"}
    <3>1. OthersKept
      <4>1. last.before \in Options
        BY <1>t DEF TypeOK
      <4>2. \A b, l : \A name \in OptionNames \ {"binary", "lrat"} :
              Set(last.before, b, l)[name] = last.before[name]
        BY <4>1 DEF Options
      <4>3. CASE call.at = "binary"
        BY <4>3
      <4>4. CASE call.at \in {"lrat", "trace", "started"}
        <5> HIDE DEF Set, LratFor
        <5>1. \/ opts = Set(last.before, call.binary, last.before.lrat)
              \/ opts = Set(last.before, call.binary, LratFor(call.format))
          BY <4>4
        <5> QED BY <4>2, <5>1
      <4> QED BY <2>1, <4>3, <4>4
    <3>2. call'.at = "restore_binary" /\ UNCHANGED last
      BY <1>12, <2>1, <1>t DEF Interrupt, TypeOK
    <3> QED BY <1>12, <1>t, <2>1, <3>1, <3>2 DEF Interrupt, TypeOK
  <2>2. CASE call.at = "previous"
    BY <1>12, <1>t, <2>2 DEF Interrupt, TypeOK
  <2>3. CASE call.at \in OnExit
    BY <1>12, <1>t, <2>3 DEF Interrupt, TypeOK
  <2> QED BY <1>12, <2>1, <2>2, <2>3 DEF Interrupt
<1>13. CASE UNCHANGED vars
  BY <1>13 DEF vars, Connected
<1> QED
  BY <1>1, <1>2, <1>3, <1>4, <1>5, <1>6, <1>7, <1>8, <1>9, <1>10, <1>11,
     <1>12, <1>13 DEF Next

-----------------------------------------------------------------------------
\* The strengthening holds throughout.
THEOREM TraceInvariant == Spec => []TraceInv
<1>1. TraceInv /\ [Next]_vars => TraceInv'
  BY TypeStep, ProgressStep DEF TraceInv
<1> QED BY TraceInit, <1>1, PTL DEF Spec

\* The options stay within their range and the call at one of its statements,
\* whatever is interrupted.
THEOREM TypesHold == Spec => []TypeOK
<1>1. TraceInv => TypeOK
  BY DEF TraceInv
<1> QED BY TraceInvariant, <1>1, PTL

\* A sat_trace_proof that raises, on its own error or on an interrupt in its
\* body, leaves the options as it found them.
THEOREM RaisedRestores == Spec => []OptionsRestored
<1>1. TraceInv => OptionsRestored
  BY DEF TraceInv
<1> QED BY TraceInvariant, <1>1, PTL

\* A sat_trace_proof that returns traces in the encoding it was asked for, and
\* in the first format in the documented order among the one it was asked for
\* and those turned on by sat_option; what earlier attempts asked for is gone.
THEOREM ReturnsAsAsked == Spec => []FormatAsAsked
<1>1. TraceInv => FormatAsAsked
  BY DEF TraceInv
<1> QED BY TraceInvariant, <1>1, PTL
=============================================================================

---------------------------- MODULE ProofTracing ----------------------------
(***************************************************************************)
(* sat_trace_proof (R/proof.R), statement by statement, on the options and *)
(* the tracers of one solver.  The proof format is an option of CaDiCaL    *)
(* that the function sets and then takes back when tracing does not start; *)
(* R can serve a Ctrl-C between any two statements, the ones of the        *)
(* on.exit expression included.                                            *)
(***************************************************************************)
EXTENDS Naturals

CONSTANT MaxInterrupts  \* how many times Ctrl-C is pressed

ASSUME InterruptAssumption == MaxInterrupts \in Nat

VARIABLES
  opts,         \* the CaDiCaL options the proof format depends on
  configuring,  \* zusat_configuring
  tracer,       \* the tracer whose file is open, or NoTracer
  call,         \* the sat_trace_proof in progress
  interrupts,   \* the interrupts served so far
  last          \* how the last sat_trace_proof ended (history only)

vars == <<opts, configuring, tracer, call, interrupts, last>>

Bit == 0..1

\* The options that turn on a format; veripb and frat have more than one "on",
\* which differ in what is written and not in the format.  DRAT is what is left.
FormatOptions == {"veripb", "frat", "lrat", "idrup", "lidrup"}

OptionNames == {"binary"} \cup FormatOptions
Options     == [OptionNames -> Bit]
Defaults    == [name \in OptionNames |-> IF name = "binary" THEN 1 ELSE 0]

NoTracer == [format |-> "none", binary |-> 0]
Tracers  == [format : FormatOptions \cup {"drat"}, binary : Bit] \cup {NoTracer}

Idle == [at |-> "idle", format |-> "drat", binary |-> 0,
         previous |-> [binary |-> 0, lrat |-> 0]]

NoCall == [ended |-> "never", before |-> Defaults, format |-> "drat", binary |-> 0]

\* The places in sat_trace_proof where an interrupt can be served.
Body   == {"previous", "binary", "lrat", "trace", "started"}
OnExit == {"restore_binary", "restore_lrat"}

TypeOK ==
  /\ opts \in Options
  /\ configuring \in BOOLEAN
  /\ tracer \in Tracers
  /\ call \in [at : {"idle"} \cup Body \cup OnExit, format : {"drat", "lrat"},
               binary : Bit, previous : [binary : Bit, lrat : Bit]]
  /\ interrupts \in 0..MaxInterrupts
  /\ last \in [ended : {"never", "returned", "raised", "cut"}, before : Options,
               format : {"drat", "lrat"}, binary : Bit]

Init ==
  /\ opts = Defaults
  /\ configuring = TRUE
  /\ tracer = NoTracer
  /\ call = Idle
  /\ interrupts = 0
  /\ last = NoCall

-----------------------------------------------------------------------------
(* The session around the call. *)

sat_option(name, value) ==
  /\ call.at = "idle"
  /\ configuring
  /\ opts' = [opts EXCEPT ![name] = value]
  /\ last' = NoCall
  /\ UNCHANGED <<configuring, tracer, call, interrupts>>

\* A clause, or a solve: the first one ends configuring.
sat_add ==
  /\ call.at = "idle"
  /\ configuring' = FALSE
  /\ UNCHANGED <<opts, tracer, call, interrupts, last>>

sat_close_proof ==
  /\ call.at = "idle"
  /\ tracer # NoTracer
  /\ tracer' = NoTracer
  /\ last' = NoCall
  /\ UNCHANGED <<opts, configuring, call, interrupts>>

-----------------------------------------------------------------------------
(* sat_trace_proof. *)

sat_trace_proof(format, binary) ==
  /\ call.at = "idle"
  /\ configuring
  /\ call' = [Idle EXCEPT !.at = "previous", !.format = format, !.binary = binary]
  /\ last' = [ended |-> "never", before |-> opts, format |-> format, binary |-> binary]
  /\ UNCHANGED <<opts, configuring, tracer, interrupts>>

\* Reads both options and registers the on.exit expression.
ReadPrevious ==
  /\ call.at = "previous"
  /\ call' = [call EXCEPT !.at = "binary",
                          !.previous = [binary |-> opts.binary, lrat |-> opts.lrat]]
  /\ UNCHANGED <<opts, configuring, tracer, interrupts, last>>

SetBinary ==
  /\ call.at = "binary"
  /\ opts' = [opts EXCEPT !.binary = call.binary]
  /\ call' = [call EXCEPT !.at = "lrat"]
  /\ UNCHANGED <<configuring, tracer, interrupts, last>>

\* mutant: only a request for LRAT touches the option
SetLratWhenAsked ==
  /\ call.at = "lrat"
  /\ opts' = IF call.format = "lrat" THEN [opts EXCEPT !.lrat = 1] ELSE opts
  /\ call' = [call EXCEPT !.at = "trace"]
  /\ UNCHANGED <<configuring, tracer, interrupts, last>>

\* mutant: the position of the format among its choices is not 0 or 1
SetLratToIndex ==
  /\ call.at = "lrat"
  /\ opts' = [opts EXCEPT !.lrat = IF call.format = "lrat" THEN 2 ELSE 1]
  /\ call' = [call EXCEPT !.at = "trace"]
  /\ UNCHANGED <<configuring, tracer, interrupts, last>>

SetLrat ==
  /\ call.at = "lrat"
  /\ opts' = [opts EXCEPT !.lrat = IF call.format = "lrat" THEN 1 ELSE 0]
  /\ call' = [call EXCEPT !.at = "trace"]
  /\ UNCHANGED <<configuring, tracer, interrupts, last>>

\* Internal::trace takes the first format enabled.
Connected ==
  [format |-> IF opts.veripb = 1 THEN "veripb"
              ELSE IF opts.frat = 1 THEN "frat"
              ELSE IF opts.lrat = 1 THEN "lrat"
              ELSE IF opts.idrup = 1 THEN "idrup"
              ELSE IF opts.lidrup = 1 THEN "lidrup"
              ELSE "drat",
   binary |-> opts.binary]

\* zusat_trace_proof: refused while a proof is open or when fopen fails.
TraceProof ==
  /\ call.at = "trace"
  /\ \/ /\ tracer = NoTracer
        /\ tracer' = Connected
        /\ call' = [call EXCEPT !.at = "started"]
     \/ /\ call' = [call EXCEPT !.at = "restore_binary"]
        /\ UNCHANGED tracer
  /\ UNCHANGED <<opts, configuring, interrupts, last>>

Started ==
  /\ call.at = "started"
  /\ call' = Idle
  /\ last' = [last EXCEPT !.ended = "returned"]
  /\ UNCHANGED <<opts, configuring, tracer, interrupts>>

\* mutant: the encoding is left as it was set
SkipBinary ==
  /\ call.at = "restore_binary"
  /\ call' = [call EXCEPT !.at = "restore_lrat"]
  /\ UNCHANGED <<opts, configuring, tracer, interrupts, last>>

\* The on.exit expression, run because started is still FALSE.
RestoreBinary ==
  /\ call.at = "restore_binary"
  /\ opts' = [opts EXCEPT !.binary = call.previous.binary]
  /\ call' = [call EXCEPT !.at = "restore_lrat"]
  /\ UNCHANGED <<configuring, tracer, interrupts, last>>

RestoreLrat ==
  /\ call.at = "restore_lrat"
  /\ opts' = [opts EXCEPT !.lrat = call.previous.lrat]
  /\ call' = Idle
  /\ last' = [last EXCEPT !.ended = "raised"]
  /\ UNCHANGED <<configuring, tracer, interrupts>>

\* Ctrl-C unwinds the function: into on.exit once it is registered, and out of
\* on.exit when that is what it interrupts.
Interrupt ==
  /\ interrupts < MaxInterrupts
  /\ interrupts' = interrupts + 1
  /\ \/ /\ call.at \in Body \ {"previous"}
        /\ call' = [call EXCEPT !.at = "restore_binary"]
        /\ UNCHANGED last
     \/ /\ call.at = "previous"
        /\ call' = Idle
        /\ last' = [last EXCEPT !.ended = "raised"]
     \/ /\ call.at \in OnExit
        /\ call' = Idle
        /\ last' = [last EXCEPT !.ended = "cut"]
  /\ UNCHANGED <<opts, configuring, tracer>>

-----------------------------------------------------------------------------
Next ==
  \/ \E name \in OptionNames, value \in Bit : sat_option(name, value)
  \/ sat_add \/ sat_close_proof
  \/ \E format \in {"drat", "lrat"}, binary \in Bit : sat_trace_proof(format, binary)
  \/ ReadPrevious \/ SetBinary \/ SetLrat \/ TraceProof \/ Started
  \/ RestoreBinary \/ RestoreLrat
  \/ Interrupt

Spec == Init /\ [][Next]_vars

-----------------------------------------------------------------------------
\* A sat_trace_proof that raises (the path cannot be opened, a proof is open
\* already, an interrupt anywhere in its body) leaves every option as it found
\* it, so that a retry is not affected by the attempt.
OptionsRestored == last.ended = "raised" => opts = last.before

\* The documented order of the formats (R/proof.R, "Formats").
Rank ==
  [veripb |-> 1, frat |-> 2, lrat |-> 3, idrup |-> 4, lidrup |-> 5, drat |-> 6]

\* The formats enabled for the last call: the one it asked for, and those the
\* caller turned on with sat_option.  An earlier setting of lrat is not one.
Enabled ==
  {last.format} \cup {f \in FormatOptions \ {"lrat"} : last.before[f] = 1}

\* When sat_trace_proof returns, the file is traced in the encoding of this call
\* and in the first format, in the documented order, among the one of this call
\* and those the caller turned on.  The lrat option, which sat_trace_proof sets
\* itself, has no say when it is left over from an earlier attempt.
FormatAsAsked ==
  last.ended = "returned" =>
    /\ tracer.format \in Enabled
    /\ \A f \in Enabled : Rank[tracer.format] <= Rank[f]
    /\ tracer.binary = last.binary
=============================================================================

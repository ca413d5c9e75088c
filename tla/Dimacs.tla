------------------------------- MODULE Dimacs -------------------------------
(***************************************************************************)
(* read_dimacs and write_dimacs (R/dimacs.R), and a file on its way        *)
(* between them: lines are broken and joined, comments, headers and blank  *)
(* lines come and go, literals are spelled differently, a SATLIB trailer   *)
(* is appended, the last terminator is lost, or a word is damaged.         *)
(* A file is a sequence of lines, a line a sequence of words.              *)
(***************************************************************************)
EXTENDS Integers, SequencesExt

CONSTANTS
  Value,     \* the words that are decimal numerals, and the number of each
  Text,      \* the numeral R writes for a number
  MaxVar,    \* max_var()
  Formulas,  \* lists of clauses to write
  Comments,  \* comments to write: vectors of strings, a string being the
             \* sequence of its lines
  Damage,    \* words that are no literal in range
  Percents,  \* the words that begin with "%"
  CsAndPs,   \* the words that begin with "c" or "p"
  MaxEdits   \* how often the file is edited

ASSUME TextAssumption ==
  /\ \A n \in DOMAIN Text : Text[n] \in DOMAIN Value /\ Value[Text[n]] = n
  /\ "%" \in Percents /\ {"c", "p"} \subseteq CsAndPs
  /\ DOMAIN Value \cap (Percents \cup CsAndPs) = {}
  /\ \A w \in Damage : w \in DOMAIN Value => Value[w] \notin -MaxVar..MaxVar

VARIABLES
  formula,  \* what was written
  file,     \* the lines of the file now
  damaged,  \* a word of the formula has been damaged
  edits     \* the number of edits so far

vars == <<formula, file, damaged, edits>>

Starts(line, words) == line # <<>> /\ Head(line) \in words

-----------------------------------------------------------------------------
(* write_dimacs *)

\* One comment line for every line of the string; none is an empty one.
CommentLines(text) ==
  IF text = <<>> THEN <<<<"c">>>>
  ELSE [i \in DOMAIN text |-> <<"c">> \o text[i]]

ClauseLine(clause) == [i \in DOMAIN clause |-> Text[clause[i]]] \o <<Text[0]>>

write_dimacs(clauses, comment) ==
  FlattenSeq([i \in DOMAIN comment |-> CommentLines(comment[i])])
    \o <<<<"p", "cnf">>>>
    \o [i \in DOMAIN clauses |-> ClauseLine(clauses[i])]

-----------------------------------------------------------------------------
(* read_dimacs *)

\* mutant: the trailer is part of the formula
WholeFile(lines) == SelectSeq(lines, LAMBDA l : ~Starts(l, CsAndPs \cup Percents))

\* The lines of the formula: those before a "%", without comments and headers.
\* The first character of a line that is no blank decides, whatever follows it.
Body(lines) ==
  LET stop_at == SelectInSeq(lines, LAMBDA l : Starts(l, Percents))
      kept == IF stop_at = 0 THEN lines ELSE SubSeq(lines, 1, stop_at - 1)
  IN SelectSeq(kept, LAMBDA l : ~Starts(l, CsAndPs))

\* The clauses between the zeros; the last one need not be terminated.
Clauses(values) ==
  LET n == Len(values)
      zeros == SelectSeq([i \in 1..n |-> i], LAMBDA i : values[i] = 0)
      ends == IF n > 0 /\ values[n] # 0 THEN Append(zeros, n + 1) ELSE zeros
  IN [i \in DOMAIN ends |->
        SubSeq(values, (IF i = 1 THEN 1 ELSE ends[i - 1] + 1), ends[i] - 1)]

\* mutant: the range is not checked
NoNumeral(words) == {w \in ToSet(words) : w \notin DOMAIN Value}

\* The words that make read_dimacs raise.
Refused(words) ==
  {w \in ToSet(words) : w \notin DOMAIN Value \/ Value[w] \notin -MaxVar..MaxVar}

read_dimacs(lines) ==
  LET words == FlattenSeq(Body(lines))
  IN IF Refused(words) # {}
     THEN [ok |-> FALSE, clauses |-> <<>>]
     ELSE [ok |-> TRUE, clauses |-> Clauses([i \in DOMAIN words |-> Value[words[i]]])]

-----------------------------------------------------------------------------
(* What happens to the file in between (external). *)

\* The line numbers of the formula.
InFormula ==
  LET stop_at == SelectInSeq(file, LAMBDA l : Starts(l, Percents))
  IN {i \in DOMAIN file : /\ ~Starts(file[i], CsAndPs \cup Percents)
                          /\ stop_at = 0 \/ i < stop_at}

Edit(lines, damaging) ==
  /\ edits < MaxEdits
  /\ file' = lines
  /\ damaged' = (damaged \/ damaging)
  /\ edits' = edits + 1
  /\ UNCHANGED formula

JoinLines ==
  \E i \in InFormula :
    /\ i + 1 \in InFormula
    /\ Edit(RemoveAt([file EXCEPT ![i] = @ \o file[i + 1]], i + 1), FALSE)

BreakLine ==
  \E i \in InFormula : \E j \in 1..Len(file[i]) - 1 :
    Edit(InsertAt([file EXCEPT ![i] = SubSeq(@, 1, j)], i + 1,
                  SubSeq(file[i], j + 1, Len(file[i]))), FALSE)

InsertLine ==
  \E i \in 1..Len(file) + 1, line \in {<<"c", "1", "0">>, <<"p", "cnf">>, <<>>} :
    Edit(InsertAt(file, i, line), FALSE)

Respell ==
  \E i \in InFormula : \E j \in DOMAIN file[i], w \in DOMAIN Value :
    /\ file[i][j] \in DOMAIN Value
    /\ w # file[i][j]
    /\ Value[w] = Value[file[i][j]]
    /\ Edit([file EXCEPT ![i][j] = w], FALSE)

\* The file ends without the terminator of a last clause that is not empty.
DropTerminator ==
  \E i \in InFormula :
    /\ \A j \in InFormula : j <= i
    /\ Len(file[i]) > 1
    /\ \A j \in Len(file[i]) - 1..Len(file[i]) : file[i][j] \in DOMAIN Value
    /\ Value[Last(file[i])] = 0
    /\ Value[Last(Front(file[i]))] # 0
    /\ Edit([file EXCEPT ![i] = Front(@)], FALSE)

AppendTrailer == Edit(file \o <<<<"%">>, <<"0">>>>, FALSE)

DamageWord ==
  \E i \in InFormula : \E j \in 1..Len(file[i]) + 1, w \in Damage :
    Edit([file EXCEPT ![i] = InsertAt(@, j, w)], TRUE)

-----------------------------------------------------------------------------
Init ==
  \E clauses \in Formulas, comment \in Comments :
    /\ formula = clauses
    /\ file = write_dimacs(clauses, comment)
    /\ damaged = FALSE
    /\ edits = 0

Next ==
  \/ JoinLines \/ BreakLine \/ InsertLine \/ Respell
  \/ DropTerminator \/ AppendTrailer \/ DamageWord

Spec == Init /\ [][Next]_vars

-----------------------------------------------------------------------------
\* What write_dimacs wrote is what read_dimacs returns, however the lines,
\* comments, headers, spelling, trailer and last terminator have changed: a
\* different layout is never a different formula.
FormulaSurvives == ~damaged => read_dimacs(file) = [ok |-> TRUE, clauses |-> formula]

\* A damaged literal is an error, wherever in the formula it stands: it is
\* neither dropped nor read as another literal.  The one exception is damage at
\* the start of a line that makes it look like a comment or a header, which
\* hides that line, or like a trailer, which hides the rest of the file.
DamageRefused ==
  read_dimacs(file).ok =>
    \A i \in DOMAIN file :
      ToSet(file[i]) \cap Damage # {} =>
        \/ Starts(file[i], Damage \cap CsAndPs)
        \/ \E j \in 1..i : Starts(file[j], Damage \cap Percents)
=============================================================================

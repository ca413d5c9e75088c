------------------------ MODULE SolverSessionProofs ------------------------
(***************************************************************************)
(* Proofs about SolverSession, for every ceiling, every set of formulas,   *)
(* calls and queries, and every number of interrupts: the recorded ranges  *)
(* ascend, no variable serves both sides, the formula means what the calls *)
(* asked for, and the answers are about the calls.                         *)
(*                                                                         *)
(* The formula grows one clause at a time while the properties speak of    *)
(* whole calls, so that the invariant has to say what a half-added call    *)
(* means: the calls that returned, and those clauses of the current one    *)
(* that are in (FormulaSoFar).  It rests on the variables of the current   *)
(* call, its new auxiliary ones and the recorded ones being apart.         *)
(***************************************************************************)
EXTENDS SolverSession, EncodingCalls, CnfProofs

-----------------------------------------------------------------------------
(* Counting. *)

\* The true ones among the first i literals, by position.
TrueUpTo(vars, literals, i) == {x \in 1..i : True(vars, literals[x])}

\* How many there are: the counter of the sequential encoding.
CountUpTo(vars, literals, i) == Cardinality(TrueUpTo(vars, literals, i))

\* The counter starts at 0, and grows by one at a true literal.
LEMMA CountSteps ==
  ASSUME NEW vars, NEW literals, NEW i \in Nat
  PROVE  /\ CountUpTo(vars, literals, i) \in Nat
         /\ CountUpTo(vars, literals, 0) = 0
         /\ CountUpTo(vars, literals, i + 1) =
              IF True(vars, literals[i + 1]) THEN CountUpTo(vars, literals, i) + 1
              ELSE CountUpTo(vars, literals, i)
<1> DEFINE T(j) == TrueUpTo(vars, literals, j)
<1>1. IsFiniteSet(T(i)) /\ Cardinality(T(i)) \in Nat
  <2>1. IsFiniteSet(1..i)
    BY FS_Interval
  <2>2. T(i) \in SUBSET (1..i)
    BY DEF TrueUpTo
  <2> HIDE DEF T
  <2> QED BY <2>1, <2>2, FS_Subset, FS_CardinalityType
<1>2. T(0) = {}
  BY DEF TrueUpTo
<1>3. CASE True(vars, literals[i + 1])
  <2>1. T(i + 1) = T(i) \cup {i + 1} /\ i + 1 \notin T(i)
    BY <1>3 DEF TrueUpTo
  <2> HIDE DEF T
  <2>2. Cardinality(T(i + 1)) = Cardinality(T(i)) + 1
    BY <1>1, <2>1, FS_AddElement
  <2> QED BY <1>1, <1>2, <1>3, <2>2, FS_EmptySet DEF CountUpTo, T
<1>4. CASE ~True(vars, literals[i + 1])
  <2>1. T(i + 1) = T(i)
    <3>1. ASSUME NEW x PROVE x \in 1..(i + 1) <=> x \in 1..i \/ x = i + 1
      OBVIOUS
    <3> QED BY <1>4, <3>1 DEF TrueUpTo
  <2> QED BY <1>1, <1>2, <1>4, <2>1, FS_EmptySet DEF CountUpTo
<1> QED BY <1>3, <1>4

\* Count is the counter at the end.
LEMMA CountIs ==
  ASSUME NEW vars, NEW literals \in Seq(Lit)
  PROVE  /\ Count(vars, literals) = CountUpTo(vars, literals, Len(literals))
         /\ Count(vars, literals) \in 0..Len(literals)
<1>1. DOMAIN literals = 1..Len(literals) /\ Len(literals) \in Nat
  OBVIOUS
<1>2. Count(vars, literals) = Cardinality(TrueUpTo(vars, literals, Len(literals)))
  BY <1>1 DEF Count, Quantify, TrueUpTo
<1>3. /\ IsFiniteSet(1..Len(literals)) /\ Cardinality(1..Len(literals)) = Len(literals)
  BY <1>1, FS_Interval
<1>4. TrueUpTo(vars, literals, Len(literals)) \in SUBSET (1..Len(literals))
  BY DEF TrueUpTo
<1>5. Cardinality(TrueUpTo(vars, literals, Len(literals))) <= Len(literals)
  BY <1>3, <1>4, FS_Subset
<1>6. Cardinality(TrueUpTo(vars, literals, Len(literals))) \in Nat
  BY <1>3, <1>4, FS_Subset, FS_CardinalityType
<1> QED BY <1>1, <1>2, <1>5, <1>6 DEF CountUpTo

\* A finite set has subsets of every smaller size.
LEMMA SubsetOfSize ==
  ASSUME NEW T, IsFiniteSet(T), NEW j \in 0..Cardinality(T)
  PROVE  \E U \in SUBSET T : Cardinality(U) = j
<1> DEFINE Big   == {U \in SUBSET T : Cardinality(U) >= j}
           Sizes == {Cardinality(U) : U \in Big}
<1>1. \A U \in SUBSET T : IsFiniteSet(U) /\ Cardinality(U) \in Nat
  BY FS_Subset, FS_CardinalityType
<1>2. Sizes \subseteq Nat
  BY <1>1
<1>3. T \in Big
  BY <1>1
<1>4. PICK m \in Sizes : \A x \in Sizes : m <= x
  <2>1. Sizes # {}
    BY <1>3
  <2> HIDE DEF Sizes
  <2> QED BY <1>2, <2>1, LeastNumber
<1>5. PICK U \in Big : m = Cardinality(U)
  BY <1>4
<1>6. ASSUME m # j PROVE FALSE
  <2>1. m > j /\ m \in Nat
    BY <1>1, <1>5, <1>6
  <2>2. U # {}
    BY <1>5, <2>1, FS_EmptySet
  <2>3. PICK x : x \in U
    BY <2>2
  <2>4. Cardinality(U \ {x}) = m - 1
    BY <1>1, <1>5, <2>3, FS_RemoveElement
  <2>5. m - 1 \in Sizes
    BY <2>1, <2>4
  <2> QED BY <1>4, <2>1, <2>5
<1> QED BY <1>5, <1>6

-----------------------------------------------------------------------------
(* Literals in a model. *)

\* The negation of a literal is true when the literal is not.
LEMMA TrueNegation ==
  ASSUME NEW vars, NEW lit \in Lit
  PROVE  True(vars, -lit) <=> ~True(vars, lit)
<1>1. lit \in Int /\ lit # 0
  BY LitFacts
<1> QED BY <1>1 DEF True

\* The negated literals count the false ones.
LEMMA CountNegated ==
  ASSUME NEW vars, NEW literals \in Seq(Lit)
  PROVE  /\ Negated(literals) \in Seq(Lit)
         /\ Len(Negated(literals)) = Len(literals)
         /\ Count(vars, Negated(literals)) = Len(literals) - Count(vars, literals)
<1> DEFINE n == Len(literals)
<1>1. DOMAIN literals = 1..n /\ n \in Nat
  OBVIOUS
<1>2. \A i \in 1..n : literals[i] \in Lit /\ -literals[i] \in Lit
  BY <1>1, LitFacts
<1>3. Negated(literals) = [i \in 1..n |-> -literals[i]]
  BY <1>1 DEF Negated
<1>4. Negated(literals) \in [1..n -> Lit]
  BY <1>2, <1>3
<1>5. Negated(literals) \in Seq(Lit) /\ Len(Negated(literals)) = n
  BY <1>1, <1>4
<1> DEFINE T == TrueUpTo(vars, literals, n)
           F == TrueUpTo(vars, Negated(literals), n)
<1>6. F = (1..n) \ T
  <2>1. \A i \in 1..n : True(vars, Negated(literals)[i]) <=> ~True(vars, literals[i])
    BY <1>2, <1>3, TrueNegation
  <2> QED BY <2>1 DEF TrueUpTo
<1>7. IsFiniteSet(1..n) /\ Cardinality(1..n) = n
  BY <1>1, FS_Interval
<1>8. Cardinality(F) = n - Cardinality(T)
  <2>1. (1..n) \cap T = T
    BY DEF TrueUpTo
  <2> HIDE DEF T, F, n
  <2>2. Cardinality((1..n) \ T) = Cardinality(1..n) - Cardinality((1..n) \cap T)
    BY <1>7, FS_Difference
  <2> QED BY <1>6, <1>7, <2>1, <2>2
<1>9. /\ Count(vars, literals) = Cardinality(T)
      /\ Count(vars, Negated(literals)) = Cardinality(F)
  BY <1>5, CountIs DEF CountUpTo
<1> QED BY <1>5, <1>8, <1>9

\* The pairwise clauses say that there are at most k.
LEMMA PairwiseExact ==
  ASSUME NEW vars, NEW literals \in Seq(Lit), NEW k \in Nat
  PROVE  IsModel(vars, encode_pairwise(literals, k), {}) <=> Count(vars, literals) <= k
<1> DEFINE n == Len(literals)
           T == TrueUpTo(vars, literals, n)
<1>1. DOMAIN literals = 1..n /\ n \in Nat
  OBVIOUS
<1>2. IsFiniteSet(T) /\ Cardinality(T) \in Nat /\ T \subseteq 1..n
  <2>1. IsFiniteSet(1..n)
    BY <1>1, FS_Interval
  <2>2. T \in SUBSET (1..n)
    BY DEF TrueUpTo
  <2> HIDE DEF T
  <2> QED BY <2>1, <2>2, FS_Subset, FS_CardinalityType
<1>3. Count(vars, literals) = Cardinality(T)
  BY CountIs DEF CountUpTo
<1>4. ASSUME NEW idx \in SUBSET (1..n)
      PROVE  Holds(vars, {-literals[i] : i \in idx}) <=> ~(idx \subseteq T)
  <2>1. \A i \in idx : True(vars, -literals[i]) <=> i \notin T
    <3>1. \A i \in idx : literals[i] \in Lit
      BY <1>1
    <3> QED BY <3>1, TrueNegation DEF TrueUpTo
  <2> QED BY <2>1 DEF Holds
<1>5. IsModel(vars, encode_pairwise(literals, k), {}) <=>
        \A idx \in SUBSET (1..n) : Cardinality(idx) = k + 1 => ~(idx \subseteq T)
  <2>1. encode_pairwise(literals, k) =
          {{-literals[i] : i \in idx} : idx \in kSubset(k + 1, 1..n)}
    BY <1>1 DEF encode_pairwise
  <2>2. kSubset(k + 1, 1..n) = {idx \in SUBSET (1..n) : Cardinality(idx) = k + 1}
    BY DEF kSubset
  <2>3. IsModel(vars, encode_pairwise(literals, k), {}) <=>
          \A idx \in kSubset(k + 1, 1..n) : Holds(vars, {-literals[i] : i \in idx})
    BY <2>1 DEF IsModel
  <2> HIDE DEF T
  <2> QED BY <1>4, <2>2, <2>3
<1> HIDE DEF T, n
<1>6. ASSUME Cardinality(T) > k
      PROVE  \E idx \in SUBSET (1..n) : Cardinality(idx) = k + 1 /\ idx \subseteq T
  <2>1. k + 1 \in 0..Cardinality(T)
    BY <1>2, <1>6
  <2>2. PICK U \in SUBSET T : Cardinality(U) = k + 1
    BY <1>2, <2>1, SubsetOfSize
  <2> QED BY <1>2, <2>2
<1>7. ASSUME NEW idx \in SUBSET (1..n), Cardinality(idx) = k + 1, idx \subseteq T
      PROVE  Cardinality(T) > k
  <2>1. Cardinality(idx) <= Cardinality(T)
    BY <1>2, <1>7, FS_Subset
  <2> QED BY <1>2, <1>7, <2>1
<1> QED BY <1>2, <1>3, <1>5, <1>6, <1>7

-----------------------------------------------------------------------------
(* The sequential counter. *)

\* s(i, j) of encode_sequential.
Slot(k, top, i, j) == top + (i - 1) * k + j

\* The counter variables fill the range above top.
LEMMA SlotRange ==
  ASSUME NEW n \in Nat, NEW k \in Nat, NEW top \in Nat, NEW i \in 1..(n - 1), NEW j \in 1..k
  PROVE  Slot(k, top, i, j) \in (top + 1)..(top + (n - 1) * k)
<1>1. (i - 1) * k \in Nat /\ (n - 1) * k \in Nat
  OBVIOUS
<1>2. PICK d \in Nat : n - 1 = i + d
  <2>1. n - 1 - i \in Nat
    OBVIOUS
  <2> QED BY <2>1
<1>3. (n - 1) * k = (i - 1) * k + k + d * k /\ d * k \in Nat
  BY <1>2
<1> QED BY <1>1, <1>3 DEF Slot

\* Different counters have different variables.
LEMMA SlotDistinct ==
  ASSUME NEW k \in Nat, NEW top \in Nat, NEW i \in Nat \ {0}, NEW j \in 1..k,
         NEW x \in Nat \ {0}, NEW y \in 1..k, Slot(k, top, i, j) = Slot(k, top, x, y)
  PROVE  i = x /\ j = y
<1>0. /\ (i - 1) * k \in Nat /\ (x - 1) * k \in Nat
      /\ (i - 1) * k + j = (x - 1) * k + y
  BY DEF Slot
<1>1. ASSUME i < x PROVE FALSE
  <2>1. PICK d \in Nat : x = i + 1 + d
    <3>1. x - i - 1 \in Nat
      BY <1>1
    <3> QED BY <3>1
  <2>2. (x - 1) * k = (i - 1) * k + k + d * k /\ d * k \in Nat
    BY <2>1
  <2> QED BY <1>0, <2>2
<1>2. ASSUME x < i PROVE FALSE
  <2>1. PICK d \in Nat : i = x + 1 + d
    <3>1. i - x - 1 \in Nat
      BY <1>2
    <3> QED BY <3>1
  <2>2. (i - 1) * k = (x - 1) * k + k + d * k /\ d * k \in Nat
    BY <2>1
  <2> QED BY <1>0, <2>2
<1>3. i = x
  BY <1>1, <1>2
<1> QED BY <1>0, <1>3

\* Every variable of the range is a counter.
LEMMA SlotOnto ==
  ASSUME NEW n \in Nat, NEW k \in Nat, NEW top \in Nat,
         NEW v \in (top + 1)..(top + (n - 1) * k), n >= 1
  PROVE  \E i \in 1..(n - 1), j \in 1..k : v = Slot(k, top, i, j)
<1> DEFINE S == {i \in Nat : v <= top + i * k}
<1>1. n - 1 \in S
  OBVIOUS
<1>2. PICK i \in S : \A x \in S : i <= x
  <2>1. S \subseteq Nat /\ S # {}
    BY <1>1
  <2> HIDE DEF S
  <2> QED BY <2>1, LeastNumber
<1>3. i # 0
  <2>1. 0 * k = 0
    OBVIOUS
  <2> QED BY <1>2, <2>1
<1>4. i \in 1..(n - 1)
  BY <1>1, <1>2, <1>3
<1>5. v > top + (i - 1) * k
  <2>1. i - 1 \in Nat /\ i - 1 \notin S
    BY <1>2, <1>3
  <2>2. (i - 1) * k \in Nat
    BY <2>1
  <2> QED BY <2>1, <2>2
<1>6. i * k = (i - 1) * k + k /\ (i - 1) * k \in Nat /\ i * k \in Nat
  BY <1>4
<1>7. v - top - (i - 1) * k \in 1..k
  BY <1>2, <1>5, <1>6
<1>8. v = Slot(k, top, i, v - top - (i - 1) * k)
  BY <1>6, <1>7 DEF Slot
<1> QED BY <1>4, <1>7, <1>8

\* What the clauses of encode_sequential say of an assignment: a true literal
\* raises the counter, the counter never falls, and never passes k.
Counts(m, literals, k, top) ==
  LET n       == Len(literals)
      t(i)    == True(m, literals[i])
      S(i, j) == Slot(k, top, i, j) \in m
  IN  /\ t(1) => S(1, 1)
      /\ \A j \in 2..k : ~S(1, j)
      /\ \A i \in 2..(n - 1) :
           /\ t(i) => S(i, 1)
           /\ S(i - 1, 1) => S(i, 1)
           /\ \A j \in 2..k : /\ t(i) /\ S(i - 1, j - 1) => S(i, j)
                              /\ S(i - 1, j) => S(i, j)
           /\ t(i) => ~S(i - 1, k)
      /\ t(n) => ~S(n - 1, k)

\* The clauses of encode_sequential, with Slot for its s.
SequentialClauses(literals, k, top) ==
  LET n      == Len(literals)
      Middle == 2..(n - 1)
  IN  {{-literals[1], Slot(k, top, 1, 1)}}
      \cup {{-Slot(k, top, 1, j)} : j \in 2..k}
      \cup {{-literals[i], Slot(k, top, i, 1)} : i \in Middle}
      \cup {{-Slot(k, top, i - 1, 1), Slot(k, top, i, 1)} : i \in Middle}
      \cup {{-literals[i], -Slot(k, top, i - 1, j - 1), Slot(k, top, i, j)} :
              i \in Middle, j \in 2..k}
      \cup {{-Slot(k, top, i - 1, j), Slot(k, top, i, j)} : i \in Middle, j \in 2..k}
      \cup {{-literals[i], -Slot(k, top, i - 1, k)} : i \in Middle}
      \cup {{-literals[n], -Slot(k, top, n - 1, k)}}

LEMMA SequentialIs ==
  ASSUME NEW literals, NEW k, NEW top
  PROVE  encode_sequential(literals, k, top) =
           Encoding(SequentialClauses(literals, k, top), top + (Len(literals) - 1) * k)
  BY DEF encode_sequential, SequentialClauses, Slot

\* Counters are positive, so that as literals they are true when they are set.
LEMMA SlotTrue ==
  ASSUME NEW m, NEW k \in Nat \ {0}, NEW top \in Nat, NEW i \in Nat \ {0}, NEW j \in 1..k
  PROVE  /\ True(m, Slot(k, top, i, j)) <=> Slot(k, top, i, j) \in m
         /\ True(m, -Slot(k, top, i, j)) <=> Slot(k, top, i, j) \notin m
<1>1. Slot(k, top, i, j) \in Nat \ {0}
  <2>1. (i - 1) * k \in Nat
    OBVIOUS
  <2> QED BY <2>1 DEF Slot
<1> QED BY <1>1 DEF True

\* The clauses of the sequential encoding say that the counter counts.
LEMMA SequentialMeans ==
  ASSUME NEW m, NEW literals \in Seq(Lit), NEW k \in 1..(Len(literals) - 1), NEW top \in Nat
  PROVE  IsModel(m, SequentialClauses(literals, k, top), {}) <=> Counts(m, literals, k, top)
<1> DEFINE n       == Len(literals)
           t(i)    == True(m, literals[i])
           s(i, j) == Slot(k, top, i, j)
           S(i, j) == s(i, j) \in m
           Middle  == 2..(n - 1)
<1>1. n \in Nat /\ n >= 2 /\ k \in Nat \ {0} /\ DOMAIN literals = 1..n
  OBVIOUS
<1>2. \A i \in 1..n : True(m, -literals[i]) <=> ~t(i)
  BY <1>1, TrueNegation
<1>3. \A i \in 1..n, j \in 1..k : /\ True(m, s(i, j)) <=> S(i, j)
                                  /\ True(m, -s(i, j)) <=> ~S(i, j)
  BY <1>1, SlotTrue
<1> HIDE DEF s
<1>4. Holds(m, {-literals[1], s(1, 1)}) <=> (t(1) => S(1, 1))
  <2>1. 1 \in 1..n /\ 1 \in 1..k
    BY <1>1
  <2> QED BY <1>2, <1>3, <2>1 DEF Holds
<1>5. ASSUME NEW j \in 2..k PROVE Holds(m, {-s(1, j)}) <=> ~S(1, j)
  <2>1. 1 \in 1..n /\ j \in 1..k
    BY <1>1
  <2> QED BY <1>3, <2>1 DEF Holds
<1>6. ASSUME NEW i \in Middle
      PROVE  /\ Holds(m, {-literals[i], s(i, 1)}) <=> (t(i) => S(i, 1))
             /\ Holds(m, {-s(i - 1, 1), s(i, 1)}) <=> (S(i - 1, 1) => S(i, 1))
             /\ Holds(m, {-literals[i], -s(i - 1, k)}) <=> (t(i) => ~S(i - 1, k))
  <2>1. i \in 1..n /\ i - 1 \in 1..n /\ 1 \in 1..k /\ k \in 1..k
    BY <1>1
  <2> QED BY <1>2, <1>3, <2>1 DEF Holds
<1>7. ASSUME NEW i \in Middle, NEW j \in 2..k
      PROVE  /\ Holds(m, {-literals[i], -s(i - 1, j - 1), s(i, j)})
                  <=> (t(i) /\ S(i - 1, j - 1) => S(i, j))
             /\ Holds(m, {-s(i - 1, j), s(i, j)}) <=> (S(i - 1, j) => S(i, j))
  <2>1. i \in 1..n /\ i - 1 \in 1..n /\ j \in 1..k /\ j - 1 \in 1..k
    BY <1>1
  <2> QED BY <1>2, <1>3, <2>1 DEF Holds
<1>8. Holds(m, {-literals[n], -s(n - 1, k)}) <=> (t(n) => ~S(n - 1, k))
  <2>1. n \in 1..n /\ n - 1 \in 1..n /\ k \in 1..k
    BY <1>1
  <2> QED BY <1>2, <1>3, <2>1 DEF Holds
<1>9. IsModel(m, SequentialClauses(literals, k, top), {}) <=>
        /\ Holds(m, {-literals[1], s(1, 1)})
        /\ \A j \in 2..k : Holds(m, {-s(1, j)})
        /\ \A i \in Middle : /\ Holds(m, {-literals[i], s(i, 1)})
                             /\ Holds(m, {-s(i - 1, 1), s(i, 1)})
                             /\ Holds(m, {-literals[i], -s(i - 1, k)})
        /\ \A i \in Middle, j \in 2..k :
             /\ Holds(m, {-literals[i], -s(i - 1, j - 1), s(i, j)})
             /\ Holds(m, {-s(i - 1, j), s(i, j)})
        /\ Holds(m, {-literals[n], -s(n - 1, k)})
  <2>1. SequentialClauses(literals, k, top) =
          {{-literals[1], s(1, 1)}}
          \cup {{-s(1, j)} : j \in 2..k}
          \cup {{-literals[i], s(i, 1)} : i \in Middle}
          \cup {{-s(i - 1, 1), s(i, 1)} : i \in Middle}
          \cup {{-literals[i], -s(i - 1, j - 1), s(i, j)} : i \in Middle, j \in 2..k}
          \cup {{-s(i - 1, j), s(i, j)} : i \in Middle, j \in 2..k}
          \cup {{-literals[i], -s(i - 1, k)} : i \in Middle}
          \cup {{-literals[n], -s(n - 1, k)}}
    BY DEF SequentialClauses, s
  <2> HIDE DEF Middle, n
  <2> DEFINE H(F) == \A c \in F : Holds(m, c)
             C2 == {{-s(1, j)} : j \in 2..k}
             C3 == {{-literals[i], s(i, 1)} : i \in Middle}
             C4 == {{-s(i - 1, 1), s(i, 1)} : i \in Middle}
             C5 == {{-literals[i], -s(i - 1, j - 1), s(i, j)} : i \in Middle, j \in 2..k}
             C6 == {{-s(i - 1, j), s(i, j)} : i \in Middle, j \in 2..k}
             C7 == {{-literals[i], -s(i - 1, k)} : i \in Middle}
  <2>2. /\ H(C2) <=> \A j \in 2..k : Holds(m, {-s(1, j)})
        /\ H(C3) <=> \A i \in Middle : Holds(m, {-literals[i], s(i, 1)})
        /\ H(C4) <=> \A i \in Middle : Holds(m, {-s(i - 1, 1), s(i, 1)})
        /\ H(C7) <=> \A i \in Middle : Holds(m, {-literals[i], -s(i - 1, k)})
    OBVIOUS
  <2>3. /\ H(C5) <=> \A i \in Middle, j \in 2..k :
                       Holds(m, {-literals[i], -s(i - 1, j - 1), s(i, j)})
        /\ H(C6) <=> \A i \in Middle, j \in 2..k : Holds(m, {-s(i - 1, j), s(i, j)})
    <3>1. \A i \in Middle, j \in 2..k :
            /\ {-literals[i], -s(i - 1, j - 1), s(i, j)} \in C5
            /\ {-s(i - 1, j), s(i, j)} \in C6
      OBVIOUS
    <3>2. \A c \in C5 : \E i \in Middle, j \in 2..k :
            c = {-literals[i], -s(i - 1, j - 1), s(i, j)}
      OBVIOUS
    <3>3. \A c \in C6 : \E i \in Middle, j \in 2..k : c = {-s(i - 1, j), s(i, j)}
      OBVIOUS
    <3> HIDE DEF C5, C6
    <3>4. ASSUME \A i \in Middle, j \in 2..k :
                   Holds(m, {-literals[i], -s(i - 1, j - 1), s(i, j)}),
                 NEW c \in C5
          PROVE  Holds(m, c)
      <4>1. PICK i \in Middle, j \in 2..k : c = {-literals[i], -s(i - 1, j - 1), s(i, j)}
        BY <3>2
      <4> QED BY <3>4, <4>1
    <3>5. ASSUME \A i \in Middle, j \in 2..k : Holds(m, {-s(i - 1, j), s(i, j)}),
                 NEW c \in C6
          PROVE  Holds(m, c)
      <4>1. PICK i \in Middle, j \in 2..k : c = {-s(i - 1, j), s(i, j)}
        BY <3>3
      <4> QED BY <3>5, <4>1
    <3>6. ASSUME H(C5), NEW i \in Middle, NEW j \in 2..k
          PROVE  Holds(m, {-literals[i], -s(i - 1, j - 1), s(i, j)})
      BY <3>1, <3>6
    <3>7. ASSUME H(C6), NEW i \in Middle, NEW j \in 2..k
          PROVE  Holds(m, {-s(i - 1, j), s(i, j)})
      BY <3>1, <3>7
    <3> QED BY <3>4, <3>5, <3>6, <3>7
  <2>4. IsModel(m, SequentialClauses(literals, k, top), {}) <=>
          /\ Holds(m, {-literals[1], s(1, 1)})
          /\ H(C2) /\ H(C3) /\ H(C4) /\ H(C5) /\ H(C6) /\ H(C7)
          /\ Holds(m, {-literals[n], -s(n - 1, k)})
    <3> HIDE DEF C2, C3, C4, C5, C6, C7
    <3>1. SequentialClauses(literals, k, top) =
            {{-literals[1], s(1, 1)}} \cup C2 \cup C3 \cup C4 \cup C5 \cup C6 \cup C7
            \cup {{-literals[n], -s(n - 1, k)}}
      BY <2>1 DEF C2, C3, C4, C5, C6, C7
    <3> QED BY <3>1 DEF IsModel
  <2> HIDE DEF C2, C3, C4, C5, C6, C7, H
  <2> QED BY <2>2, <2>3, <2>4
<1>10. Counts(m, literals, k, top) <=>
         /\ t(1) => S(1, 1)
         /\ \A j \in 2..k : ~S(1, j)
         /\ \A i \in Middle :
              /\ t(i) => S(i, 1)
              /\ S(i - 1, 1) => S(i, 1)
              /\ \A j \in 2..k : /\ t(i) /\ S(i - 1, j - 1) => S(i, j)
                                 /\ S(i - 1, j) => S(i, j)
              /\ t(i) => ~S(i - 1, k)
         /\ t(n) => ~S(n - 1, k)
  BY DEF Counts, s
<1> HIDE DEF Middle, n, t
<1> QED BY <1>4, <1>5, <1>6, <1>7, <1>8, <1>9, <1>10

\* A longer prefix has no fewer true literals.
LEMMA CountGrows ==
  ASSUME NEW vars, NEW literals, NEW i \in Nat, NEW n \in Nat, i <= n
  PROVE  CountUpTo(vars, literals, i) <= CountUpTo(vars, literals, n)
<1>1. IsFiniteSet(TrueUpTo(vars, literals, n))
  <2>1. IsFiniteSet(1..n)
    BY FS_Interval
  <2>2. TrueUpTo(vars, literals, n) \in SUBSET (1..n)
    BY DEF TrueUpTo
  <2> QED BY <2>1, <2>2, FS_Subset
<1>2. TrueUpTo(vars, literals, i) \in SUBSET TrueUpTo(vars, literals, n)
  BY DEF TrueUpTo
<1> QED BY <1>1, <1>2, FS_Subset DEF CountUpTo

\* In a model of the counter, its variables are set as far as the literals
\* count, so that no more than k of them are true.
LEMMA CounterSound ==
  ASSUME NEW m, NEW literals \in Seq(Lit), NEW k \in 1..(Len(literals) - 1), NEW top \in Nat,
         Counts(m, literals, k, top)
  PROVE  Count(m, literals) <= k
<1> DEFINE n       == Len(literals)
           t(i)    == True(m, literals[i])
           S(i, j) == Slot(k, top, i, j) \in m
           C(i)    == CountUpTo(m, literals, i)
           Q(i)    == C(i) <= k /\ \A j \in 1..k : C(i) >= j => S(i, j)
           I       == {i \in Nat : i + 1 <= n - 1 => Q(i + 1)}
<1>1. n \in Nat /\ n >= 2 /\ k \in Nat \ {0} /\ k <= n - 1
  OBVIOUS
<1>2. /\ t(1) => S(1, 1)
      /\ \A i \in 2..(n - 1) :
           /\ t(i) => S(i, 1)
           /\ S(i - 1, 1) => S(i, 1)
           /\ \A j \in 2..k : /\ t(i) /\ S(i - 1, j - 1) => S(i, j)
                              /\ S(i - 1, j) => S(i, j)
           /\ t(i) => ~S(i - 1, k)
      /\ t(n) => ~S(n - 1, k)
  BY DEF Counts
<1>3. \A i \in Nat : C(i) \in Nat /\ C(i + 1) = IF t(i + 1) THEN C(i) + 1 ELSE C(i)
  BY CountSteps
<1>4. C(0) = 0
  BY CountSteps
<1>5. Count(m, literals) = C(n)
  BY CountIs
<1> HIDE DEF t, S, C, n
<1>6. 0 \in I
  <2>1. C(1) = IF t(1) THEN 1 ELSE 0
    <3>1. C(0 + 1) = IF t(0 + 1) THEN C(0) + 1 ELSE C(0)
      BY <1>3
    <3>2. 0 + 1 = 1
      OBVIOUS
    <3> QED BY <1>4, <3>1, <3>2
  <2> QED BY <1>1, <1>2, <2>1
<1>7. ASSUME NEW i \in Nat, i \in I PROVE i + 1 \in I
  <2> SUFFICES ASSUME i + 2 <= n - 1 PROVE Q(i + 2)
    OBVIOUS
  <2> DEFINE p == i + 1
             q == i + 2
  <2>1. Q(p) /\ q \in 2..(n - 1) /\ q - 1 = p /\ p \in Nat
    BY <1>1, <1>7
  <2>2. C(p) \in Nat /\ C(q) = IF t(q) THEN C(p) + 1 ELSE C(p)
    <3>1. p + 1 = q
      OBVIOUS
    <3> HIDE DEF p, q
    <3> QED BY <1>3, <2>1, <3>1
  <2>3. /\ t(q) => S(q, 1)
        /\ S(p, 1) => S(q, 1)
        /\ \A j \in 2..k : /\ t(q) /\ S(p, j - 1) => S(q, j)
                           /\ S(p, j) => S(q, j)
        /\ t(q) => ~S(p, k)
    BY <1>2, <2>1
  <2> HIDE DEF p, q
  <2>4. C(q) <= k
    <3>1. k \in 1..k
      BY <1>1
    <3> QED BY <1>1, <2>1, <2>2, <2>3, <3>1
  <2>5. ASSUME NEW j \in 1..k, C(q) >= j PROVE S(q, j)
    <3>1. CASE C(p) >= j
      <4>1. S(p, j)
        BY <2>1, <3>1
      <4> QED BY <2>3, <4>1, <1>1
    <3>2. CASE C(p) < j /\ j = 1
      <4>1. t(q)
        BY <2>2, <2>5, <3>2
      <4> QED BY <2>3, <3>2, <4>1
    <3>3. CASE C(p) < j /\ j # 1
      <4>1. t(q) /\ C(p) = j - 1
        BY <2>2, <2>5, <3>3
      <4>2. j - 1 \in 1..k /\ j \in 2..k
        BY <1>1, <3>3
      <4>3. S(p, j - 1)
        BY <2>1, <2>2, <4>1, <4>2
      <4> QED BY <2>3, <4>1, <4>2, <4>3
    <3> QED BY <2>2, <3>1, <3>2, <3>3
  <2> QED BY <2>4, <2>5 DEF q
<1>8. Nat \subseteq I
  <2> HIDE DEF I
  <2> QED BY <1>6, <1>7, Induction
<1>9. Q(n - 1)
  <2>1. n - 2 \in Nat /\ (n - 2) + 1 = n - 1
    BY <1>1
  <2>2. n - 2 \in I
    BY <1>8, <2>1
  <2> QED BY <2>1, <2>2
<1>10. C(n) <= k
  <2>1. C(n - 1) \in Nat /\ C(n) = IF t(n) THEN C(n - 1) + 1 ELSE C(n - 1)
    <3>1. n - 1 \in Nat /\ (n - 1) + 1 = n
      BY <1>1
    <3> QED BY <1>3, <3>1
  <2>2. C(n - 1) >= k => S(n - 1, k)
    BY <1>1, <1>9
  <2> QED BY <1>1, <1>2, <1>9, <2>1, <2>2
<1> QED BY <1>5, <1>10

\* The counter variables to set for an assignment of the literals.
CounterOf(vars, literals, k, top) ==
  {v \in (top + 1)..(top + (Len(literals) - 1) * k) :
     \E i \in 1..(Len(literals) - 1), j \in 1..k :
        v = Slot(k, top, i, j) /\ CountUpTo(vars, literals, i) >= j}

\* An assignment with at most k true literals extends to the counter.
LEMMA CounterComplete ==
  ASSUME NEW literals \in Seq(Lit), NEW k \in 1..(Len(literals) - 1), NEW top \in Nat,
         NEW vars \in SUBSET (1..top),
         \A i \in DOMAIN literals : VarOf(literals[i]) <= top,
         Count(vars, literals) <= k
  PROVE  Counts(vars \cup CounterOf(vars, literals, k, top), literals, k, top)
<1> DEFINE n       == Len(literals)
           counter == CounterOf(vars, literals, k, top)
           m       == vars \cup counter
           t(i)    == True(m, literals[i])
           S(i, j) == Slot(k, top, i, j) \in m
           C(i)    == CountUpTo(vars, literals, i)
<1>1. n \in Nat /\ n >= 2 /\ k \in Nat \ {0} /\ k <= n - 1 /\ DOMAIN literals = 1..n
  OBVIOUS
<1>2. ASSUME NEW i \in 1..n PROVE t(i) <=> True(vars, literals[i])
  <2>1. literals[i] \in Lit /\ VarOf(literals[i]) <= top
    BY <1>1
  <2>2. VarOf(literals[i]) \in Nat
    BY <2>1, LitFacts
  <2>3. VarOf(literals[i]) \notin counter
    BY <2>1, <2>2 DEF CounterOf
  <2> HIDE DEF counter
  <2>4. VarOf(literals[i]) \in vars <=> VarOf(literals[i]) \in m
    BY <2>3
  <2> HIDE DEF m
  <2> QED BY <2>1, <2>4, TrueDepends
<1>3. ASSUME NEW i \in 1..(n - 1), NEW j \in 1..k PROVE S(i, j) <=> C(i) >= j
  <2>1. Slot(k, top, i, j) \in (top + 1)..(top + (n - 1) * k)
    BY <1>1, SlotRange
  <2>2. Slot(k, top, i, j) \notin vars
    BY <2>1
  <2>3. C(i) >= j => Slot(k, top, i, j) \in counter
    BY <2>1 DEF CounterOf
  <2>4. ASSUME Slot(k, top, i, j) \in counter PROVE C(i) >= j
    <3>1. PICK x \in 1..(n - 1), y \in 1..k :
            Slot(k, top, i, j) = Slot(k, top, x, y) /\ C(x) >= y
      BY <2>4 DEF CounterOf
    <3>2. i \in Nat \ {0} /\ x \in Nat \ {0}
      BY <1>1
    <3>3. i = x /\ j = y
      <4>1. Slot(k, top, i, j) = Slot(k, top, x, y) /\ y \in 1..k /\ k \in Nat
        BY <1>1, <3>1
      <4> HIDE DEF n, counter, C
      <4> QED BY <4>1, <3>2, SlotDistinct
    <3> QED BY <3>1, <3>3
  <2> HIDE DEF counter, C
  <2> QED BY <2>2, <2>3, <2>4
<1>4. \A i \in Nat : C(i) \in Nat /\ C(i + 1) = IF True(vars, literals[i + 1]) THEN C(i) + 1 ELSE C(i)
  BY CountSteps
<1>5. C(0) = 0
  BY CountSteps
<1>6. ASSUME NEW i \in 0..n PROVE C(i) <= k
  <2>1. C(i) <= C(n)
    BY <1>1, CountGrows
  <2>2. C(n) <= k
    BY CountIs
  <2>3. C(i) \in Nat /\ C(n) \in Nat
    BY <1>1, <1>4
  <2> HIDE DEF C
  <2> QED BY <1>1, <2>1, <2>2, <2>3
<1> HIDE DEF n, m, t, S, C
<1>7. ASSUME NEW i \in 1..n
      PROVE  /\ C(i - 1) \in Nat /\ C(i) \in Nat
             /\ C(i) = IF t(i) THEN C(i - 1) + 1 ELSE C(i - 1)
  <2>1. i - 1 \in Nat /\ (i - 1) + 1 = i /\ i \in Nat
    BY <1>1
  <2> QED BY <1>2, <1>4, <2>1
<1>8. t(1) => S(1, 1)
  <2>1. 1 \in 1..n /\ 1 \in 1..(n - 1) /\ 1 \in 1..k /\ 1 - 1 = 0
    BY <1>1
  <2> QED BY <1>3, <1>5, <1>7, <2>1
<1>9. ASSUME NEW j \in 2..k PROVE ~S(1, j)
  <2>1. 1 \in 1..n /\ 1 \in 1..(n - 1) /\ j \in 1..k /\ 1 - 1 = 0
    BY <1>1
  <2>2. C(1) <= 1
    BY <1>5, <1>7, <2>1
  <2> QED BY <1>3, <1>7, <2>1, <2>2
<1>10. ASSUME NEW i \in 2..(n - 1)
       PROVE  /\ t(i) => S(i, 1)
              /\ S(i - 1, 1) => S(i, 1)
              /\ t(i) => ~S(i - 1, k)
  <2>1. i \in 1..n /\ i \in 1..(n - 1) /\ i - 1 \in 1..(n - 1) /\ 1 \in 1..k /\ k \in 1..k
        /\ i \in 0..n
    BY <1>1
  <2>2. C(i) <= k
    BY <1>6, <2>1
  <2>3. (S(i, 1) <=> C(i) >= 1) /\ (S(i - 1, 1) <=> C(i - 1) >= 1)
        /\ (S(i - 1, k) <=> C(i - 1) >= k)
    BY <1>3, <2>1
  <2>4. C(i - 1) \in Nat /\ C(i) = IF t(i) THEN C(i - 1) + 1 ELSE C(i - 1)
    BY <1>7, <2>1
  <2> QED BY <1>1, <2>2, <2>3, <2>4
<1>11. ASSUME NEW i \in 2..(n - 1), NEW j \in 2..k
       PROVE  /\ t(i) /\ S(i - 1, j - 1) => S(i, j)
              /\ S(i - 1, j) => S(i, j)
  <2>1. i \in 1..n /\ i \in 1..(n - 1) /\ i - 1 \in 1..(n - 1) /\ j \in 1..k /\ j - 1 \in 1..k
    BY <1>1
  <2>2. (S(i, j) <=> C(i) >= j) /\ (S(i - 1, j) <=> C(i - 1) >= j)
        /\ (S(i - 1, j - 1) <=> C(i - 1) >= j - 1)
    BY <1>3, <2>1
  <2>3. C(i - 1) \in Nat /\ C(i) = IF t(i) THEN C(i - 1) + 1 ELSE C(i - 1)
    BY <1>7, <2>1
  <2> QED BY <2>1, <2>2, <2>3
<1>12. t(n) => ~S(n - 1, k)
  <2>1. n \in 1..n /\ n - 1 \in 1..(n - 1) /\ k \in 1..k /\ n \in 0..n
    BY <1>1
  <2> QED BY <1>1, <1>3, <1>6, <1>7, <2>1
<1>13. Counts(m, literals, k, top) <=>
         /\ t(1) => S(1, 1)
         /\ \A j \in 2..k : ~S(1, j)
         /\ \A i \in 2..(n - 1) :
              /\ t(i) => S(i, 1)
              /\ S(i - 1, 1) => S(i, 1)
              /\ \A j \in 2..k : /\ t(i) /\ S(i - 1, j - 1) => S(i, j)
                                 /\ S(i - 1, j) => S(i, j)
              /\ t(i) => ~S(i - 1, k)
         /\ t(n) => ~S(n - 1, k)
  BY DEF Counts, t, S, n
<1>14. Counts(m, literals, k, top)
  BY <1>8, <1>9, <1>10, <1>11, <1>12, <1>13
<1> QED BY <1>14 DEF m

-----------------------------------------------------------------------------
(* Encodings as wholes. *)

\* The variables of the literals of a call.
UserVarsOf(literals) == {VarOf(literals[i]) : i \in DOMAIN literals}

\* The variables an encoding allocates.
AuxRange(enc, top) == (top + 1)..enc.top

\* enc, built above top, says of the variables user that they are assigned in
\* one of the ways good, and uses all it allocates and nothing else.
Represents(enc, user, top, good) ==
  /\ enc.top \in top..MaxVar
  /\ enc.clauses \subseteq SUBSET Lit
  /\ VarsIn(enc.clauses) \subseteq user \cup AuxRange(enc, top)
  /\ AuxRange(enc, top) \subseteq VarsIn(enc.clauses)
  /\ \A vars \in SUBSET user :
       vars \in good <=>
         \E a \in SUBSET AuxRange(enc, top) : IsModel(vars \cup a, enc.clauses, {})

\* The literals an encoding gets: below top, which is below the ceiling.
Below(literals, top) ==
  /\ literals \in Seq(Lit)
  /\ top \in 0..MaxVar
  /\ \A i \in DOMAIN literals : VarOf(literals[i]) <= top

LEMMA BelowFacts ==
  ASSUME NEW literals, NEW top, Below(literals, top)
  PROVE  /\ top \in Nat /\ top <= MaxVar
         /\ Len(literals) \in Nat /\ DOMAIN literals = 1..Len(literals)
         /\ \A i \in DOMAIN literals : literals[i] \in Lit
         /\ UserVarsOf(literals) \subseteq 1..top
<1>1. /\ top \in Nat /\ top <= MaxVar
      /\ Len(literals) \in Nat /\ DOMAIN literals = 1..Len(literals)
      /\ \A i \in DOMAIN literals : literals[i] \in Lit
  BY MaxVarAssumption DEF Below
<1>2. ASSUME NEW i \in DOMAIN literals PROVE VarOf(literals[i]) \in 1..top
  BY <1>1, LitFacts DEF Below, Var
<1> QED BY <1>1, <1>2 DEF UserVarsOf

\* A model depends on the variables in the clauses only.
LEMMA ModelOnVars ==
  ASSUME NEW F, F \subseteq SUBSET Lit, NEW p, NEW q,
         \A v \in VarsIn(F) : v \in p <=> v \in q
  PROVE  IsModel(p, F, {}) <=> IsModel(q, F, {})
<1>1. ASSUME NEW c \in F, NEW lit \in c PROVE VarOf(lit) \in p <=> VarOf(lit) \in q
  <2>1. VarOf(lit) \in VarsIn(F)
    BY DEF VarsIn
  <2> QED BY <2>1
<1> QED BY <1>1, ModelDepends

\* A count depends on the variables of the literals only.
LEMMA CountDepends ==
  ASSUME NEW literals \in Seq(Lit), NEW p, NEW q,
         \A v \in UserVarsOf(literals) : v \in p <=> v \in q
  PROVE  Count(p, literals) = Count(q, literals)
<1>1. ASSUME NEW i \in DOMAIN literals
      PROVE  True(p, literals[i]) <=> True(q, literals[i])
  <2>1. literals[i] \in Lit /\ VarOf(literals[i]) \in UserVarsOf(literals)
    BY DEF UserVarsOf
  <2> QED BY <2>1, TrueDepends
<1>2. {i \in DOMAIN literals : True(p, literals[i])} =
      {i \in DOMAIN literals : True(q, literals[i])}
  BY <1>1
<1> QED BY <1>2 DEF Count, Quantify

\* An encoding without auxiliaries represents what its clauses say.
LEMMA PlainRepresents ==
  ASSUME NEW F, NEW user, NEW top \in 0..MaxVar, NEW good,
         F \subseteq SUBSET Lit, VarsIn(F) \subseteq user,
         \A vars \in SUBSET user : vars \in good <=> IsModel(vars, F, {})
  PROVE  Represents(Encoding(F, top), user, top, good)
<1> DEFINE enc == Encoding(F, top)
<1>1. enc.top = top /\ enc.clauses = F
  BY DEF Encoding
<1>2. AuxRange(enc, top) = {}
  BY <1>1 DEF AuxRange
<1>3. enc.top \in top..MaxVar
  BY <1>1
<1>4. ASSUME NEW vars \in SUBSET user
      PROVE  vars \in good <=> \E a \in SUBSET AuxRange(enc, top) : IsModel(vars \cup a, F, {})
  <2>1. vars \cup {} = vars /\ {} \in SUBSET AuxRange(enc, top)
    OBVIOUS
  <2>2. \A a \in SUBSET AuxRange(enc, top) : a = {}
    BY <1>2
  <2> QED BY <2>1, <2>2
<1> HIDE DEF enc
<1>5. Represents(enc, user, top, good)
  BY <1>1, <1>2, <1>3, <1>4 DEF Represents
<1> QED BY <1>5 DEF enc

\* Two encodings, the second above the first, represent both.
LEMMA CombineEncodings ==
  ASSUME NEW lower, NEW upper, NEW user, NEW top \in Nat, NEW G, NEW H,
         user \subseteq 1..top,
         Represents(lower, user, top, G), Represents(upper, user, lower.top, H)
  PROVE  Represents(Encoding(lower.clauses \cup upper.clauses, upper.top), user, top, G \cap H)
<1> DEFINE F   == lower.clauses \cup upper.clauses
           enc == Encoding(F, upper.top)
           R   == AuxRange(lower, top)
           Q   == AuxRange(upper, lower.top)
<1>1. enc.top = upper.top /\ enc.clauses = F
  BY DEF Encoding
<1>2. lower.top \in top..MaxVar /\ upper.top \in lower.top..MaxVar
  BY DEF Represents
<1>3. upper.top \in top..MaxVar
  BY <1>2, MaxVarAssumption
<1>4. AuxRange(enc, top) = R \cup Q /\ R \cap Q = {} /\ user \cap R = {} /\ user \cap Q = {}
  BY <1>1, <1>2, MaxVarAssumption DEF AuxRange
<1>5. /\ lower.clauses \subseteq SUBSET Lit /\ upper.clauses \subseteq SUBSET Lit
      /\ VarsIn(lower.clauses) \subseteq user \cup R /\ R \subseteq VarsIn(lower.clauses)
      /\ VarsIn(upper.clauses) \subseteq user \cup Q /\ Q \subseteq VarsIn(upper.clauses)
  BY DEF Represents
<1>6. VarsIn(F) = VarsIn(lower.clauses) \cup VarsIn(upper.clauses)
  BY DEF VarsIn
<1>7. ASSUME NEW vars \in SUBSET user
      PROVE  /\ vars \in G <=> \E a \in SUBSET R : IsModel(vars \cup a, lower.clauses, {})
             /\ vars \in H <=> \E a \in SUBSET Q : IsModel(vars \cup a, upper.clauses, {})
  BY DEF Represents
<1> HIDE DEF enc, R, Q
<1>8. ASSUME NEW vars \in SUBSET user, NEW a \in SUBSET (R \cup Q)
      PROVE  /\ IsModel(vars \cup a, lower.clauses, {})
                  <=> IsModel(vars \cup (a \cap R), lower.clauses, {})
             /\ IsModel(vars \cup a, upper.clauses, {})
                  <=> IsModel(vars \cup (a \cap Q), upper.clauses, {})
  <2>1. \A v \in VarsIn(lower.clauses) : v \in vars \cup a <=> v \in vars \cup (a \cap R)
    BY <1>4, <1>5
  <2>2. \A v \in VarsIn(upper.clauses) : v \in vars \cup a <=> v \in vars \cup (a \cap Q)
    BY <1>4, <1>5
  <2> QED BY <1>5, <2>1, <2>2, ModelOnVars
<1>9. ASSUME NEW vars, NEW a
      PROVE  IsModel(vars \cup a, F, {}) <=>
               IsModel(vars \cup a, lower.clauses, {}) /\ IsModel(vars \cup a, upper.clauses, {})
  BY DEF IsModel
<1> HIDE DEF F
<1>10. ASSUME NEW vars \in SUBSET user
       PROVE  vars \in G \cap H <=> \E a \in SUBSET (R \cup Q) : IsModel(vars \cup a, F, {})
  <2>1. ASSUME vars \in G \cap H
        PROVE  \E a \in SUBSET (R \cup Q) : IsModel(vars \cup a, F, {})
    <3>1. PICK b \in SUBSET R : IsModel(vars \cup b, lower.clauses, {})
      BY <1>7, <2>1
    <3>2. PICK c \in SUBSET Q : IsModel(vars \cup c, upper.clauses, {})
      BY <1>7, <2>1
    <3> DEFINE a == b \cup c
    <3>3. a \in SUBSET (R \cup Q) /\ a \cap R = b /\ a \cap Q = c
      BY <1>4, <3>1, <3>2
    <3> HIDE DEF a
    <3>4. IsModel(vars \cup a, lower.clauses, {}) /\ IsModel(vars \cup a, upper.clauses, {})
      BY <1>8, <3>1, <3>2, <3>3
    <3> QED BY <1>9, <3>3, <3>4
  <2>2. ASSUME NEW a \in SUBSET (R \cup Q), IsModel(vars \cup a, F, {})
        PROVE  vars \in G \cap H
    <3>1. IsModel(vars \cup (a \cap R), lower.clauses, {})
          /\ IsModel(vars \cup (a \cap Q), upper.clauses, {})
      BY <1>8, <1>9, <2>2
    <3>2. a \cap R \in SUBSET R /\ a \cap Q \in SUBSET Q
      OBVIOUS
    <3> QED BY <1>7, <3>1, <3>2
  <2> QED BY <2>1, <2>2
<1>11. F \subseteq SUBSET Lit
  BY <1>5 DEF F
<1>12. Represents(enc, user, top, G \cap H)
  BY <1>1, <1>3, <1>4, <1>5, <1>6, <1>10, <1>11 DEF Represents
<1> QED BY <1>12 DEF enc, F

\* Clauses over the negated literals use the literals' variables.
LEMMA NegatedClauses ==
  ASSUME NEW literals, NEW top, Below(literals, top), NEW F,
         \A c \in F : \A lit \in c : \E i \in DOMAIN literals : lit = -literals[i]
  PROVE  F \subseteq SUBSET Lit /\ VarsIn(F) \subseteq UserVarsOf(literals)
<1>1. ASSUME NEW c \in F, NEW lit \in c
      PROVE  lit \in Lit /\ VarOf(lit) \in UserVarsOf(literals)
  <2>1. PICK i \in DOMAIN literals : lit = -literals[i]
    OBVIOUS
  <2>2. literals[i] \in Lit
    BY <2>1, BelowFacts
  <2> QED BY <2>1, <2>2, LitFacts DEF UserVarsOf
<1> QED BY <1>1 DEF VarsIn

\* No literal is true when the count is 0.
LEMMA UnitsExact ==
  ASSUME NEW vars, NEW literals \in Seq(Lit)
  PROVE  IsModel(vars, Units(Negated(literals)), {}) <=> Count(vars, literals) <= 0
<1> DEFINE n == Len(literals)
           T == TrueUpTo(vars, literals, n)
<1>1. DOMAIN literals = 1..n /\ n \in Nat
  OBVIOUS
<1>2. IsFiniteSet(T) /\ Cardinality(T) \in Nat
  <2>1. IsFiniteSet(1..n)
    BY <1>1, FS_Interval
  <2>2. T \in SUBSET (1..n)
    BY DEF TrueUpTo
  <2> HIDE DEF T
  <2> QED BY <2>1, <2>2, FS_Subset, FS_CardinalityType
<1>3. Count(vars, literals) = Cardinality(T)
  BY CountIs DEF CountUpTo
<1>4. Count(vars, literals) <= 0 <=> T = {}
  <2> HIDE DEF T
  <2> QED BY <1>2, <1>3, FS_EmptySet
<1>5. T = {} <=> \A i \in 1..n : True(vars, -literals[i])
  <2>1. \A i \in 1..n : True(vars, -literals[i]) <=> ~True(vars, literals[i])
    BY <1>1, TrueNegation
  <2> QED BY <2>1 DEF TrueUpTo
<1>6. IsModel(vars, Units(Negated(literals)), {}) <=> \A i \in 1..n : True(vars, -literals[i])
  <2>1. Units(Negated(literals)) = {{-literals[i]} : i \in 1..n}
    BY <1>1 DEF Units, Negated
  <2>2. \A i \in 1..n : Holds(vars, {-literals[i]}) <=> True(vars, -literals[i])
    BY DEF Holds
  <2>3. IsModel(vars, Units(Negated(literals)), {}) <=> \A i \in 1..n : Holds(vars, {-literals[i]})
    BY <2>1 DEF IsModel
  <2> QED BY <2>2, <2>3
<1> QED BY <1>4, <1>5, <1>6

\* The counter's clauses use the literals and every counter variable.
LEMMA SequentialVars ==
  ASSUME NEW literals, NEW top, Below(literals, top), NEW k \in 1..(Len(literals) - 1),
         top + (Len(literals) - 1) * k <= MaxVar
  PROVE  LET F == SequentialClauses(literals, k, top)
             R == (top + 1)..(top + (Len(literals) - 1) * k)
         IN  /\ F \subseteq SUBSET Lit
             /\ VarsIn(F) \subseteq UserVarsOf(literals) \cup R
             /\ R \subseteq VarsIn(F)
<1> DEFINE n == Len(literals)
           F == SequentialClauses(literals, k, top)
           R == (top + 1)..(top + (n - 1) * k)
           U == UserVarsOf(literals)
           s(i, j) == Slot(k, top, i, j)
           L == {-literals[i] : i \in 1..n}
           P == {s(i, j) : i \in 1..(n - 1), j \in 1..k}
           N == {-s(i, j) : i \in 1..(n - 1), j \in 1..k}
<1>1. /\ n \in Nat /\ n >= 2 /\ k \in Nat \ {0} /\ k <= n - 1 /\ DOMAIN literals = 1..n
      /\ top \in Nat /\ (n - 1) * k \in Nat /\ MaxVar \in Nat
  BY BelowFacts, MaxVarAssumption
<1>2. ASSUME NEW i \in 1..n PROVE -literals[i] \in Lit /\ VarOf(-literals[i]) \in U
  <2>1. literals[i] \in Lit
    BY <1>1, BelowFacts
  <2> QED BY <1>1, <2>1, LitFacts DEF UserVarsOf
<1>3. ASSUME NEW i \in 1..(n - 1), NEW j \in 1..k
      PROVE  /\ s(i, j) \in R
             /\ s(i, j) \in Lit /\ -s(i, j) \in Lit
             /\ VarOf(s(i, j)) = s(i, j) /\ VarOf(-s(i, j)) = s(i, j)
  <2>1. s(i, j) \in R
    BY <1>1, SlotRange
  <2>2. s(i, j) \in Var
    BY <1>1, <2>1 DEF Var
  <2> HIDE DEF s, R
  <2> QED BY <2>1, <2>2, VarFacts
<1>4. \A lit \in L \cup P \cup N : lit \in Lit /\ VarOf(lit) \in U \cup R
  <2> HIDE DEF R, U, s, n
  <2> QED BY <1>2, <1>3
<1>5. \A c \in F : c \subseteq L \cup P \cup N
  <2>1. \A i \in 1..n : -literals[i] \in L
    OBVIOUS
  <2>2. \A i \in 1..(n - 1), j \in 1..k : s(i, j) \in P /\ -s(i, j) \in N
    OBVIOUS
  <2>3. /\ 1 \in 1..n /\ n \in 1..n /\ 1 \in 1..(n - 1) /\ n - 1 \in 1..(n - 1)
        /\ 1 \in 1..k /\ k \in 1..k
        /\ \A i \in 2..(n - 1) : i \in 1..n /\ i \in 1..(n - 1) /\ i - 1 \in 1..(n - 1)
        /\ \A j \in 2..k : j \in 1..k /\ j - 1 \in 1..k
    BY <1>1
  <2> DEFINE A == L \cup P \cup N
  <2>4. /\ {-literals[1], s(1, 1)} \subseteq A
        /\ \A j \in 2..k : {-s(1, j)} \subseteq A
        /\ {-literals[n], -s(n - 1, k)} \subseteq A
    <3> HIDE DEF L, P, N, n, s
    <3> QED BY <2>1, <2>2, <2>3
  <2>5. \A i \in 2..(n - 1) : /\ {-literals[i], s(i, 1)} \subseteq A
                              /\ {-s(i - 1, 1), s(i, 1)} \subseteq A
                              /\ {-literals[i], -s(i - 1, k)} \subseteq A
    <3> HIDE DEF L, P, N, n, s
    <3> QED BY <2>1, <2>2, <2>3
  <2>6. \A i \in 2..(n - 1), j \in 2..k :
          /\ {-literals[i], -s(i - 1, j - 1), s(i, j)} \subseteq A
          /\ {-s(i - 1, j), s(i, j)} \subseteq A
    <3> HIDE DEF L, P, N, n, s
    <3> QED BY <2>1, <2>2, <2>3
  <2>7. F = {{-literals[1], s(1, 1)}}
            \cup {{-s(1, j)} : j \in 2..k}
            \cup {{-literals[i], s(i, 1)} : i \in 2..(n - 1)}
            \cup {{-s(i - 1, 1), s(i, 1)} : i \in 2..(n - 1)}
            \cup {{-literals[i], -s(i - 1, j - 1), s(i, j)} : i \in 2..(n - 1), j \in 2..k}
            \cup {{-s(i - 1, j), s(i, j)} : i \in 2..(n - 1), j \in 2..k}
            \cup {{-literals[i], -s(i - 1, k)} : i \in 2..(n - 1)}
            \cup {{-literals[n], -s(n - 1, k)}}
    BY DEF SequentialClauses
  <2> HIDE DEF A, s, n, F, L, P, N, R, U
  <2>8. ASSUME NEW c \in F PROVE c \subseteq A
    <3>1. \/ c = {-literals[1], s(1, 1)} \/ c = {-literals[n], -s(n - 1, k)}
          \/ \E j \in 2..k : c = {-s(1, j)}
          \/ \E i \in 2..(n - 1) : \/ c = {-literals[i], s(i, 1)}
                                  \/ c = {-s(i - 1, 1), s(i, 1)}
                                  \/ c = {-literals[i], -s(i - 1, k)}
          \/ \E i \in 2..(n - 1), j \in 2..k :
                \/ c = {-literals[i], -s(i - 1, j - 1), s(i, j)}
                \/ c = {-s(i - 1, j), s(i, j)}
      BY <2>7
    <3>2. CASE c = {-literals[1], s(1, 1)} \/ c = {-literals[n], -s(n - 1, k)}
      BY <2>4, <3>2
    <3>3. CASE \E j \in 2..k : c = {-s(1, j)}
      BY <2>4, <3>3
    <3>4. CASE \E i \in 2..(n - 1) : \/ c = {-literals[i], s(i, 1)}
                                    \/ c = {-s(i - 1, 1), s(i, 1)}
                                    \/ c = {-literals[i], -s(i - 1, k)}
      BY <2>5, <3>4
    <3>5. CASE \E i \in 2..(n - 1), j \in 2..k :
                 \/ c = {-literals[i], -s(i - 1, j - 1), s(i, j)}
                 \/ c = {-s(i - 1, j), s(i, j)}
      BY <2>6, <3>5
    <3> QED BY <3>1, <3>2, <3>3, <3>4, <3>5
  <2> QED BY <2>8 DEF A
<1>6. ASSUME NEW v \in R PROVE v \in VarsIn(F)
  <2>1. PICK i \in 1..(n - 1), j \in 1..k : v = s(i, j)
    <3>1. v \in (top + 1)..(top + (n - 1) * k) /\ n \in Nat /\ k \in Nat /\ n >= 1
          /\ top \in Nat
      BY <1>1
    <3> HIDE DEF n, R, F, U, L, P, N
    <3> QED BY <3>1, SlotOnto
  <2>2. \E c \in F : v \in c \/ -v \in c
    <3>1. CASE i = 1 /\ j = 1
      <4>1. {-literals[1], s(1, 1)} \in F
        BY DEF SequentialClauses
      <4> QED BY <2>1, <3>1, <4>1
    <3>2. CASE i = 1 /\ j # 1
      <4>1. j \in 2..k
        BY <1>1, <3>2
      <4>2. {-s(1, j)} \in F
        BY <4>1 DEF SequentialClauses
      <4> QED BY <2>1, <3>2, <4>2
    <3>3. CASE i # 1 /\ j = 1
      <4>1. i \in 2..(n - 1)
        BY <1>1, <3>3
      <4>2. {-literals[i], s(i, 1)} \in F
        BY <4>1 DEF SequentialClauses
      <4> QED BY <2>1, <3>3, <4>2
    <3>4. CASE i # 1 /\ j # 1
      <4>1. i \in 2..(n - 1) /\ j \in 2..k
        BY <1>1, <3>4
      <4>2. {-s(i - 1, j), s(i, j)} \in F
        BY <4>1 DEF SequentialClauses
      <4> HIDE DEF F, s
      <4> QED BY <2>1, <4>2
    <3> QED BY <3>1, <3>2, <3>3, <3>4
  <2>3. VarOf(v) = v /\ VarOf(-v) = v
    <3> HIDE DEF s, R
    <3> QED BY <1>3, <2>1
  <2> QED BY <2>2, <2>3 DEF VarsIn
<1>7. F \subseteq SUBSET Lit /\ VarsIn(F) \subseteq U \cup R
  <2> HIDE DEF F, L, P, N, R, U
  <2> QED BY <1>4, <1>5 DEF VarsIn
<1> QED BY <1>6, <1>7

\* The ways to have at most k of the literals true.
AtMost(literals, k) ==
  {vars \in SUBSET UserVarsOf(literals) : Count(vars, literals) <= k}

\* The counter represents "at most k".
LEMMA SequentialRepresents ==
  ASSUME NEW literals, NEW top, Below(literals, top), NEW k \in 1..(Len(literals) - 1),
         top + (Len(literals) - 1) * k <= MaxVar
  PROVE  Represents(encode_sequential(literals, k, top), UserVarsOf(literals), top,
                    AtMost(literals, k))
<1> DEFINE U   == UserVarsOf(literals)
           F   == SequentialClauses(literals, k, top)
           enc == encode_sequential(literals, k, top)
           R   == AuxRange(enc, top)
<1>1. enc.clauses = F /\ enc.top = top + (Len(literals) - 1) * k
  BY SequentialIs DEF Encoding
<1>2. R = (top + 1)..(top + (Len(literals) - 1) * k)
  BY <1>1 DEF AuxRange
<1>3. /\ top \in Nat /\ Len(literals) \in Nat /\ U \subseteq 1..top
      /\ DOMAIN literals = 1..Len(literals) /\ literals \in Seq(Lit)
      /\ \A i \in DOMAIN literals : VarOf(literals[i]) <= top
  BY BelowFacts DEF Below
<1>4. enc.top \in top..MaxVar
  <2>1. (Len(literals) - 1) * k \in Nat
    BY <1>3
  <2> QED BY <1>1, <1>3, <2>1, MaxVarAssumption
<1>5. F \subseteq SUBSET Lit /\ VarsIn(F) \subseteq U \cup R /\ R \subseteq VarsIn(F)
  BY <1>2, SequentialVars
<1> HIDE DEF F, enc, R
<1>6. ASSUME NEW vars \in SUBSET U
      PROVE  vars \in AtMost(literals, k) <=>
               \E a \in SUBSET R : IsModel(vars \cup a, F, {})
  <2>1. ASSUME Count(vars, literals) <= k
        PROVE  \E a \in SUBSET R : IsModel(vars \cup a, F, {})
    <3> DEFINE a == CounterOf(vars, literals, k, top)
    <3>1. a \in SUBSET R
      BY <1>2 DEF CounterOf
    <3>2. vars \in SUBSET (1..top)
      BY <1>3
    <3>3. Counts(vars \cup a, literals, k, top)
      BY <1>3, <2>1, <3>2, CounterComplete
    <3> HIDE DEF a
    <3>4. IsModel(vars \cup a, F, {})
      BY <1>3, <3>3, SequentialMeans DEF F
    <3> QED BY <3>1, <3>4
  <2>2. ASSUME NEW a \in SUBSET R, IsModel(vars \cup a, F, {})
        PROVE  Count(vars, literals) <= k
    <3>1. Counts(vars \cup a, literals, k, top)
      BY <1>3, <2>2, SequentialMeans DEF F
    <3>2. Count(vars \cup a, literals) <= k
      BY <1>3, <3>1, CounterSound
    <3>3. \A v \in U : v \in vars \cup a <=> v \in vars
      BY <1>2, <1>3
    <3>4. Count(vars \cup a, literals) = Count(vars, literals)
      BY <1>3, <3>3, CountDepends
    <3> QED BY <3>2, <3>4
  <2> QED BY <2>1, <2>2 DEF AtMost
<1>7. Represents(enc, U, top, AtMost(literals, k))
  BY <1>1, <1>4, <1>5, <1>6 DEF Represents, R
<1> QED BY <1>7 DEF enc

\* sat_at_most's encoding, whichever is chosen.
LEMMA AtMostRepresents ==
  ASSUME NEW literals, NEW top, Below(literals, top), NEW k \in Nat, NEW encoding,
         encode_at_most(literals, k, encoding, top).ok
  PROVE  Represents(encode_at_most(literals, k, encoding, top), UserVarsOf(literals), top,
                    AtMost(literals, k))
<1> DEFINE n   == Len(literals)
           U   == UserVarsOf(literals)
           enc == encode_at_most(literals, k, encoding, top)
<1>1. /\ top \in 0..MaxVar /\ n \in Nat /\ DOMAIN literals = 1..n /\ literals \in Seq(Lit)
  BY BelowFacts DEF Below
<1>2. CASE k >= n
  <2>1. enc = Encoding({}, top)
    <3>1. CASE k = 0
      <4>1. Units(Negated(literals)) = {}
        BY <1>1, <1>2, <3>1 DEF Units, Negated
      <4> QED BY <1>2, <3>1, <4>1 DEF encode_at_most
    <3>2. CASE k # 0
      BY <1>2, <3>2 DEF encode_at_most
    <3> QED BY <3>1, <3>2
  <2>2. \A vars \in SUBSET U : vars \in AtMost(literals, k) <=> IsModel(vars, {}, {})
    <3>1. \A vars \in SUBSET U : Count(vars, literals) <= k
      BY <1>1, <1>2, CountIs
    <3> QED BY <3>1 DEF AtMost, IsModel
  <2>3. VarsIn({}) \subseteq U /\ {} \subseteq SUBSET Lit
    BY DEF VarsIn
  <2> HIDE DEF U
  <2>4. Represents(Encoding({}, top), U, top, AtMost(literals, k))
    BY <1>1, <2>2, <2>3, PlainRepresents
  <2> QED BY <2>1, <2>4 DEF U
<1>3. CASE k < n /\ k = 0
  <2> DEFINE F == Units(Negated(literals))
  <2>1. enc = Encoding(F, top)
    BY <1>1, <1>3 DEF encode_at_most
  <2>2. \A vars \in SUBSET U : vars \in AtMost(literals, k) <=> IsModel(vars, F, {})
    BY <1>1, <1>3, UnitsExact DEF AtMost
  <2>3. \A c \in F : \A lit \in c : \E i \in DOMAIN literals : lit = -literals[i]
    <3>1. F = {{-literals[i]} : i \in DOMAIN literals}
      BY DEF Units, Negated
    <3> HIDE DEF F
    <3> QED BY <3>1
  <2> HIDE DEF U, F
  <2>4. F \subseteq SUBSET Lit /\ VarsIn(F) \subseteq U
    BY <2>3, NegatedClauses DEF U
  <2>5. Represents(Encoding(F, top), U, top, AtMost(literals, k))
    BY <1>1, <2>2, <2>4, PlainRepresents
  <2> QED BY <2>1, <2>5 DEF U
<1>4. CASE k < n /\ k # 0
  <2>1. CASE choose_encoding(encoding, n, k) = "pairwise"
    <3> DEFINE F == encode_pairwise(literals, k)
    <3>1. enc = Encoding(F, top)
      BY <1>1, <1>4, <2>1 DEF encode_at_most
    <3>2. \A vars \in SUBSET U : vars \in AtMost(literals, k) <=> IsModel(vars, F, {})
      BY <1>1, PairwiseExact DEF AtMost
    <3>3. \A c \in F : \A lit \in c : \E i \in DOMAIN literals : lit = -literals[i]
      BY DEF encode_pairwise, kSubset
    <3> HIDE DEF U, F
    <3>4. F \subseteq SUBSET Lit /\ VarsIn(F) \subseteq U
      BY <3>3, NegatedClauses DEF U
    <3>5. Represents(Encoding(F, top), U, top, AtMost(literals, k))
      BY <1>1, <3>2, <3>4, PlainRepresents
    <3> QED BY <3>1, <3>5 DEF U
  <2>2. CASE choose_encoding(encoding, n, k) # "pairwise"
    <3>1. top + (n - 1) * k <= MaxVar /\ enc = encode_sequential(literals, k, top)
      <4>1. enc = IF top + (n - 1) * k > MaxVar THEN TooLarge(top)
                  ELSE encode_sequential(literals, k, top)
        BY <1>1, <1>4, <2>2 DEF encode_at_most
      <4>2. ~TooLarge(top).ok
        BY DEF TooLarge
      <4>3. (n - 1) * k \in Nat /\ MaxVar \in Nat /\ top \in Nat
        BY <1>1, <1>4, MaxVarAssumption
      <4> HIDE DEF n
      <4> QED BY <4>1, <4>2, <4>3
    <3>2. k \in 1..(n - 1)
      BY <1>1, <1>4
    <3> QED BY <3>1, <3>2, SequentialRepresents
  <2> QED BY <2>1, <2>2
<1> QED BY <1>1, <1>2, <1>3, <1>4

\* The ways to have at least k, or exactly k, of the literals true.
AtLeast(literals, k) ==
  {vars \in SUBSET UserVarsOf(literals) : Count(vars, literals) >= k}
Exactly(literals, k) ==
  {vars \in SUBSET UserVarsOf(literals) : Count(vars, literals) = k}

\* sat_at_least's encoding: at most n - k of the negated literals.
LEMMA AtLeastRepresents ==
  ASSUME NEW literals, NEW top, Below(literals, top), NEW k \in Nat, NEW encoding,
         encode_at_least(literals, k, encoding, top).ok
  PROVE  Represents(encode_at_least(literals, k, encoding, top), UserVarsOf(literals), top,
                    AtLeast(literals, k))
<1> DEFINE n   == Len(literals)
           U   == UserVarsOf(literals)
           enc == encode_at_least(literals, k, encoding, top)
<1>1. /\ top \in 0..MaxVar /\ n \in Nat /\ DOMAIN literals = 1..n /\ literals \in Seq(Lit)
      /\ \A i \in DOMAIN literals : literals[i] \in Lit
  BY BelowFacts DEF Below
<1>c. \A vars : Count(vars, literals) \in 0..n
  BY <1>1, CountIs
<1>2. CASE k = 0
  <2>1. enc = Encoding({}, top)
    BY <1>2 DEF encode_at_least
  <2>2. \A vars \in SUBSET U : vars \in AtLeast(literals, k) <=> IsModel(vars, {}, {})
    <3>1. \A vars \in SUBSET U : Count(vars, literals) >= k
      BY <1>1, <1>2, <1>c
    <3> QED BY <3>1 DEF AtLeast, IsModel
  <2>3. VarsIn({}) \subseteq U /\ {} \subseteq SUBSET Lit
    BY DEF VarsIn
  <2> HIDE DEF U
  <2>4. Represents(Encoding({}, top), U, top, AtLeast(literals, k))
    BY <1>1, <2>2, <2>3, PlainRepresents
  <2> QED BY <2>1, <2>4 DEF U
<1>3. CASE k # 0 /\ k > n
  <2>1. enc = Encoding({{}}, top)
    BY <1>1, <1>3 DEF encode_at_least
  <2>2. \A vars \in SUBSET U : vars \in AtLeast(literals, k) <=> IsModel(vars, {{}}, {})
    <3>1. \A vars \in SUBSET U : ~(Count(vars, literals) >= k)
      BY <1>1, <1>3, <1>c
    <3>2. \A vars : ~IsModel(vars, {{}}, {})
      BY DEF IsModel, Holds
    <3> QED BY <3>1, <3>2 DEF AtLeast
  <2>3. VarsIn({{}}) \subseteq U /\ {{}} \subseteq SUBSET Lit
    BY DEF VarsIn
  <2> HIDE DEF U
  <2>4. Represents(Encoding({{}}, top), U, top, AtLeast(literals, k))
    BY <1>1, <2>2, <2>3, PlainRepresents
  <2> QED BY <2>1, <2>4 DEF U
<1>4. CASE k # 0 /\ k <= n
  <2> DEFINE neg == Negated(literals)
  <2>1. enc = encode_at_most(neg, n - k, encoding, top) /\ n - k \in Nat
    BY <1>1, <1>4 DEF encode_at_least
  <2>2. neg \in Seq(Lit) /\ DOMAIN neg = DOMAIN literals
    BY <1>1, CountNegated DEF Negated
  <2>3. \A i \in DOMAIN literals : VarOf(neg[i]) = VarOf(literals[i])
    BY <1>1, LitFacts DEF Negated
  <2>4. Below(neg, top) /\ UserVarsOf(neg) = U
    BY <2>2, <2>3 DEF Below, UserVarsOf
  <2>5. AtMost(neg, n - k) = AtLeast(literals, k)
    <3>1. \A vars : Count(vars, neg) = n - Count(vars, literals)
      BY <1>1, CountNegated
    <3>2. \A vars : Count(vars, neg) <= n - k <=> Count(vars, literals) >= k
      BY <1>1, <1>c, <3>1
    <3> QED BY <2>4, <3>2 DEF AtMost, AtLeast
  <2> HIDE DEF neg, n
  <2>6. encode_at_most(neg, n - k, encoding, top).ok
    BY <2>1
  <2>7. Represents(encode_at_most(neg, n - k, encoding, top), UserVarsOf(neg), top,
                   AtMost(neg, n - k))
    BY <2>1, <2>4, <2>6, AtMostRepresents
  <2> QED BY <2>1, <2>4, <2>5, <2>7
<1> QED BY <1>1, <1>2, <1>3, <1>4

\* sat_exactly's encoding: both halves, the second above the first.
LEMMA ExactlyRepresents ==
  ASSUME NEW literals, NEW top, Below(literals, top), NEW k \in Nat, NEW encoding,
         encode_exactly(literals, k, encoding, top).ok
  PROVE  Represents(encode_exactly(literals, k, encoding, top), UserVarsOf(literals), top,
                    Exactly(literals, k))
<1> DEFINE U     == UserVarsOf(literals)
           lower == encode_at_least(literals, k, encoding, top)
           upper == encode_at_most(literals, k, encoding, lower.top)
<1>1. /\ lower.ok /\ upper.ok
      /\ encode_exactly(literals, k, encoding, top) =
           Encoding(lower.clauses \cup upper.clauses, upper.top)
  BY DEF encode_exactly, TooLarge
<1>2. Represents(lower, U, top, AtLeast(literals, k))
  BY <1>1, AtLeastRepresents
<1>3. top \in Nat /\ U \subseteq 1..top /\ literals \in Seq(Lit)
  BY BelowFacts DEF Below
<1>4. Below(literals, lower.top)
  <2> HIDE DEF lower
  <2>1. lower.top \in top..MaxVar
    BY <1>2 DEF Represents
  <2>2. ASSUME NEW i \in DOMAIN literals PROVE VarOf(literals[i]) <= lower.top
    <3>1. VarOf(literals[i]) <= top /\ VarOf(literals[i]) \in Nat
      BY <1>3, BelowFacts, LitFacts DEF Below
    <3> QED BY <1>3, <2>1, <3>1, MaxVarAssumption
  <2> QED BY <1>3, <2>1, <2>2, MaxVarAssumption DEF Below
<1>5. Represents(upper, U, lower.top, AtMost(literals, k))
  <2> HIDE DEF lower
  <2> QED BY <1>1, <1>4, AtMostRepresents
<1>6. AtLeast(literals, k) \cap AtMost(literals, k) = Exactly(literals, k)
  <2>1. \A vars : Count(vars, literals) \in Nat
    BY <1>3, CountIs
  <2> QED BY <2>1 DEF AtLeast, AtMost, Exactly
<1> HIDE DEF lower, upper, U
<1>7. Represents(Encoding(lower.clauses \cup upper.clauses, upper.top), U, top,
                 AtLeast(literals, k) \cap AtMost(literals, k))
  BY <1>2, <1>3, <1>5, CombineEncodings
<1> QED BY <1>1, <1>6, <1>7 DEF U

\* Every call of sat_at_most, sat_at_least and sat_exactly is encoded as what
\* it is documented to require, over exactly the range that is recorded.
THEOREM EncodeRepresents ==
  ASSUME NEW call \in CardinalityCalls, NEW top, Below(call.literals, top),
         encode(call, top).ok
  PROVE  Represents(encode(call, top), UserVarsOf(call.literals), top,
                    {vars \in SUBSET UserVarsOf(call.literals) : Requires(call, vars)})
<1> DEFINE U == UserVarsOf(call.literals)
<1>1. call.k \in Nat
  BY DEF CardinalityCalls
<1>2. CASE call.op = "at_most"
  <2>1. encode(call, top) = encode_at_most(call.literals, call.k, call.encoding, top)
    BY <1>2 DEF encode
  <2>2. {vars \in SUBSET U : Requires(call, vars)} = AtMost(call.literals, call.k)
    BY <1>2 DEF Requires, AtMost
  <2> QED BY <1>1, <2>1, <2>2, AtMostRepresents
<1>3. CASE call.op = "at_least"
  <2>1. encode(call, top) = encode_at_least(call.literals, call.k, call.encoding, top)
    BY <1>3 DEF encode
  <2>2. {vars \in SUBSET U : Requires(call, vars)} = AtLeast(call.literals, call.k)
    BY <1>3 DEF Requires, AtLeast
  <2> QED BY <1>1, <2>1, <2>2, AtLeastRepresents
<1>4. CASE call.op = "exactly"
  <2>1. encode(call, top) = encode_exactly(call.literals, call.k, call.encoding, top)
    BY <1>4 DEF encode
  <2>2. {vars \in SUBSET U : Requires(call, vars)} = Exactly(call.literals, call.k)
    BY <1>4 DEF Requires, Exactly
  <2> QED BY <1>1, <2>1, <2>2, ExactlyRepresents
<1>5. call.op \in {"at_most", "at_least", "exactly"}
  BY DEF CardinalityCalls
<1> QED BY <1>2, <1>3, <1>4, <1>5

-----------------------------------------------------------------------------
(* The calls. *)

\* aux_floor clears the variables in use and the literals.
LEMMA FloorFacts ==
  ASSUME NEW n \in 0..MaxVar, NEW literals \in Seq(Lit)
  PROVE  Below(literals, aux_floor(n, literals)) /\ n <= aux_floor(n, literals)
<1> DEFINE S == {n} \cup {VarOf(literals[i]) : i \in DOMAIN literals}
<1>1. MaxVar \in Nat
  BY MaxVarAssumption
<1>2. ASSUME NEW i \in DOMAIN literals PROVE VarOf(literals[i]) \in 0..MaxVar
  <2>1. literals[i] \in Lit
    OBVIOUS
  <2> QED BY <1>1, <2>1, LitFacts DEF Var
<1>3. S \subseteq 0..MaxVar /\ S # {}
  BY <1>2
<1>4. Max(S) \in S /\ \A x \in S : x <= Max(S)
  <2> HIDE DEF S
  <2> QED BY <1>1, <1>3, MaxOfBounded
<1>5. aux_floor(n, literals) = Max(S)
  BY DEF aux_floor
<1>6. \A i \in DOMAIN literals : VarOf(literals[i]) \in S
  OBVIOUS
<1>7. n \in S
  OBVIOUS
<1> HIDE DEF S
<1> QED BY <1>3, <1>4, <1>5, <1>6, <1>7 DEF Below

\* What is in encoded is the encoding of the request.
EncodeInv ==
  /\ request \in Requests
  /\ known \in Known
  /\ encoded # Nothing => encoded = encode(request, Floor)

\* An encoding that fits represents its request.
LEMMA RequestRepresented ==
  ASSUME EncodeInv, encoded # Nothing, encoded.ok
  PROVE  /\ Represents(encoded, UserVars, Floor,
                       {vars \in SUBSET UserVars : Requires(request, vars)})
         /\ UserVars \subseteq 1..Floor /\ Floor \in Nat
<1>1. request \in CardinalityCalls /\ request.literals \in Seq(Lit) /\ known \in 0..MaxVar
  BY RequestsAssumption DEF EncodeInv
<1>2. Below(request.literals, Floor)
  BY <1>1, FloorFacts DEF Floor
<1>3. encoded = encode(request, Floor)
  BY DEF EncodeInv
<1>4. UserVars = UserVarsOf(request.literals)
  BY DEF UserVars, UserVarsOf
<1>5. encode(request, Floor).ok
  BY <1>3
<1>6. Represents(encode(request, Floor), UserVarsOf(request.literals), Floor,
                 {vars \in SUBSET UserVarsOf(request.literals) : Requires(request, vars)})
  BY <1>1, <1>2, <1>5, EncodeRepresents
<1> QED BY <1>2, <1>3, <1>4, <1>6, BelowFacts

\* The encoding is kept as it was computed.
LEMMA EncodeInvariant == EncodeSpec => []EncodeInv
<1>1. EncodeInit => EncodeInv
  BY DEF EncodeInit, EncodeInv
<1>2. EncodeInv /\ [Encode]_<<request, known, encoded>> => EncodeInv'
  BY DEF EncodeInv, Encode, Floor
<1> QED BY <1>1, <1>2, PTL DEF EncodeSpec

\* Every encoding is exact, for every number of literals, bound and ceiling.
THEOREM EncodingsAreExact == EncodeSpec => []EncodingExact
<1>1. EncodeInv => EncodingExact
  <2> SUFFICES ASSUME EncodeInv, encoded # Nothing, encoded.ok, NEW vars \in SUBSET UserVars
               PROVE  Requires(request, vars) <=>
                        \E a \in SUBSET ((Floor + 1)..encoded.top) :
                           IsModel(vars \cup a, encoded.clauses, {})
    BY DEF EncodingExact
  <2>1. Represents(encoded, UserVars, Floor,
                   {v \in SUBSET UserVars : Requires(request, v)})
    BY RequestRepresented
  <2>2. vars \in {v \in SUBSET UserVars : Requires(request, v)} <=>
          \E a \in SUBSET AuxRange(encoded, Floor) : IsModel(vars \cup a, encoded.clauses, {})
    BY <2>1 DEF Represents
  <2>3. AuxRange(encoded, Floor) = (Floor + 1)..encoded.top
    BY DEF AuxRange
  <2> QED BY <2>2, <2>3
<1> QED BY EncodeInvariant, <1>1, PTL

\* Every encoding uses the auxiliary range that is recorded, all of it, and no
\* variable besides that and the literals'.
THEOREM EncodingsUseTheRange == EncodeSpec => []AuxiliariesAreTheRange
<1>1. EncodeInv => AuxiliariesAreTheRange
  <2> SUFFICES ASSUME EncodeInv, encoded # Nothing, encoded.ok
               PROVE  /\ VarsIn(encoded.clauses) \ UserVars = (Floor + 1)..encoded.top
                      /\ VarsIn(encoded.clauses) \subseteq Var
    BY DEF AuxiliariesAreTheRange
  <2>1. /\ encoded.clauses \subseteq SUBSET Lit
        /\ VarsIn(encoded.clauses) \subseteq UserVars \cup (Floor + 1)..encoded.top
        /\ (Floor + 1)..encoded.top \subseteq VarsIn(encoded.clauses)
        /\ UserVars \subseteq 1..Floor /\ Floor \in Nat
    BY RequestRepresented DEF Represents, AuxRange
  <2>2. UserVars \cap (Floor + 1)..encoded.top = {}
    BY <2>1
  <2>3. VarsIn(encoded.clauses) \subseteq Var
    <3>1. ASSUME NEW c \in encoded.clauses, NEW lit \in c PROVE VarOf(lit) \in Var
      BY <2>1, LitFacts
    <3> QED BY <3>1 DEF VarsIn
  <2> QED BY <2>1, <2>2, <2>3
<1> QED BY EncodeInvariant, <1>1, PTL

\* The variables of the recorded ranges.
Recorded == {v \in Var : \E r \in DOMAIN aux : aux[r][1] <= v /\ v <= aux[r][2]}

\* The clauses add_clauses gets for a call, and the variables of the call.
CallClauses(call, floor) ==
  IF call.op = "add" THEN call.clauses ELSE encode(call, floor).clauses

CallVars(call) ==
  IF call.op = "add" THEN VarsIn(call.clauses) ELSE UserVarsOf(call.literals)

\* The current call: its clauses, those that are in, its variables, and the
\* auxiliary variables it allocates.
Whole == IF loop.busy THEN CallClauses(loop.call, loop.floor) ELSE {}
Added == Whole \ loop.todo
User  == IF loop.busy THEN CallVars(loop.call) ELSE {}
Fresh == (loop.floor + 1)..loop.top

LoopTyped ==
  /\ loop.busy \in BOOLEAN
  /\ loop = [busy |-> loop.busy, todo |-> loop.todo, floor |-> loop.floor,
             top |-> loop.top, call |-> loop.call]
  /\ ~loop.busy => loop = Rest
  /\ loop.floor \in 0..MaxVar
  /\ loop.top \in loop.floor..MaxVar

Ordered ==
  /\ \A r \in DOMAIN aux : aux[r][1] <= aux[r][2] /\ aux[r][2] <= n_vars
  /\ \A r, s \in DOMAIN aux : r < s => aux[r][2] < aux[s][1]

\* Everything there is has been counted, and the caller's part has been named.
Counted ==
  /\ VarsIn(clauses) \subseteq 1..n_vars
  /\ introduced \subseteq 1..n_vars
  /\ named \subseteq 1..n_vars
  /\ VarsIn(pending) \subseteq named
  /\ VarsIn(answer.constrained) \subseteq named
  /\ VarsIn({answer.assumed}) \subseteq named

\* The caller's variables, the recorded and the new ones are apart.
Apart ==
  /\ named \cap Recorded = {}
  /\ User \cap Recorded = {}
  /\ User \cap Fresh = {}
  /\ named \cap Fresh = {}
  /\ Fresh # {} => \A r \in DOMAIN aux : aux[r][2] <= loop.floor

\* The current call is being added as it was encoded.
CallMeans(call, whole, fresh) ==
  \A vars \in SUBSET Var :
    Meets(call, vars) <=>
      \E b \in SUBSET fresh : IsModel((vars \ fresh) \cup b, whole, {})

CallInProgress ==
  /\ Whole \subseteq SUBSET Lit
  /\ loop.todo \subseteq Whole
  /\ Added \subseteq clauses
  /\ VarsIn(Whole) \subseteq User \cup Fresh
  /\ Fresh \subseteq VarsIn(Whole)
  /\ VarsIn(Added) \cap Fresh \subseteq introduced
  /\ answer.status # "none" => Added = {}
  /\ loop.busy => CallMeans(loop.call, Whole, Fresh)

\* The calls that returned are about variables the caller has named.
AskedOfNamed ==
  \A call \in asked : \A p, q \in SUBSET Var :
    p \cap named = q \cap named => (Meets(call, p) <=> Meets(call, q))

AllMeet(vars) == \A call \in asked : Meets(call, vars)

FormulaSoFar ==
  interrupts = 0 =>
    /\ introduced \ Fresh \subseteq Recorded
    /\ \A vars \in SUBSET (Var \ (introduced \cup Fresh)), b \in SUBSET Fresh :
         AllMeet(vars) /\ IsModel(vars \cup b, Added, {}) <=>
           \E a \in SUBSET (introduced \ Fresh) :
             IsModel(vars \cup a \cup b, clauses, {})

AnswerTrue ==
  /\ answer.status = "sat" => IsModel(answer.vars, clauses, {})
  /\ answer.status = "unsat" =>
       NoModel(clauses \cup answer.constrained, answer.assumed)

SessionInv ==
  /\ TypeOK /\ LoopTyped /\ Ordered /\ Counted /\ Apart
  /\ CallInProgress /\ AskedOfNamed /\ FormulaSoFar /\ AnswerTrue

-----------------------------------------------------------------------------
(* Variables of clauses. *)

LEMMA VarsInFacts ==
  ASSUME NEW F, NEW G
  PROVE  /\ VarsIn(F \cup G) = VarsIn(F) \cup VarsIn(G)
         /\ F \subseteq G => VarsIn(F) \subseteq VarsIn(G)
         /\ VarsIn({}) = {}
         /\ F \subseteq SUBSET Lit => VarsIn(F) \subseteq Var
<1>1. VarsIn(F \cup G) = VarsIn(F) \cup VarsIn(G)
  BY DEF VarsIn
<1>2. F \subseteq G => VarsIn(F) \subseteq VarsIn(G)
  BY DEF VarsIn
<1>3. VarsIn({}) = {}
  BY DEF VarsIn
<1>4. ASSUME F \subseteq SUBSET Lit PROVE VarsIn(F) \subseteq Var
  <2>1. ASSUME NEW c \in F, NEW lit \in c PROVE VarOf(lit) \in Var
    BY <1>4, LitFacts
  <2> QED BY <2>1 DEF VarsIn
<1> QED BY <1>1, <1>2, <1>3, <1>4

\* The variables of one clause are its literals'.
LEMMA VarsInOne ==
  ASSUME NEW c
  PROVE  VarsIn({c}) = {VarOf(lit) : lit \in c}
<1>1. UNION {c} = c
  OBVIOUS
<1> QED BY <1>1 DEF VarsIn

\* What Using promises.
LEMMA UsingCounts ==
  ASSUME SolverTypeOK, NEW lits, lits \subseteq Lit
  PROVE  /\ Using(lits) \in n_vars..MaxVar
         /\ 1..n_vars \subseteq 1..Using(lits)
         /\ VarsIn({lits}) \subseteq 1..Using(lits)
<1>1. /\ Using(lits) \in n_vars..MaxVar
      /\ \A lit \in lits : VarOf(lit) <= Using(lits)
  BY MaxVarOf DEF SolverTypeOK, Using
<1>2. n_vars \in Nat /\ MaxVar \in Nat
  BY MaxVarAssumption DEF SolverTypeOK
<1>3. \A lit \in lits : VarOf(lit) \in 1..Using(lits)
  <2>1. \A lit \in lits : VarOf(lit) \in Nat /\ VarOf(lit) >= 1
    BY LitFacts, MaxVarAssumption DEF Var
  <2> QED BY <1>1, <1>2, <2>1
<1>4. 1..n_vars \subseteq 1..Using(lits)
  BY <1>1, <1>2
<1> QED BY <1>1, <1>3, <1>4, VarsInOne

\* The binary search of check_not_aux finds the range of a recorded variable.
LEMMA RangeFound ==
  ASSUME TypeOK, Ordered, NEW v \in Recorded
  PROVE  IsAux(v)
<1>1. PICK r \in DOMAIN aux : aux[r][1] <= v /\ v <= aux[r][2]
  BY DEF Recorded
<1>2. /\ aux \in Seq(Var \X Var) /\ DOMAIN aux = 1..Len(aux) /\ Len(aux) \in Nat
  BY DEF TypeOK
<1>3. \A q \in DOMAIN aux : aux[q][1] \in Nat /\ aux[q][2] \in Nat
  <2>1. \A q \in DOMAIN aux : aux[q] \in Var \X Var
    BY <1>2
  <2>2. Var \subseteq Nat
    BY MaxVarAssumption DEF Var
  <2> QED BY <2>1, <2>2
<1>4. v \in Nat
  BY MaxVarAssumption DEF Recorded, Var
<1>5. {q \in DOMAIN aux : aux[q][1] <= v} = 1..r
  <2>1. ASSUME NEW q \in DOMAIN aux, aux[q][1] <= v PROVE q <= r
    BY <1>1, <1>2, <1>3, <1>4, <2>1 DEF Ordered
  <2>2. ASSUME NEW q \in 1..r PROVE q \in DOMAIN aux /\ aux[q][1] <= v
    <3>1. q \in DOMAIN aux
      BY <1>2
    <3>2. CASE q = r
      BY <1>1, <3>1, <3>2
    <3>3. CASE q < r
      <4>1. aux[q][2] < aux[r][1] /\ aux[q][1] <= aux[q][2]
        BY <3>1, <3>3 DEF Ordered
      <4> QED BY <1>1, <1>3, <1>4, <3>1, <4>1
    <3> QED BY <1>2, <3>2, <3>3
  <2> QED BY <1>2, <2>1, <2>2
<1>6. Cardinality(1..r) = r
  BY <1>2, FS_Interval
<1>7. findInterval(v) = r
  BY <1>5, <1>6 DEF findInterval
<1> QED BY <1>1, <1>2, <1>7 DEF IsAux

\* What check_not_aux lets pass is not recorded.
LEMMA NotRecorded ==
  ASSUME TypeOK, Ordered, NEW lits, check_not_aux(lits)
  PROVE  {VarOf(lit) : lit \in lits} \cap Recorded = {}
  BY RangeFound DEF check_not_aux

-----------------------------------------------------------------------------
(* What a call means. *)

\* Clauses that mention no auxiliary variable mean themselves.
LEMMA AddMeans ==
  ASSUME NEW formula, formula \subseteq SUBSET Lit
  PROVE  CallMeans([op |-> "add", clauses |-> formula], formula, {})
<1> DEFINE call == [op |-> "add", clauses |-> formula]
<1>1. call.op = "add" /\ call.clauses = formula
  OBVIOUS
<1>2. ASSUME NEW vars \in SUBSET Var
      PROVE  Meets(call, vars) <=>
               \E b \in SUBSET {} : IsModel((vars \ {}) \cup b, formula, {})
  <2>1. Meets(call, vars) <=> IsModel(vars, formula, {})
    BY <1>1 DEF Meets, IsModel
  <2>2. \A b \in SUBSET {} : (vars \ {}) \cup b = vars
    OBVIOUS
  <2>3. {} \in SUBSET {}
    OBVIOUS
  <2> QED BY <2>1, <2>2, <2>3
<1> QED BY <1>2 DEF CallMeans

\* A cardinality call depends on the variables of its literals.
LEMMA RequiresDepends ==
  ASSUME NEW call \in CardinalityCalls, call.literals \in Seq(Lit), NEW p, NEW q,
         \A v \in UserVarsOf(call.literals) : v \in p <=> v \in q
  PROVE  Meets(call, p) <=> Requires(call, q)
<1>1. call.op # "add"
  BY DEF CardinalityCalls
<1>2. Count(p, call.literals) = Count(q, call.literals)
  BY CountDepends
<1>3. call.op \in {"at_most", "at_least", "exactly"}
  BY DEF CardinalityCalls
<1>4. Requires(call, p) <=> Requires(call, q)
  BY <1>2, <1>3 DEF Requires
<1> QED BY <1>1, <1>4 DEF Meets

\* A cardinality call means its encoding, whatever the other variables are.
LEMMA CardinalityMeans ==
  ASSUME NEW call \in CardinalityCalls, NEW floor, Below(call.literals, floor),
         encode(call, floor).ok
  PROVE  LET enc   == encode(call, floor)
             fresh == (floor + 1)..enc.top
         IN  /\ enc.top \in floor..MaxVar
             /\ enc.clauses \subseteq SUBSET Lit
             /\ VarsIn(enc.clauses) \subseteq UserVarsOf(call.literals) \cup fresh
             /\ fresh \subseteq VarsIn(enc.clauses)
             /\ UserVarsOf(call.literals) \subseteq 1..floor
             /\ UserVarsOf(call.literals) \cap fresh = {}
             /\ CallMeans(call, enc.clauses, fresh)
<1> DEFINE user   == UserVarsOf(call.literals)
           result == encode(call, floor)
           whole  == result.clauses
           fresh  == (floor + 1)..result.top
           good   == {vars \in SUBSET user : Requires(call, vars)}
<1>1. Represents(result, user, floor, good)
  BY EncodeRepresents
<1>2. /\ result.top \in floor..MaxVar
      /\ whole \subseteq SUBSET Lit
      /\ VarsIn(whole) \subseteq user \cup fresh
      /\ fresh \subseteq VarsIn(whole)
      /\ \A vars \in SUBSET user :
           vars \in good <=> \E a \in SUBSET fresh : IsModel(vars \cup a, whole, {})
  BY <1>1 DEF Represents, AuxRange
<1>3. floor \in Nat /\ user \subseteq 1..floor /\ call.literals \in Seq(Lit)
  BY BelowFacts DEF Below
<1>4. user \cap fresh = {}
  BY <1>2, <1>3
<1> HIDE DEF user, result, fresh
<1>5. ASSUME NEW vars \in SUBSET Var
      PROVE  Meets(call, vars) <=>
               \E b \in SUBSET fresh : IsModel((vars \ fresh) \cup b, whole, {})
  <2>1. \A v \in user : v \in vars <=> v \in vars \cap user
    OBVIOUS
  <2>2. Meets(call, vars) <=> Requires(call, vars \cap user)
    BY <1>3, <2>1, RequiresDepends DEF user
  <2>3. vars \cap user \in SUBSET user
    OBVIOUS
  <2>4. Requires(call, vars \cap user) <=>
          \E b \in SUBSET fresh : IsModel((vars \cap user) \cup b, whole, {})
    BY <1>2, <2>3
  <2>5. ASSUME NEW b \in SUBSET fresh
        PROVE  IsModel((vars \cap user) \cup b, whole, {})
                 <=> IsModel((vars \ fresh) \cup b, whole, {})
    <3>1. \A v \in VarsIn(whole) :
            v \in (vars \cap user) \cup b <=> v \in (vars \ fresh) \cup b
      BY <1>2, <1>4
    <3> HIDE DEF whole
    <3> QED BY <1>2, <3>1, ModelOnVars
  <2> QED BY <2>2, <2>4, <2>5
<1>6. CallMeans(call, whole, fresh)
  BY <1>5 DEF CallMeans
<1> QED BY <1>2, <1>3, <1>4, <1>6 DEF user, result, fresh

-----------------------------------------------------------------------------
(* The steps. *)

LEMMA SessionStart == Init => SessionInv
<1> SUFFICES ASSUME Init PROVE SessionInv
  OBVIOUS
<1>1. /\ clauses = {} /\ pending = {} /\ n_vars = 0 /\ limited = FALSE /\ answer = NoAnswer
      /\ aux = <<>> /\ loop = Rest /\ introduced = {} /\ asked = {} /\ named = {}
      /\ interrupts = 0
  BY DEF Init, SolverInit
<1>2. /\ loop.busy = FALSE /\ loop.todo = {} /\ loop.floor = 0 /\ loop.top = 0
      /\ Whole = {} /\ Added = {} /\ User = {} /\ Fresh = {}
  BY <1>1 DEF Rest, Whole, Added, User, Fresh
<1>3. DOMAIN aux = {} /\ Recorded = {}
  BY <1>1 DEF Recorded
<1>4. TypeOK
  <2>1. answer \in Answers
    BY <1>1 DEF NoAnswer, Answers
  <2>2. aux \in Seq(Var \X Var)
    BY <1>1
  <2>3. 0 \in 0..MaxVar /\ 0 \in 0..MaxInterrupts
    BY MaxVarAssumption, SessionAssumption
  <2> QED BY <1>1, <1>2, <2>1, <2>2, <2>3 DEF TypeOK, SolverTypeOK
<1>5. LoopTyped
  BY <1>1, <1>2, MaxVarAssumption DEF LoopTyped, Rest
<1>6. Ordered
  BY <1>3 DEF Ordered
<1>7. Counted
  <2>1. VarsIn({}) = {} /\ VarsIn({{}}) = {}
    BY DEF VarsIn
  <2> QED BY <1>1, <2>1 DEF Counted, NoAnswer
<1>8. Apart
  BY <1>1, <1>2, <1>3 DEF Apart
<1>9. CallInProgress
  BY <1>1, <1>2, VarsInFacts DEF CallInProgress
<1>10. AskedOfNamed
  BY <1>1 DEF AskedOfNamed
<1>11. FormulaSoFar
  BY <1>1, <1>2 DEF FormulaSoFar, AllMeet, IsModel
<1>12. AnswerTrue
  BY <1>1 DEF AnswerTrue, NoAnswer
<1> QED BY <1>4, <1>5, <1>6, <1>7, <1>8, <1>9, <1>10, <1>11, <1>12 DEF SessionInv

\* Between calls there is nothing in progress.
LEMMA Resting ==
  ASSUME LoopTyped, ~loop.busy
  PROVE  /\ loop = Rest /\ loop.busy = FALSE /\ loop.todo = {}
         /\ loop.floor = 0 /\ loop.top = 0
         /\ Whole = {} /\ Added = {} /\ User = {} /\ Fresh = {}
<1>1. loop = Rest
  BY DEF LoopTyped
<1> QED BY <1>1 DEF Rest, Whole, Added, User, Fresh

\* A call has been checked and encoded: nothing is in the formula yet.
LEMMA StartStep ==
  ASSUME SessionInv, ~loop.busy,
         NEW whole, NEW floor \in 0..MaxVar, NEW top \in floor..MaxVar, NEW call,
         StartAdding(whole, floor, top, call),
         whole = CallClauses(call, floor),
         whole \subseteq SUBSET Lit,
         VarsIn(whole) \subseteq CallVars(call) \cup (floor + 1)..top,
         (floor + 1)..top \subseteq VarsIn(whole),
         CallVars(call) \cap (floor + 1)..top = {},
         CallVars(call) \cap Recorded = {},
         top > floor => n_vars <= floor,
         CallMeans(call, whole, (floor + 1)..top)
  PROVE  SessionInv'
<1> DEFINE fresh == (floor + 1)..top
<1>1. /\ loop' = [busy |-> TRUE, todo |-> whole, floor |-> floor, top |-> top, call |-> call]
      /\ UNCHANGED <<solver, aux, introduced, asked, named, interrupts>>
  BY DEF StartAdding
<1>2. UNCHANGED <<clauses, pending, n_vars, limited, answer>>
  BY <1>1 DEF solver
<1>3. /\ loop'.busy = TRUE /\ loop'.todo = whole /\ loop'.floor = floor
      /\ loop'.top = top /\ loop'.call = call
  BY <1>1
<1>4. Whole' = whole /\ Added' = {} /\ User' = CallVars(call) /\ Fresh' = fresh
  BY <1>3 DEF Whole, Added, User, Fresh
<1>5. Recorded' = Recorded
  BY <1>1 DEF Recorded
<1>6. /\ TypeOK /\ LoopTyped /\ Ordered /\ Counted /\ Apart
      /\ AskedOfNamed /\ FormulaSoFar /\ AnswerTrue
  BY DEF SessionInv
<1>7. Fresh = {} /\ Added = {}
  BY <1>6, Resting
<1>8. floor \in Nat /\ top \in Nat /\ n_vars \in Nat /\ fresh \cap 1..n_vars = {}
  <2>1. floor \in Nat /\ top \in Nat /\ n_vars \in Nat
    BY <1>6, MaxVarAssumption DEF TypeOK, SolverTypeOK
  <2> QED BY <2>1
<1> HIDE DEF fresh
<1>9. TypeOK'
  BY <1>1, <1>2, <1>3, <1>6 DEF TypeOK, SolverTypeOK
<1>10. LoopTyped'
  BY <1>1, <1>3 DEF LoopTyped
<1>11. Ordered'
  BY <1>1, <1>2, <1>6 DEF Ordered
<1>12. Counted'
  BY <1>1, <1>2, <1>6 DEF Counted
<1>13. Apart'
  <2>1. named \cap fresh = {}
    BY <1>6, <1>8 DEF Counted
  <2>2. ASSUME fresh # {}, NEW r \in DOMAIN aux PROVE aux[r][2] <= floor
    <3>1. n_vars <= floor
      BY <1>8, <2>2 DEF fresh
    <3>2. aux[r][2] <= n_vars
      BY <1>6 DEF Ordered
    <3>3. aux[r][2] \in Nat
      <4>1. aux[r] \in Var \X Var
        BY <1>6 DEF TypeOK
      <4> QED BY <4>1, MaxVarAssumption DEF Var
    <3> QED BY <1>8, <3>1, <3>2, <3>3
  <2> QED BY <1>1, <1>3, <1>4, <1>5, <1>6, <2>1, <2>2 DEF Apart, fresh
<1>14. CallInProgress'
  <2>1. VarsIn({}) = {}
    BY VarsInFacts
  <2> QED BY <1>3, <1>4, <2>1 DEF CallInProgress, fresh
<1>15. AskedOfNamed'
  BY <1>1, <1>6 DEF AskedOfNamed
<1>16. FormulaSoFar'
  <2> SUFFICES ASSUME interrupts = 0
               PROVE  /\ introduced \ fresh \subseteq Recorded
                      /\ \A vars \in SUBSET (Var \ (introduced \cup fresh)), b \in SUBSET fresh :
                           AllMeet(vars) /\ IsModel(vars \cup b, {}, {}) <=>
                             \E a \in SUBSET (introduced \ fresh) :
                               IsModel(vars \cup a \cup b, clauses, {})
    BY <1>1, <1>2, <1>4, <1>5 DEF FormulaSoFar, AllMeet
  <2>1. introduced \ fresh = introduced /\ introduced \subseteq Recorded
    BY <1>6, <1>7, <1>8 DEF Counted, FormulaSoFar
  <2>2. ASSUME NEW vars \in SUBSET (Var \ (introduced \cup fresh)), NEW b \in SUBSET fresh
        PROVE  AllMeet(vars) <=> \E a \in SUBSET introduced :
                                   IsModel(vars \cup a \cup b, clauses, {})
    <3>1. AllMeet(vars) <=> \E a \in SUBSET introduced : IsModel(vars \cup a, clauses, {})
      <4>1. vars \in SUBSET (Var \ (introduced \cup Fresh)) /\ {} \in SUBSET Fresh
        BY <1>7
      <4>2. AllMeet(vars) /\ IsModel(vars \cup {}, Added, {}) <=>
              \E a \in SUBSET (introduced \ Fresh) : IsModel(vars \cup a \cup {}, clauses, {})
        BY <1>6, <4>1 DEF FormulaSoFar
      <4>3. IsModel(vars \cup {}, Added, {})
        BY <1>7 DEF IsModel
      <4>4. introduced \ Fresh = introduced
        BY <1>7
      <4>5. \A a : vars \cup a \cup {} = vars \cup a
        OBVIOUS
      <4> QED BY <4>2, <4>3, <4>4, <4>5
    <3>2. ASSUME NEW a \in SUBSET introduced
          PROVE  IsModel(vars \cup a, clauses, {}) <=> IsModel(vars \cup a \cup b, clauses, {})
      <4>1. \A v \in VarsIn(clauses) : v \in vars \cup a <=> v \in vars \cup a \cup b
        BY <1>6, <1>8 DEF Counted
      <4>2. clauses \subseteq SUBSET Lit
        BY <1>6 DEF TypeOK, SolverTypeOK
      <4> QED BY <4>1, <4>2, ModelOnVars
    <3> QED BY <3>1, <3>2
  <2>3. \A m : IsModel(m, {}, {})
    BY DEF IsModel
  <2> QED BY <2>1, <2>2, <2>3
<1>17. AnswerTrue'
  BY <1>2, <1>6 DEF AnswerTrue
<1> QED BY <1>9, <1>10, <1>11, <1>12, <1>13, <1>14, <1>15, <1>16, <1>17 DEF SessionInv

\* sat_add: the clauses as they are, no auxiliary variable.
LEMMA SatAddStep ==
  ASSUME SessionInv, sat_add
  PROVE  SessionInv'
<1>1. PICK formula \in Formulas :
        /\ as_literals(UNION formula)
        /\ check_not_aux(UNION formula)
        /\ StartAdding(formula, 0, 0, [op |-> "add", clauses |-> formula])
  BY DEF sat_add
<1> DEFINE call == [op |-> "add", clauses |-> formula]
<1>2. formula \subseteq SUBSET Lit
  BY <1>1 DEF as_literals
<1>3. CallClauses(call, 0) = formula /\ CallVars(call) = VarsIn(formula)
  BY DEF CallClauses, CallVars
<1>4. (0 + 1)..0 = {}
  OBVIOUS
<1>5. VarsIn(formula) \cap Recorded = {}
  BY <1>1, NotRecorded DEF SessionInv, VarsIn
<1>6. CallMeans(call, formula, (0 + 1)..0)
  BY <1>2, <1>4, AddMeans
<1>7. 0 \in 0..MaxVar /\ ~loop.busy
  BY MaxVarAssumption DEF sat_add
<1>8. StartAdding(formula, 0, 0, call)
  BY <1>1
<1> HIDE DEF call
<1> QED BY <1>2, <1>3, <1>4, <1>5, <1>6, <1>7, <1>8, StartStep

\* A cardinality call: its encoding, above everything in use.
LEMMA CardinalityStep ==
  ASSUME SessionInv, add_cardinality
  PROVE  SessionInv'
<1>1. PICK call \in Cardinalities :
        LET literals == {call.literals[i] : i \in DOMAIN call.literals}
            floor    == aux_floor(n_vars, call.literals)
            enc      == encode(call, floor)
        IN  /\ as_literals(literals)
            /\ check_distinct(call.literals)
            /\ check_not_aux(literals)
            /\ enc.ok
            /\ StartAdding(enc.clauses, floor, enc.top, call)
  BY DEF add_cardinality
<1> DEFINE literals == {call.literals[i] : i \in DOMAIN call.literals}
           floor    == aux_floor(n_vars, call.literals)
           result   == encode(call, floor)
           fresh    == (floor + 1)..result.top
<1>2. call \in CardinalityCalls
  BY SessionAssumption
<1>3. call.literals \in Seq(Lit)
  <2>1. call.literals \in Seq(Int)
    BY <1>2 DEF CardinalityCalls
  <2>2. \A i \in DOMAIN call.literals : call.literals[i] \in Lit
    BY <1>1 DEF as_literals
  <2> QED BY <2>1, <2>2
<1>4. Below(call.literals, floor) /\ n_vars <= floor
  <2>1. n_vars \in 0..MaxVar
    BY DEF SessionInv, TypeOK, SolverTypeOK
  <2> QED BY <1>3, <2>1, FloorFacts
<1>5. result.ok /\ StartAdding(result.clauses, floor, result.top, call)
  BY <1>1
<1>6. /\ result.top \in floor..MaxVar
      /\ result.clauses \subseteq SUBSET Lit
      /\ VarsIn(result.clauses) \subseteq UserVarsOf(call.literals) \cup fresh
      /\ fresh \subseteq VarsIn(result.clauses)
      /\ UserVarsOf(call.literals) \cap fresh = {}
      /\ CallMeans(call, result.clauses, fresh)
  BY <1>2, <1>4, <1>5, CardinalityMeans
<1>7. CallClauses(call, floor) = result.clauses /\ CallVars(call) = UserVarsOf(call.literals)
  <2>1. call.op # "add"
    BY <1>2 DEF CardinalityCalls
  <2> QED BY <2>1 DEF CallClauses, CallVars
<1>8. UserVarsOf(call.literals) \cap Recorded = {}
  <2>1. {VarOf(lit) : lit \in literals} \cap Recorded = {}
    <3> HIDE DEF literals
    <3>1. check_not_aux(literals)
      BY <1>1 DEF literals
    <3> QED BY <3>1, NotRecorded DEF SessionInv
  <2>2. UserVarsOf(call.literals) = {VarOf(lit) : lit \in literals}
    BY DEF UserVarsOf
  <2> QED BY <2>1, <2>2
<1>9. floor \in 0..MaxVar /\ ~loop.busy
  BY <1>4 DEF Below, add_cardinality
<1> HIDE DEF floor, result
<1> QED BY <1>4, <1>5, <1>6, <1>7, <1>8, <1>9, StartStep

\* Nothing is in progress after a call has ended.
LEMMA RestingNext ==
  ASSUME loop' = Rest
  PROVE  /\ LoopTyped'
         /\ loop'.busy = FALSE /\ loop'.todo = {} /\ Whole' = {} /\ Added' = {}
         /\ User' = {} /\ Fresh' = {}
<1>1. /\ loop'.busy = FALSE /\ loop'.todo = {} /\ loop'.floor = 0 /\ loop'.top = 0
  BY DEF Rest
<1>2. LoopTyped'
  BY <1>1, MaxVarAssumption DEF LoopTyped, Rest
<1> QED BY <1>1, <1>2 DEF Whole, Added, User, Fresh

\* Ctrl-C in the loop: from now on the meaning of the formula is open.
LEMMA InterruptStep ==
  ASSUME SessionInv, Interrupt
  PROVE  SessionInv'
<1>1. /\ interrupts < MaxInterrupts /\ loop' = Rest /\ interrupts' = interrupts + 1
      /\ UNCHANGED <<solver, aux, introduced, asked, named>>
      /\ UNCHANGED <<clauses, pending, n_vars, limited, answer>>
  BY DEF Interrupt, solver
<1>2. /\ LoopTyped'
      /\ loop'.busy = FALSE /\ loop'.todo = {} /\ Whole' = {} /\ Added' = {}
      /\ User' = {} /\ Fresh' = {}
  BY <1>1, RestingNext
<1>3. Recorded' = Recorded
  BY <1>1 DEF Recorded
<1>4. TypeOK'
  <2>1. interrupts' \in 0..MaxInterrupts
    BY <1>1, SessionAssumption DEF SessionInv, TypeOK
  <2> QED BY <1>1, <1>2, <2>1 DEF SessionInv, TypeOK, SolverTypeOK
<1>5. Ordered' /\ Counted' /\ AskedOfNamed' /\ AnswerTrue'
  BY <1>1 DEF SessionInv, Ordered, Counted, AskedOfNamed, AnswerTrue
<1>6. Apart'
  BY <1>1, <1>2, <1>3 DEF SessionInv, Apart
<1>7. CallInProgress'
  BY <1>2, VarsInFacts DEF CallInProgress
<1>8. FormulaSoFar'
  BY <1>1, SessionAssumption DEF SessionInv, TypeOK, FormulaSoFar
<1> QED BY <1>2, <1>4, <1>5, <1>6, <1>7, <1>8 DEF SessionInv

\* One more clause of the current call is in.
LEMMA AddNextStep ==
  ASSUME SessionInv, AddNext
  PROVE  SessionInv'
<1>1. PICK clause \in loop.todo :
        /\ AddClause(clause)
        /\ loop' = [loop EXCEPT !.todo = @ \ {clause}]
        /\ introduced' = introduced \cup (VarsIn({clause}) \cap (loop.floor + 1)..loop.top)
  BY DEF AddNext
<1>2. UNCHANGED <<aux, asked, named, interrupts>>
  BY DEF AddNext
<1>3. /\ TypeOK /\ LoopTyped /\ Ordered /\ Counted /\ Apart /\ CallInProgress
      /\ AskedOfNamed /\ FormulaSoFar
  BY DEF SessionInv
<1>4. /\ clauses' = clauses \cup {clause} /\ n_vars' = Using(clause) /\ answer' = NoAnswer
      /\ UNCHANGED <<pending, limited>>
  BY <1>1 DEF AddClause
<1>5. loop.busy
  BY <1>1, <1>3, Resting
<1>6. /\ loop'.busy = loop.busy /\ loop'.todo = loop.todo \ {clause}
      /\ loop'.floor = loop.floor /\ loop'.top = loop.top /\ loop'.call = loop.call
      /\ loop' = [busy |-> loop'.busy, todo |-> loop'.todo, floor |-> loop'.floor,
                  top |-> loop'.top, call |-> loop'.call]
  BY <1>1, <1>3 DEF LoopTyped
<1>7. /\ Whole' = Whole /\ User' = User /\ Fresh' = Fresh /\ Recorded' = Recorded
  BY <1>2, <1>6 DEF Whole, User, Fresh, Recorded
<1>8. clause \in Whole /\ clause \in SUBSET Lit
  BY <1>1, <1>3 DEF CallInProgress
<1>9. Added' = Added \cup {clause}
  BY <1>1, <1>6, <1>7, <1>8 DEF Added
<1>10. /\ n_vars' \in n_vars..MaxVar /\ n_vars \in Nat
       /\ 1..n_vars \subseteq 1..n_vars' /\ VarsIn({clause}) \subseteq 1..n_vars'
  <2>1. SolverTypeOK /\ n_vars \in Nat
    BY <1>3, MaxVarAssumption DEF TypeOK, SolverTypeOK
  <2> QED BY <1>4, <1>8, <2>1, UsingCounts
<1>11. introduced' = introduced \cup (VarsIn({clause}) \cap Fresh)
  BY <1>1 DEF Fresh
<1>12. VarsIn({clause}) \subseteq VarsIn(Whole)
  BY <1>8, VarsInFacts
<1>13. TypeOK'
  <2>1. answer' \in Answers
    BY <1>4 DEF NoAnswer, Answers
  <2>2. n_vars' \in 0..MaxVar
    BY <1>10, MaxVarAssumption
  <2>3. VarsIn({clause}) \subseteq Var
    BY <1>8, VarsInFacts
  <2>4. SolverTypeOK'
    BY <1>3, <1>4, <1>8, <2>1, <2>2 DEF TypeOK, SolverTypeOK
  <2> QED BY <1>2, <1>3, <1>6, <1>11, <2>3, <2>4 DEF TypeOK
<1>14. LoopTyped'
  BY <1>3, <1>5, <1>6 DEF LoopTyped
<1>15. Ordered'
  <2>1. \A r \in DOMAIN aux : aux[r][2] \in Int
    <3>1. \A r \in DOMAIN aux : aux[r] \in Var \X Var
      BY <1>3 DEF TypeOK
    <3> QED BY <3>1, MaxVarAssumption DEF Var
  <2> QED BY <1>2, <1>3, <1>10, <2>1 DEF Ordered
<1>16. Counted'
  <2>1. VarsIn(clauses') = VarsIn(clauses) \cup VarsIn({clause})
    BY <1>4, VarsInFacts
  <2>2. VarsIn({}) = {} /\ VarsIn({{}}) = {}
    BY DEF VarsIn
  <2> QED BY <1>2, <1>3, <1>4, <1>10, <1>11, <2>1, <2>2 DEF Counted, NoAnswer
<1>17. Apart'
  BY <1>2, <1>3, <1>6, <1>7 DEF Apart
<1>18. CallInProgress'
  <2>1. VarsIn(Added') = VarsIn(Added) \cup VarsIn({clause})
    BY <1>9, VarsInFacts
  <2>2. answer'.status = "none"
    BY <1>4 DEF NoAnswer
  <2> QED BY <1>3, <1>4, <1>6, <1>7, <1>9, <1>11, <2>1, <2>2 DEF CallInProgress
<1>19. AskedOfNamed'
  BY <1>2, <1>3 DEF AskedOfNamed
<1>20. FormulaSoFar'
  <2> SUFFICES ASSUME interrupts = 0
               PROVE  /\ introduced' \ Fresh \subseteq Recorded
                      /\ \A vars \in SUBSET (Var \ (introduced' \cup Fresh)), b \in SUBSET Fresh :
                           AllMeet(vars) /\ IsModel(vars \cup b, Added \cup {clause}, {}) <=>
                             \E a \in SUBSET (introduced' \ Fresh) :
                               IsModel(vars \cup a \cup b, clauses \cup {clause}, {})
    BY <1>2, <1>4, <1>7, <1>9 DEF FormulaSoFar, AllMeet
  <2>1. introduced' \ Fresh = introduced \ Fresh /\ introduced' \cup Fresh = introduced \cup Fresh
    BY <1>11
  <2>2. introduced \ Fresh \subseteq Recorded
    BY <1>3 DEF FormulaSoFar
  <2>3. VarsIn({clause}) \cap (introduced \ Fresh) = {}
    BY <1>3, <1>12, <2>2 DEF CallInProgress, Apart
  <2>4. ASSUME NEW m, NEW F
        PROVE  IsModel(m, F \cup {clause}, {}) <=> IsModel(m, F, {}) /\ IsModel(m, {clause}, {})
    BY DEF IsModel
  <2>5. ASSUME NEW vars \in SUBSET (Var \ (introduced \cup Fresh)), NEW b \in SUBSET Fresh
        PROVE  AllMeet(vars) /\ IsModel(vars \cup b, Added \cup {clause}, {}) <=>
                 \E a \in SUBSET (introduced \ Fresh) :
                   IsModel(vars \cup a \cup b, clauses \cup {clause}, {})
    <3>1. AllMeet(vars) /\ IsModel(vars \cup b, Added, {}) <=>
            \E a \in SUBSET (introduced \ Fresh) : IsModel(vars \cup a \cup b, clauses, {})
      BY <1>3 DEF FormulaSoFar
    <3>2. ASSUME NEW a \in SUBSET (introduced \ Fresh)
          PROVE  IsModel(vars \cup b, {clause}, {}) <=> IsModel(vars \cup a \cup b, {clause}, {})
      <4>1. \A v \in VarsIn({clause}) : v \in vars \cup b <=> v \in vars \cup a \cup b
        BY <2>3
      <4>2. {clause} \subseteq SUBSET Lit
        BY <1>8
      <4> QED BY <4>1, <4>2, ModelOnVars
    <3> QED BY <2>4, <3>1, <3>2
  <2> QED BY <2>1, <2>2, <2>5
<1>21. AnswerTrue'
  BY <1>4 DEF AnswerTrue, NoAnswer
<1> QED BY <1>13, <1>14, <1>15, <1>16, <1>17, <1>18, <1>19, <1>20, <1>21 DEF SessionInv

\* Recording a range adds its variables, and keeps the ranges in order.
LEMMA Recording ==
  ASSUME SessionInv, EndAdding
  PROVE  /\ aux' \in Seq(Var \X Var)
         /\ Ordered'
         /\ Recorded' = Recorded \cup Fresh
<1>1. /\ TypeOK /\ LoopTyped /\ Ordered /\ Counted /\ Apart /\ CallInProgress
      /\ loop.busy /\ loop.todo = {} /\ n_vars' = n_vars
  BY DEF SessionInv, EndAdding, solver
<1>2. /\ aux \in Seq(Var \X Var) /\ Len(aux) \in Nat /\ DOMAIN aux = 1..Len(aux)
      /\ MaxVar \in Nat /\ n_vars \in Nat /\ loop.floor \in Nat /\ loop.top \in Nat
      /\ loop.top <= MaxVar
  BY <1>1, MaxVarAssumption DEF TypeOK, SolverTypeOK, LoopTyped
<1>3. \A r \in DOMAIN aux : aux[r][1] \in Nat /\ aux[r][2] \in Nat
  <2>1. \A r \in DOMAIN aux : aux[r] \in Var \X Var
    BY <1>2
  <2> QED BY <2>1, MaxVarAssumption DEF Var
<1>4. CASE ~(loop.top > loop.floor)
  <2>1. aux' = aux
    BY <1>4 DEF EndAdding
  <2>2. Fresh = {}
    BY <1>2, <1>4 DEF Fresh
  <2> QED BY <1>1, <1>2, <2>1, <2>2 DEF Ordered, Recorded
<1>5. CASE loop.top > loop.floor
  <2> DEFINE n == Len(aux) + 1
             from == loop.floor + 1
             to == loop.top
  <2>1. aux' = Append(aux, <<from, to>>)
    BY <1>5 DEF EndAdding, record_aux
  <2>2. from \in Var /\ to \in Var /\ from <= to
    BY <1>2, <1>5 DEF Var
  <2>3. /\ aux' \in Seq(Var \X Var)
        /\ DOMAIN aux' = 1..n
        /\ \A r \in 1..n : aux'[r] = IF r = n THEN <<from, to>> ELSE aux[r]
    BY <1>2, <2>1, <2>2
  <2>4. to <= n_vars
    <3>1. to \in Fresh
      BY <1>2, <1>5 DEF Fresh
    <3>2. Whole \subseteq clauses
      BY <1>1 DEF CallInProgress, Added
    <3>3. VarsIn(Whole) \subseteq VarsIn(clauses)
      BY <3>2, VarsInFacts
    <3>4. to \in 1..n_vars
      BY <1>1, <3>1, <3>3 DEF CallInProgress, Counted
    <3> QED BY <3>4
  <2>5. \A r \in DOMAIN aux : aux[r][2] <= loop.floor
    BY <1>1, <1>2, <1>5 DEF Apart, Fresh
  <2>6. \A r \in 1..n : r # n => r \in DOMAIN aux
    BY <1>2
  <2> HIDE DEF n
  <2>7. aux'[n][1] = from /\ aux'[n][2] = to /\ n \in 1..n
    <3>1. n \in Nat /\ n >= 1
      BY <1>2 DEF n
    <3> QED BY <2>3, <3>1
  <2>8. \A r \in 1..n : r # n => aux'[r] = aux[r]
    BY <2>3
  <2>9. Ordered'
    <3>1. \A r \in DOMAIN aux' : aux'[r][1] <= aux'[r][2] /\ aux'[r][2] <= n_vars'
      BY <1>1, <2>2, <2>3, <2>4, <2>6, <2>7, <2>8 DEF Ordered
    <3>2. ASSUME NEW r \in DOMAIN aux', NEW s \in DOMAIN aux', r < s
          PROVE  aux'[r][2] < aux'[s][1]
      <4>1. r \in 1..n /\ s \in 1..n /\ r # n /\ r \in DOMAIN aux
        BY <1>2, <2>3, <2>6, <3>2 DEF n
      <4>2. CASE s = n
        BY <1>2, <1>3, <2>5, <2>7, <2>8, <4>1, <4>2
      <4>3. CASE s # n
        BY <1>1, <2>6, <2>8, <3>2, <4>1, <4>3 DEF Ordered
      <4> QED BY <4>2, <4>3
    <3> QED BY <3>1, <3>2 DEF Ordered
  <2>10. Recorded' = Recorded \cup Fresh
    <3>1. ASSUME NEW v \in Recorded' PROVE v \in Recorded \cup Fresh
      <4>1. PICK r \in 1..n : aux'[r][1] <= v /\ v <= aux'[r][2]
        BY <2>3, <3>1 DEF Recorded
      <4>2. v \in Var
        BY <3>1 DEF Recorded
      <4>3. CASE r = n
        <5>1. v \in Fresh
          BY <1>2, <2>7, <4>1, <4>2, <4>3 DEF Fresh, Var
        <5> QED BY <5>1
      <4>4. CASE r # n
        BY <2>6, <2>8, <4>1, <4>2, <4>4 DEF Recorded
      <4> QED BY <4>3, <4>4
    <3>2. ASSUME NEW v \in Recorded PROVE v \in Recorded'
      <4>1. PICK r \in DOMAIN aux : aux[r][1] <= v /\ v <= aux[r][2]
        BY <3>2 DEF Recorded
      <4>2. r \in 1..n /\ r # n
        BY <1>2 DEF n
      <4>3. v \in Var
        BY <3>2 DEF Recorded
      <4> QED BY <2>3, <2>8, <4>1, <4>2, <4>3 DEF Recorded
    <3>3. ASSUME NEW v \in Fresh PROVE v \in Recorded'
      <4>1. v \in Var /\ from <= v /\ v <= to
        BY <1>2, <3>3 DEF Fresh, Var
      <4> QED BY <2>3, <2>7, <4>1 DEF Recorded
    <3> QED BY <3>1, <3>2, <3>3
  <2> QED BY <2>3, <2>9, <2>10
<1> QED BY <1>4, <1>5

\* The call returns: all of it is in, and it means what was asked.
LEMMA EndAddingStep ==
  ASSUME SessionInv, EndAdding
  PROVE  SessionInv'
<1>1. /\ TypeOK /\ LoopTyped /\ Ordered /\ Counted /\ Apart /\ CallInProgress
      /\ AskedOfNamed /\ FormulaSoFar /\ AnswerTrue
  BY DEF SessionInv
<1>2. /\ loop.busy /\ loop.todo = {} /\ loop' = Rest /\ asked' = asked \cup {loop.call}
      /\ UNCHANGED <<introduced, interrupts>>
      /\ UNCHANGED <<clauses, pending, n_vars, limited, answer>>
  BY DEF EndAdding, solver
<1>3. /\ LoopTyped' /\ loop'.busy = FALSE /\ loop'.todo = {}
      /\ Whole' = {} /\ Added' = {} /\ User' = {} /\ Fresh' = {}
  BY <1>2, RestingNext
<1>4. Added = Whole /\ Whole \subseteq clauses
  BY <1>1, <1>2 DEF CallInProgress, Added
<1>5. VarsIn(Whole) \subseteq 1..n_vars /\ Fresh \subseteq introduced
  <2>1. VarsIn(Whole) \subseteq VarsIn(clauses)
    BY <1>4, VarsInFacts
  <2> QED BY <1>1, <1>4, <2>1 DEF Counted, CallInProgress
<1>6. named' = named \cup (User \cap 1..n_vars)
  <2>1. CASE loop.call.op = "add"
    <3>1. Whole = loop.call.clauses /\ User = VarsIn(loop.call.clauses)
      BY <1>2, <2>1 DEF Whole, User, CallClauses, CallVars
    <3>2. User \cap 1..n_vars = VarsIn(loop.call.clauses)
      BY <1>5, <3>1
    <3> QED BY <2>1, <3>2 DEF EndAdding
  <2>2. CASE loop.call.op # "add"
    <3>1. User = {VarOf(loop.call.literals[i]) : i \in DOMAIN loop.call.literals}
      BY <1>2, <2>2 DEF User, CallVars, UserVarsOf
    <3> QED BY <2>2, <3>1 DEF EndAdding
  <2> QED BY <2>1, <2>2
<1>7. /\ aux' \in Seq(Var \X Var) /\ Ordered' /\ Recorded' = Recorded \cup Fresh
  BY Recording
<1>8. TypeOK'
  <2>1. 1..n_vars \subseteq Var
    BY <1>1, MaxVarAssumption DEF TypeOK, SolverTypeOK, Var
  <2> QED BY <1>1, <1>2, <1>3, <1>6, <1>7, <2>1 DEF TypeOK, SolverTypeOK
<1>9. Counted'
  BY <1>1, <1>2, <1>6 DEF Counted
<1>10. Apart'
  BY <1>1, <1>3, <1>6, <1>7 DEF Apart
<1>11. CallInProgress'
  BY <1>3, VarsInFacts DEF CallInProgress
<1>12. AskedOfNamed'
  <2> SUFFICES ASSUME NEW call \in asked', NEW p \in SUBSET Var, NEW q \in SUBSET Var,
                      p \cap named' = q \cap named'
               PROVE  Meets(call, p) <=> Meets(call, q)
    BY DEF AskedOfNamed
  <2>1. CASE call \in asked
    <3>1. p \cap named = q \cap named
      BY <1>6
    <3> QED BY <1>1, <2>1, <3>1 DEF AskedOfNamed
  <2>2. CASE call = loop.call
    <3>1. CallMeans(call, Whole, Fresh)
      BY <1>1, <1>2, <2>2 DEF CallInProgress
    <3>2. ASSUME NEW b \in SUBSET Fresh
          PROVE  IsModel((p \ Fresh) \cup b, Whole, {}) <=> IsModel((q \ Fresh) \cup b, Whole, {})
      <4>1. VarsIn(Whole) \subseteq named' \cup Fresh
        BY <1>1, <1>5, <1>6 DEF CallInProgress
      <4>2. \A v \in VarsIn(Whole) : v \in (p \ Fresh) \cup b <=> v \in (q \ Fresh) \cup b
        BY <4>1
      <4>3. Whole \subseteq SUBSET Lit
        BY <1>1 DEF CallInProgress
      <4> QED BY <4>2, <4>3, ModelOnVars
    <3> QED BY <3>1, <3>2 DEF CallMeans
  <2> QED BY <1>2, <2>1, <2>2
<1>13. FormulaSoFar'
  <2> SUFFICES ASSUME interrupts = 0
               PROVE  /\ introduced \ {} \subseteq Recorded \cup Fresh
                      /\ \A vars \in SUBSET (Var \ (introduced \cup {})), b \in SUBSET {} :
                           (AllMeet(vars))' /\ IsModel(vars \cup b, {}, {}) <=>
                             \E a \in SUBSET (introduced \ {}) :
                               IsModel(vars \cup a \cup b, clauses, {})
    BY <1>2, <1>3, <1>7 DEF FormulaSoFar
  <2>1. introduced \subseteq Recorded \cup Fresh
    BY <1>1 DEF FormulaSoFar
  <2>2. ASSUME NEW vars \in SUBSET (Var \ introduced)
        PROVE  (AllMeet(vars))' <=> \E a \in SUBSET introduced : IsModel(vars \cup a, clauses, {})
    <3>1. vars \in SUBSET Var /\ vars \ Fresh = vars
      BY <1>5
    <3>2. (AllMeet(vars))' <=> AllMeet(vars) /\ Meets(loop.call, vars)
      BY <1>2 DEF AllMeet
    <3>3. Meets(loop.call, vars) <=> \E b \in SUBSET Fresh : IsModel(vars \cup b, Whole, {})
      BY <1>1, <1>2, <3>1 DEF CallInProgress, CallMeans
    <3>4. vars \in SUBSET (Var \ (introduced \cup Fresh))
      BY <1>5
    <3>5. ASSUME NEW b \in SUBSET Fresh
          PROVE  AllMeet(vars) /\ IsModel(vars \cup b, Whole, {}) <=>
                   \E a \in SUBSET (introduced \ Fresh) : IsModel(vars \cup a \cup b, clauses, {})
      BY <1>1, <1>4, <3>4 DEF FormulaSoFar
    <3>6. (AllMeet(vars))' <=>
            \E b \in SUBSET Fresh, a \in SUBSET (introduced \ Fresh) :
               IsModel(vars \cup a \cup b, clauses, {})
      BY <3>2, <3>3, <3>5
    <3>7. ASSUME NEW b \in SUBSET Fresh, NEW a \in SUBSET (introduced \ Fresh)
          PROVE  /\ a \cup b \in SUBSET introduced
                 /\ vars \cup a \cup b = vars \cup (a \cup b)
      BY <1>5
    <3>8. ASSUME NEW c \in SUBSET introduced
          PROVE  /\ c \cap Fresh \in SUBSET Fresh /\ c \ Fresh \in SUBSET (introduced \ Fresh)
                 /\ vars \cup c = vars \cup (c \ Fresh) \cup (c \cap Fresh)
      OBVIOUS
    <3>9. ASSUME NEW b \in SUBSET Fresh, NEW a \in SUBSET (introduced \ Fresh),
                 IsModel(vars \cup a \cup b, clauses, {})
          PROVE  \E c \in SUBSET introduced : IsModel(vars \cup c, clauses, {})
      <4>1. IsModel(vars \cup (a \cup b), clauses, {}) /\ a \cup b \in SUBSET introduced
        BY <3>7, <3>9
      <4> QED BY <4>1
    <3>10. ASSUME NEW c \in SUBSET introduced, IsModel(vars \cup c, clauses, {})
           PROVE  \E b \in SUBSET Fresh, a \in SUBSET (introduced \ Fresh) :
                    IsModel(vars \cup a \cup b, clauses, {})
      <4>1. IsModel(vars \cup (c \ Fresh) \cup (c \cap Fresh), clauses, {})
        BY <3>8, <3>10
      <4> QED BY <3>8, <4>1
    <3> QED BY <3>6, <3>9, <3>10
  <2>3. \A m : IsModel(m, {}, {})
    BY DEF IsModel
  <2>4. introduced \ {} = introduced /\ introduced \cup {} = introduced
    OBVIOUS
  <2>5. ASSUME NEW vars \in SUBSET (Var \ (introduced \cup {})), NEW b \in SUBSET {}
        PROVE  (AllMeet(vars))' /\ IsModel(vars \cup b, {}, {}) <=>
                 \E a \in SUBSET (introduced \ {}) : IsModel(vars \cup a \cup b, clauses, {})
    <3>1. b = {} /\ \A a : vars \cup a \cup b = vars \cup a
      OBVIOUS
    <3>2. IsModel(vars \cup b, {}, {})
      BY <2>3
    <3>3. (AllMeet(vars))' <=> \E a \in SUBSET introduced : IsModel(vars \cup a, clauses, {})
      BY <2>2, <2>4
    <3> QED BY <2>4, <3>1, <3>2, <3>3
  <2> QED BY <2>1, <2>4, <2>5
<1>14. AnswerTrue'
  BY <1>1, <1>2 DEF AnswerTrue
<1> QED BY <1>3, <1>7, <1>8, <1>9, <1>10, <1>11, <1>12, <1>13, <1>14 DEF SessionInv

\* Calls that add nothing: the formula is the same, more variables are named.
LEMMA QueryStep ==
  ASSUME SessionInv, ~loop.busy, UNCHANGED <<aux, loop, introduced, asked, interrupts>>,
         clauses' = clauses, n_vars' \in n_vars..MaxVar, limited' \in BOOLEAN,
         named \subseteq named', named' \subseteq 1..n_vars', named' \cap Recorded = {},
         pending' \subseteq SUBSET Lit, VarsIn(pending') \subseteq named',
         answer' \in Answers, VarsIn(answer'.constrained) \subseteq named',
         VarsIn({answer'.assumed}) \subseteq named', AnswerTrue'
  PROVE  SessionInv'
<1>1. /\ TypeOK /\ LoopTyped /\ Ordered /\ Counted /\ Apart /\ CallInProgress
      /\ AskedOfNamed /\ FormulaSoFar
  BY DEF SessionInv
<1>2. /\ Whole = {} /\ Added = {} /\ User = {} /\ Fresh = {} /\ loop.busy = FALSE
  BY <1>1, Resting
<1>3. /\ Whole' = {} /\ Added' = {} /\ User' = {} /\ Fresh' = {} /\ Recorded' = Recorded
      /\ loop'.busy = FALSE
  BY <1>2 DEF Whole, Added, User, Fresh, Recorded
<1>4. n_vars \in Nat /\ n_vars' \in Nat /\ n_vars' <= MaxVar /\ 1..n_vars \subseteq 1..n_vars'
  BY <1>1, MaxVarAssumption DEF TypeOK, SolverTypeOK
<1>5. TypeOK'
  <2>1. named' \subseteq Var
    BY <1>4, MaxVarAssumption DEF Var
  <2>2. SolverTypeOK'
    BY <1>1, <1>4, MaxVarAssumption DEF TypeOK, SolverTypeOK
  <2> QED BY <1>1, <2>1, <2>2 DEF TypeOK
<1>6. LoopTyped'
  BY <1>1 DEF LoopTyped
<1>7. Ordered'
  <2>1. \A r \in DOMAIN aux : aux[r][2] \in Int
    <3>1. \A r \in DOMAIN aux : aux[r] \in Var \X Var
      BY <1>1 DEF TypeOK
    <3> QED BY <3>1, MaxVarAssumption DEF Var
  <2> QED BY <1>1, <1>4, <2>1 DEF Ordered
<1>8. Counted'
  BY <1>1, <1>4 DEF Counted
<1>9. Apart'
  BY <1>3 DEF Apart
<1>10. CallInProgress'
  <2>1. loop'.todo = {}
    BY <1>1, Resting
  <2> QED BY <1>3, <2>1, VarsInFacts DEF CallInProgress
<1>11. AskedOfNamed'
  <2> SUFFICES ASSUME NEW call \in asked, NEW p \in SUBSET Var, NEW q \in SUBSET Var,
                      p \cap named' = q \cap named'
               PROVE  Meets(call, p) <=> Meets(call, q)
    BY DEF AskedOfNamed
  <2>1. p \cap named = q \cap named
    OBVIOUS
  <2> QED BY <1>1, <2>1 DEF AskedOfNamed
<1>12. FormulaSoFar'
  BY <1>1, <1>2, <1>3 DEF FormulaSoFar, AllMeet
<1> QED BY <1>5, <1>6, <1>7, <1>8, <1>9, <1>10, <1>11, <1>12 DEF SessionInv

\* No variable up to a number below every range is recorded.
LEMMA ReserveStep ==
  ASSUME SessionInv, sat_reserve
  PROVE  SessionInv'
<1>1. PICK n \in 0..MaxVar :
        /\ \A r \in DOMAIN aux : aux[r][1] > n
        /\ Reserve(n)
        /\ named' = named \cup 1..n
  BY DEF sat_reserve
<1>2. ~loop.busy /\ UNCHANGED <<aux, loop, introduced, asked, interrupts>>
  BY DEF sat_reserve
<1>3. /\ n_vars' = (IF n > n_vars THEN n ELSE n_vars)
      /\ answer' = (IF n > n_vars THEN NoAnswer ELSE answer)
      /\ UNCHANGED <<clauses, pending, limited>>
  BY <1>1 DEF Reserve
<1>4. TypeOK /\ Counted /\ Apart /\ AnswerTrue
  BY DEF SessionInv
<1>5. n_vars \in Nat /\ MaxVar \in Nat /\ n_vars <= MaxVar /\ n \in Nat /\ n <= MaxVar
  BY <1>4, MaxVarAssumption DEF TypeOK, SolverTypeOK
<1>6. n_vars' \in n_vars..MaxVar /\ n <= n_vars' /\ 1..n_vars \subseteq 1..n_vars'
  BY <1>3, <1>5
<1>7. named' \subseteq 1..n_vars'
  <2>1. 1..n \subseteq 1..n_vars'
    BY <1>5, <1>6
  <2> QED BY <1>1, <1>4, <1>6, <2>1 DEF Counted
<1>8. 1..n \cap Recorded = {}
  <2> SUFFICES ASSUME NEW v \in 1..n, v \in Recorded PROVE FALSE
    OBVIOUS
  <2>1. PICK r \in DOMAIN aux : aux[r][1] <= v
    BY DEF Recorded
  <2>2. aux[r] \in Var \X Var
    BY <1>4 DEF TypeOK
  <2>3. aux[r][1] \in Nat
    BY <2>2, MaxVarAssumption DEF Var
  <2> QED BY <1>1, <1>5, <2>1, <2>3
<1>9. /\ pending' \subseteq SUBSET Lit /\ limited' \in BOOLEAN
      /\ VarsIn(pending') \subseteq named'
  BY <1>1, <1>3, <1>4 DEF TypeOK, SolverTypeOK, Counted
<1>10. CASE n > n_vars
  <2>1. answer' = NoAnswer
    BY <1>3, <1>10
  <2>2. /\ answer' \in Answers /\ AnswerTrue'
        /\ VarsIn(answer'.constrained) = {} /\ VarsIn({answer'.assumed}) = {}
    BY <2>1 DEF NoAnswer, Answers, AnswerTrue, VarsIn
  <2> QED BY <1>1, <1>2, <1>3, <1>4, <1>6, <1>7, <1>8, <1>9, <2>2, QueryStep DEF Apart
<1>11. CASE ~(n > n_vars)
  <2>1. answer' = answer
    BY <1>3, <1>11
  <2>2. /\ answer' \in Answers /\ AnswerTrue'
        /\ VarsIn(answer'.constrained) \subseteq named'
        /\ VarsIn({answer'.assumed}) \subseteq named'
    BY <1>1, <1>3, <1>4, <2>1 DEF TypeOK, SolverTypeOK, AnswerTrue, Counted
  <2> QED BY <1>1, <1>2, <1>3, <1>4, <1>6, <1>7, <1>8, <1>9, <2>2, QueryStep DEF Apart
<1> QED BY <1>10, <1>11

\* What a query names has been checked and is counted.
LEMMA QueryNames ==
  ASSUME SessionInv, NEW lits, as_literals(lits), check_not_aux(lits)
  PROVE  /\ lits \in SUBSET Lit
         /\ Using(lits) \in n_vars..MaxVar
         /\ named \cup VarsIn({lits}) \subseteq 1..Using(lits)
         /\ (named \cup VarsIn({lits})) \cap Recorded = {}
<1>1. TypeOK /\ SolverTypeOK /\ Ordered /\ Counted /\ Apart
  BY DEF SessionInv, TypeOK
<1>2. lits \in SUBSET Lit
  BY DEF as_literals
<1>3. /\ Using(lits) \in n_vars..MaxVar /\ 1..n_vars \subseteq 1..Using(lits)
      /\ VarsIn({lits}) \subseteq 1..Using(lits)
  BY <1>1, <1>2, UsingCounts
<1>4. VarsIn({lits}) \cap Recorded = {}
  BY <1>1, NotRecorded, VarsInOne
<1> QED BY <1>1, <1>2, <1>3, <1>4 DEF Counted, Apart

LEMMA ConstrainStep ==
  ASSUME SessionInv, sat_constrain
  PROVE  SessionInv'
<1>1. PICK lits \in Queries :
        /\ as_literals(lits) /\ check_not_aux(lits)
        /\ SetConstraint(lits)
        /\ named' = named \cup VarsIn({lits})
  BY DEF sat_constrain
<1>2. ~loop.busy /\ UNCHANGED <<aux, loop, introduced, asked, interrupts>>
  BY DEF sat_constrain
<1>3. /\ pending' = {lits} /\ n_vars' = Using(lits) /\ answer' = NoAnswer
      /\ UNCHANGED <<clauses, limited>>
  BY <1>1 DEF SetConstraint
<1>4. /\ lits \in SUBSET Lit
      /\ Using(lits) \in n_vars..MaxVar
      /\ named \cup VarsIn({lits}) \subseteq 1..Using(lits)
      /\ (named \cup VarsIn({lits})) \cap Recorded = {}
  BY <1>1, QueryNames
<1>5. /\ answer' \in Answers /\ AnswerTrue'
      /\ VarsIn(answer'.constrained) = {} /\ VarsIn({answer'.assumed}) = {}
  BY <1>3 DEF NoAnswer, Answers, AnswerTrue, VarsIn
<1>6. limited' \in BOOLEAN
  BY <1>3 DEF SessionInv, TypeOK, SolverTypeOK
<1> QED BY <1>1, <1>2, <1>3, <1>4, <1>5, <1>6, QueryStep

LEMMA SolveStep ==
  ASSUME SessionInv, sat_solve
  PROVE  SessionInv'
<1>1. PICK assumed \in Queries :
        /\ as_literals(assumed) /\ check_not_aux(assumed)
        /\ Solve(assumed)
        /\ named' = named \cup VarsIn({assumed})
  BY DEF sat_solve
<1>2. ~loop.busy /\ UNCHANGED <<aux, loop, introduced, asked, interrupts>>
  BY DEF sat_solve
<1>3. PICK status \in {"sat", "unsat", "unknown"}, vars \in SUBSET Var :
        Answer(status, vars, assumed, FALSE)
  BY <1>1 DEF Solve
<1>4. /\ \/ status = "sat" /\ IsModel(vars, clauses \cup pending, assumed)
         \/ status = "unsat" /\ NoModel(clauses \cup pending, assumed)
         \/ status = "unknown"
      /\ answer' = [status |-> status, vars |-> vars,
                    assumed |-> assumed, constrained |-> pending]
      /\ pending' = {} /\ limited' = FALSE /\ n_vars' = Using(assumed) /\ clauses' = clauses
  BY <1>3 DEF Answer
<1>5. /\ assumed \in SUBSET Lit
      /\ Using(assumed) \in n_vars..MaxVar
      /\ named \cup VarsIn({assumed}) \subseteq 1..Using(assumed)
      /\ (named \cup VarsIn({assumed})) \cap Recorded = {}
  BY <1>1, QueryNames
<1>6. answer'.status = status /\ answer'.vars = vars /\ answer'.assumed = assumed
      /\ answer'.constrained = pending
  BY <1>4
<1>7. answer' \in Answers
  <2>1. pending \in SUBSET SUBSET Lit
    BY DEF SessionInv, TypeOK, SolverTypeOK
  <2>2. status \in {"none", "sat", "unsat", "unknown"}
    BY <1>3
  <2> QED BY <1>4, <1>5, <2>1, <2>2 DEF Answers
<1>8. AnswerTrue'
  <2>1. IsModel(vars, clauses \cup pending, assumed) => IsModel(vars, clauses, {})
    BY DEF IsModel
  <2> QED BY <1>4, <1>6, <2>1 DEF AnswerTrue
<1>9. VarsIn(pending) \subseteq named /\ VarsIn({}) = {}
  BY VarsInFacts DEF SessionInv, Counted
<1> QED BY <1>1, <1>2, <1>4, <1>5, <1>6, <1>7, <1>8, <1>9, QueryStep

LEMMA SessionStutter ==
  ASSUME SessionInv, UNCHANGED sessionVars
  PROVE  SessionInv'
<1>1. UNCHANGED <<clauses, pending, n_vars, limited, answer, aux, loop, introduced,
                  asked, named, interrupts>>
  BY DEF sessionVars, session, solver
<1>2. /\ Whole' = Whole /\ Added' = Added /\ User' = User /\ Fresh' = Fresh
      /\ Recorded' = Recorded
  BY <1>1 DEF Whole, Added, User, Fresh, Recorded
<1>3. TypeOK' /\ LoopTyped' /\ Ordered' /\ Counted' /\ AskedOfNamed' /\ AnswerTrue'
  BY <1>1 DEF SessionInv, TypeOK, SolverTypeOK, LoopTyped, Ordered, Counted,
              AskedOfNamed, AnswerTrue
<1>4. Apart' /\ CallInProgress' /\ FormulaSoFar'
  BY <1>1, <1>2 DEF SessionInv, Apart, CallInProgress, FormulaSoFar, AllMeet
<1> QED BY <1>3, <1>4 DEF SessionInv

-----------------------------------------------------------------------------
(* The theorems. *)

\* The invariant holds, whatever is called and interrupted in what order.
THEOREM SessionInvariant == Spec => []SessionInv
<1>1. Init => SessionInv
  BY SessionStart
<1>2. SessionInv /\ [Next]_sessionVars => SessionInv'
  <2> SUFFICES ASSUME SessionInv, [Next]_sessionVars PROVE SessionInv'
    OBVIOUS
  <2>1. CASE sat_add
    BY <2>1, SatAddStep
  <2>2. CASE add_cardinality
    BY <2>2, CardinalityStep
  <2>3. CASE AddNext
    BY <2>3, AddNextStep
  <2>4. CASE EndAdding
    BY <2>4, EndAddingStep
  <2>5. CASE Interrupt
    BY <2>5, InterruptStep
  <2>6. CASE sat_reserve
    BY <2>6, ReserveStep
  <2>7. CASE sat_constrain
    BY <2>7, ConstrainStep
  <2>8. CASE sat_solve
    BY <2>8, SolveStep
  <2>9. CASE UNCHANGED sessionVars
    BY <2>9, SessionStutter
  <2> QED BY <2>1, <2>2, <2>3, <2>4, <2>5, <2>6, <2>7, <2>8, <2>9 DEF Next
<1> QED BY <1>1, <1>2, PTL DEF Spec

\* Types: ranges are pairs of variables, what add_clauses is adding is clauses
\* of literals below the ceiling.
THEOREM SessionTypesHold == Spec => []TypeOK
<1>1. SessionInv => TypeOK
  BY DEF SessionInv
<1> QED BY SessionInvariant, <1>1, PTL

\* The ranges record_aux appends are non-empty, in use, ascending and
\* disjoint, however many calls Ctrl-C cut short.
THEOREM RangesDoAscend == Spec => []RangesAscend
<1>1. SessionInv => RangesAscend
  <2> SUFFICES ASSUME SessionInv, NEW r \in DOMAIN aux
               PROVE  /\ aux[r][1] <= aux[r][2]
                      /\ aux[r][2] <= n_vars
                      /\ r > 1 => aux[r - 1][2] < aux[r][1]
    BY DEF RangesAscend
  <2>1. Ordered /\ aux \in Seq(Var \X Var)
    BY DEF SessionInv, TypeOK
  <2>2. DOMAIN aux = 1..Len(aux) /\ Len(aux) \in Nat
    BY <2>1
  <2>3. ASSUME r > 1 PROVE r - 1 \in DOMAIN aux /\ r - 1 < r
    BY <2>2, <2>3
  <2> QED BY <2>1, <2>3 DEF Ordered
<1> QED BY SessionInvariant, <1>1, PTL

\* As long as no add_clauses was interrupted, the caller and the encodings
\* use different variables.
THEOREM NothingIsShared == Spec => []NoSharedVariable
<1>1. SessionInv => NoSharedVariable
  <2> SUFFICES ASSUME SessionInv, interrupts = 0 PROVE named \cap introduced = {}
    BY DEF NoSharedVariable
  <2>1. introduced \ Fresh \subseteq Recorded
    BY DEF SessionInv, FormulaSoFar
  <2> QED BY <2>1 DEF SessionInv, Apart
<1> QED BY SessionInvariant, <1>1, PTL

\* Between calls the formula means the calls: sat_add and every encoding, in
\* whatever order they were made, and none disturbs another.
THEOREM FormulaIsTheCalls == Spec => []FormulaMeansCalls
<1>1. SessionInv => FormulaMeansCalls
  <2> SUFFICES ASSUME SessionInv, ~loop.busy, interrupts = 0,
                      NEW vars \in SUBSET (Var \ introduced)
               PROVE  AllMeet(vars) <=>
                        \E a \in SUBSET introduced : IsModel(vars \cup a, clauses, {})
    BY DEF FormulaMeansCalls, AllMeet
  <2>1. Fresh = {} /\ Added = {}
    BY Resting DEF SessionInv
  <2>2. vars \in SUBSET (Var \ (introduced \cup Fresh)) /\ {} \in SUBSET Fresh
    BY <2>1
  <2>3. AllMeet(vars) /\ IsModel(vars \cup {}, Added, {}) <=>
          \E a \in SUBSET (introduced \ Fresh) : IsModel(vars \cup a \cup {}, clauses, {})
    BY <2>2 DEF SessionInv, FormulaSoFar
  <2>4. IsModel(vars \cup {}, Added, {})
    BY <2>1 DEF IsModel
  <2>5. introduced \ Fresh = introduced /\ \A a : vars \cup a \cup {} = vars \cup a
    BY <2>1
  <2> QED BY <2>3, <2>4, <2>5
<1> QED BY SessionInvariant, <1>1, PTL

\* A returned call does not see the auxiliary variables.
LEMMA MeetsWithoutAuxiliaries ==
  ASSUME SessionInv, interrupts = 0, NEW p \in SUBSET Var, NEW q \in SUBSET Var,
         p \ (introduced \cup Fresh) = q \ (introduced \cup Fresh)
  PROVE  AllMeet(p) <=> AllMeet(q)
<1>1. named \cap (introduced \cup Fresh) = {}
  BY DEF SessionInv, FormulaSoFar, Apart
<1>2. p \cap named = q \cap named
  BY <1>1
<1> QED BY <1>2 DEF SessionInv, AskedOfNamed, AllMeet

\* The answers of sat_solve are about the calls, until the next clause is added.
THEOREM AnswersMeetTheCalls == Spec => []AnswerMeetsCalls
<1>1. SessionInv => AnswerMeetsCalls
  <2> SUFFICES ASSUME SessionInv, interrupts = 0
               PROVE  /\ answer.status = "sat" => AllMeet(answer.vars \ introduced)
                      /\ answer.status = "unsat" =>
                           \A vars \in SUBSET (Var \ introduced) :
                             ~(AllMeet(vars) /\ IsModel(vars, answer.constrained, answer.assumed))
    BY DEF AnswerMeetsCalls, AllMeet
  <2>1. /\ TypeOK /\ Counted /\ Apart /\ CallInProgress /\ FormulaSoFar /\ AnswerTrue
    BY DEF SessionInv
  <2>2. /\ answer.vars \in SUBSET Var /\ answer.assumed \in SUBSET Lit
        /\ answer.constrained \in SUBSET SUBSET Lit
    BY <2>1 DEF TypeOK, SolverTypeOK, Answers
  <2>3. introduced \subseteq Var
    BY <2>1 DEF TypeOK
  <2>4. ASSUME answer.status = "sat" PROVE AllMeet(answer.vars \ introduced)
    <3> DEFINE m == answer.vars
               vars == m \ (introduced \cup Fresh)
               b == m \cap Fresh
               a == m \cap (introduced \ Fresh)
    <3>1. /\ vars \in SUBSET (Var \ (introduced \cup Fresh)) /\ b \in SUBSET Fresh
          /\ a \in SUBSET (introduced \ Fresh) /\ vars \cup a \cup b = m
      BY <2>2
    <3>2. IsModel(vars \cup a \cup b, clauses, {})
      BY <2>1, <2>4, <3>1 DEF AnswerTrue
    <3>3. AllMeet(vars)
      <4> HIDE DEF vars, a, b
      <4> QED BY <2>1, <3>1, <3>2 DEF FormulaSoFar
    <3>4. vars \ (introduced \cup Fresh) = (m \ introduced) \ (introduced \cup Fresh)
      OBVIOUS
    <3>5. vars \in SUBSET Var /\ m \ introduced \in SUBSET Var
      BY <2>2
    <3> HIDE DEF vars
    <3> QED BY <3>3, <3>4, <3>5, MeetsWithoutAuxiliaries
  <2>5. ASSUME answer.status = "unsat", NEW vars \in SUBSET (Var \ introduced), AllMeet(vars),
               IsModel(vars, answer.constrained, answer.assumed)
        PROVE  FALSE
    <3> DEFINE rest == vars \ Fresh
    <3>1. AllMeet(rest)
      <4>1. rest \ (introduced \cup Fresh) = vars \ (introduced \cup Fresh)
        OBVIOUS
      <4>2. rest \in SUBSET Var /\ vars \in SUBSET Var
        OBVIOUS
      <4> HIDE DEF rest
      <4> QED BY <2>5, <4>1, <4>2, MeetsWithoutAuxiliaries
    <3>2. Added = {} /\ IsModel(rest \cup {}, Added, {})
      BY <2>1, <2>5 DEF CallInProgress, IsModel
    <3>3. rest \in SUBSET (Var \ (introduced \cup Fresh)) /\ {} \in SUBSET Fresh
      OBVIOUS
    <3>4. PICK a \in SUBSET (introduced \ Fresh) : IsModel(rest \cup a \cup {}, clauses, {})
      <4> HIDE DEF rest
      <4> QED BY <2>1, <3>1, <3>2, <3>3 DEF FormulaSoFar
    <3> DEFINE m == rest \cup a
    <3>5. m \in SUBSET Var /\ rest \cup a \cup {} = m
      BY <2>3
    <3>6. IsModel(m, clauses, {})
      BY <3>4, <3>5
    <3>7. named \cap (introduced \cup Fresh) = {}
      BY <2>1 DEF FormulaSoFar, Apart
    <3>8. \A v \in named : v \in vars <=> v \in m
      BY <3>7
    <3>9. IsModel(m, answer.constrained, answer.assumed)
      <4>1. ASSUME NEW c \in answer.constrained, NEW lit \in c
            PROVE  VarOf(lit) \in vars <=> VarOf(lit) \in m
        <5>1. VarOf(lit) \in VarsIn(answer.constrained)
          BY DEF VarsIn
        <5> QED BY <2>1, <3>8, <5>1 DEF Counted
      <4>2. ASSUME NEW lit \in answer.assumed PROVE VarOf(lit) \in vars <=> VarOf(lit) \in m
        <5>1. VarOf(lit) \in VarsIn({answer.assumed})
          BY VarsInOne
        <5> QED BY <2>1, <3>8, <5>1 DEF Counted
      <4> HIDE DEF m
      <4> QED BY <2>2, <2>5, <4>1, <4>2, ModelDepends
    <3>10. IsModel(m, clauses \cup answer.constrained, answer.assumed)
      BY <3>6, <3>9 DEF IsModel
    <3>11. NoModel(clauses \cup answer.constrained, answer.assumed)
      BY <2>1, <2>5 DEF AnswerTrue
    <3> HIDE DEF m
    <3> QED BY <3>5, <3>10, <3>11 DEF NoModel
  <2> QED BY <2>4, <2>5
<1> QED BY SessionInvariant, <1>1, PTL
=============================================================================

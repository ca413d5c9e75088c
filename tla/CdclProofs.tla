----------------------------- MODULE CdclProofs -----------------------------
(***************************************************************************)
(* The safety of CaDiCaL's search, for every number of variables, every    *)
(* bound on the clauses in memory and every sequence of calls.             *)
(***************************************************************************)
EXTENDS Cdcl, CnfProofs

-----------------------------------------------------------------------------
(* Recursive functions on the numbers up to n. *)

\* What holds of 0, and of each number up to n after the one before it, holds
\* of all of them.
LEMMA InductionUpTo ==
  ASSUME NEW n \in Nat, NEW S, 0 \in S, \A i \in 1..n : i - 1 \in S => i \in S
  PROVE  \A i \in 0..n : i \in S
<1> DEFINE T == {i \in Nat : i <= n => i \in S}
<1>1. 0 \in T
  OBVIOUS
<1>2. \A i \in Nat : i \in T => i + 1 \in T
  OBVIOUS
<1>3. Nat \subseteq T
  <2> HIDE DEF T
  <2> QED BY <1>1, <1>2, Induction
<1> QED BY <1>3

\* f starts with a, and the steps lead from each value to the next.
Steps(f, n, S, a, step) ==
  f \in [0..n -> S] /\ f[0] = a /\ \A i \in 1..n : f[i] = step[i][f[i - 1]]

\* A function can be defined by its first value and the steps from each to
\* the next.
LEMMA Recursion ==
  ASSUME NEW n \in Nat, NEW S, NEW a \in S, NEW step \in [1..n -> [S -> S]]
  PROVE  \E f : Steps(f, n, S, a, step)
<1> DEFINE Solves(f, k) == f[0] = a /\ \A i \in 1..k : f[i] = step[i][f[i - 1]]
           T == {k \in 0..n : \E f \in [0..k -> S] : Solves(f, k)}
<1>1. 0 \in T
  <2> DEFINE f == [i \in 0..0 |-> a]
  <2>1. f \in [0..0 -> S] /\ Solves(f, 0)
    OBVIOUS
  <2> HIDE DEF f, Solves
  <2> QED BY <2>1
<1>2. ASSUME NEW k \in 1..n, k - 1 \in T PROVE k \in T
  <2>1. PICK f \in [0..(k - 1) -> S] : Solves(f, k - 1)
    BY <1>2
  <2> DEFINE g == [i \in 0..k |-> IF i < k THEN f[i] ELSE step[k][f[k - 1]]]
  <2>2. f[k - 1] \in S /\ step[k] \in [S -> S]
    OBVIOUS
  <2>3. g \in [0..k -> S] /\ g[0] = a
    BY <2>1, <2>2
  <2>4. ASSUME NEW i \in 1..k PROVE g[i] = step[i][g[i - 1]]
    <3>1. g[i - 1] = f[i - 1]
      OBVIOUS
    <3>2. CASE i = k
      <4>1. g[k] = step[k][f[k - 1]]
        OBVIOUS
      <4> QED BY <3>1, <3>2, <4>1
    <3>3. CASE i \in 1..(k - 1)
      <4>1. g[i] = f[i]
        BY <3>3
      <4> QED BY <2>1, <3>1, <3>3, <4>1
    <3> QED BY <3>2, <3>3
  <2>5. Solves(g, k)
    BY <2>3, <2>4
  <2> HIDE DEF g, Solves
  <2> QED BY <2>3, <2>5
<1>3. \A k \in 0..n : k \in T
  <2> HIDE DEF T
  <2> QED BY <1>1, <1>2, InductionUpTo
<1>4. n \in T
  BY <1>3
<1> QED BY <1>4 DEF Steps

\* A function that steps within S has its values in S.
LEMMA Typed ==
  ASSUME NEW n \in Nat, NEW S, NEW f, f[0] \in S,
         \A i \in 1..n : f[i - 1] \in S => f[i] \in S
  PROVE  \A i \in 0..n : f[i] \in S
<1> DEFINE T == {i \in 0..n : f[i] \in S}
<1>1. 0 \in T
  OBVIOUS
<1>2. \A i \in 1..n : i - 1 \in T => i \in T
  OBVIOUS
<1>3. \A i \in 0..n : i \in T
  <2> HIDE DEF T
  <2> QED BY <1>1, <1>2, InductionUpTo
<1> QED BY <1>3

-----------------------------------------------------------------------------
(* A well-formed trail. *)

Control == [decision : Lit \cup {0}, trail : Nat]

TrailType ==
  [trail : Seq(Lit), control : Seq(Control),
   level : [Var -> Nat], reason : [Var -> Nat], propagated : Nat]

\* No variable is assigned twice.
Once(tr) ==
  \A i, j \in 1..Len(tr.trail) : VarOf(tr.trail[i]) = VarOf(tr.trail[j]) => i = j

\* The heights of the levels ascend, and what is below the last was propagated.
Heights(tr) ==
  /\ tr.propagated <= Len(tr.trail)
  /\ \A k \in 1..Len(tr.control) :
       /\ tr.control[k].trail <= tr.propagated
       /\ \A l \in k..Len(tr.control) : tr.control[k].trail <= tr.control[l].trail

\* A literal of a level is above the height of that level.
Levels(tr) ==
  \A i \in 1..Len(tr.trail) :
    LET k == LevelOf(tr, tr.trail[i])
    IN  k <= Len(tr.control) /\ (k > 0 => tr.control[k].trail < i)

\* A literal without a reason is a unit, or the decision of its level and the
\* first literal of it.
Decided(tr) ==
  \A i \in 1..Len(tr.trail) :
    LET k == LevelOf(tr, tr.trail[i])
    IN  k > 0 /\ ReasonOf(tr, tr.trail[i]) = 0 =>
          /\ i = tr.control[k].trail + 1
          /\ tr.control[k].decision = tr.trail[i]
          /\ \A l \in (k + 1)..Len(tr.control) : i <= tr.control[l].trail

\* What is not assigned has no level and no reason.
Unassigned(tr) ==
  \A v \in Var : (\A i \in 1..Len(tr.trail) : VarOf(tr.trail[i]) # v)
                   => tr.level[v] = 0 /\ tr.reason[v] = 0

TrailOK(tr) ==
  /\ tr \in TrailType
  /\ Once(tr) /\ Heights(tr) /\ Levels(tr) /\ Decided(tr) /\ Unassigned(tr)

\* The reason of the literal at i in the clauses lits: its other literals were
\* false before, and its level is the highest of theirs.
Explained(tr, lits, i) ==
  LET lit == tr.trail[i]
      id  == ReasonOf(tr, lit)
  IN  id # 0 =>
        /\ id \in DOMAIN lits /\ lit \in lits[id]
        /\ \A other \in lits[id] \ {lit} :
             /\ \E j \in 1..(i - 1) : tr.trail[j] = -other
             /\ LevelOf(tr, other) <= LevelOf(tr, lit)
        /\ \E other \in lits[id] \ {lit} : LevelOf(tr, other) = LevelOf(tr, lit)
        /\ LevelOf(tr, lit) > 0

\* The types of what a trail consists of.
LEMMA TrailTypes ==
  ASSUME NEW tr, tr \in TrailType
  PROVE  /\ tr.trail \in Seq(Lit) /\ Len(tr.trail) \in Nat
         /\ \A i \in 1..Len(tr.trail) : tr.trail[i] \in Lit
         /\ tr.control \in Seq(Control) /\ Len(tr.control) \in Nat
         /\ \A k \in 1..Len(tr.control) : /\ tr.control[k].trail \in Nat
                                         /\ tr.control[k].decision \in Lit \cup {0}
         /\ tr.level \in [Var -> Nat] /\ tr.reason \in [Var -> Nat] /\ tr.propagated \in Nat
         /\ \A lit \in Lit : LevelOf(tr, lit) \in Nat /\ ReasonOf(tr, lit) \in Nat
<1>1. /\ tr.trail \in Seq(Lit) /\ tr.control \in Seq(Control)
      /\ tr.level \in [Var -> Nat] /\ tr.reason \in [Var -> Nat] /\ tr.propagated \in Nat
  BY DEF TrailType
<1>2. Len(tr.trail) \in Nat /\ \A i \in 1..Len(tr.trail) : tr.trail[i] \in Lit
  BY <1>1
<1>3. Len(tr.control) \in Nat /\ \A k \in 1..Len(tr.control) : tr.control[k] \in Control
  BY <1>1
<1>4. \A c \in Control : c.trail \in Nat /\ c.decision \in Lit \cup {0}
  BY DEF Control
<1>5. \A lit \in Lit : LevelOf(tr, lit) \in Nat /\ ReasonOf(tr, lit) \in Nat
  BY <1>1, LitFacts DEF LevelOf, ReasonOf
<1> QED BY <1>1, <1>2, <1>3, <1>4, <1>5

-----------------------------------------------------------------------------
(* Backtracking. *)

\* Kept walks along the trail.
LEMMA KeptWalk ==
  ASSUME NEW tr, tr.trail \in Seq(Lit), NEW l
  PROVE  \E f : /\ \A i \in 0..Len(tr.trail) : f[i] \in Seq(Lit)
                /\ f[0] = <<>>
                /\ \A i \in 1..Len(tr.trail) :
                     f[i] = IF i <= tr.control[l + 1].trail \/ LevelOf(tr, tr.trail[i]) <= l
                            THEN Append(f[i - 1], tr.trail[i])
                            ELSE f[i - 1]
                /\ Kept(tr, l) = f[Len(tr.trail)]
<1> DEFINE n == Len(tr.trail)
           stays(i) == i <= tr.control[l + 1].trail \/ LevelOf(tr, tr.trail[i]) <= l
           step == [i \in 1..n |-> [s \in Seq(Lit) |->
                      IF stays(i) THEN Append(s, tr.trail[i]) ELSE s]]
           body(f, i) == IF i = 0 THEN <<>>
                         ELSE IF stays(i) THEN Append(f[i - 1], tr.trail[i])
                         ELSE f[i - 1]
           Walks(f) == f = [i \in 0..n |-> body(f, i)]
<1>1. n \in Nat /\ <<>> \in Seq(Lit) /\ \A i \in 1..n : tr.trail[i] \in Lit
  OBVIOUS
<1>2. step \in [1..n -> [Seq(Lit) -> Seq(Lit)]]
  <2> HIDE DEF stays
  <2> QED BY <1>1
<1>3. \E g : Steps(g, n, Seq(Lit), <<>>, step)
  <2> HIDE DEF step, n
  <2> QED BY <1>1, <1>2, Recursion
<1>4. PICK g \in [0..n -> Seq(Lit)] :
        g[0] = <<>> /\ \A i \in 1..n : g[i] = step[i][g[i - 1]]
  <2> HIDE DEF step, n
  <2> QED BY <1>3 DEF Steps
<1>5. ASSUME NEW i \in 0..n PROVE g[i] = body(g, i)
  <2>1. CASE i = 0
    BY <1>4, <2>1
  <2>2. CASE i \in 1..n
    <3>1. g[i - 1] \in Seq(Lit)
      BY <1>1, <2>2
    <3> HIDE DEF stays, n
    <3> QED BY <1>1, <1>4, <2>2, <3>1
  <2> QED BY <1>1, <2>1, <2>2
<1>6. Walks(g)
  <2> HIDE DEF body
  <2> QED BY <1>5
<1> DEFINE f == CHOOSE h : Walks(h)
<1>7. Walks(f)
  <2> HIDE DEF Walks
  <2> QED BY <1>6
<1>8. Kept(tr, l) = f[n]
  BY DEF Kept
<1>9. \A i \in 0..n : f[i] = body(f, i)
  <2> HIDE DEF f, body, n
  <2> QED BY <1>7
<1> HIDE DEF f
<1>10. /\ f[0] = <<>>
       /\ \A i \in 1..n : f[i] = IF stays(i) THEN Append(f[i - 1], tr.trail[i]) ELSE f[i - 1]
  <2> HIDE DEF stays
  <2> QED BY <1>1, <1>9
<1>11. \A i \in 0..n : f[i] \in Seq(Lit)
  <2> HIDE DEF stays, n
  <2>1. ASSUME NEW i \in 1..n, f[i - 1] \in Seq(Lit) PROVE f[i] \in Seq(Lit)
    <3>1. tr.trail[i] \in Lit
      BY <1>1
    <3>2. Append(f[i - 1], tr.trail[i]) \in Seq(Lit)
      BY <2>1, <3>1
    <3>3. f[i] = Append(f[i - 1], tr.trail[i]) \/ f[i] = f[i - 1]
      BY <1>10
    <3> QED BY <2>1, <3>2, <3>3
  <2>2. f[0] \in Seq(Lit)
    BY <1>1, <1>10
  <2> HIDE DEF step
  <2> QED BY <1>1, <2>1, <2>2, Typed
<1> QED BY <1>8, <1>10, <1>11

\* e leads from the positions of s to those of the first n literals of the
\* trail, of which s has the ones up to level l.
Embeds(e, s, tr, l, n) ==
  /\ s \in Seq(Lit) /\ e \in [1..Len(s) -> 1..n]
  /\ \A i \in 1..Len(s) : s[i] = tr.trail[e[i]] /\ LevelOf(tr, tr.trail[e[i]]) <= l
  /\ \A i, j \in 1..Len(s) : i < j => e[i] < e[j]
  /\ \A j \in 1..n : LevelOf(tr, tr.trail[j]) <= l => \E i \in 1..Len(s) : e[i] = j
  /\ \A i \in 1..n : i <= tr.control[l + 1].trail => i <= Len(s) /\ e[i] = i

\* Below the height of the level that goes, no literal is of a higher level.
LEMMA BelowHeight ==
  ASSUME NEW tr, TrailOK(tr), NEW l \in 0..(Len(tr.control) - 1),
         NEW i \in 1..Len(tr.trail), i <= tr.control[l + 1].trail
  PROVE  LevelOf(tr, tr.trail[i]) <= l
<1> DEFINE k == LevelOf(tr, tr.trail[i])
           c == tr.control
<1>1. tr.trail[i] \in Lit /\ Len(c) \in Nat /\ Len(tr.trail) \in Nat
  BY TrailTypes DEF TrailOK
<1>2. k \in Nat
  BY <1>1, TrailTypes DEF TrailOK
<1>3. k <= Len(c) /\ (k > 0 => c[k].trail < i)
  BY DEF TrailOK, Levels
<1>4. \A j \in 1..Len(c) : c[j].trail \in Nat
  BY TrailTypes DEF TrailOK
<1>5. SUFFICES ASSUME k > l PROVE FALSE
  BY <1>1, <1>2
<1>6. l + 1 \in 1..Len(c) /\ k \in (l + 1)..Len(c) /\ k \in 1..Len(c)
  BY <1>1, <1>2, <1>3, <1>5
<1>7. c[l + 1].trail <= c[k].trail
  BY <1>6 DEF TrailOK, Heights
<1> QED BY <1>1, <1>3, <1>4, <1>5, <1>6, <1>7

\* Backtracking keeps the literals up to the new level, in their order, and
\* those below the height of the level that goes at their place.
LEMMA KeptEmbeds ==
  ASSUME NEW tr, TrailOK(tr), NEW l \in 0..(Len(tr.control) - 1)
  PROVE  \E e : Embeds(e, Kept(tr, l), tr, l, Len(tr.trail))
<1> DEFINE n == Len(tr.trail)
           stays(i) == LevelOf(tr, tr.trail[i]) <= l
<1>1. tr.trail \in Seq(Lit) /\ n \in Nat /\ \A i \in 1..n : tr.trail[i] \in Lit
  BY DEF TrailOK, TrailType
<1>2. PICK f : /\ \A i \in 0..n : f[i] \in Seq(Lit)
               /\ f[0] = <<>>
               /\ \A i \in 1..n :
                    f[i] = IF i <= tr.control[l + 1].trail \/ stays(i)
                           THEN Append(f[i - 1], tr.trail[i])
                           ELSE f[i - 1]
               /\ Kept(tr, l) = f[n]
  BY <1>1, KeptWalk
<1>3. \A i \in 1..n : i <= tr.control[l + 1].trail => stays(i)
  BY BelowHeight
<1>4. \A i \in 1..n : f[i] = IF stays(i) THEN Append(f[i - 1], tr.trail[i]) ELSE f[i - 1]
  <2> HIDE DEF stays
  <2> QED BY <1>2, <1>3
<1> DEFINE T == {k \in 0..n : \E e : Embeds(e, f[k], tr, l, k)}
<1>5. 0 \in T
  <2>1. Embeds(<<>>, <<>>, tr, l, 0)
    BY DEF Embeds
  <2> QED BY <1>1, <1>2, <2>1
<1>6. ASSUME NEW k \in 1..n, k - 1 \in T PROVE k \in T
  <2> DEFINE s == f[k - 1]
             m == Len(s)
  <2>1. PICK e : Embeds(e, s, tr, l, k - 1)
    BY <1>6
  <2>2. k \in Nat /\ k - 1 \in 0..n /\ s \in Seq(Lit) /\ m \in Nat /\ tr.trail[k] \in Lit
    BY <1>1, <1>2
  <2> HIDE DEF m
  <2>3. CASE stays(k)
    <3> DEFINE r == Append(s, tr.trail[k])
               g == [i \in 1..(m + 1) |-> IF i = m + 1 THEN k ELSE e[i]]
    <3>1. /\ r \in Seq(Lit) /\ Len(r) = m + 1 /\ r[m + 1] = tr.trail[k]
          /\ \A i \in 1..m : r[i] = s[i]
      BY <2>2 DEF m
    <3>2. /\ e \in [1..m -> 1..(k - 1)]
          /\ \A i \in 1..m : s[i] = tr.trail[e[i]] /\ stays(e[i])
          /\ \A i, j \in 1..m : i < j => e[i] < e[j]
          /\ \A j \in 1..(k - 1) : stays(j) => \E i \in 1..m : e[i] = j
          /\ \A i \in 1..(k - 1) : i <= tr.control[l + 1].trail => i <= m /\ e[i] = i
      BY <2>1 DEF Embeds, m
    <3> HIDE DEF r
    <3>3. /\ g \in [1..(m + 1) -> 1..k] /\ g[m + 1] = k
          /\ \A i \in 1..m : g[i] = e[i]
      BY <2>2, <3>2
    <3> HIDE DEF g, s
    <3>4. \A i \in 1..(m + 1) : r[i] = tr.trail[g[i]] /\ stays(g[i])
      <4> HIDE DEF stays
      <4>1. ASSUME NEW i \in 1..m PROVE r[i] = tr.trail[g[i]] /\ stays(g[i])
        BY <3>1, <3>2, <3>3
      <4>2. r[m + 1] = tr.trail[g[m + 1]] /\ stays(g[m + 1])
        BY <2>3, <3>1, <3>3
      <4>3. \A i \in 1..(m + 1) : i \in 1..m \/ i = m + 1
        BY <2>2
      <4> QED BY <4>1, <4>2, <4>3
    <3>5. ASSUME NEW i \in 1..(m + 1), NEW j \in 1..(m + 1), i < j PROVE g[i] < g[j]
      <4> HIDE DEF stays
      <4>1. i \in 1..m
        BY <2>2, <3>5
      <4>2. CASE j \in 1..m
        BY <3>2, <3>3, <3>5, <4>1, <4>2
      <4>3. CASE j = m + 1
        <5>1. e[i] \in 1..(k - 1)
          BY <3>2, <4>1
        <5> QED BY <2>2, <3>3, <4>1, <4>3, <5>1
      <4> QED BY <2>2, <4>2, <4>3
    <3>6. \A j \in 1..k : stays(j) => \E i \in 1..(m + 1) : g[i] = j
      <4> HIDE DEF stays
      <4>1. ASSUME NEW j \in 1..k, stays(j) PROVE \E i \in 1..(m + 1) : g[i] = j
        <5>1. CASE j = k
          BY <2>2, <3>3, <5>1
        <5>2. CASE j \in 1..(k - 1)
          <6>1. PICK i \in 1..m : e[i] = j
            BY <3>2, <4>1, <5>2
          <6> QED BY <2>2, <3>3, <6>1
        <5> QED BY <2>2, <5>1, <5>2
      <4> QED BY <4>1
    <3>7. ASSUME NEW i \in 1..k, i <= tr.control[l + 1].trail PROVE i <= m + 1 /\ g[i] = i
      <4>1. CASE i \in 1..(k - 1)
        BY <2>2, <3>2, <3>3, <3>7, <4>1
      <4>2. CASE i = k
        <5>1. \A j \in 1..(k - 1) : j <= m /\ e[j] = j
          <6>1. tr.control[l + 1].trail \in Nat
            <7>1. Len(tr.control) \in Nat
              BY TrailTypes DEF TrailOK
            <7>2. l + 1 \in 1..Len(tr.control)
              BY <7>1
            <7> QED BY <7>2, TrailTypes DEF TrailOK
          <6> QED BY <2>2, <3>2, <3>7, <4>2, <6>1, SMTT(30)
        <5>2. m >= k - 1
          BY <2>2, <5>1
        <5>3. m <= k - 1
          <6>1. SUFFICES ASSUME m > k - 1 PROVE FALSE
            BY <2>2
          <6>2. k \in 1..m /\ e[k] \in 1..(k - 1)
            BY <2>2, <3>2, <6>1
          <6>3. e[e[k]] = e[k] /\ e[k] < k /\ e[k] \in 1..m
            BY <2>2, <5>1, <6>1, <6>2
          <6> QED BY <2>2, <3>2, <6>2, <6>3
        <5> QED BY <2>2, <3>3, <4>2, <5>2, <5>3
      <4> QED BY <2>2, <4>1, <4>2
    <3>8. Embeds(g, r, tr, l, k)
      BY <3>1, <3>3, <3>4, <3>5, <3>6, <3>7 DEF Embeds
    <3>9. f[k] = r
      BY <1>4, <2>3 DEF r, s
    <3> QED BY <3>8, <3>9
  <2>4. CASE ~stays(k)
    <3>1. f[k] = s
      BY <1>4, <2>4
    <3>2. ~(k <= tr.control[l + 1].trail)
      BY <1>3, <2>4
    <3>3. Embeds(e, s, tr, l, k)
      <4> HIDE DEF s
      <4>1. e \in [1..Len(s) -> 1..k]
        BY <2>1, <2>2 DEF Embeds
      <4>2. \A j \in 1..k : stays(j) => \E i \in 1..Len(s) : e[i] = j
        BY <2>1, <2>2, <2>4 DEF Embeds
      <4>3. \A i \in 1..k : i <= tr.control[l + 1].trail => i <= Len(s) /\ e[i] = i
        BY <2>1, <2>2, <3>2 DEF Embeds
      <4> QED BY <2>1, <4>1, <4>2, <4>3 DEF Embeds
    <3> QED BY <3>1, <3>3
  <2> QED BY <2>3, <2>4
<1>7. \A k \in 0..n : k \in T
  <2> HIDE DEF T, n
  <2> QED BY <1>1, <1>5, <1>6, InductionUpTo
<1>8. n \in T
  BY <1>1, <1>7
<1> QED BY <1>2, <1>8

\* The parts of a trail after backtracking to a lower level.
LEMMA BacktrackFields ==
  ASSUME NEW tr, TrailOK(tr), NEW l \in 0..(Len(tr.control) - 1)
  PROVE  LET u == Backtrack(tr, l)
             Stays(v) == \E i \in 1..Len(u.trail) : VarOf(u.trail[i]) = v
         IN  /\ u.trail = Kept(tr, l)
             /\ u.control \in Seq(Control) /\ Len(u.control) = l
             /\ \A k \in 1..l : u.control[k] = tr.control[k]
             /\ u.level = [v \in Var |-> IF Stays(v) THEN tr.level[v] ELSE 0]
             /\ u.reason = [v \in Var |-> IF Stays(v) THEN tr.reason[v] ELSE 0]
             /\ u.propagated = tr.control[l + 1].trail
             /\ u = [trail |-> u.trail, control |-> u.control, level |-> u.level,
                     reason |-> u.reason, propagated |-> u.propagated]
<1> DEFINE u == Backtrack(tr, l)
           s == Kept(tr, l)
           Stays(v) == \E lit \in ToSet(s) : VarOf(lit) = v
<1>1. tr.control \in Seq(Control) /\ Len(tr.control) \in Nat /\ tr.propagated \in Nat
  BY TrailTypes DEF TrailOK
<1>2. l + 1 \in 1..Len(tr.control) /\ l # Len(tr.control)
  BY <1>1
<1>3. tr.control[l + 1].trail \in Nat /\ tr.control[l + 1].trail <= tr.propagated
  BY <1>2, TrailTypes DEF TrailOK, Heights
<1>4. u = [trail |-> s, control |-> SubSeq(tr.control, 1, l),
           level |-> [v \in Var |-> IF Stays(v) THEN tr.level[v] ELSE 0],
           reason |-> [v \in Var |-> IF Stays(v) THEN tr.reason[v] ELSE 0],
           propagated |-> tr.control[l + 1].trail]
  <2>1. (IF tr.control[l + 1].trail < tr.propagated THEN tr.control[l + 1].trail
                                                  ELSE tr.propagated) = tr.control[l + 1].trail
    BY <1>1, <1>3
  <2> HIDE DEF s
  <2> QED BY <1>2, <2>1 DEF Backtrack, DecisionLevel, s
<1>5. /\ SubSeq(tr.control, 1, l) \in Seq(Control) /\ Len(SubSeq(tr.control, 1, l)) = l
      /\ \A k \in 1..l : SubSeq(tr.control, 1, l)[k] = tr.control[k]
  BY <1>1
<1>6. s \in Seq(Lit)
  BY KeptEmbeds DEF Embeds
<1> HIDE DEF s
<1>7. \A v : Stays(v) <=> \E i \in 1..Len(s) : VarOf(s[i]) = v
  BY <1>6 DEF ToSet
<1>8. u.trail = s
  BY <1>4
<1> HIDE DEF u, Stays
<1>9. /\ u.control = SubSeq(tr.control, 1, l)
      /\ u.level = [v \in Var |-> IF Stays(v) THEN tr.level[v] ELSE 0]
      /\ u.reason = [v \in Var |-> IF Stays(v) THEN tr.reason[v] ELSE 0]
      /\ u.propagated = tr.control[l + 1].trail
      /\ u = [trail |-> u.trail, control |-> u.control, level |-> u.level,
              reason |-> u.reason, propagated |-> u.propagated]
  BY <1>4
<1>10. /\ u.level = [v \in Var |-> IF \E i \in 1..Len(u.trail) : VarOf(u.trail[i]) = v
                                   THEN tr.level[v] ELSE 0]
       /\ u.reason = [v \in Var |-> IF \E i \in 1..Len(u.trail) : VarOf(u.trail[i]) = v
                                    THEN tr.reason[v] ELSE 0]
  BY <1>7, <1>8, <1>9
<1> QED BY <1>5, <1>8, <1>9, <1>10 DEF u, s

\* What stays: the literals up to the new level with their levels and reasons,
\* in their order, the lowest at their places.
Shortens(u, tr, l, e) ==
  /\ Embeds(e, u.trail, tr, l, Len(tr.trail))
  /\ Len(u.control) = l /\ \A k \in 1..l : u.control[k] = tr.control[k]
  /\ u.propagated = tr.control[l + 1].trail
  /\ \A i \in 1..Len(u.trail) :
       /\ LevelOf(u, u.trail[i]) = LevelOf(tr, tr.trail[e[i]])
       /\ ReasonOf(u, u.trail[i]) = ReasonOf(tr, tr.trail[e[i]])

\* Backtracking to a lower level keeps a trail well-formed.
LEMMA BacktrackLower ==
  ASSUME NEW tr, TrailOK(tr), NEW l \in 0..(Len(tr.control) - 1)
  PROVE  /\ TrailOK(Backtrack(tr, l))
         /\ \E e : Shortens(Backtrack(tr, l), tr, l, e)
<1> DEFINE u == Backtrack(tr, l)
           s == u.trail
           m == Len(s)
           n == Len(tr.trail)
           a == tr.control[l + 1].trail
           Stays(v) == \E i \in 1..Len(u.trail) : VarOf(u.trail[i]) = v
<1>1. /\ u.trail = Kept(tr, l)
      /\ u.control \in Seq(Control) /\ Len(u.control) = l
      /\ \A k \in 1..l : u.control[k] = tr.control[k]
      /\ u.level = [v \in Var |-> IF Stays(v) THEN tr.level[v] ELSE 0]
      /\ u.reason = [v \in Var |-> IF Stays(v) THEN tr.reason[v] ELSE 0]
      /\ u.propagated = a
      /\ u = [trail |-> u.trail, control |-> u.control, level |-> u.level,
              reason |-> u.reason, propagated |-> u.propagated]
  BY BacktrackFields
<1> HIDE DEF u
<1>2. PICK e : Embeds(e, s, tr, l, n)
  BY <1>1, KeptEmbeds
<1>3. /\ s \in Seq(Lit) /\ m \in Nat /\ e \in [1..m -> 1..n]
      /\ \A i \in 1..m : s[i] = tr.trail[e[i]] /\ LevelOf(tr, tr.trail[e[i]]) <= l
      /\ \A i, j \in 1..m : i < j => e[i] < e[j]
      /\ \A i \in 1..n : i <= a => i <= m /\ e[i] = i
  BY <1>2 DEF Embeds
<1>4. /\ n \in Nat /\ Len(tr.control) \in Nat /\ tr.propagated \in Nat
      /\ \A i \in 1..n : tr.trail[i] \in Lit
      /\ \A k \in 1..Len(tr.control) : tr.control[k].trail \in Nat
      /\ tr.level \in [Var -> Nat] /\ tr.reason \in [Var -> Nat]
      /\ \A lit \in Lit : LevelOf(tr, lit) \in Nat /\ ReasonOf(tr, lit) \in Nat
  BY TrailTypes DEF TrailOK
<1>5. l + 1 \in 1..Len(tr.control) /\ l \in Nat
  BY <1>4
<1>6. /\ a \in Nat /\ a <= n
      /\ \A k \in 1..l : tr.control[k].trail <= a
  <2>1. a <= tr.propagated /\ tr.propagated <= n
    BY <1>5 DEF TrailOK, Heights
  <2>2. \A k \in 1..l : k \in 1..Len(tr.control) /\ l + 1 \in k..Len(tr.control)
    BY <1>4, <1>5
  <2>3. \A k \in 1..l : tr.control[k].trail <= a
    BY <2>2 DEF TrailOK, Heights
  <2> QED BY <1>4, <1>5, <2>1, <2>3
<1>7. a <= m
  BY <1>3, <1>6
<1>8. ASSUME NEW i \in 1..m
      PROVE  /\ LevelOf(u, s[i]) = LevelOf(tr, tr.trail[e[i]])
             /\ ReasonOf(u, s[i]) = ReasonOf(tr, tr.trail[e[i]])
  <2>1. s[i] \in Lit /\ s[i] = tr.trail[e[i]]
    BY <1>3
  <2>2. VarOf(s[i]) \in Var /\ Stays(VarOf(s[i]))
    BY <2>1, LitFacts
  <2> QED BY <1>1, <2>1, <2>2 DEF LevelOf, ReasonOf
\* A position is the same in both when it is low in one of them.
<1>9. ASSUME NEW i \in 1..m
      PROVE  /\ e[i] \in 1..n
             /\ i <= a => e[i] = i
             /\ e[i] <= a => e[i] = i
  <2>1. e[i] \in 1..n
    BY <1>3
  <2>2. i <= a => e[i] = i
    BY <1>3, <1>6
  <2>3. ASSUME e[i] <= a PROVE e[i] = i
    <3>1. e[i] \in 1..m /\ e[e[i]] = e[i]
      BY <1>3, <2>1, <2>3
    <3> QED BY <1>3, <3>1
  <2> QED BY <2>1, <2>2, <2>3
<1>10. u \in TrailType
  <2>1. u.level \in [Var -> Nat] /\ u.reason \in [Var -> Nat]
    BY <1>1, <1>4
  <2> QED BY <1>1, <1>3, <1>6, <2>1 DEF TrailType
<1>11. Once(u)
  <2> SUFFICES ASSUME NEW i \in 1..m, NEW j \in 1..m, VarOf(s[i]) = VarOf(s[j])
               PROVE  i = j
    BY DEF Once
  <2>1. e[i] = e[j]
    BY <1>3, <1>9 DEF TrailOK, Once
  <2> QED BY <1>3, <1>9, <2>1
<1>12. Heights(u)
  <2>1. \A k \in 1..l : \A j \in k..l :
          /\ k \in 1..Len(tr.control) /\ j \in k..Len(tr.control) /\ j \in 1..l
    BY <1>4, <1>5
  <2>2. \A k \in 1..l : \A j \in k..l : tr.control[k].trail <= tr.control[j].trail
    BY <2>1 DEF TrailOK, Heights
  <2>3. \A k \in 1..l : \A j \in k..l : u.control[k].trail <= u.control[j].trail
    BY <1>1, <2>1, <2>2
  <2> QED BY <1>1, <1>6, <1>7, <2>3 DEF Heights
<1>13. Levels(u)
  <2> SUFFICES ASSUME NEW i \in 1..m
               PROVE  LET k == LevelOf(u, s[i]) IN k <= l /\ (k > 0 => u.control[k].trail < i)
    BY <1>1 DEF Levels
  <2> DEFINE k == LevelOf(u, s[i])
  <2>1. k = LevelOf(tr, tr.trail[e[i]]) /\ k <= l /\ k \in Nat
    BY <1>3, <1>4, <1>8, <1>9
  <2>2. ASSUME k > 0 PROVE u.control[k].trail < i
    <3>1. k \in 1..l
      BY <1>5, <2>1, <2>2
    <3>2. tr.control[k].trail < e[i] /\ tr.control[k].trail <= a /\ tr.control[k].trail \in Nat
      BY <1>4, <1>5, <1>6, <1>9, <2>1, <2>2, <3>1, SMTT(30) DEF TrailOK, Levels
    <3>3. tr.control[k].trail < i
      <4>1. CASE e[i] <= a
        BY <1>9, <3>2, <4>1
      <4>2. CASE ~(e[i] <= a)
        <5>1. ~(i <= a)
          BY <1>6, <1>9, <4>2
        <5> QED BY <1>3, <1>6, <3>2, <5>1
      <4> QED BY <4>1, <4>2
    <3> QED BY <1>1, <3>1, <3>3
  <2> QED BY <2>1, <2>2
<1>14. Decided(u)
  <2> SUFFICES ASSUME NEW i \in 1..m,
                      LevelOf(u, s[i]) > 0, ReasonOf(u, s[i]) = 0
               PROVE  LET k == LevelOf(u, s[i])
                      IN  /\ i = u.control[k].trail + 1
                          /\ u.control[k].decision = s[i]
                          /\ \A j \in (k + 1)..l : i <= u.control[j].trail
    BY <1>1 DEF Decided
  <2> DEFINE k == LevelOf(u, s[i])
  <2>1. k = LevelOf(tr, tr.trail[e[i]]) /\ k <= l /\ k \in Nat
        /\ ReasonOf(tr, tr.trail[e[i]]) = 0
    BY <1>3, <1>4, <1>8, <1>9
  <2>2. k \in 1..l
    BY <1>5, <2>1
  <2>3. /\ e[i] = tr.control[k].trail + 1
        /\ tr.control[k].decision = tr.trail[e[i]]
        /\ \A j \in (k + 1)..Len(tr.control) : e[i] <= tr.control[j].trail
    BY <1>9, <2>1 DEF TrailOK, Decided
  <2>4. l + 1 \in (k + 1)..Len(tr.control)
    BY <1>4, <1>5, <2>2
  <2>5. e[i] = i
    BY <1>9, <2>3, <2>4
  <2>6. \A j \in (k + 1)..l : j \in (k + 1)..Len(tr.control) /\ j \in 1..l
    BY <1>4, <1>5, <2>2
  <2> HIDE DEF k
  <2>7. /\ i = u.control[k].trail + 1 /\ u.control[k].decision = s[i]
        /\ \A j \in (k + 1)..l : i <= u.control[j].trail
    <3>1. u.control[k] = tr.control[k] /\ \A j \in (k + 1)..l : u.control[j] = tr.control[j]
      BY <1>1, <1>3, <2>2, <2>6
    <3>2. s[i] = tr.trail[i]
      BY <1>1, <1>3, <2>5
    <3> QED BY <2>3, <2>5, <2>6, <3>1, <3>2
  <2> QED BY <2>7 DEF k
<1>15. Unassigned(u)
  BY <1>1 DEF Unassigned
<1>16. TrailOK(u)
  BY <1>10, <1>11, <1>12, <1>13, <1>14, <1>15 DEF TrailOK
<1>17. Shortens(u, tr, l, e)
  BY <1>1, <1>2, <1>8 DEF Shortens
<1> QED BY <1>16, <1>17 DEF u

\* A literal and its negation are of one variable.
LEMMA SameVar ==
  ASSUME NEW tr, NEW lit \in Lit
  PROVE  /\ LevelOf(tr, -lit) = LevelOf(tr, lit)
         /\ ReasonOf(tr, -lit) = ReasonOf(tr, lit)
         /\ -(-lit) = lit
  BY LitFacts DEF LevelOf, ReasonOf

\* Backtracking to any level, in terms of the literals.
LEMMA BacktrackIs ==
  ASSUME NEW tr, TrailOK(tr), NEW l \in 0..Len(tr.control)
  PROVE  LET u == Backtrack(tr, l)
         IN  /\ TrailOK(u)
             /\ Len(u.control) = l /\ \A k \in 1..l : u.control[k] = tr.control[k]
             /\ \A lit \in Lit : IsTrue(u, lit) <=> IsTrue(tr, lit) /\ LevelOf(tr, lit) <= l
             /\ \A lit \in Lit : IsTrue(u, lit) \/ IsTrue(u, -lit) =>
                  /\ LevelOf(u, lit) = LevelOf(tr, lit)
                  /\ ReasonOf(u, lit) = ReasonOf(tr, lit)
             /\ \A i \in 1..Len(u.trail) : IsTrue(tr, u.trail[i])
             /\ l = Len(tr.control) => u = tr
             /\ l # Len(tr.control) =>
                  /\ u.propagated = tr.control[l + 1].trail
                  /\ u.propagated <= Len(tr.trail)
                  /\ \A i \in 1..u.propagated : u.trail[i] = tr.trail[i]
<1> DEFINE u == Backtrack(tr, l)
           n == Len(tr.trail)
<1>1. /\ n \in Nat /\ Len(tr.control) \in Nat
      /\ \A i \in 1..n : tr.trail[i] \in Lit
      /\ \A lit \in Lit : LevelOf(tr, lit) \in Nat /\ ReasonOf(tr, lit) \in Nat
  BY TrailTypes DEF TrailOK
<1>2. CASE l = Len(tr.control)
  <2>1. u = tr
    BY <1>2 DEF Backtrack, DecisionLevel
  <2>2. ASSUME NEW lit \in Lit, IsTrue(tr, lit) PROVE LevelOf(tr, lit) <= l
    BY <1>2, <2>2 DEF IsTrue, Contains, TrailOK, Levels
  <2>3. \A i \in 1..n : IsTrue(tr, tr.trail[i])
    BY DEF IsTrue, Contains
  <2> HIDE DEF u
  <2>4. \A lit \in Lit : IsTrue(u, lit) <=> IsTrue(tr, lit) /\ LevelOf(tr, lit) <= l
    BY <2>1, <2>2
  <2> QED BY <1>2, <2>1, <2>3, <2>4 DEF u
<1>3. CASE l # Len(tr.control)
  <2>1. l \in 0..(Len(tr.control) - 1)
    BY <1>1, <1>3
  <2>2. TrailOK(u) /\ \E e : Shortens(u, tr, l, e)
    BY <2>1, BacktrackLower
  <2>3. PICK e : Shortens(u, tr, l, e)
    BY <2>2
  <2> HIDE DEF u
  <2> DEFINE m == Len(u.trail)
  <2>4. /\ u.trail \in Seq(Lit) /\ m \in Nat /\ e \in [1..m -> 1..n]
        /\ \A i \in 1..m : u.trail[i] = tr.trail[e[i]] /\ LevelOf(tr, tr.trail[e[i]]) <= l
        /\ \A j \in 1..n : LevelOf(tr, tr.trail[j]) <= l => \E i \in 1..m : e[i] = j
        /\ \A i \in 1..n : i <= tr.control[l + 1].trail => i <= m /\ e[i] = i
    BY <2>3 DEF Shortens, Embeds
  <2>5. \A i \in 1..m : IsTrue(tr, u.trail[i])
    BY <2>4 DEF IsTrue, Contains
  <2>6. ASSUME NEW lit \in Lit
        PROVE  IsTrue(u, lit) <=> IsTrue(tr, lit) /\ LevelOf(tr, lit) <= l
    <3>1. ASSUME IsTrue(u, lit) PROVE IsTrue(tr, lit) /\ LevelOf(tr, lit) <= l
      <4>1. PICK i \in 1..m : u.trail[i] = lit
        BY <3>1 DEF IsTrue, Contains
      <4> QED BY <2>4, <2>5, <4>1
    <3>2. ASSUME IsTrue(tr, lit), LevelOf(tr, lit) <= l PROVE IsTrue(u, lit)
      <4>1. PICK j \in 1..n : tr.trail[j] = lit
        BY <3>2 DEF IsTrue, Contains
      <4>2. PICK i \in 1..m : e[i] = j
        BY <2>4, <3>2, <4>1
      <4> QED BY <2>4, <4>1, <4>2 DEF IsTrue, Contains
    <3> QED BY <3>1, <3>2
  <2>7. ASSUME NEW lit \in Lit, IsTrue(u, lit) \/ IsTrue(u, -lit)
        PROVE  LevelOf(u, lit) = LevelOf(tr, lit) /\ ReasonOf(u, lit) = ReasonOf(tr, lit)
    <3>1. PICK i \in 1..m : u.trail[i] = lit \/ u.trail[i] = -lit
      BY <2>7 DEF IsTrue, Contains
    <3>2. /\ LevelOf(u, u.trail[i]) = LevelOf(tr, tr.trail[e[i]])
          /\ ReasonOf(u, u.trail[i]) = ReasonOf(tr, tr.trail[e[i]])
      BY <2>3 DEF Shortens
    <3>3. u.trail[i] = tr.trail[e[i]]
      BY <2>4
    <3> QED BY <3>1, <3>2, <3>3, SameVar
  <2>8. /\ Len(u.control) = l /\ \A k \in 1..l : u.control[k] = tr.control[k]
        /\ u.propagated = tr.control[l + 1].trail
    BY <2>3 DEF Shortens
  <2>9. u.propagated <= n /\ u.propagated \in Nat
    <3>1. l + 1 \in 1..Len(tr.control)
      BY <1>1, <2>1
    <3>2. tr.control[l + 1].trail <= tr.propagated /\ tr.propagated <= n
      BY <3>1 DEF TrailOK, Heights
    <3>3. tr.control[l + 1].trail \in Nat /\ tr.propagated \in Nat
      BY <3>1, TrailTypes DEF TrailOK
    <3> QED BY <1>1, <2>8, <3>2, <3>3
  <2>10. \A i \in 1..u.propagated : u.trail[i] = tr.trail[i]
    <3>1. \A i \in 1..u.propagated : i \in 1..n /\ i <= tr.control[l + 1].trail
      BY <1>1, <2>8, <2>9
    <3>2. \A i \in 1..u.propagated : i \in 1..m /\ e[i] = i
      BY <2>4, <2>9, <3>1
    <3> QED BY <2>4, <3>2
  <2> HIDE DEF m
  <2> QED BY <1>3, <2>2, <2>5, <2>6, <2>7, <2>8, <2>9, <2>10 DEF u, m
<1> QED BY <1>2, <1>3

\* Backtracking keeps the reasons of the literals that stay.
LEMMA BacktrackExplained ==
  ASSUME NEW tr, TrailOK(tr), NEW l \in 0..Len(tr.control), NEW lits,
         \A id \in DOMAIN lits : lits[id] \subseteq Lit,
         \A i \in 1..Len(tr.trail) : LevelOf(tr, tr.trail[i]) <= l => Explained(tr, lits, i)
  PROVE  \A i \in 1..Len(Backtrack(tr, l).trail) : Explained(Backtrack(tr, l), lits, i)
<1> DEFINE u == Backtrack(tr, l)
           n == Len(tr.trail)
<1>1. /\ n \in Nat /\ Len(tr.control) \in Nat
      /\ \A i \in 1..n : tr.trail[i] \in Lit
      /\ \A lit \in Lit : LevelOf(tr, lit) \in Nat /\ ReasonOf(tr, lit) \in Nat
  BY TrailTypes DEF TrailOK
<1>2. CASE l = Len(tr.control)
  <2>1. u = tr
    BY <1>2 DEF Backtrack, DecisionLevel
  <2>2. \A i \in 1..n : LevelOf(tr, tr.trail[i]) <= l
    BY <1>2 DEF TrailOK, Levels
  <2> QED BY <2>1, <2>2
<1>3. CASE l # Len(tr.control)
  <2>1. l \in 0..(Len(tr.control) - 1)
    BY <1>1, <1>3
  <2>2. PICK e : Shortens(u, tr, l, e)
    BY <2>1, BacktrackLower
  <2> HIDE DEF u
  <2> DEFINE m == Len(u.trail)
  <2>3. /\ u.trail \in Seq(Lit) /\ m \in Nat /\ e \in [1..m -> 1..n]
        /\ \A i \in 1..m : u.trail[i] = tr.trail[e[i]] /\ LevelOf(tr, tr.trail[e[i]]) <= l
        /\ \A i, j \in 1..m : i < j => e[i] < e[j]
        /\ \A j \in 1..n : LevelOf(tr, tr.trail[j]) <= l => \E i \in 1..m : e[i] = j
        /\ \A i \in 1..m : /\ LevelOf(u, u.trail[i]) = LevelOf(tr, tr.trail[e[i]])
                           /\ ReasonOf(u, u.trail[i]) = ReasonOf(tr, tr.trail[e[i]])
    BY <2>2 DEF Shortens, Embeds
  <2>4. ASSUME NEW i \in 1..m PROVE Explained(u, lits, i)
    <3> DEFINE lit == u.trail[i]
               id == ReasonOf(u, lit)
               k == LevelOf(u, lit)
    <3>1. /\ e[i] \in 1..n /\ lit = tr.trail[e[i]] /\ id = ReasonOf(tr, lit)
          /\ k = LevelOf(tr, lit) /\ k <= l /\ lit \in Lit /\ k \in Nat
      BY <1>1, <2>3
    <3>2. Explained(tr, lits, e[i])
      BY <3>1
    <3> HIDE DEF lit, id, k
    <3>3. SUFFICES ASSUME id # 0
                   PROVE  /\ id \in DOMAIN lits /\ lit \in lits[id]
                          /\ \A other \in lits[id] \ {lit} :
                               /\ \E j \in 1..(i - 1) : u.trail[j] = -other
                               /\ LevelOf(u, other) <= k
                          /\ \E other \in lits[id] \ {lit} : LevelOf(u, other) = k
                          /\ k > 0
      BY DEF Explained, lit, id, k
    <3>4. /\ id \in DOMAIN lits /\ lit \in lits[id] /\ k > 0
          /\ \A other \in lits[id] \ {lit} :
               /\ \E j \in 1..(e[i] - 1) : tr.trail[j] = -other
               /\ LevelOf(tr, other) <= k
          /\ \E other \in lits[id] \ {lit} : LevelOf(tr, other) = k
      BY <3>1, <3>2, <3>3 DEF Explained
    <3>5. ASSUME NEW other \in lits[id] \ {lit}
          PROVE  /\ \E j \in 1..(i - 1) : u.trail[j] = -other
                 /\ LevelOf(u, other) = LevelOf(tr, other)
      <4>1. other \in Lit
        BY <3>4
      <4>2. PICK j \in 1..(e[i] - 1) : tr.trail[j] = -other
        BY <3>4
      <4>3. j \in 1..n /\ j < e[i]
        BY <1>1, <3>1
      <4>4. LevelOf(tr, tr.trail[j]) <= l
        <5>1. LevelOf(tr, other) \in Nat /\ LevelOf(tr, other) <= k
          BY <1>1, <3>4, <4>1
        <5> QED BY <3>1, <4>1, <4>2, <5>1, SameVar
      <4>5. PICK h \in 1..m : e[h] = j
        BY <2>3, <4>3, <4>4
      <4>6. h < i
        BY <2>3, <3>1, <4>3, <4>5
      <4>7. u.trail[h] = -other
        BY <2>3, <4>2, <4>5
      <4>8. LevelOf(u, -other) = LevelOf(tr, -other)
        BY <2>3, <4>2, <4>5, <4>7
      <4> QED BY <2>3, <4>1, <4>6, <4>7, <4>8, SameVar
    <3> QED BY <3>4, <3>5
  <2> QED BY <2>4 DEF u
<1> QED BY <1>2, <1>3

-----------------------------------------------------------------------------
(* Assigning a literal. *)

\* Every level is one of the decision levels.
LEMMA LevelBound ==
  ASSUME NEW tr, TrailOK(tr), NEW lit \in Lit
  PROVE  LevelOf(tr, lit) \in 0..Len(tr.control)
<1>1. /\ LevelOf(tr, lit) \in Nat /\ Len(tr.control) \in Nat
      /\ \A i \in 1..Len(tr.trail) : tr.trail[i] \in Lit
  BY TrailTypes DEF TrailOK
<1>2. CASE \E i \in 1..Len(tr.trail) : VarOf(tr.trail[i]) = VarOf(lit)
  <2>1. PICK i \in 1..Len(tr.trail) : VarOf(tr.trail[i]) = VarOf(lit)
    BY <1>2
  <2>2. LevelOf(tr, tr.trail[i]) = LevelOf(tr, lit)
    BY <2>1 DEF LevelOf
  <2>3. LevelOf(tr, tr.trail[i]) <= Len(tr.control)
    BY DEF TrailOK, Levels
  <2> QED BY <1>1, <2>2, <2>3
<1>3. CASE \A i \in 1..Len(tr.trail) : VarOf(tr.trail[i]) # VarOf(lit)
  <2>1. LevelOf(tr, lit) = 0
    BY <1>3, LitFacts DEF TrailOK, Unassigned, LevelOf
  <2> QED BY <1>1, <2>1
<1> QED BY <1>2, <1>3

\* The highest level of some literals.
LEMMA HighestIs ==
  ASSUME NEW tr, TrailOK(tr), NEW lits, lits \subseteq Lit
  PROVE  LET k == HighestLevel(tr, lits)
         IN  /\ k \in 0..Len(tr.control)
             /\ \A lit \in lits : LevelOf(tr, lit) <= k
             /\ k = 0 \/ \E lit \in lits : LevelOf(tr, lit) = k
<1> DEFINE S == {LevelOf(tr, lit) : lit \in lits} \cup {0}
<1>1. Len(tr.control) \in Nat
  BY TrailTypes DEF TrailOK
<1>2. S \subseteq 0..Len(tr.control) /\ S # {}
  BY <1>1, LevelBound
<1>3. Max(S) \in S /\ \A x \in S : x <= Max(S)
  BY <1>1, <1>2, MaxOfBounded
<1> QED BY <1>2, <1>3 DEF HighestLevel

\* The level that is highest and that some literal has.
LEMMA HighestOf ==
  ASSUME NEW tr, tr \in TrailType, NEW lits, lits \subseteq Lit, NEW k \in Nat,
         \A lit \in lits : LevelOf(tr, lit) <= k,
         k = 0 \/ \E lit \in lits : LevelOf(tr, lit) = k
  PROVE  HighestLevel(tr, lits) = k
<1> DEFINE S == {LevelOf(tr, lit) : lit \in lits} \cup {0}
<1>1. S \subseteq Int
  BY TrailTypes
<1>2. k \in S /\ \A x \in S : x <= k
  OBVIOUS
<1> QED BY <1>1, <1>2, MaxIs DEF HighestLevel

\* An open literal is on no place of the trail.
LEMMA OpenIs ==
  ASSUME NEW tr, tr \in TrailType, NEW lit \in Lit, IsOpen(tr, lit)
  PROVE  \A i \in 1..Len(tr.trail) : VarOf(tr.trail[i]) # VarOf(lit)
<1> SUFFICES ASSUME NEW i \in 1..Len(tr.trail), VarOf(tr.trail[i]) = VarOf(lit)
             PROVE  FALSE
  OBVIOUS
<1>1. tr.trail[i] \in Lit
  BY TrailTypes
<1>2. tr.trail[i] = lit \/ tr.trail[i] = -lit
  BY <1>1, LitFacts DEF VarOf
<1> QED BY <1>2 DEF IsOpen, IsTrue, IsFalse, Contains

\* A literal is not assigned twice; one without a reason is a unit or has just
\* been decided.
LEMMA AssignedOK ==
  ASSUME NEW tr, TrailOK(tr), NEW lit \in Lit, IsOpen(tr, lit),
         NEW k \in 0..Len(tr.control), NEW r \in Nat,
         k > 0 /\ r = 0 => /\ k = Len(tr.control)
                           /\ tr.control[k].trail = Len(tr.trail)
                           /\ tr.control[k].decision = lit
  PROVE  LET u == SearchAssign(tr, lit, k, r)
             n == Len(tr.trail)
         IN  /\ TrailOK(u)
             /\ Len(u.trail) = n + 1 /\ u.trail[n + 1] = lit
             /\ \A i \in 1..n : u.trail[i] = tr.trail[i]
             /\ \A x \in Lit : IsTrue(u, x) <=> IsTrue(tr, x) \/ x = lit
             /\ \A x \in Lit : VarOf(x) # VarOf(lit) =>
                  LevelOf(u, x) = LevelOf(tr, x) /\ ReasonOf(u, x) = ReasonOf(tr, x)
             /\ LevelOf(u, lit) = k /\ ReasonOf(u, lit) = r
             /\ \A i \in 1..n : /\ LevelOf(u, tr.trail[i]) = LevelOf(tr, tr.trail[i])
                                /\ ReasonOf(u, tr.trail[i]) = ReasonOf(tr, tr.trail[i])
<1> DEFINE u == SearchAssign(tr, lit, k, r)
           n == Len(tr.trail)
           v == VarOf(lit)
<1>1. /\ tr.trail \in Seq(Lit) /\ n \in Nat /\ \A i \in 1..n : tr.trail[i] \in Lit
      /\ tr.control \in Seq(Control) /\ Len(tr.control) \in Nat
      /\ \A j \in 1..Len(tr.control) : tr.control[j].trail \in Nat
      /\ tr.level \in [Var -> Nat] /\ tr.reason \in [Var -> Nat] /\ tr.propagated \in Nat
  BY TrailTypes DEF TrailOK
<1>2. /\ u.trail = Append(tr.trail, lit) /\ u.control = tr.control
      /\ u.level = [tr.level EXCEPT ![v] = k] /\ u.reason = [tr.reason EXCEPT ![v] = r]
      /\ u.propagated = tr.propagated
  BY DEF SearchAssign
<1>3. u \in TrailType
  <2>1. Append(tr.trail, lit) \in Seq(Lit)
    BY <1>1
  <2>2. k \in Nat
    BY <1>1
  <2>3. [tr.level EXCEPT ![v] = k] \in [Var -> Nat]
    BY <1>1, <2>2
  <2>4. [tr.reason EXCEPT ![v] = r] \in [Var -> Nat]
    BY <1>1
  <2> QED BY <1>1, <2>1, <2>3, <2>4 DEF TrailType, SearchAssign
<1> HIDE DEF u
<1>4. /\ Len(u.trail) = n + 1 /\ u.trail[n + 1] = lit
      /\ \A i \in 1..n : u.trail[i] = tr.trail[i]
  BY <1>1, <1>2
<1>5. v \in Var /\ \A i \in 1..n : VarOf(tr.trail[i]) # v
  BY LitFacts, OpenIs DEF TrailOK
<1>6. ASSUME NEW x \in Lit, VarOf(x) # v
      PROVE  LevelOf(u, x) = LevelOf(tr, x) /\ ReasonOf(u, x) = ReasonOf(tr, x)
  <2>1. VarOf(x) \in Var
    BY LitFacts
  <2> QED BY <1>1, <1>2, <1>6, <2>1 DEF LevelOf, ReasonOf
<1>7. LevelOf(u, lit) = k /\ ReasonOf(u, lit) = r
  BY <1>1, <1>2, <1>5 DEF LevelOf, ReasonOf
<1>8. \A i \in 1..n : /\ LevelOf(u, tr.trail[i]) = LevelOf(tr, tr.trail[i])
                      /\ ReasonOf(u, tr.trail[i]) = ReasonOf(tr, tr.trail[i])
  BY <1>1, <1>5, <1>6
<1>9. \A i \in 1..(n + 1) : i \in 1..n \/ i = n + 1
  BY <1>1
<1>10. \A x \in Lit : IsTrue(u, x) <=> IsTrue(tr, x) \/ x = lit
  <2>1. n + 1 \in 1..(n + 1) /\ \A i \in 1..n : i \in 1..(n + 1)
    BY <1>1
  <2> QED BY <1>4, <1>9, <2>1 DEF IsTrue, Contains
<1>11. Once(u)
  <2> SUFFICES ASSUME NEW i \in 1..(n + 1), NEW j \in 1..(n + 1),
                      VarOf(u.trail[i]) = VarOf(u.trail[j])
               PROVE  i = j
    BY <1>4 DEF Once
  <2>1. VarOf(lit) = v
    OBVIOUS
  <2> HIDE DEF v
  <2>2. CASE i \in 1..n /\ j \in 1..n
    BY <1>4, <2>2 DEF TrailOK, Once
  <2>3. CASE i = n + 1 /\ j \in 1..n
    BY <1>4, <1>5, <2>1, <2>3
  <2>4. CASE i \in 1..n /\ j = n + 1
    BY <1>4, <1>5, <2>1, <2>4
  <2> QED BY <1>9, <2>2, <2>3, <2>4
<1>12. tr.propagated <= n /\ \A j \in 1..Len(tr.control) : tr.control[j].trail <= n
  <2>1. /\ tr.propagated <= n
        /\ \A j \in 1..Len(tr.control) : tr.control[j].trail <= tr.propagated
    BY DEF TrailOK, Heights
  <2> QED BY <1>1, <2>1
<1>13. Heights(u)
  <2>1. tr.propagated <= n + 1
    BY <1>1, <1>12
  <2> QED BY <1>2, <1>4, <2>1 DEF TrailOK, Heights
<1>14. Levels(u)
  <2> SUFFICES ASSUME NEW i \in 1..(n + 1)
               PROVE  LET j == LevelOf(u, u.trail[i])
                      IN  j <= Len(u.control) /\ (j > 0 => u.control[j].trail < i)
    BY <1>4 DEF Levels
  <2>1. CASE i \in 1..n
    BY <1>2, <1>4, <1>8, <2>1 DEF TrailOK, Levels
  <2>2. CASE i = n + 1
    <3>1. LevelOf(u, u.trail[i]) = k
      BY <1>4, <1>7, <2>2
    <3>2. k > 0 => tr.control[k].trail < n + 1
      BY <1>1, <1>12
    <3> QED BY <1>1, <1>2, <2>2, <3>1, <3>2
  <2> QED BY <1>9, <2>1, <2>2
<1>15. Decided(u)
  <2> SUFFICES ASSUME NEW i \in 1..(n + 1),
                      LevelOf(u, u.trail[i]) > 0, ReasonOf(u, u.trail[i]) = 0
               PROVE  LET j == LevelOf(u, u.trail[i])
                      IN  /\ i = u.control[j].trail + 1
                          /\ u.control[j].decision = u.trail[i]
                          /\ \A h \in (j + 1)..Len(u.control) : i <= u.control[h].trail
    BY <1>4 DEF Decided
  <2>1. CASE i \in 1..n
    BY <1>2, <1>4, <1>8, <2>1 DEF TrailOK, Decided
  <2>2. CASE i = n + 1
    <3>1. u.trail[i] = lit /\ LevelOf(u, u.trail[i]) = k /\ k > 0 /\ r = 0
      BY <1>4, <1>7, <2>2
    <3>2. k = Len(tr.control) /\ tr.control[k].trail = n /\ tr.control[k].decision = lit
      BY <3>1
    <3>3. (k + 1)..Len(tr.control) = {}
      BY <1>1, <3>2
    <3> QED BY <1>2, <2>2, <3>1, <3>2, <3>3
  <2> QED BY <1>9, <2>1, <2>2
<1>16. Unassigned(u)
  <2> SUFFICES ASSUME NEW w \in Var, \A i \in 1..(n + 1) : VarOf(u.trail[i]) # w
               PROVE  u.level[w] = 0 /\ u.reason[w] = 0
    BY <1>4 DEF Unassigned
  <2>1. n + 1 \in 1..(n + 1) /\ \A i \in 1..n : i \in 1..(n + 1)
    BY <1>1
  <2>2. w # v /\ \A i \in 1..n : VarOf(tr.trail[i]) # w
    BY <1>4, <2>1
  <2>3. tr.level[w] = 0 /\ tr.reason[w] = 0
    BY <2>2 DEF TrailOK, Unassigned
  <2> QED BY <1>1, <1>2, <2>2, <2>3
<1>17. TrailOK(u)
  BY <1>3, <1>11, <1>13, <1>14, <1>15, <1>16 DEF TrailOK
<1> QED BY <1>4, <1>6, <1>7, <1>8, <1>10, <1>17 DEF u

\* search_assign with a clause.
LEMMA ImplyIs ==
  ASSUME NEW tr, TrailOK(tr), NEW lit \in Lit, NEW id, NEW clause, clause \subseteq Lit
  PROVE  LET k == HighestLevel(tr, clause \ {lit})
         IN  /\ k \in 0..Len(tr.control)
             /\ Imply(tr, lit, id, clause) = SearchAssign(tr, lit, k, IF k = 0 THEN 0 ELSE id)
<1>1. clause \ {lit} \subseteq Lit
  OBVIOUS
<1> QED BY <1>1, HighestIs DEF Imply

\* A new level keeps a trail well-formed when everything was propagated.
LEMMA NewLevelOK ==
  ASSUME NEW tr, TrailOK(tr), tr.propagated = Len(tr.trail), NEW d \in Lit \cup {0}
  PROVE  LET u == NewTrailLevel(tr, d)
         IN  /\ TrailOK(u)
             /\ u.trail = tr.trail /\ u.level = tr.level /\ u.reason = tr.reason
             /\ u.propagated = tr.propagated
             /\ Len(u.control) = Len(tr.control) + 1
             /\ \A k \in 1..Len(tr.control) : u.control[k] = tr.control[k]
             /\ u.control[Len(tr.control) + 1].trail = Len(tr.trail)
             /\ u.control[Len(tr.control) + 1].decision = d
<1> DEFINE u == NewTrailLevel(tr, d)
           m == Len(tr.control)
           c == [decision |-> d, trail |-> Len(tr.trail)]
<1>1. /\ tr.trail \in Seq(Lit) /\ Len(tr.trail) \in Nat
      /\ tr.control \in Seq(Control) /\ m \in Nat
      /\ \A k \in 1..m : tr.control[k].trail \in Nat
      /\ tr.level \in [Var -> Nat] /\ tr.reason \in [Var -> Nat] /\ tr.propagated \in Nat
      /\ \A lit \in Lit : LevelOf(tr, lit) \in Nat
      /\ \A i \in 1..Len(tr.trail) : tr.trail[i] \in Lit
  BY TrailTypes DEF TrailOK
<1>2. c \in Control /\ c.trail = Len(tr.trail) /\ c.decision = d
  BY <1>1 DEF Control
<1>3. u = [trail |-> tr.trail, control |-> Append(tr.control, c), level |-> tr.level,
           reason |-> tr.reason, propagated |-> tr.propagated]
  BY DEF NewTrailLevel
<1> HIDE DEF c
<1>4. /\ Append(tr.control, c) \in Seq(Control) /\ Len(Append(tr.control, c)) = m + 1
      /\ \A k \in 1..m : Append(tr.control, c)[k] = tr.control[k]
      /\ Append(tr.control, c)[m + 1] = c
  BY <1>1, <1>2
<1>5. /\ u.trail = tr.trail /\ u.level = tr.level /\ u.reason = tr.reason
      /\ u.propagated = tr.propagated /\ u.control = Append(tr.control, c)
  BY <1>3
<1>6. u \in TrailType
  BY <1>1, <1>3, <1>4 DEF TrailType
<1> HIDE DEF u
<1>7. /\ Len(u.control) = m + 1 /\ u.control[m + 1] = c
      /\ \A k \in 1..m : u.control[k] = tr.control[k]
  BY <1>4, <1>5
<1>8. \A lit : LevelOf(u, lit) = LevelOf(tr, lit) /\ ReasonOf(u, lit) = ReasonOf(tr, lit)
  BY <1>5 DEF LevelOf, ReasonOf
<1>9. \A k \in 1..(m + 1) : k \in 1..m \/ k = m + 1
  BY <1>1
<1>10. Once(u) /\ Unassigned(u)
  BY <1>5 DEF TrailOK, Once, Unassigned
<1>11. Heights(u)
  <2>1. ASSUME NEW k \in 1..(m + 1) PROVE u.control[k].trail <= u.propagated
    BY <1>1, <1>2, <1>5, <1>7, <1>9 DEF TrailOK, Heights
  <2>2. ASSUME NEW k \in 1..(m + 1), NEW l \in k..(m + 1)
        PROVE  u.control[k].trail <= u.control[l].trail
    <3>1. CASE l = m + 1
      BY <1>2, <1>5, <1>7, <2>1, <3>1
    <3>2. CASE l \in 1..m
      <4>1. k \in 1..m /\ l \in k..m
        BY <1>1, <3>2
      <4> QED BY <1>7, <3>2, <4>1 DEF TrailOK, Heights
    <3> QED BY <1>1, <3>1, <3>2
  <2> QED BY <1>5, <1>7, <2>1, <2>2 DEF TrailOK, Heights
<1>12. Levels(u)
  <2> SUFFICES ASSUME NEW i \in 1..Len(tr.trail)
               PROVE  LET k == LevelOf(tr, tr.trail[i])
                      IN  k <= m + 1 /\ (k > 0 => u.control[k].trail < i)
    BY <1>5, <1>7, <1>8 DEF Levels
  <2>1. LevelOf(tr, tr.trail[i]) \in Nat
    BY <1>1
  <2>2. LevelOf(tr, tr.trail[i]) <= m
        /\ (LevelOf(tr, tr.trail[i]) > 0 => tr.control[LevelOf(tr, tr.trail[i])].trail < i)
    BY DEF TrailOK, Levels
  <2> QED BY <1>1, <1>7, <2>1, <2>2
<1>13. Decided(u)
  <2> SUFFICES ASSUME NEW i \in 1..Len(tr.trail),
                      LevelOf(tr, tr.trail[i]) > 0, ReasonOf(tr, tr.trail[i]) = 0
               PROVE  LET k == LevelOf(tr, tr.trail[i])
                      IN  /\ i = u.control[k].trail + 1
                          /\ u.control[k].decision = tr.trail[i]
                          /\ \A l \in (k + 1)..(m + 1) : i <= u.control[l].trail
    <3>1. u.trail = tr.trail /\ Len(u.control) = m + 1
      BY <1>5, <1>7
    <3> QED BY <1>8, <3>1 DEF Decided
  <2> DEFINE k == LevelOf(tr, tr.trail[i])
  <2>1. k \in Nat /\ k <= m
    BY <1>1 DEF TrailOK, Levels
  <2>2. /\ i = tr.control[k].trail + 1 /\ tr.control[k].decision = tr.trail[i]
        /\ \A l \in (k + 1)..m : i <= tr.control[l].trail
    BY DEF TrailOK, Decided
  <2>3. k \in 1..m /\ k > 0
    BY <1>1, <2>1
  <2> HIDE DEF k
  <2>4. ASSUME NEW l \in (k + 1)..(m + 1) PROVE i <= u.control[l].trail
    <3>1. CASE l = m + 1
      BY <1>1, <1>2, <1>7, <3>1
    <3>2. CASE l \in (k + 1)..m
      <4>1. l \in 1..m
        BY <1>1, <2>1, <3>2
      <4> QED BY <1>7, <2>2, <3>2, <4>1
    <3>3. l = m + 1 \/ l \in (k + 1)..m
      <4>1. m \in Nat
        BY <1>1
      <4> HIDE DEF m
      <4> QED BY <2>1, <4>1
    <3> QED BY <3>1, <3>2, <3>3
  <2>5. u.control[k] = tr.control[k]
    BY <1>7, <2>3
  <2> QED BY <2>2, <2>4, <2>5 DEF k
<1>14. TrailOK(u)
  BY <1>6, <1>10, <1>11, <1>12, <1>13 DEF TrailOK
<1> QED BY <1>2, <1>5, <1>7, <1>14 DEF u

-----------------------------------------------------------------------------
(* Minimising and shrinking a clause. *)

\* An assignment makes one of a literal and its negation true.
LEMMA Negated ==
  ASSUME NEW m, NEW lit \in Lit
  PROVE  True(m, -lit) <=> ~True(m, lit)
  BY LitFacts DEF True

\* No literal of the clause is true.
Falsifies(m, clause) == \A lit \in clause : ~True(m, lit)

\* The walk along the trail that Implied takes.
ImpliedBy(f, tr, kept, lits) ==
  /\ f[0] = {}
  /\ \A i \in 1..Len(tr.trail) :
       f[i] = IF MinimizeLiteral(tr, tr.trail[i], kept, f[i - 1], lits)
              THEN f[i - 1] \cup {tr.trail[i]}
              ELSE f[i - 1]
  /\ Implied(tr, kept, lits) = f[Len(tr.trail)]

\* The literals implied are collected along the trail.
LEMMA ImpliedWalk ==
  ASSUME NEW tr, tr.trail \in Seq(Lit), NEW kept, NEW lits
  PROVE  \E f : ImpliedBy(f, tr, kept, lits)
<1> DEFINE n == Len(tr.trail)
           S == SUBSET Lit
           step == [i \in 1..n |-> [s \in S |->
                      IF MinimizeLiteral(tr, tr.trail[i], kept, s, lits)
                      THEN s \cup {tr.trail[i]} ELSE s]]
           body(f, i) == IF i = 0 THEN {}
                         ELSE IF MinimizeLiteral(tr, tr.trail[i], kept, f[i - 1], lits)
                         THEN f[i - 1] \cup {tr.trail[i]}
                         ELSE f[i - 1]
           Walks(f) == f = [i \in 0..n |-> body(f, i)]
<1>1. n \in Nat /\ {} \in S /\ \A i \in 1..n : tr.trail[i] \in Lit
  OBVIOUS
<1>2. step \in [1..n -> [S -> S]]
  BY <1>1
<1>3. \E g : Steps(g, n, S, {}, step)
  <2> HIDE DEF step, n, S
  <2> QED BY <1>1, <1>2, Recursion
<1>4. PICK g \in [0..n -> S] :
        g[0] = {} /\ \A i \in 1..n : g[i] = step[i][g[i - 1]]
  <2> HIDE DEF step, n, S
  <2> QED BY <1>3 DEF Steps
<1>5. ASSUME NEW i \in 0..n PROVE g[i] = body(g, i)
  <2>1. CASE i = 0
    BY <1>4, <2>1
  <2>2. CASE i \in 1..n
    <3>1. g[i - 1] \in S
      BY <1>1, <2>2
    <3> HIDE DEF n, S
    <3> QED BY <1>1, <1>4, <2>2, <3>1
  <2> QED BY <1>1, <2>1, <2>2
<1>6. Walks(g)
  <2> HIDE DEF body
  <2> QED BY <1>5
<1> DEFINE f == CHOOSE h : Walks(h)
<1>7. Walks(f)
  <2> HIDE DEF Walks
  <2> QED BY <1>6
<1>8. Implied(tr, kept, lits) = f[n]
  BY DEF Implied
<1>9. \A i \in 0..n : f[i] = body(f, i)
  <2> HIDE DEF f, body, n
  <2> QED BY <1>7
<1> HIDE DEF f
<1>10. ASSUME NEW i \in 1..n
       PROVE  f[i] = IF MinimizeLiteral(tr, tr.trail[i], kept, f[i - 1], lits)
                     THEN f[i - 1] \cup {tr.trail[i]} ELSE f[i - 1]
  <2>1. i \in 0..n /\ i # 0
    BY <1>1
  <2> HIDE DEF n
  <2> QED BY <1>9, <2>1
<1>11. f[0] = {}
  <2>1. 0 \in 0..n
    BY <1>1
  <2> HIDE DEF n
  <2> QED BY <1>9, <2>1
<1> QED BY <1>8, <1>10, <1>11 DEF ImpliedBy

\* What is implied is on the trail, and follows from what is implied.
LEMMA ImpliedIs ==
  ASSUME NEW tr, tr.trail \in Seq(Lit), NEW kept, NEW lits,
         NEW lit \in Implied(tr, kept, lits)
  PROVE  /\ \E i \in 1..Len(tr.trail) : tr.trail[i] = lit
         /\ MinimizeLiteral(tr, lit, kept, Implied(tr, kept, lits), lits)
<1> DEFINE n == Len(tr.trail)
           all == Implied(tr, kept, lits)
<1>1. n \in Nat
  OBVIOUS
<1>0. PICK f : ImpliedBy(f, tr, kept, lits)
  BY ImpliedWalk
<1>2. /\ f[0] = {}
      /\ \A i \in 1..n :
           f[i] = IF MinimizeLiteral(tr, tr.trail[i], kept, f[i - 1], lits)
                  THEN f[i - 1] \cup {tr.trail[i]}
                  ELSE f[i - 1]
      /\ all = f[n]
  BY <1>0 DEF ImpliedBy
<1> HIDE DEF all
<1>3. \A i \in 0..n : f[i] \subseteq all
  <2> DEFINE T == {i \in 0..n : f[n - i] \subseteq all}
  <2>1. 0 \in T
    BY <1>1, <1>2
  <2>2. ASSUME NEW i \in 1..n, i - 1 \in T PROVE i \in T
    <3>1. n - i + 1 \in 1..n /\ (n - i + 1) - 1 = n - i /\ n - (i - 1) = n - i + 1
      BY <1>1
    <3>2. f[n - i] \subseteq f[n - i + 1]
      BY <1>2, <3>1
    <3> QED BY <1>1, <2>2, <3>1, <3>2
  <2>3. \A i \in 0..n : i \in T
    <3> HIDE DEF T, n
    <3> QED BY <1>1, <2>1, <2>2, InductionUpTo
  <2>4. ASSUME NEW i \in 0..n PROVE f[i] \subseteq all
    <3>1. n - i \in 0..n /\ n - (n - i) = i
      BY <1>1
    <3> QED BY <2>3, <3>1
  <2> QED BY <2>4
<1> DEFINE P(x) == /\ \E i \in 1..n : tr.trail[i] = x
                   /\ MinimizeLiteral(tr, x, kept, all, lits)
           G == {x \in all : P(x)}
<1>4. ASSUME NEW i \in 1..n, f[i - 1] \in SUBSET G PROVE f[i] \in SUBSET G
  <2>1. CASE MinimizeLiteral(tr, tr.trail[i], kept, f[i - 1], lits)
    <3>1. f[i - 1] \subseteq all /\ f[i] \subseteq all
      BY <1>1, <1>3
    <3>2. MinimizeLiteral(tr, tr.trail[i], kept, all, lits)
      BY <2>1, <3>1 DEF MinimizeLiteral
    <3>3. f[i] = f[i - 1] \cup {tr.trail[i]}
      BY <1>2, <2>1
    <3>4. tr.trail[i] \in G
      BY <3>1, <3>2, <3>3
    <3> QED BY <1>4, <3>3, <3>4
  <2>2. CASE ~MinimizeLiteral(tr, tr.trail[i], kept, f[i - 1], lits)
    BY <1>2, <1>4, <2>2
  <2> QED BY <2>1, <2>2
<1>5. \A i \in 0..n : f[i] \in SUBSET G
  <2>1. f[0] \in SUBSET G
    BY <1>2
  <2> HIDE DEF G, n
  <2> QED BY <1>1, <1>4, <2>1, Typed
<1>6. lit \in G
  BY <1>1, <1>2, <1>5 DEF all
<1> QED BY <1>6 DEF all

\* A reason of a literal: the clauses hold, its others are false.
Reasoned(tr, lits, i) ==
  LevelOf(tr, tr.trail[i]) < DecisionLevel(tr) => Explained(tr, lits, i)

\* An assignment that satisfies the root-level units and the clauses and
\* falsifies what is kept satisfies what is implied; it suffices that it
\* falsifies what is kept up to the place of the literal.
LEMMA ImpliedHolds ==
  ASSUME NEW tr, TrailOK(tr), NEW kept, NEW lits,
         \A id \in DOMAIN lits : lits[id] \subseteq Lit,
         \A i \in 1..Len(tr.trail) : Reasoned(tr, lits, i),
         NEW m, \A id \in DOMAIN lits : Holds(m, lits[id]),
         \A lit \in RootUnits(tr) : True(m, lit),
         NEW p \in 1..Len(tr.trail), tr.trail[p] \in Implied(tr, kept, lits),
         \A i \in 1..p : -tr.trail[i] \in kept => True(m, tr.trail[i])
  PROVE  True(m, tr.trail[p])
<1> DEFINE n == Len(tr.trail)
           all == Implied(tr, kept, lits)
           bad == {i \in 1..p : tr.trail[i] \in all /\ ~True(m, tr.trail[i])}
<1>1. /\ n \in Nat /\ tr.trail \in Seq(Lit) /\ \A i \in 1..n : tr.trail[i] \in Lit
      /\ \A lit \in Lit : LevelOf(tr, lit) \in Nat /\ ReasonOf(tr, lit) \in Nat
      /\ Len(tr.control) \in Nat
  BY TrailTypes DEF TrailOK
<1>2. SUFFICES ASSUME bad # {} PROVE FALSE
  <2>1. p \in bad \/ True(m, tr.trail[p])
    OBVIOUS
  <2> HIDE DEF bad
  <2> QED BY <2>1
<1>3. PICK i \in bad : \A j \in bad : i <= j
  <2>1. bad \subseteq Nat
    OBVIOUS
  <2> HIDE DEF bad
  <2> QED BY <1>2, <2>1, LeastNumber
<1>4. i \in 1..p /\ i \in 1..n /\ tr.trail[i] \in all /\ ~True(m, tr.trail[i])
  BY <1>1, <1>3
<1> DEFINE lit == tr.trail[i]
           id == ReasonOf(tr, lit)
<1>5. MinimizeLiteral(tr, lit, kept, all, lits)
  BY <1>1, <1>4, ImpliedIs
<1>6. LevelOf(tr, lit) # 0 /\ -lit \notin kept
  <2>1. ASSUME LevelOf(tr, lit) = 0 PROVE lit \in RootUnits(tr)
    BY <1>1, <1>4, <2>1 DEF RootUnits, ToSet
  <2> QED BY <1>4, <2>1
<1>7. /\ id # 0 /\ LevelOf(tr, lit) # DecisionLevel(tr)
      /\ \A other \in lits[id] \ {lit} : -other \in all
  BY <1>5, <1>6 DEF MinimizeLiteral, Antecedents
<1>8. LevelOf(tr, lit) < DecisionLevel(tr)
  <2>1. LevelOf(tr, lit) \in 0..Len(tr.control)
    BY <1>1, <1>4, LevelBound
  <2> QED BY <1>1, <1>7, <2>1 DEF DecisionLevel
<1>9. /\ id \in DOMAIN lits /\ lit \in lits[id]
      /\ \A other \in lits[id] \ {lit} : \E j \in 1..(i - 1) : tr.trail[j] = -other
  BY <1>4, <1>7, <1>8 DEF Reasoned, Explained
<1>10. ASSUME NEW other \in lits[id] \ {lit} PROVE ~True(m, other)
  <2>1. PICK j \in 1..(i - 1) : tr.trail[j] = -other
    BY <1>9
  <2>2. j \in 1..p /\ j < i /\ tr.trail[j] \in all
    BY <1>4, <1>7, <2>1
  <2>3. True(m, -other)
    BY <1>3, <1>4, <2>1, <2>2
  <2>4. other \in Lit
    BY <1>9
  <2> QED BY <2>3, <2>4, Negated
<1>11. Holds(m, lits[id])
  BY <1>9
<1> QED BY <1>4, <1>10, <1>11 DEF Holds

\* An assignment in which the clauses and the root-level units hold.
Satisfies(m, tr, lits) ==
  /\ \A id \in DOMAIN lits : Holds(m, lits[id])
  /\ \A lit \in RootUnits(tr) : True(m, lit)

\* Clauses of literals that give the reasons below the decision level.
Reasons(tr, lits) ==
  /\ \A id \in DOMAIN lits : lits[id] \subseteq Lit
  /\ \A i \in 1..Len(tr.trail) : Reasoned(tr, lits, i)

\* What is implied holds where the kept literals do not.
LEMMA AllImpliedHold ==
  ASSUME NEW tr, TrailOK(tr), NEW kept, NEW lits, Reasons(tr, lits),
         NEW m, Satisfies(m, tr, lits), Falsifies(m, kept),
         NEW lit \in Implied(tr, kept, lits)
  PROVE  True(m, lit)
<1>1. tr.trail \in Seq(Lit) /\ \A i \in 1..Len(tr.trail) : tr.trail[i] \in Lit
  BY TrailTypes DEF TrailOK
<1>2. PICK p \in 1..Len(tr.trail) : tr.trail[p] = lit
  BY <1>1, ImpliedIs
<1>3. \A i \in 1..p : i \in 1..Len(tr.trail)
  BY <1>1
<1>4. \A i \in 1..p : -tr.trail[i] \in kept => True(m, tr.trail[i])
  BY <1>1, <1>3, Negated DEF Falsifies
<1> QED BY <1>2, <1>4, ImpliedHolds DEF Reasons, Satisfies

\* The walk down the trail that ShrinkBlock takes.
ShrinksBy(f, tr, block, kept, lits) ==
  /\ f[0] = block
  /\ \A i \in 1..Len(tr.trail) :
       LET lit == tr.trail[Len(tr.trail) - i + 1]
       IN  f[i] = IF -lit \notin f[i - 1] \/ f[i - 1] = {-lit} THEN f[i - 1]
                  ELSE ShrinkAlongReason(tr, lit, f[i - 1], HighestLevel(tr, block),
                                         Implied(tr, kept, lits), lits)
  /\ ShrinkBlock(tr, block, kept, lits) = f[Len(tr.trail)]

\* Shrinking a block goes back along the trail.
LEMMA ShrinkWalk ==
  ASSUME NEW tr, tr.trail \in Seq(Lit), NEW block, NEW kept, NEW lits
  PROVE  \E f : ShrinksBy(f, tr, block, kept, lits)
<1> DEFINE n == Len(tr.trail)
           lit(i) == tr.trail[n - i + 1]
           U == block \cup UNION {Antecedents(tr, tr.trail[j], lits) : j \in 1..n}
           S == SUBSET U
           along(i, s) == ShrinkAlongReason(tr, lit(i), s, HighestLevel(tr, block),
                                            Implied(tr, kept, lits), lits)
           stays(i, s) == -lit(i) \notin s \/ s = {-lit(i)}
           step == [i \in 1..n |-> [s \in S |-> IF stays(i, s) THEN s ELSE along(i, s)]]
           body(f, i) == IF i = 0 THEN block
                         ELSE IF stays(i, f[i - 1]) THEN f[i - 1]
                         ELSE along(i, f[i - 1])
           Walks(f) == f = [i \in 0..n |-> body(f, i)]
<1>1. n \in Nat /\ block \in S
  OBVIOUS
<1>2. step \in [1..n -> [S -> S]]
  <2>1. ASSUME NEW i \in 1..n, NEW s \in S PROVE along(i, s) \in S
    <3>1. n - i + 1 \in 1..n
      BY <1>1
    <3>2. Antecedents(tr, lit(i), lits) \subseteq U
      BY <3>1
    <3> HIDE DEF U
    <3> QED BY <3>2 DEF ShrinkAlongReason
  <2> HIDE DEF along, stays, S
  <2> QED BY <2>1
<1>3. \E g : Steps(g, n, S, block, step)
  <2> HIDE DEF step, n, S
  <2> QED BY <1>1, <1>2, Recursion
<1>4. PICK g \in [0..n -> S] :
        g[0] = block /\ \A i \in 1..n : g[i] = step[i][g[i - 1]]
  <2> HIDE DEF step, n, S
  <2> QED BY <1>3 DEF Steps
<1> HIDE DEF S
<1>5. ASSUME NEW i \in 0..n PROVE g[i] = body(g, i)
  <2> HIDE DEF along, stays
  <2>1. CASE i = 0
    BY <1>4, <2>1
  <2>2. CASE i \in 1..n
    <3>1. g[i - 1] \in S
      BY <1>1, <2>2
    <3> HIDE DEF n
    <3> QED BY <1>1, <1>4, <2>2, <3>1
  <2> QED BY <1>1, <2>1, <2>2
<1>6. Walks(g)
  <2> HIDE DEF body
  <2> QED BY <1>5
<1> DEFINE f == CHOOSE h : Walks(h)
<1>7. Walks(f)
  <2> HIDE DEF Walks
  <2> QED BY <1>6
<1>8. ShrinkBlock(tr, block, kept, lits) = f[n]
  BY DEF ShrinkBlock
<1>9. \A i \in 0..n : f[i] = body(f, i)
  <2> HIDE DEF f, body, n
  <2> QED BY <1>7
<1> HIDE DEF f
<1>10. ASSUME NEW i \in 1..n
       PROVE  f[i] = IF stays(i, f[i - 1]) THEN f[i - 1] ELSE along(i, f[i - 1])
  <2>1. i \in 0..n /\ i # 0
    BY <1>1
  <2> HIDE DEF n, stays, along
  <2> QED BY <1>9, <2>1
<1>11. f[0] = block
  <2>1. 0 \in 0..n
    BY <1>1
  <2> HIDE DEF n
  <2> QED BY <1>9, <2>1
<1>12. ShrinksBy(f, tr, block, kept, lits)
  BY <1>8, <1>10, <1>11 DEF ShrinksBy
<1> QED BY <1>12

\* Literals of a block: false, and of its level.
InBlock(tr, x, l) == x \in Lit /\ IsFalse(tr, x) /\ LevelOf(tr, x) = l

\* One step of the walk, at the place p of the trail: the literals are at most
\* as high as the place, or a single one is left.
LowerThan(tr, open, l, p) ==
  \A x \in open : InBlock(tr, x, l) /\ \E j \in 1..p : tr.trail[j] = -x
SingleAbove(tr, open, l, p) ==
  \E j \in (p + 1)..Len(tr.trail) :
     open = {-tr.trail[j]} /\ InBlock(tr, -tr.trail[j], l)

\* A literal that is not the last of its level on the trail has a reason.
LEMMA LaterHasReason ==
  ASSUME NEW tr, TrailOK(tr), NEW p \in 1..Len(tr.trail), NEW q \in 1..(p - 1),
         LevelOf(tr, tr.trail[p]) > 0,
         LevelOf(tr, tr.trail[p]) = LevelOf(tr, tr.trail[q])
  PROVE  ReasonOf(tr, tr.trail[p]) # 0
<1> DEFINE k == LevelOf(tr, tr.trail[p])
<1>1. /\ Len(tr.trail) \in Nat /\ Len(tr.control) \in Nat
      /\ \A i \in 1..Len(tr.trail) : tr.trail[i] \in Lit
      /\ \A lit \in Lit : LevelOf(tr, lit) \in Nat
      /\ \A j \in 1..Len(tr.control) : tr.control[j].trail \in Nat
  BY TrailTypes DEF TrailOK
<1>2. q \in 1..Len(tr.trail) /\ q < p /\ k \in Nat
  BY <1>1
<1>3. k <= Len(tr.control) /\ tr.control[k].trail < q
  BY <1>2 DEF TrailOK, Levels
<1>4. tr.control[k].trail \in Nat
  BY <1>1, <1>2, <1>3
<1>5. ReasonOf(tr, tr.trail[p]) = 0 => p = tr.control[k].trail + 1
  BY DEF TrailOK, Decided
<1> HIDE DEF k
<1> QED BY <1>2, <1>3, <1>4, <1>5

\* An assignment that falsifies what is left falsifies what was there before.
GoesBack(tr, lits, kept, after, before) ==
  \A m : (Satisfies(m, tr, lits) /\ Falsifies(m, kept) /\ after # {} /\ Falsifies(m, after))
           => (before # {} /\ Falsifies(m, before))

\* One step of the walk.
NextOpen(tr, open, l, p, kept, lits) ==
  LET lit == tr.trail[p]
  IN  IF -lit \notin open \/ open = {-lit} THEN open
      ELSE ShrinkAlongReason(tr, lit, open, l, Implied(tr, kept, lits), lits)

\* One step of the walk keeps that, and goes back from an assignment that
\* falsifies what is open after it to what was open before.
LEMMA ShrinkStep ==
  ASSUME NEW tr, TrailOK(tr), NEW kept, NEW lits, Reasons(tr, lits),
         NEW l \in 1..(DecisionLevel(tr) - 1), NEW p \in 1..Len(tr.trail), NEW open,
         LowerThan(tr, open, l, p) \/ SingleAbove(tr, open, l, p)
  PROVE  LET next == NextOpen(tr, open, l, p, kept, lits)
         IN  /\ LowerThan(tr, next, l, p - 1) \/ SingleAbove(tr, next, l, p - 1)
             /\ GoesBack(tr, lits, kept, next, open)
<1> DEFINE n == Len(tr.trail)
           lit == tr.trail[p]
           all == Implied(tr, kept, lits)
           next == NextOpen(tr, open, l, p, kept, lits)
<1>1. /\ n \in Nat /\ Len(tr.control) \in Nat
      /\ \A i \in 1..n : tr.trail[i] \in Lit
      /\ \A x \in Lit : LevelOf(tr, x) \in Nat
  BY TrailTypes DEF TrailOK
<1>2. lit \in Lit /\ -lit \in Lit /\ -(-lit) = lit
  BY <1>1, LitFacts
<1>3. ASSUME NEW x \in Lit, x # -lit, NEW j \in 1..p, tr.trail[j] = -x PROVE j \in 1..(p - 1)
  <2>1. j # p
    BY <1>2, <1>3, LitFacts
  <2> QED BY <2>1
<1>4. CASE -lit \notin open
  <2>1. next = open
    BY <1>4 DEF NextOpen
  <2>2. CASE LowerThan(tr, open, l, p)
    <3>1. LowerThan(tr, open, l, p - 1)
      BY <1>3, <1>4, <2>2 DEF LowerThan, InBlock
    <3> QED BY <2>1, <3>1 DEF GoesBack
  <2>3. CASE SingleAbove(tr, open, l, p)
    <3>1. (p + 1)..n \subseteq ((p - 1) + 1)..n
      BY <1>1
    <3>2. SingleAbove(tr, open, l, p - 1)
      BY <2>3, <3>1 DEF SingleAbove
    <3> QED BY <2>1, <3>2 DEF GoesBack
  <2> QED BY <2>2, <2>3
<1>5. CASE open = {-lit}
  <2>1. next = open
    BY <1>5 DEF NextOpen
  <2>2. InBlock(tr, -lit, l)
    BY <1>5 DEF LowerThan, SingleAbove
  <2>3. p \in ((p - 1) + 1)..n
    BY <1>1
  <2>4. SingleAbove(tr, open, l, p - 1)
    BY <1>5, <2>2, <2>3 DEF SingleAbove
  <2> QED BY <2>1, <2>4 DEF GoesBack
<1>6. CASE -lit \in open /\ open # {-lit}
  <2>1. LowerThan(tr, open, l, p)
    BY <1>6 DEF SingleAbove
  <2>2. PICK y \in open : y # -lit
    BY <1>6
  <2>3. PICK q \in 1..p : tr.trail[q] = -y
    BY <2>1, <2>2 DEF LowerThan
  <2>4. y \in Lit /\ LevelOf(tr, y) = l /\ LevelOf(tr, -lit) = l
    BY <1>6, <2>1 DEF LowerThan, InBlock
  <2>5. q \in 1..(p - 1)
    BY <1>3, <2>2, <2>3, <2>4
  <2>6. LevelOf(tr, lit) = l /\ LevelOf(tr, tr.trail[q]) = l
    BY <1>2, <2>3, <2>4, SameVar
  <2>7. ReasonOf(tr, lit) # 0
    BY <1>1, <2>5, <2>6, LaterHasReason
  <2> DEFINE id == ReasonOf(tr, lit)
             others == lits[id] \ {lit}
             same == {other \in others : LevelOf(tr, other) = l}
  <2>8. Explained(tr, lits, p)
    BY <1>1, <2>6 DEF Reasons, Reasoned, DecisionLevel
  <2>9. /\ id \in DOMAIN lits /\ lit \in lits[id] /\ lits[id] \subseteq Lit
        /\ \A other \in others : \E j \in 1..(p - 1) : tr.trail[j] = -other
    BY <2>7, <2>8 DEF Explained, Reasons
  <2>10. next = IF \E other \in others \ same : -other \notin all THEN {}
                ELSE (open \ {-lit}) \cup same
    BY <1>6 DEF NextOpen, ShrinkAlongReason, Antecedents
  <2> HIDE DEF id, others, same, next, all
  <2>11. LowerThan(tr, next, l, p - 1)
    <3>1. ASSUME NEW x \in open \ {-lit}
          PROVE  InBlock(tr, x, l) /\ \E j \in 1..(p - 1) : tr.trail[j] = -x
      BY <1>3, <2>1 DEF LowerThan, InBlock
    <3>2. ASSUME NEW x \in same
          PROVE  InBlock(tr, x, l) /\ \E j \in 1..(p - 1) : tr.trail[j] = -x
      <4>1. x \in others /\ x \in Lit /\ LevelOf(tr, x) = l
        BY <2>9 DEF same, others
      <4>2. PICK j \in 1..(p - 1) : tr.trail[j] = -x
        BY <2>9, <4>1
      <4>3. j \in 1..n
        BY <1>1
      <4>4. IsFalse(tr, x)
        BY <4>2, <4>3 DEF IsFalse, Contains
      <4> QED BY <4>1, <4>2, <4>4 DEF InBlock
    <3> QED BY <2>10, <3>1, <3>2 DEF LowerThan
  <2>12. ASSUME NEW m, Satisfies(m, tr, lits), Falsifies(m, kept),
                next # {}, Falsifies(m, next)
         PROVE  Falsifies(m, open)
    <3>1. next = (open \ {-lit}) \cup same /\ \A other \in others \ same : -other \in all
      BY <2>10, <2>12
    <3>2. ASSUME NEW other \in others PROVE ~True(m, other)
      <4>1. other \in Lit
        BY <2>9 DEF others
      <4>2. CASE other \in same
        BY <2>12, <3>1, <4>2 DEF Falsifies
      <4>3. CASE other \notin same
        <5>1. True(m, -other)
          BY <2>12, <3>1, <4>3, AllImpliedHold DEF all
        <5> QED BY <4>1, <5>1, Negated
      <4> QED BY <4>2, <4>3
    <3>3. Holds(m, lits[id])
      BY <2>9, <2>12 DEF Satisfies
    <3>4. True(m, lit)
      BY <3>2, <3>3 DEF Holds, others
    <3>5. ~True(m, -lit)
      BY <1>2, <3>4, Negated
    <3> QED BY <2>12, <3>1, <3>5 DEF Falsifies
  <2> QED BY <1>6, <2>11, <2>12 DEF GoesBack, next
<1> QED BY <1>4, <1>5, <1>6

\* Shrinking a block: the literals left are false and of its level, and imply
\* with the kept ones that all were.
LEMMA ShrinkBlockIs ==
  ASSUME NEW tr, TrailOK(tr), NEW kept, NEW lits, Reasons(tr, lits),
         NEW l \in 1..(DecisionLevel(tr) - 1), NEW block, block # {},
         \A x \in block : InBlock(tr, x, l)
  PROVE  LET uip == ShrinkBlock(tr, block, kept, lits)
         IN  /\ \A x \in uip : InBlock(tr, x, l)
             /\ GoesBack(tr, lits, kept, uip, block)
<1> DEFINE n == Len(tr.trail)
           uip == ShrinkBlock(tr, block, kept, lits)
<1>1. n \in Nat /\ tr.trail \in Seq(Lit) /\ l \in Nat /\ l > 0
  BY TrailTypes DEF TrailOK, DecisionLevel
<1>2. PICK f : ShrinksBy(f, tr, block, kept, lits)
  BY <1>1, ShrinkWalk
<1>3. HighestLevel(tr, block) = l
  <2>1. block \subseteq Lit /\ \A x \in block : LevelOf(tr, x) = l
    BY DEF InBlock
  <2> QED BY <1>1, <2>1, HighestOf DEF TrailOK
<1>4. f[0] = block /\ uip = f[n]
  BY <1>2 DEF ShrinksBy
<1> HIDE DEF uip
<1> DEFINE Inv(i) == LowerThan(tr, f[i], l, n - i) \/ SingleAbove(tr, f[i], l, n - i)
           Back(i) == GoesBack(tr, lits, kept, f[i], f[i - 1])
<1>5. ASSUME NEW i \in 1..n, Inv(i - 1) PROVE Inv(i) /\ Back(i)
  <2> DEFINE p == n - i + 1
             next == NextOpen(tr, f[i - 1], l, p, kept, lits)
  <2>1. p \in 1..n /\ n - (i - 1) = p /\ p - 1 = n - i
    BY <1>1
  <2>2. f[i] = next
    BY <1>2, <1>3 DEF ShrinksBy, NextOpen
  <2>3. LowerThan(tr, f[i - 1], l, p) \/ SingleAbove(tr, f[i - 1], l, p)
    BY <1>5, <2>1
  <2>4. /\ LowerThan(tr, next, l, p - 1) \/ SingleAbove(tr, next, l, p - 1)
        /\ GoesBack(tr, lits, kept, next, f[i - 1])
    <3> HIDE DEF p
    <3> QED BY <2>1, <2>3, ShrinkStep
  <2> HIDE DEF next, p
  <2> QED BY <2>1, <2>2, <2>4
<1>6. \A i \in 0..n : Inv(i)
  <2> DEFINE T == {i \in 0..n : Inv(i)}
  <2>1. 0 \in T
    <3>1. n - 0 = n
      BY <1>1
    <3>2. LowerThan(tr, block, l, n)
      BY DEF LowerThan, InBlock, IsFalse, Contains
    <3> QED BY <1>1, <1>4, <3>1, <3>2
  <2> HIDE DEF Inv
  <2>2. \A i \in 1..n : i - 1 \in T => i \in T
    BY <1>1, <1>5
  <2>3. \A i \in 0..n : i \in T
    <3> HIDE DEF T, n
    <3> QED BY <1>1, <2>1, <2>2, InductionUpTo
  <2> QED BY <2>3
<1>7. ASSUME NEW x \in uip PROVE InBlock(tr, x, l)
  <2>1. Inv(n) /\ f[n] = uip
    BY <1>1, <1>4, <1>6
  <2> QED BY <2>1 DEF LowerThan, SingleAbove
<1>8. ASSUME NEW m, Satisfies(m, tr, lits), Falsifies(m, kept), uip # {}, Falsifies(m, uip)
      PROVE  Falsifies(m, block)
  <2> DEFINE T == {i \in 0..n : f[n - i] # {} /\ Falsifies(m, f[n - i])}
  <2>1. 0 \in T
    <3>1. n - 0 = n
      BY <1>1
    <3> QED BY <1>1, <1>4, <1>8, <3>1
  <2>2. ASSUME NEW i \in 1..n, i - 1 \in T PROVE i \in T
    <3> DEFINE h == n - i + 1
    <3>1. h \in 1..n /\ h - 1 = n - i /\ n - (i - 1) = h /\ h - 1 \in 0..n
      BY <1>1
    <3>2. Back(h)
      <4> HIDE DEF h, Inv, Back
      <4> QED BY <1>5, <1>6, <3>1
    <3>3. f[h] # {} /\ Falsifies(m, f[h])
      BY <2>2, <3>1
    <3>4. f[h - 1] # {} /\ Falsifies(m, f[h - 1])
      <4> HIDE DEF h
      <4> QED BY <1>8, <3>2, <3>3 DEF GoesBack
    <3> QED BY <3>1, <3>4
  <2>3. \A i \in 0..n : i \in T
    <3> HIDE DEF T, n
    <3> QED BY <1>1, <2>1, <2>2, InductionUpTo
  <2>4. n \in T /\ n - n = 0
    BY <1>1, <2>3
  <2> QED BY <1>4, <2>4
<1>9. GoesBack(tr, lits, kept, uip, block)
  BY <1>8 DEF GoesBack
<1> QED BY <1>7, <1>9 DEF uip

\* Minimising a block: what is dropped follows from what is kept.
LEMMA MinimizedBlockIs ==
  ASSUME NEW tr, TrailOK(tr), NEW kept, NEW lits, Reasons(tr, lits),
         NEW l \in 1..(DecisionLevel(tr) - 1), NEW block,
         \A x \in block : InBlock(tr, x, l),
         NEW m, Satisfies(m, tr, lits), Falsifies(m, kept),
         Falsifies(m, MinimizedBlock(tr, block, kept, lits))
  PROVE  Falsifies(m, block)
<1> DEFINE n == Len(tr.trail)
           all == Implied(tr, kept \cup block, lits)
           bad == {i \in 1..n : -tr.trail[i] \in block /\ True(m, -tr.trail[i])}
<1>1. /\ n \in Nat /\ Len(tr.control) \in Nat /\ \A i \in 1..n : tr.trail[i] \in Lit
  BY TrailTypes DEF TrailOK
<1>2. SUFFICES ASSUME bad # {} PROVE FALSE
  <2>1. ASSUME NEW x \in block, True(m, x) PROVE bad # {}
    <3>1. x \in Lit /\ IsFalse(tr, x)
      BY DEF InBlock
    <3>2. PICK i \in 1..n : tr.trail[i] = -x
      BY <3>1 DEF IsFalse, Contains
    <3>3. -tr.trail[i] = x
      BY <3>1, <3>2, LitFacts
    <3>4. i \in bad
      BY <2>1, <3>3
    <3> QED BY <3>4
  <2> HIDE DEF bad
  <2> QED BY <2>1 DEF Falsifies
<1>3. PICK i \in bad : \A j \in bad : i <= j
  <2>1. bad \subseteq Nat
    OBVIOUS
  <2> HIDE DEF bad
  <2> QED BY <1>2, <2>1, LeastNumber
<1> DEFINE lit == tr.trail[i]
           id == ReasonOf(tr, lit)
<1>4. i \in 1..n /\ lit \in Lit /\ -lit \in block /\ True(m, -lit) /\ -lit \in Lit /\ -(-lit) = lit
  BY <1>1, <1>3, LitFacts
<1>5. -lit \notin MinimizedBlock(tr, block, kept, lits)
  BY <1>4 DEF Falsifies
<1>6. ReasonOf(tr, -lit) # 0 /\ \A other \in Antecedents(tr, lit, lits) : -other \in all
  BY <1>4, <1>5 DEF MinimizedBlock
<1>7. id # 0 /\ \A other \in lits[id] \ {lit} : -other \in all
  BY <1>4, <1>6, SameVar DEF Antecedents
<1>8. LevelOf(tr, lit) = l
  BY <1>4, SameVar DEF InBlock
<1>9. Explained(tr, lits, i)
  BY <1>1, <1>4, <1>8 DEF Reasons, Reasoned, DecisionLevel
<1>10. /\ id \in DOMAIN lits /\ lit \in lits[id] /\ lits[id] \subseteq Lit
       /\ \A other \in lits[id] \ {lit} : \E j \in 1..(i - 1) : tr.trail[j] = -other
  BY <1>7, <1>9 DEF Explained, Reasons
<1> HIDE DEF all
<1>11. ASSUME NEW other \in lits[id] \ {lit} PROVE ~True(m, other)
  <2>1. PICK j \in 1..(i - 1) : tr.trail[j] = -other
    BY <1>10
  <2>2. j \in 1..n /\ tr.trail[j] \in all /\ other \in Lit
    BY <1>1, <1>4, <1>7, <1>10, <2>1
  <2>3. ASSUME NEW h \in 1..j, -tr.trail[h] \in kept \cup block PROVE True(m, tr.trail[h])
    <3>1. h \in 1..n /\ h < i /\ tr.trail[h] \in Lit
      BY <1>1, <1>4
    <3>2. ~True(m, -tr.trail[h])
      <4>1. CASE -tr.trail[h] \in kept
        BY <4>1 DEF Falsifies
      <4>2. CASE -tr.trail[h] \in block
        <5>1. h \notin bad
          BY <1>3, <1>4, <3>1
        <5> QED BY <3>1, <4>2, <5>1
      <4> QED BY <2>3, <4>1, <4>2
    <3> QED BY <3>1, <3>2, Negated
  <2>4. True(m, tr.trail[j])
    <3> DEFINE both == kept \cup block
    <3>1. \A h \in 1..j : -tr.trail[h] \in both => True(m, tr.trail[h])
      BY <2>3
    <3>2. tr.trail[j] \in Implied(tr, both, lits)
      BY <2>2 DEF all
    <3>3. /\ \A k \in DOMAIN lits : lits[k] \subseteq Lit
          /\ \A k \in 1..Len(tr.trail) : Reasoned(tr, lits, k)
          /\ \A k \in DOMAIN lits : Holds(m, lits[k])
          /\ \A x \in RootUnits(tr) : True(m, x)
      BY DEF Reasons, Satisfies
    <3> HIDE DEF both
    <3> QED BY <2>2, <3>1, <3>2, <3>3, ImpliedHolds
  <2> QED BY <2>1, <2>2, <2>4, Negated
<1>12. Holds(m, lits[id])
  BY <1>10 DEF Satisfies
<1>13. True(m, lit)
  BY <1>11, <1>12 DEF Holds
<1> QED BY <1>4, <1>13, Negated

\* What becomes of a block.
LEMMA ShrunkenBlockIs ==
  ASSUME NEW tr, TrailOK(tr), NEW kept, NEW lits, Reasons(tr, lits),
         NEW l \in 1..(DecisionLevel(tr) - 1), NEW block,
         \A x \in block : InBlock(tr, x, l)
  PROVE  LET left == ShrunkenBlock(tr, block, kept, lits)
         IN  /\ \A x \in left : InBlock(tr, x, l)
             /\ \A m : (Satisfies(m, tr, lits) /\ Falsifies(m, kept) /\ Falsifies(m, left))
                         => Falsifies(m, block)
<1> DEFINE left == ShrunkenBlock(tr, block, kept, lits)
           uip == ShrinkBlock(tr, block, kept, lits)
           minimized == MinimizedBlock(tr, block, kept, lits)
<1>1. CASE left = block
  BY <1>1
<1>2. CASE left = uip /\ uip # {} /\ block # {}
  BY <1>2, ShrinkBlockIs DEF GoesBack
<1>3. CASE left = minimized
  <2>1. minimized \subseteq block
    BY DEF MinimizedBlock
  <2> QED BY <1>3, <2>1, MinimizedBlockIs
<1>4. left = block \/ (left = uip /\ uip # {} /\ block # {}) \/ left = minimized
  <2>1. Cardinality({}) < 2
    BY FS_EmptySet
  <2> HIDE DEF uip, minimized
  <2> QED BY <2>1 DEF ShrunkenBlock, uip, minimized
<1> QED BY <1>1, <1>2, <1>3, <1>4

\* The literals of a learned clause: false, and not of the root level.
InClause(tr, x) ==
  x \in Lit /\ IsFalse(tr, x) /\ LevelOf(tr, x) \in 1..DecisionLevel(tr)

\* Shrinking a clause goes from level to level.
ShrinksClauseBy(f, tr, clause, lits) ==
  /\ f[0] = {}
  /\ \A l \in 1..(DecisionLevel(tr) - 1) :
       f[l] = f[l - 1] \cup
                ShrunkenBlock(tr, {x \in clause : LevelOf(tr, x) = l}, f[l - 1], lits)
  /\ ShrunkenClause(tr, clause, lits) =
       {x \in clause : LevelOf(tr, x) = DecisionLevel(tr)} \cup f[DecisionLevel(tr) - 1]

\* Shrinking a clause goes from level to level.
LEMMA ShrinkClauseWalk ==
  ASSUME NEW tr, TrailOK(tr), DecisionLevel(tr) > 0, NEW lits, Reasons(tr, lits),
         NEW clause, \A x \in clause : InClause(tr, x)
  PROVE  \E f : ShrinksClauseBy(f, tr, clause, lits)
<1> DEFINE n == DecisionLevel(tr) - 1
           S == SUBSET Lit
           block(l) == {x \in clause : LevelOf(tr, x) = l}
           next(l, s) == s \cup ShrunkenBlock(tr, block(l), s, lits)
           step == [l \in 1..n |-> [s \in S |-> next(l, s)]]
           body(f, l) == IF l = 0 THEN {} ELSE next(l, f[l - 1])
           Walks(f) == f = [l \in 0..n |-> body(f, l)]
<1>1. n \in Nat /\ {} \in S
  BY TrailTypes DEF TrailOK, DecisionLevel
<1>2. step \in [1..n -> [S -> S]]
  <2>1. ASSUME NEW l \in 1..n, NEW s \in S PROVE next(l, s) \in S
    <3>1. \A x \in block(l) : InBlock(tr, x, l)
      BY DEF InBlock, InClause
    <3> HIDE DEF block
    <3>2. \A x \in ShrunkenBlock(tr, block(l), s, lits) : InBlock(tr, x, l)
      BY <3>1, ShrunkenBlockIs
    <3> QED BY <3>2 DEF InBlock
  <2> HIDE DEF next, S, n
  <2> QED BY <2>1
<1>3. \E g : Steps(g, n, S, {}, step)
  <2> HIDE DEF step, n, S
  <2> QED BY <1>1, <1>2, Recursion
<1>4. PICK g \in [0..n -> S] :
        g[0] = {} /\ \A i \in 1..n : g[i] = step[i][g[i - 1]]
  <2> HIDE DEF step, n, S
  <2> QED BY <1>3 DEF Steps
<1> HIDE DEF S
<1>5. ASSUME NEW i \in 0..n PROVE g[i] = body(g, i)
  <2> HIDE DEF next, n
  <2>1. CASE i = 0
    BY <1>4, <2>1
  <2>2. CASE i \in 1..n
    <3>1. g[i - 1] \in S
      BY <1>1, <2>2
    <3> QED BY <1>1, <1>4, <2>2, <3>1
  <2> QED BY <1>1, <2>1, <2>2
<1>6. Walks(g)
  <2> HIDE DEF body, n
  <2> QED BY <1>5
<1> DEFINE f == CHOOSE h : Walks(h)
<1>7. Walks(f)
  <2> HIDE DEF Walks
  <2> QED BY <1>6
<1>8. ShrunkenClause(tr, clause, lits) = block(DecisionLevel(tr)) \cup f[n]
  BY DEF ShrunkenClause
<1>9. \A i \in 0..n : f[i] = body(f, i)
  <2> HIDE DEF f, body, n
  <2> QED BY <1>7
<1> HIDE DEF f
<1>10. ASSUME NEW i \in 1..n
       PROVE  f[i] = next(i, f[i - 1])
  <2> HIDE DEF n
  <2>1. i \in 0..n /\ i # 0
    BY <1>1
  <2> HIDE DEF next
  <2> QED BY <1>9, <2>1
<1>11. f[0] = {}
  <2> HIDE DEF n
  <2>1. 0 \in 0..n
    BY <1>1
  <2> QED BY <1>9, <2>1
<1>12. ShrinksClauseBy(f, tr, clause, lits)
  BY <1>8, <1>10, <1>11 DEF ShrinksClauseBy
<1> QED BY <1>12

\* A shrunken clause follows: an assignment in which the clauses and the units
\* hold falsifies it only if it falsifies the clause.  Its literals are false,
\* and those of the decision level stay.
LEMMA ShrunkenClauseIs ==
  ASSUME NEW tr, TrailOK(tr), DecisionLevel(tr) > 0, NEW lits, Reasons(tr, lits),
         NEW clause, \A x \in clause : InClause(tr, x)
  PROVE  LET s == ShrunkenClause(tr, clause, lits)
             d == DecisionLevel(tr)
         IN  /\ \A x \in s : InClause(tr, x)
             /\ {x \in s : LevelOf(tr, x) = d} = {x \in clause : LevelOf(tr, x) = d}
             /\ \A m : (Satisfies(m, tr, lits) /\ Holds(m, clause)) => Holds(m, s)
<1> DEFINE d == DecisionLevel(tr)
           n == d - 1
           s == ShrunkenClause(tr, clause, lits)
           block(l) == {x \in clause : LevelOf(tr, x) = l}
           next(l, k) == ShrunkenBlock(tr, block(l), k, lits)
<1>1. d \in Nat /\ n \in Nat
  BY TrailTypes DEF TrailOK, DecisionLevel
<1>2. PICK f : ShrinksClauseBy(f, tr, clause, lits)
  BY ShrinkClauseWalk
<1>3. /\ f[0] = {} /\ s = block(d) \cup f[n]
      /\ \A l \in 1..n : f[l] = f[l - 1] \cup next(l, f[l - 1])
  BY <1>2 DEF ShrinksClauseBy
<1>4. ASSUME NEW l \in 1..n, NEW k
      PROVE  /\ \A x \in next(l, k) : InBlock(tr, x, l)
             /\ \A m : (Satisfies(m, tr, lits) /\ Falsifies(m, k) /\ Falsifies(m, next(l, k)))
                         => Falsifies(m, block(l))
  <2>1. \A x \in block(l) : InBlock(tr, x, l)
    BY DEF InBlock, InClause
  <2> HIDE DEF block
  <2> QED BY <2>1, ShrunkenBlockIs
<1> HIDE DEF s, next
<1> DEFINE T == {l \in 0..n :
                   /\ \A x \in f[l] : InClause(tr, x) /\ LevelOf(tr, x) <= l
                   /\ \A m : (Satisfies(m, tr, lits) /\ Falsifies(m, f[l])) =>
                        \A x \in clause : LevelOf(tr, x) <= l => ~True(m, x)}
<1>5. 0 \in T
  <2>1. ASSUME NEW x \in clause PROVE ~(LevelOf(tr, x) <= 0)
    BY <1>1 DEF InClause
  <2> QED BY <1>1, <1>3, <2>1
<1>6. ASSUME NEW l \in 1..n, l - 1 \in T PROVE l \in T
  <2>1. f[l] = f[l - 1] \cup next(l, f[l - 1])
    BY <1>3
  <2>2. ASSUME NEW x \in f[l] PROVE InClause(tr, x) /\ LevelOf(tr, x) <= l
    <3>1. CASE x \in f[l - 1]
      <4>1. InClause(tr, x) /\ LevelOf(tr, x) <= l - 1
        BY <1>6, <3>1
      <4>2. LevelOf(tr, x) \in Nat
        BY <1>1, <4>1 DEF InClause
      <4> QED BY <1>1, <4>1, <4>2
    <3>2. CASE x \in next(l, f[l - 1])
      <4>1. InBlock(tr, x, l)
        BY <1>4, <3>2
      <4> QED BY <1>1, <4>1 DEF InBlock, InClause
    <3> QED BY <2>1, <2>2, <3>1, <3>2
  <2>3. ASSUME NEW m, Satisfies(m, tr, lits), Falsifies(m, f[l]),
               NEW x \in clause, LevelOf(tr, x) <= l
        PROVE  ~True(m, x)
    <3>1. Falsifies(m, f[l - 1]) /\ Falsifies(m, next(l, f[l - 1]))
      BY <2>1, <2>3 DEF Falsifies
    <3>2. CASE LevelOf(tr, x) = l
      <4>1. Falsifies(m, block(l))
        BY <1>4, <2>3, <3>1
      <4> QED BY <3>2, <4>1 DEF Falsifies
    <3>3. CASE LevelOf(tr, x) <= l - 1
      BY <1>6, <2>3, <3>1, <3>3
    <3>4. LevelOf(tr, x) \in Nat
      BY <1>1 DEF InClause
    <3> QED BY <1>1, <2>3, <3>2, <3>3, <3>4
  <2> QED BY <1>1, <2>2, <2>3
<1>7. n \in T
  <2>1. \A l \in 0..n : l \in T
    <3> HIDE DEF T, n
    <3> QED BY <1>1, <1>5, <1>6, InductionUpTo
  <2> QED BY <1>1, <2>1
<1>8. \A x \in clause : LevelOf(tr, x) = d \/ LevelOf(tr, x) <= n
  BY <1>1 DEF InClause
<1>9. \A x \in s : InClause(tr, x)
  BY <1>3, <1>7
<1>10. {x \in s : LevelOf(tr, x) = d} = block(d)
  <2>1. \A x \in f[n] : LevelOf(tr, x) # d
    BY <1>1, <1>7 DEF InClause
  <2> QED BY <1>3, <2>1
<1>11. ASSUME NEW m, Satisfies(m, tr, lits), Holds(m, clause) PROVE Holds(m, s)
  <2>1. SUFFICES ASSUME ~Holds(m, s) PROVE FALSE
    OBVIOUS
  <2>2. Falsifies(m, s)
    BY <2>1 DEF Falsifies, Holds
  <2>3. Falsifies(m, block(d)) /\ Falsifies(m, f[n])
    BY <1>3, <2>2 DEF Falsifies
  <2>4. ASSUME NEW x \in clause PROVE ~True(m, x)
    <3>1. CASE LevelOf(tr, x) = d
      BY <2>3, <3>1 DEF Falsifies
    <3>2. CASE LevelOf(tr, x) <= n
      BY <1>7, <1>11, <2>3, <3>2
    <3> QED BY <1>8, <3>1, <3>2
  <2> QED BY <1>11, <2>4 DEF Holds
<1> QED BY <1>9, <1>10, <1>11 DEF s

-----------------------------------------------------------------------------
(* Assigning a literal keeps the reasons. *)

\* A literal of the trail is not on it with the other sign.
LEMMA NotBoth ==
  ASSUME NEW tr, TrailOK(tr), NEW lit \in Lit, IsTrue(tr, lit)
  PROVE  ~IsFalse(tr, lit)
<1>1. PICK i \in 1..Len(tr.trail) : tr.trail[i] = lit
  BY DEF IsTrue, Contains
<1>2. ASSUME NEW j \in 1..Len(tr.trail), tr.trail[j] = -lit PROVE FALSE
  <2>1. VarOf(tr.trail[j]) = VarOf(tr.trail[i])
    BY <1>1, <1>2, LitFacts
  <2>2. i = j
    BY <2>1 DEF TrailOK, Once
  <2> QED BY <1>1, <1>2, <2>2, LitFacts
<1> QED BY <1>2 DEF IsFalse, Contains

\* The others of an explained literal are below it, so they are not affected
\* by what is assigned after it.
LEMMA AssignKeepsReasons ==
  ASSUME NEW tr, TrailOK(tr), NEW lit \in Lit, IsOpen(tr, lit),
         NEW k \in 0..Len(tr.control), NEW r \in Nat,
         k > 0 /\ r = 0 => /\ k = Len(tr.control)
                           /\ tr.control[k].trail = Len(tr.trail)
                           /\ tr.control[k].decision = lit,
         NEW lits, \A id \in DOMAIN lits : lits[id] \subseteq Lit,
         NEW i \in 1..Len(tr.trail), Explained(tr, lits, i)
  PROVE  Explained(SearchAssign(tr, lit, k, r), lits, i)
<1> DEFINE u == SearchAssign(tr, lit, k, r)
           n == Len(tr.trail)
<1>1. /\ Len(u.trail) = n + 1
      /\ \A j \in 1..n : u.trail[j] = tr.trail[j]
      /\ \A x \in Lit : VarOf(x) # VarOf(lit) =>
           LevelOf(u, x) = LevelOf(tr, x) /\ ReasonOf(u, x) = ReasonOf(tr, x)
      /\ \A j \in 1..n : /\ LevelOf(u, tr.trail[j]) = LevelOf(tr, tr.trail[j])
                         /\ ReasonOf(u, tr.trail[j]) = ReasonOf(tr, tr.trail[j])
  BY AssignedOK
<1> SUFFICES Explained(u, lits, i)
  OBVIOUS
<1> HIDE DEF u
<1>2. n \in Nat /\ \A j \in 1..n : tr.trail[j] \in Lit
  BY TrailTypes DEF TrailOK
<1> DEFINE x == tr.trail[i]
           id == ReasonOf(tr, x)
<1>3. u.trail[i] = x /\ ReasonOf(u, x) = id /\ LevelOf(u, x) = LevelOf(tr, x)
  BY <1>1
<1>4. SUFFICES ASSUME id # 0
               PROVE  /\ id \in DOMAIN lits /\ x \in lits[id]
                      /\ \A other \in lits[id] \ {x} :
                           /\ \E j \in 1..(i - 1) : u.trail[j] = -other
                           /\ LevelOf(u, other) <= LevelOf(u, x)
                      /\ \E other \in lits[id] \ {x} : LevelOf(u, other) = LevelOf(u, x)
                      /\ LevelOf(u, x) > 0
  BY <1>3 DEF Explained
<1>5. /\ id \in DOMAIN lits /\ x \in lits[id]
      /\ \A other \in lits[id] \ {x} :
           /\ \E j \in 1..(i - 1) : tr.trail[j] = -other
           /\ LevelOf(tr, other) <= LevelOf(tr, x)
      /\ \E other \in lits[id] \ {x} : LevelOf(tr, other) = LevelOf(tr, x)
      /\ LevelOf(tr, x) > 0
  BY <1>4 DEF Explained
<1> HIDE DEF id, x
<1>6. ASSUME NEW other \in lits[id] \ {x}
      PROVE  /\ \E j \in 1..(i - 1) : u.trail[j] = -other
             /\ LevelOf(u, other) = LevelOf(tr, other)
  <2>1. other \in Lit
    BY <1>5
  <2>2. PICK j \in 1..(i - 1) : tr.trail[j] = -other
    BY <1>5
  <2>3. j \in 1..n
    BY <1>2
  <2>4. LevelOf(u, -other) = LevelOf(tr, -other)
    BY <1>1, <2>2, <2>3
  <2> QED BY <1>1, <2>1, <2>2, <2>3, <2>4, SameVar
<1> QED BY <1>3, <1>5, <1>6

\* The trail gets longer by one literal; the levels it had stay.
Extended(u, tr, lit) ==
  /\ Len(u.trail) = Len(tr.trail) + 1 /\ u.trail[Len(tr.trail) + 1] = lit
  /\ \A i \in 1..Len(tr.trail) : u.trail[i] = tr.trail[i]
  /\ \A x \in Lit : IsTrue(u, x) <=> IsTrue(tr, x) \/ x = lit
  /\ \A x \in Lit : VarOf(x) # VarOf(lit) =>
       LevelOf(u, x) = LevelOf(tr, x) /\ ReasonOf(u, x) = ReasonOf(tr, x)
  /\ \A k \in 1..Len(tr.control) : u.control[k] = tr.control[k]

\* A literal assigned at level k: every literal still has its explanation.
Assigned(u, tr, lit, k, id, lits) ==
  /\ TrailOK(u) /\ Extended(u, tr, lit)
  /\ \A i \in 1..(Len(tr.trail) + 1) : Explained(u, lits, i)
  /\ k \in 0..Len(tr.control) /\ LevelOf(u, lit) = k
  /\ ReasonOf(u, lit) = (IF k = 0 THEN 0 ELSE id)
  /\ u.control = tr.control /\ u.propagated = tr.propagated

\* Implying a literal by a clause whose others are false.
LEMMA ImplyOK ==
  ASSUME NEW tr, TrailOK(tr), NEW lit \in Lit, IsOpen(tr, lit),
         NEW id \in Nat \ {0}, NEW clause, clause \subseteq Lit, lit \in clause,
         \A other \in clause \ {lit} : IsFalse(tr, other),
         NEW lits, \A j \in DOMAIN lits : lits[j] \subseteq Lit,
         id \in DOMAIN lits, lits[id] = clause,
         \A i \in 1..Len(tr.trail) : Explained(tr, lits, i)
  PROVE  Assigned(Imply(tr, lit, id, clause), tr, lit, HighestLevel(tr, clause \ {lit}), id, lits)
<1> DEFINE k == HighestLevel(tr, clause \ {lit})
           r == IF k = 0 THEN 0 ELSE id
           n == Len(tr.trail)
           u == SearchAssign(tr, lit, k, r)
<1>1. k \in 0..Len(tr.control) /\ Imply(tr, lit, id, clause) = u
  BY ImplyIs
<1>2. /\ \A x \in clause \ {lit} : LevelOf(tr, x) <= k
      /\ k = 0 \/ \E x \in clause \ {lit} : LevelOf(tr, x) = k
  <2>1. clause \ {lit} \subseteq Lit
    OBVIOUS
  <2> QED BY <2>1, HighestIs
<1> HIDE DEF k
<1>3. r \in Nat /\ ~(k > 0 /\ r = 0)
  BY <1>1
<1>4. /\ TrailOK(u)
      /\ Len(u.trail) = n + 1 /\ u.trail[n + 1] = lit
      /\ \A i \in 1..n : u.trail[i] = tr.trail[i]
      /\ \A x \in Lit : IsTrue(u, x) <=> IsTrue(tr, x) \/ x = lit
      /\ \A x \in Lit : VarOf(x) # VarOf(lit) =>
           LevelOf(u, x) = LevelOf(tr, x) /\ ReasonOf(u, x) = ReasonOf(tr, x)
      /\ LevelOf(u, lit) = k /\ ReasonOf(u, lit) = r
  <2> HIDE DEF r
  <2> QED BY <1>1, <1>3, AssignedOK
<1>5. \A i \in 1..n : Explained(u, lits, i)
  <2> HIDE DEF r
  <2> QED BY <1>1, <1>3, AssignKeepsReasons
<1>6. u.control = tr.control /\ u.propagated = tr.propagated
  BY DEF SearchAssign
<1> HIDE DEF u
<1>7. n \in Nat
  BY TrailTypes DEF TrailOK
<1>8. Explained(u, lits, n + 1)
  <2>1. SUFFICES ASSUME r # 0
                 PROVE  /\ r \in DOMAIN lits /\ lit \in lits[r]
                        /\ \A other \in lits[r] \ {lit} :
                             /\ \E j \in 1..n : u.trail[j] = -other
                             /\ LevelOf(u, other) <= k
                        /\ \E other \in lits[r] \ {lit} : LevelOf(u, other) = k
                        /\ k > 0
    <3>1. (n + 1) - 1 = n
      BY <1>7
    <3> HIDE DEF r
    <3> QED BY <1>4, <3>1 DEF Explained
  <2>2. r = id /\ k > 0 /\ lits[r] = clause
    BY <1>1, <2>1
  <2>3. ASSUME NEW other \in clause \ {lit}
        PROVE  /\ \E j \in 1..n : u.trail[j] = -other
               /\ LevelOf(u, other) = LevelOf(tr, other)
    <3>1. PICK j \in 1..n : tr.trail[j] = -other
      BY DEF IsFalse, Contains
    <3>2. other \in Lit /\ VarOf(other) # VarOf(lit)
      <4>1. other \in Lit
        OBVIOUS
      <4>2. VarOf(tr.trail[j]) # VarOf(lit)
        BY OpenIs DEF TrailOK
      <4> QED BY <3>1, <4>1, <4>2, LitFacts
    <3> QED BY <1>4, <3>1, <3>2
  <2> HIDE DEF r
  <2> QED BY <1>2, <2>2, <2>3
<1>9. \A i \in 1..(n + 1) : Explained(u, lits, i)
  <2>1. \A i \in 1..(n + 1) : i \in 1..n \/ i = n + 1
    BY <1>7
  <2> QED BY <1>5, <1>8, <2>1
<1>10. Extended(u, tr, lit)
  BY <1>4, <1>6 DEF Extended
<1>11. Assigned(u, tr, lit, k, id, lits)
  BY <1>1, <1>4, <1>6, <1>9, <1>10 DEF Assigned
<1> QED BY <1>1, <1>11 DEF k

\* A unit of the root level, whatever the decision level is.
LEMMA UnitOK ==
  ASSUME NEW tr, TrailOK(tr), NEW lit \in Lit, IsOpen(tr, lit),
         NEW lits, \A j \in DOMAIN lits : lits[j] \subseteq Lit,
         \A i \in 1..Len(tr.trail) : Explained(tr, lits, i)
  PROVE  LET u == AssignUnit(tr, lit)
         IN  /\ TrailOK(u)
             /\ Extended(u, tr, lit)
             /\ \A i \in 1..(Len(tr.trail) + 1) : Explained(u, lits, i)
             /\ LevelOf(u, lit) = 0 /\ ReasonOf(u, lit) = 0
             /\ u.control = tr.control /\ u.propagated = tr.propagated
<1> DEFINE u == AssignUnit(tr, lit)
           n == Len(tr.trail)
<1>1. u = SearchAssign(tr, lit, 0, 0)
  BY DEF AssignUnit
<1>2. n \in Nat /\ 0 \in 0..Len(tr.control) /\ 0 \in Nat /\ ~(0 > 0 /\ 0 = 0)
  BY TrailTypes DEF TrailOK
<1> HIDE DEF u
<1>3. /\ TrailOK(u)
      /\ Len(u.trail) = n + 1 /\ u.trail[n + 1] = lit
      /\ \A i \in 1..n : u.trail[i] = tr.trail[i]
      /\ \A x \in Lit : IsTrue(u, x) <=> IsTrue(tr, x) \/ x = lit
      /\ \A x \in Lit : VarOf(x) # VarOf(lit) =>
           LevelOf(u, x) = LevelOf(tr, x) /\ ReasonOf(u, x) = ReasonOf(tr, x)
      /\ LevelOf(u, lit) = 0 /\ ReasonOf(u, lit) = 0
  BY <1>1, <1>2, AssignedOK
<1>4. \A i \in 1..n : Explained(u, lits, i)
  BY <1>1, <1>2, AssignKeepsReasons
<1>5. Explained(u, lits, n + 1)
  BY <1>3 DEF Explained
<1>6. \A i \in 1..(n + 1) : Explained(u, lits, i)
  <2>1. \A i \in 1..(n + 1) : i \in 1..n \/ i = n + 1
    BY <1>2
  <2> QED BY <1>4, <1>5, <2>1
<1>7. u.control = tr.control /\ u.propagated = tr.propagated
  BY <1>1 DEF SearchAssign
<1>8. Extended(u, tr, lit)
  BY <1>3, <1>7 DEF Extended
<1> QED BY <1>3, <1>6, <1>7, <1>8 DEF u

\* A new level changes no reason.
LEMMA NewLevelExplained ==
  ASSUME NEW tr, TrailOK(tr), tr.propagated = Len(tr.trail), NEW d \in Lit \cup {0},
         NEW lits, NEW i \in 1..Len(tr.trail), Explained(tr, lits, i)
  PROVE  Explained(NewTrailLevel(tr, d), lits, i)
<1> DEFINE u == NewTrailLevel(tr, d)
<1>1. u.trail = tr.trail /\ u.level = tr.level /\ u.reason = tr.reason
  BY DEF NewTrailLevel
<1> HIDE DEF u
<1>2. \A x : LevelOf(u, x) = LevelOf(tr, x) /\ ReasonOf(u, x) = ReasonOf(tr, x)
  BY <1>1 DEF LevelOf, ReasonOf
<1>3. Explained(u, lits, i)
  BY <1>1, <1>2 DEF Explained
<1> QED BY <1>3 DEF u

\* A decision.
LEMMA DecisionOK ==
  ASSUME NEW tr, TrailOK(tr), tr.propagated = Len(tr.trail), NEW lit \in Lit, IsOpen(tr, lit),
         NEW lits, \A j \in DOMAIN lits : lits[j] \subseteq Lit,
         \A i \in 1..Len(tr.trail) : Explained(tr, lits, i)
  PROVE  LET u == AssumeDecision(tr, lit)
             n == Len(tr.trail)
             d == Len(tr.control)
         IN  /\ TrailOK(u)
             /\ Extended(u, tr, lit)
             /\ \A i \in 1..(Len(tr.trail) + 1) : Explained(u, lits, i)
             /\ LevelOf(u, lit) = d + 1 /\ ReasonOf(u, lit) = 0
             /\ u.propagated = tr.propagated /\ Len(u.control) = d + 1
             /\ u.control[d + 1].trail = n /\ u.control[d + 1].decision = lit
<1> DEFINE s == NewTrailLevel(tr, lit)
           u == AssumeDecision(tr, lit)
           n == Len(tr.trail)
           d == Len(tr.control)
<1>1. /\ TrailOK(s)
      /\ s.trail = tr.trail /\ s.level = tr.level /\ s.reason = tr.reason
      /\ s.propagated = tr.propagated
      /\ Len(s.control) = d + 1
      /\ \A k \in 1..d : s.control[k] = tr.control[k]
      /\ s.control[d + 1].trail = n
      /\ s.control[d + 1].decision = lit
  BY NewLevelOK
<1>2. n \in Nat /\ d \in Nat
  BY TrailTypes DEF TrailOK
<1>3. u = SearchAssign(s, lit, d + 1, 0)
  BY <1>1 DEF AssumeDecision, DecisionLevel
<1>4. \A i \in 1..n : Explained(s, lits, i)
  BY NewLevelExplained
<1> HIDE DEF s, u
<1>5. IsOpen(s, lit) /\ \A x : IsTrue(s, x) <=> IsTrue(tr, x)
  BY <1>1 DEF IsOpen, IsTrue, IsFalse
<1>6. \A x : LevelOf(s, x) = LevelOf(tr, x) /\ ReasonOf(s, x) = ReasonOf(tr, x)
  BY <1>1 DEF LevelOf, ReasonOf
<1>7. /\ d + 1 \in 0..Len(s.control) /\ 0 \in Nat
      /\ d + 1 > 0 /\ 0 = 0 => /\ d + 1 = Len(s.control)
                               /\ s.control[d + 1].trail = Len(s.trail)
                               /\ s.control[d + 1].decision = lit
  BY <1>1, <1>2
<1>8. /\ TrailOK(u)
      /\ Len(u.trail) = n + 1 /\ u.trail[n + 1] = lit
      /\ \A i \in 1..n : u.trail[i] = tr.trail[i]
      /\ \A x \in Lit : IsTrue(u, x) <=> IsTrue(s, x) \/ x = lit
      /\ \A x \in Lit : VarOf(x) # VarOf(lit) =>
           LevelOf(u, x) = LevelOf(s, x) /\ ReasonOf(u, x) = ReasonOf(s, x)
      /\ LevelOf(u, lit) = d + 1 /\ ReasonOf(u, lit) = 0
  <2>1. Len(s.trail) = n
    BY <1>1
  <2> HIDE DEF n, d
  <2> QED BY <1>1, <1>3, <1>5, <1>7, <2>1, AssignedOK
<1>9. \A i \in 1..n : Explained(u, lits, i)
  <2>1. \A i \in 1..n : i \in 1..Len(s.trail)
    BY <1>1
  <2> HIDE DEF n, d
  <2> QED BY <1>1, <1>3, <1>4, <1>5, <1>7, <2>1, AssignKeepsReasons
<1>10. Explained(u, lits, n + 1)
  BY <1>8 DEF Explained
<1>11. \A i \in 1..(n + 1) : Explained(u, lits, i)
  <2>1. \A i \in 1..(n + 1) : i \in 1..n \/ i = n + 1
    BY <1>2
  <2> QED BY <1>9, <1>10, <2>1
<1>12. u.control = s.control /\ u.propagated = s.propagated
  BY <1>3 DEF SearchAssign
<1>13. Extended(u, tr, lit)
  BY <1>1, <1>5, <1>6, <1>8, <1>12 DEF Extended
<1> HIDE DEF n, d
<1> QED BY <1>1, <1>8, <1>11, <1>12, <1>13 DEF u, n, d

\* The count of propagated literals alone changes.
LEMMA PropagatedChanged ==
  ASSUME NEW T, NEW C, NEW L, NEW R, NEW P, NEW x \in P,
         NEW tr \in [trail : T, control : C, level : L, reason : R, propagated : P]
  PROVE  [tr EXCEPT !.propagated = x] \in
           [trail : T, control : C, level : L, reason : R, propagated : P]
  OBVIOUS

\* One more literal counts as propagated.
LEMMA PropagatedOK ==
  ASSUME NEW tr, TrailOK(tr), tr.propagated < Len(tr.trail)
  PROVE  LET u == [tr EXCEPT !.propagated = @ + 1]
         IN  /\ TrailOK(u)
             /\ u.trail = tr.trail /\ u.control = tr.control /\ u.level = tr.level
             /\ u.reason = tr.reason /\ u.propagated = tr.propagated + 1
             /\ \A lits : \A i \in 1..Len(tr.trail) : Explained(tr, lits, i) => Explained(u, lits, i)
<1> DEFINE u == [tr EXCEPT !.propagated = @ + 1]
<1>1. tr \in [trail : Seq(Lit), control : Seq(Control), level : [Var -> Nat],
             reason : [Var -> Nat], propagated : Nat]
  BY DEF TrailOK, TrailType
<1>2. /\ u.trail = tr.trail /\ u.control = tr.control /\ u.level = tr.level
      /\ u.reason = tr.reason /\ u.propagated = tr.propagated + 1
  BY <1>1
<1>3. u \in TrailType
  <2>1. tr.propagated + 1 \in Nat
    BY <1>1
  <2> QED BY <1>1, <2>1, PropagatedChanged DEF TrailType
<1> HIDE DEF u
<1>4. \A x : LevelOf(u, x) = LevelOf(tr, x) /\ ReasonOf(u, x) = ReasonOf(tr, x)
  BY <1>2 DEF LevelOf, ReasonOf
<1>5. Once(u) /\ Unassigned(u) /\ Levels(u) /\ Decided(u)
  BY <1>2, <1>4 DEF TrailOK, Once, Unassigned, Levels, Decided
<1>6. Heights(u)
  <2>1. /\ tr.propagated \in Nat /\ Len(tr.trail) \in Nat
        /\ \A k \in 1..Len(tr.control) : tr.control[k].trail \in Nat
    BY TrailTypes DEF TrailOK
  <2>2. tr.propagated + 1 <= Len(tr.trail)
    BY <2>1
  <2>3. \A k \in 1..Len(tr.control) : tr.control[k].trail <= tr.propagated + 1
    BY <2>1 DEF TrailOK, Heights
  <2> QED BY <1>2, <2>2, <2>3 DEF TrailOK, Heights
<1>7. TrailOK(u)
  BY <1>3, <1>5, <1>6 DEF TrailOK
<1>8. \A lits : \A i \in 1..Len(tr.trail) : Explained(tr, lits, i) => Explained(u, lits, i)
  BY <1>2, <1>4 DEF Explained
<1> QED BY <1>2, <1>7, <1>8 DEF u

-----------------------------------------------------------------------------
(* Sets of literals and their sizes. *)

\* A set of literals is finite, and its parts are smaller.
LEMMA LitSet ==
  ASSUME NEW S, S \subseteq Lit
  PROVE  /\ IsFiniteSet(S) /\ Cardinality(S) \in Nat
         /\ \A T \in SUBSET S : /\ Cardinality(T) <= Cardinality(S)
                                /\ Cardinality(T) = Cardinality(S) => T = S
<1>1. MaxVar \in Nat
  BY MaxVarAssumption
<1>2. IsFiniteSet((-MaxVar)..MaxVar)
  BY <1>1, FS_Interval
<1>3. Lit \subseteq (-MaxVar)..MaxVar
  BY <1>1 DEF Lit, Var
<1>4. IsFiniteSet(S)
  BY <1>2, <1>3, FS_Subset
<1> QED BY <1>4, FS_Subset, FS_CardinalityType

\* Two members more or less.
LEMMA LitRemove ==
  ASSUME NEW S, S \subseteq Lit, NEW x \in S
  PROVE  Cardinality(S \ {x}) = Cardinality(S) - 1 /\ Cardinality(S) \in Nat \ {0}
<1>1. IsFiniteSet(S) /\ Cardinality(S) \in Nat
  BY LitSet
<1>2. IsFiniteSet(S \ {x}) /\ Cardinality(S \ {x}) = Cardinality(S) - 1
  BY <1>1, FS_RemoveElement
<1>3. Cardinality(S \ {x}) \in Nat
  BY <1>2, FS_CardinalityType
<1> QED BY <1>1, <1>2, <1>3

\* A set of one literal.
LEMMA One ==
  ASSUME NEW S, S \subseteq Lit, Cardinality(S) = 1
  PROVE  \E a \in S : S = {a}
  BY LitSet, FS_Singleton

\* More than one literal: two different ones.
LEMMA MoreThanOne ==
  ASSUME NEW S, S \subseteq Lit
  PROVE  Cardinality(S) > 1 <=> \E a, b \in S : a # b
<1>1. ASSUME Cardinality(S) > 1 PROVE \E a, b \in S : a # b
  <2>1. S # {}
    BY <1>1, FS_EmptySet
  <2>2. ASSUME NEW a, S = {a} PROVE FALSE
    <3>1. Cardinality({a}) = 1
      BY FS_Singleton
    <3> QED BY <1>1, <2>2, <3>1
  <2> QED BY <2>1, <2>2
<1>2. ASSUME NEW a \in S, NEW b \in S, a # b PROVE Cardinality(S) > 1
  <2>1. S # {} /\ \A x : S # {x}
    BY <1>2
  <2>2. Cardinality(S) # 0 /\ Cardinality(S) # 1
    BY <2>1, LitSet, FS_EmptySet, FS_Singleton
  <2> QED BY <2>2, LitSet
<1> QED BY <1>1, <1>2

\* Two different literals.
Pair(w) == \E a, b \in w : a # b /\ w = {a, b}

\* A pair has two members.
LEMMA PairSize ==
  ASSUME NEW w, w \subseteq Lit
  PROVE  Pair(w) <=> Cardinality(w) = 2
<1>1. ASSUME NEW a \in w, NEW b \in w, a # b, w = {a, b} PROVE Cardinality(w) = 2
  <2>1. Cardinality({a}) = 1 /\ IsFiniteSet({a})
    BY FS_Singleton
  <2>2. Cardinality({a} \cup {b}) = 2
    BY <1>1, <2>1, FS_AddElement
  <2>3. w = {a} \cup {b}
    BY <1>1
  <2> QED BY <2>2, <2>3
<1>2. ASSUME Cardinality(w) = 2 PROVE Pair(w)
  <2>1. PICK a, b \in w : a # b
    BY <1>2, MoreThanOne
  <2>2. Cardinality({a, b}) = 2
    <3>1. Cardinality({a}) = 1 /\ IsFiniteSet({a})
      BY FS_Singleton
    <3>2. Cardinality({a} \cup {b}) = 2
      BY <2>1, <3>1, FS_AddElement
    <3> QED BY <3>2
  <2>3. {a, b} = w
    <3>1. {a, b} \in SUBSET w
      OBVIOUS
    <3> QED BY <1>2, <2>2, <3>1, LitSet
  <2> QED BY <2>1, <2>3 DEF Pair
<1> QED BY <1>1, <1>2 DEF Pair

\* The least of a set of numbers, and the first free place in memory.
LEMMA MinIs ==
  ASSUME NEW S, S \subseteq Nat, S # {}
  PROVE  Min(S) \in S /\ \A x \in S : Min(S) <= x
<1>1. PICK m \in S : \A n \in S : m <= n
  BY LeastNumber
<1> QED BY <1>1 DEF Min

-----------------------------------------------------------------------------
(* Clauses in memory. *)

ClauseType ==
  [lits : SUBSET Lit, watch : SUBSET Lit, redundant : BOOLEAN, garbage : BOOLEAN]

\* The literals of each clause.
LitsOf(c) == [id \in DOMAIN c |-> c[id].lits]

\* A clause of literals two of which are watched.
ClauseOK(x) == x \in ClauseType /\ x.watch \subseteq x.lits /\ Pair(x.watch)

ClausesOK(c) ==
  DOMAIN c \subseteq Ids /\ \A id \in DOMAIN c : ClauseOK(c[id])

\* What a clause in memory is made of.
LEMMA ClauseFacts ==
  ASSUME NEW c, ClausesOK(c), NEW id \in DOMAIN c
  PROVE  /\ id \in Nat \ {0} /\ c[id].lits \subseteq Lit
         /\ c[id].watch \subseteq c[id].lits /\ Pair(c[id].watch)
         /\ c[id].garbage \in BOOLEAN /\ c[id].redundant \in BOOLEAN
<1>1. MaxClauses \in Nat
  BY SearchAssumption
<1>2. c[id] \in ClauseType /\ id \in Ids
  BY DEF ClausesOK, ClauseOK
<1>3. id \in Nat \ {0}
  BY <1>1, <1>2 DEF Ids
<1> QED BY <1>2, <1>3 DEF ClausesOK, ClauseOK, ClauseType

\* The literals of the clauses in memory.
LEMMA LitsOfIs ==
  ASSUME NEW c, ClausesOK(c)
  PROVE  /\ DOMAIN LitsOf(c) = DOMAIN c
         /\ \A id \in DOMAIN c : LitsOf(c)[id] = c[id].lits
         /\ \A id \in DOMAIN LitsOf(c) : LitsOf(c)[id] \subseteq Lit
  BY ClauseFacts DEF LitsOf

\* A place in memory is written.
Put(c, id, x) == [i \in DOMAIN c \cup {id} |-> IF i = id THEN x ELSE c[i]]

\* A clause that is written is there, the others are as they were.
LEMMA PutIs ==
  ASSUME NEW c, ClausesOK(c), NEW id \in Ids, NEW x, ClauseOK(x)
  PROVE  /\ ClausesOK(Put(c, id, x)) /\ DOMAIN Put(c, id, x) = DOMAIN c \cup {id}
         /\ Put(c, id, x)[id] = x
         /\ \A i \in DOMAIN c \ {id} : Put(c, id, x)[i] = c[i]
  BY DEF Put, ClausesOK

\* A new clause takes a place that no clause has.
LEMMA FreeIs ==
  ASSUME FreeIds # {}
  PROVE  Min(FreeIds) \in Ids \ DOMAIN db /\ Min(FreeIds) # 0
<1>1. FreeIds \subseteq Nat /\ 0 \notin FreeIds
  BY SearchAssumption DEF FreeIds
<1>2. Min(FreeIds) \in FreeIds
  BY <1>1, MinIs
<1> QED BY <1>1, <1>2 DEF FreeIds, Ids

-----------------------------------------------------------------------------
(* What the models of the formula satisfy. *)

\* The models of the formula satisfy the clauses and the root-level units.
Sound(F, c, u) ==
  \A m \in SUBSET Var : IsModel(m, F, {}) => Satisfies(m, u, LitsOf(c))

\* The units of the root level are the literals true on level zero.
LEMMA RootUnitsAre ==
  ASSUME NEW u, TrailOK(u)
  PROVE  /\ RootUnits(u) \subseteq Lit
         /\ \A x \in Lit : x \in RootUnits(u) <=> IsTrue(u, x) /\ LevelOf(u, x) = 0
<1>1. /\ u.trail \in Seq(Lit) /\ Len(u.trail) \in Nat
      /\ \A i \in 1..Len(u.trail) : u.trail[i] \in Lit
  BY TrailTypes DEF TrailOK
<1>2. DOMAIN u.trail = 1..Len(u.trail)
  BY <1>1
<1>3. ToSet(u.trail) = {u.trail[i] : i \in 1..Len(u.trail)}
  BY <1>2 DEF ToSet
<1>4. ToSet(u.trail) \subseteq Lit
  BY <1>1, <1>3
<1>5. \A x : x \in ToSet(u.trail) <=> IsTrue(u, x)
  BY <1>3 DEF IsTrue, Contains
<1> QED BY <1>4, <1>5 DEF RootUnits

\* A literal that is false at the root level is false in every model.
LEMMA RootFalse ==
  ASSUME NEW u, TrailOK(u), NEW lits, NEW m, Satisfies(m, u, lits),
         NEW x \in Lit, IsFalse(u, x), LevelOf(u, x) = 0
  PROVE  ~True(m, x)
<1>1. -x \in Lit /\ IsTrue(u, -x) /\ LevelOf(u, -x) = 0
  BY LitFacts, SameVar DEF IsFalse, IsTrue
<1>2. True(m, -x)
  BY <1>1, RootUnitsAre DEF Satisfies
<1> QED BY <1>2, Negated

\* The root-level units stay, so the models are the same.
LEMMA SoundTrail ==
  ASSUME NEW F, NEW c, NEW u, TrailOK(u), NEW v, TrailOK(v), Sound(F, c, u),
         \A x \in Lit : IsTrue(v, x) /\ LevelOf(v, x) = 0 =>
           \/ IsTrue(u, x) /\ LevelOf(u, x) = 0
           \/ \A m \in SUBSET Var : IsModel(m, F, {}) => True(m, x)
  PROVE  Sound(F, c, v)
<1> SUFFICES ASSUME NEW m \in SUBSET Var, IsModel(m, F, {})
             PROVE  Satisfies(m, v, LitsOf(c))
  BY DEF Sound
<1>1. Satisfies(m, u, LitsOf(c))
  BY DEF Sound
<1>2. ASSUME NEW x \in RootUnits(v) PROVE True(m, x)
  <2>1. x \in Lit /\ IsTrue(v, x) /\ LevelOf(v, x) = 0
    BY RootUnitsAre
  <2>2. CASE IsTrue(u, x) /\ LevelOf(u, x) = 0
    BY <1>1, <2>1, <2>2, RootUnitsAre DEF Satisfies
  <2> QED BY <2>1, <2>2
<1> QED BY <1>1, <1>2 DEF Satisfies

\* Clauses that the models satisfy can be put in the place of others.
LEMMA SoundClauses ==
  ASSUME NEW F, NEW c, NEW u, Sound(F, c, u), NEW d, ClausesOK(d),
         \A m \in SUBSET Var : \A id \in DOMAIN d :
           IsModel(m, F, {}) /\ Satisfies(m, u, LitsOf(c)) => Holds(m, d[id].lits)
  PROVE  Sound(F, d, u)
<1> SUFFICES ASSUME NEW m \in SUBSET Var, IsModel(m, F, {})
             PROVE  Satisfies(m, u, LitsOf(d))
  BY DEF Sound
<1>1. Satisfies(m, u, LitsOf(c))
  BY DEF Sound
<1>2. \A id \in DOMAIN d : Holds(m, d[id].lits)
  BY <1>1
<1> QED BY <1>1, <1>2, LitsOfIs DEF Satisfies

\* A formula that grows has no new models.
LEMMA SoundFormula ==
  ASSUME NEW F, NEW G, F \subseteq G, NEW c, NEW u, Sound(F, c, u)
  PROVE  Sound(G, c, u)
  BY DEF Sound, IsModel

-----------------------------------------------------------------------------
(* The trail gets longer. *)

\* What is assigned stays as it is.
LEMMA ExtendedKeeps ==
  ASSUME NEW u, TrailOK(u), NEW lit \in Lit, IsOpen(u, lit), NEW v, Extended(v, u, lit),
         NEW x \in Lit, IsTrue(u, x) \/ IsFalse(u, x)
  PROVE  /\ LevelOf(v, x) = LevelOf(u, x) /\ ReasonOf(v, x) = ReasonOf(u, x)
         /\ IsTrue(u, x) => IsTrue(v, x)
         /\ IsFalse(u, x) => IsFalse(v, x)
<1>1. -x \in Lit
  BY LitFacts
<1>2. VarOf(x) # VarOf(lit)
  <2>1. VarOf(x) = VarOf(lit) => x = lit \/ x = -lit
    BY LitFacts DEF VarOf
  <2>2. x # lit /\ x # -lit
    BY LitFacts, SameVar DEF IsOpen, IsTrue, IsFalse
  <2> QED BY <2>1, <2>2
<1>3. IsTrue(u, x) => IsTrue(v, x)
  BY DEF Extended
<1>4. IsFalse(u, x) => IsFalse(v, x)
  <2>1. IsFalse(u, x) <=> IsTrue(u, -x)
    BY DEF IsFalse, IsTrue
  <2>2. IsFalse(v, x) <=> IsTrue(v, -x)
    BY DEF IsFalse, IsTrue
  <2> QED BY <1>1, <2>1, <2>2 DEF Extended
<1> QED BY <1>2, <1>3, <1>4 DEF Extended

-----------------------------------------------------------------------------
(* Reasons. *)

\* A reason is a clause in memory.
Stored(u, c) == \A v \in Var : u.reason[v] \in DOMAIN c \cup {0}

\* A long reason is no garbage.
Alive(u, c, i) ==
  LET id == ReasonOf(u, u.trail[i])
  IN  id # 0 /\ Cardinality(c[id].lits) > 2 => ~c[id].garbage

Justified(u, c, i) == Explained(u, LitsOf(c), i) /\ Alive(u, c, i)
Explains(u, c) == \A i \in 1..Len(u.trail) : Justified(u, c, i)

Store(u, c) == ClausesOK(c) /\ TrailOK(u) /\ Stored(u, c)

\* The reasons are those of assigned variables.
LEMMA StoredReasons ==
  ASSUME NEW u, TrailOK(u), NEW c,
         \A i \in 1..Len(u.trail) : ReasonOf(u, u.trail[i]) \in DOMAIN c \cup {0}
  PROVE  Stored(u, c)
<1> SUFFICES ASSUME NEW v \in Var PROVE u.reason[v] \in DOMAIN c \cup {0}
  BY DEF Stored
<1>1. CASE \E i \in 1..Len(u.trail) : VarOf(u.trail[i]) = v
  BY <1>1 DEF ReasonOf
<1>2. CASE \A i \in 1..Len(u.trail) : VarOf(u.trail[i]) # v
  BY <1>2 DEF TrailOK, Unassigned
<1> QED BY <1>1, <1>2

\* A clause is the reason of one literal.
LEMMA ReasonOfOne ==
  ASSUME NEW u, TrailOK(u), NEW c, ClausesOK(c), NEW i \in 1..Len(u.trail),
         NEW j \in 1..Len(u.trail), Explained(u, LitsOf(c), i), Explained(u, LitsOf(c), j),
         ReasonOf(u, u.trail[i]) # 0, ReasonOf(u, u.trail[i]) = ReasonOf(u, u.trail[j])
  PROVE  i = j
<1> DEFINE id == ReasonOf(u, u.trail[i])
<1>1. \A k \in 1..Len(u.trail) : u.trail[k] \in Lit /\ IsTrue(u, u.trail[k])
  BY TrailTypes DEF TrailOK, IsTrue, Contains
<1>2. id \in DOMAIN LitsOf(c) /\ u.trail[i] \in LitsOf(c)[id] /\ u.trail[j] \in LitsOf(c)[id]
  BY DEF Explained
<1>3. ASSUME u.trail[i] # u.trail[j] PROVE FALSE
  <2>1. u.trail[j] \in LitsOf(c)[id] \ {u.trail[i]}
    BY <1>2, <1>3
  <2>2. PICK k \in 1..(i - 1) : u.trail[k] = -u.trail[j]
    BY <2>1 DEF Explained
  <2>3. k \in 1..Len(u.trail)
    BY TrailTypes DEF TrailOK
  <2>4. IsFalse(u, u.trail[j])
    BY <2>2, <2>3 DEF IsFalse, Contains
  <2> QED BY <1>1, <2>4, NotBoth
<1> QED BY <1>3 DEF TrailOK, Once

\* A clause whose literals are all false is no reason.
LEMMA FalseNoReason ==
  ASSUME NEW u, TrailOK(u), NEW c, ClausesOK(c), NEW i \in 1..Len(u.trail),
         Explained(u, LitsOf(c), i), NEW id \in DOMAIN c,
         \A x \in c[id].lits : IsFalse(u, x)
  PROVE  ReasonOf(u, u.trail[i]) # id
<1>1. u.trail[i] \in Lit /\ IsTrue(u, u.trail[i])
  BY TrailTypes DEF TrailOK, IsTrue, Contains
<1>2. id # 0
  BY ClauseFacts
<1>3. ASSUME ReasonOf(u, u.trail[i]) = id PROVE FALSE
  <2>1. u.trail[i] \in LitsOf(c)[id]
    BY <1>2, <1>3 DEF Explained
  <2>2. IsFalse(u, u.trail[i])
    BY <2>1, LitsOfIs
  <2> QED BY <1>1, <2>2, NotBoth
<1> QED BY <1>3

\* Only the clauses that are reasons matter.
LEMMA JustifiedClauses ==
  ASSUME NEW u, NEW c, ClausesOK(c), NEW d, ClausesOK(d), NEW i \in 1..Len(u.trail),
         Justified(u, c, i),
         LET id == ReasonOf(u, u.trail[i])
         IN  id # 0 => /\ id \in DOMAIN d /\ d[id].lits = c[id].lits
                       /\ ~c[id].garbage => ~d[id].garbage
  PROVE  Justified(u, d, i)
<1> DEFINE id == ReasonOf(u, u.trail[i])
<1>1. CASE id = 0
  BY <1>1 DEF Justified, Explained, Alive
<1>2. CASE id # 0
  <2>1. id \in DOMAIN c
    BY <1>2, LitsOfIs DEF Justified, Explained
  <2>2. /\ id \in DOMAIN LitsOf(d) /\ LitsOf(d)[id] = LitsOf(c)[id]
        /\ Cardinality(d[id].lits) > 2 => ~d[id].garbage
    BY <1>2, <2>1, LitsOfIs DEF Justified, Alive
  <2>3. Explained(u, LitsOf(d), i)
    BY <1>2, <2>1, <2>2, LitsOfIs DEF Justified, Explained
  <2> QED BY <2>2, <2>3 DEF Justified, Alive
<1> QED BY <1>1, <1>2

-----------------------------------------------------------------------------
(* Watches. *)

\* A literal makes the clause true, and stays as long as the place p does.
Supported(u, c, id, p) ==
  \E x \in c[id].lits :
    /\ IsTrue(u, x)
    /\ LevelOf(u, x) = 0 \/ u.control[LevelOf(u, x)].trail < p

\* The clause id need not be visited because of the literal at p.
Watched(u, c, id, p) ==
  ~c[id].garbage /\ -u.trail[p] \in c[id].watch => Supported(u, c, id, p)

\* The watches of the first q literals of the trail are taken care of.
WatchesOK(u, c, q) == \A id \in DOMAIN c : \A p \in 1..q : Watched(u, c, id, p)

\* A literal that is true supports the clause above all levels.
LEMMA SupportedAbove ==
  ASSUME NEW u, TrailOK(u), NEW c, ClausesOK(c), NEW id \in DOMAIN c, NEW p,
         \A k \in 1..Len(u.control) : u.control[k].trail < p,
         NEW x \in c[id].lits, IsTrue(u, x)
  PROVE  Supported(u, c, id, p)
<1>1. x \in Lit
  BY ClauseFacts
<1>2. LevelOf(u, x) \in 0..Len(u.control) /\ Len(u.control) \in Nat
  BY <1>1, LevelBound, TrailTypes DEF TrailOK
<1>3. LevelOf(u, x) = 0 \/ LevelOf(u, x) \in 1..Len(u.control)
  BY <1>2
<1> QED BY <1>3 DEF Supported

\* What supports a clause still does when the trail gets longer.
LEMMA ExtendedWatched ==
  ASSUME NEW u, TrailOK(u), NEW lit \in Lit, IsOpen(u, lit), NEW v, Extended(v, u, lit),
         NEW c, ClausesOK(c), NEW id \in DOMAIN c, NEW p \in 1..Len(u.trail),
         Watched(u, c, id, p)
  PROVE  Watched(v, c, id, p)
<1> SUFFICES ASSUME ~c[id].garbage, -v.trail[p] \in c[id].watch
             PROVE  Supported(v, c, id, p)
  BY DEF Watched
<1>1. v.trail[p] = u.trail[p]
  BY DEF Extended
<1>2. PICK x \in c[id].lits :
        IsTrue(u, x) /\ (LevelOf(u, x) = 0 \/ u.control[LevelOf(u, x)].trail < p)
  BY <1>1 DEF Watched, Supported
<1>3. x \in Lit
  BY ClauseFacts
<1>4. IsTrue(v, x) /\ LevelOf(v, x) = LevelOf(u, x)
  BY <1>2, <1>3, ExtendedKeeps
<1>5. LevelOf(u, x) # 0 => v.control[LevelOf(u, x)] = u.control[LevelOf(u, x)]
  <2>1. LevelOf(u, x) \in 0..Len(u.control) /\ Len(u.control) \in Nat
    BY <1>3, LevelBound, TrailTypes DEF TrailOK
  <2>2. LevelOf(u, x) # 0 => LevelOf(u, x) \in 1..Len(u.control)
    BY <2>1
  <2> QED BY <2>2 DEF Extended
<1> QED BY <1>2, <1>4, <1>5 DEF Supported

\* An assignment does not disturb the watches of what was propagated.
LEMMA ExtendedWatches ==
  ASSUME NEW u, TrailOK(u), NEW lit \in Lit, IsOpen(u, lit), NEW v, Extended(v, u, lit),
         NEW c, ClausesOK(c), NEW q \in Int, q <= Len(u.trail), WatchesOK(u, c, q)
  PROVE  WatchesOK(v, c, q)
<1> SUFFICES ASSUME NEW id \in DOMAIN c, NEW p \in 1..q PROVE Watched(v, c, id, p)
  BY DEF WatchesOK
<1>1. p \in 1..Len(u.trail)
  BY TrailTypes DEF TrailOK
<1>2. Watched(u, c, id, p)
  BY DEF WatchesOK
<1> QED BY <1>1, <1>2, ExtendedWatched

\* Backtracking keeps what is below the first level that goes, and what
\* supports a clause there.
LEMMA BacktrackWatched ==
  ASSUME NEW u, TrailOK(u), NEW l \in 0..Len(u.control), NEW c, ClausesOK(c),
         NEW id \in DOMAIN c, NEW p \in 1..Len(u.trail),
         l # Len(u.control) => p <= u.control[l + 1].trail,
         Watched(u, c, id, p)
  PROVE  Watched(Backtrack(u, l), c, id, p)
<1> DEFINE v == Backtrack(u, l)
<1>1. CASE l = Len(u.control)
  <2>1. v = u
    BY <1>1, BacktrackIs
  <2> QED BY <2>1
<1>2. CASE l # Len(u.control)
  <2>0. /\ Len(u.control) \in Nat /\ l + 1 \in 1..Len(u.control) /\ u.control[l + 1].trail \in Nat
        /\ p \in Nat
    <3>1. Len(u.control) \in Nat /\ l + 1 \in 1..Len(u.control)
      BY <1>2, TrailTypes DEF TrailOK
    <3> QED BY <3>1, TrailTypes DEF TrailOK
  <2>1. v.propagated = u.control[l + 1].trail /\ \A i \in 1..v.propagated : v.trail[i] = u.trail[i]
    BY <1>2, BacktrackIs
  <2>2. v.trail[p] = u.trail[p]
    <3>1. p \in 1..v.propagated
      BY <1>2, <2>0, <2>1
    <3> QED BY <2>1, <3>1
  <2> SUFFICES ASSUME ~c[id].garbage, -v.trail[p] \in c[id].watch
               PROVE  Supported(v, c, id, p)
    BY DEF Watched
  <2>3. PICK x \in c[id].lits :
          IsTrue(u, x) /\ (LevelOf(u, x) = 0 \/ u.control[LevelOf(u, x)].trail < p)
    BY <2>2 DEF Watched, Supported
  <2>4. x \in Lit
    BY ClauseFacts
  <2>5. LevelOf(u, x) \in 0..Len(u.control)
    BY <2>4, LevelBound
  <2>6. LevelOf(u, x) <= l
    <3>1. SUFFICES ASSUME LevelOf(u, x) \in (l + 1)..Len(u.control) PROVE FALSE
      BY <2>0, <2>5
    <3>2. u.control[l + 1].trail <= u.control[LevelOf(u, x)].trail
      BY <2>0, <3>1 DEF TrailOK, Heights
    <3>3. LevelOf(u, x) \in 1..Len(u.control) /\ LevelOf(u, x) # 0
      BY <2>0, <3>1
    <3>4. u.control[LevelOf(u, x)].trail \in Nat
      BY <3>3, TrailTypes DEF TrailOK
    <3> QED BY <1>2, <2>0, <2>3, <3>2, <3>3, <3>4
  <2>7. IsTrue(v, x) /\ LevelOf(v, x) = LevelOf(u, x)
    BY <2>3, <2>4, <2>6, BacktrackIs
  <2>8. LevelOf(u, x) # 0 => v.control[LevelOf(u, x)] = u.control[LevelOf(u, x)]
    <3>1. LevelOf(u, x) # 0 => LevelOf(u, x) \in 1..l
      BY <2>5, <2>6
    <3> QED BY <3>1, BacktrackIs
  <2> QED BY <2>3, <2>7, <2>8 DEF Supported
<1> QED BY <1>1, <1>2

\* Backtracking does not disturb the watches of what stays propagated.
LEMMA BacktrackWatches ==
  ASSUME NEW u, TrailOK(u), NEW l \in 0..Len(u.control), NEW c, ClausesOK(c),
         NEW q \in Int, q <= Len(u.trail), WatchesOK(u, c, q),
         NEW r \in Int, r <= q, l # Len(u.control) => r <= u.control[l + 1].trail
  PROVE  WatchesOK(Backtrack(u, l), c, r)
<1> SUFFICES ASSUME NEW id \in DOMAIN c, NEW p \in 1..r
             PROVE  Watched(Backtrack(u, l), c, id, p)
  BY DEF WatchesOK
<1>1. p \in 1..Len(u.trail) /\ p \in 1..q
  BY TrailTypes DEF TrailOK
<1>2. l # Len(u.control) => p <= u.control[l + 1].trail
  <2>1. SUFFICES ASSUME l # Len(u.control) PROVE p <= u.control[l + 1].trail
    OBVIOUS
  <2>2. l + 1 \in 1..Len(u.control)
    BY <2>1, TrailTypes DEF TrailOK
  <2>3. u.control[l + 1].trail \in Nat
    BY <2>2, TrailTypes DEF TrailOK
  <2> QED BY <2>1, <2>3
<1>3. Watched(u, c, id, p)
  BY <1>1 DEF WatchesOK
<1> QED BY <1>1, <1>2, <1>3, BacktrackWatched

\* After backtracking, what counts as propagated is taken care of.
LEMMA BacktrackSettled ==
  ASSUME NEW u, TrailOK(u), NEW l \in 0..Len(u.control), NEW c, ClausesOK(c),
         WatchesOK(u, c, u.propagated)
  PROVE  WatchesOK(Backtrack(u, l), c, Backtrack(u, l).propagated)
<1>1. u.propagated \in Nat /\ u.propagated <= Len(u.trail) /\ Len(u.control) \in Nat
  BY TrailTypes DEF TrailOK, Heights
<1>2. CASE l = Len(u.control)
  BY <1>2, BacktrackIs
<1>3. CASE l # Len(u.control)
  <2>1. l + 1 \in 1..Len(u.control)
    BY <1>1, <1>3
  <2>2. /\ Backtrack(u, l).propagated = u.control[l + 1].trail
        /\ u.control[l + 1].trail \in Nat /\ u.control[l + 1].trail <= u.propagated
    BY <1>3, <2>1, BacktrackIs, TrailTypes DEF TrailOK, Heights
  <2> QED BY <1>1, <2>2, BacktrackWatches
<1> QED BY <1>2, <1>3

-----------------------------------------------------------------------------
(* The operations on the trail, with the clauses in memory. *)

\* The literals that stay keep their reasons, which are in memory.
LEMMA BacktrackKeeps ==
  ASSUME NEW u, NEW c, Store(u, c), NEW l \in 0..Len(u.control),
         \A i \in 1..Len(u.trail) : LevelOf(u, u.trail[i]) <= l => Justified(u, c, i),
         NEW F, Sound(F, c, u)
  PROVE  LET v == Backtrack(u, l)
         IN  Store(v, c) /\ Explains(v, c) /\ Sound(F, c, v)
<1> DEFINE v == Backtrack(u, l)
<1>1. TrailOK(u) /\ ClausesOK(c) /\ TrailOK(v)
  BY BacktrackIs DEF Store
<1>2. \A i \in 1..Len(v.trail) : v.trail[i] \in Lit /\ IsTrue(v, v.trail[i])
  BY <1>1, TrailTypes DEF TrailOK, IsTrue, Contains
<1>3. \A i \in 1..Len(v.trail) : ReasonOf(v, v.trail[i]) = ReasonOf(u, v.trail[i])
  BY <1>1, <1>2, BacktrackIs
<1>4. Stored(v, c)
  <2>1. \A i \in 1..Len(v.trail) : ReasonOf(v, v.trail[i]) \in DOMAIN c \cup {0}
    <3>1. \A x \in Lit : ReasonOf(u, x) \in DOMAIN c \cup {0}
      BY LitFacts DEF Store, Stored, ReasonOf
    <3> QED BY <1>2, <1>3, <3>1
  <2> QED BY <1>1, <2>1, StoredReasons
<1>5. \A i \in 1..Len(v.trail) : Explained(v, LitsOf(c), i)
  <2>1. \A i \in 1..Len(u.trail) : LevelOf(u, u.trail[i]) <= l => Explained(u, LitsOf(c), i)
    BY DEF Justified
  <2>2. \A id \in DOMAIN LitsOf(c) : LitsOf(c)[id] \subseteq Lit
    BY <1>1, LitsOfIs
  <2> DEFINE L == LitsOf(c)
  <2> HIDE DEF L
  <2>3. /\ \A i \in 1..Len(u.trail) : LevelOf(u, u.trail[i]) <= l => Explained(u, L, i)
        /\ \A id \in DOMAIN L : L[id] \subseteq Lit
    BY <2>1, <2>2 DEF L
  <2>4. \A i \in 1..Len(v.trail) : Explained(v, L, i)
    BY <1>1, <2>3, BacktrackExplained
  <2> QED BY <2>4 DEF L
<1>6. ASSUME NEW i \in 1..Len(v.trail) PROVE Alive(v, c, i)
  <2>1. IsTrue(u, v.trail[i]) /\ LevelOf(u, v.trail[i]) <= l
    BY <1>1, <1>2, BacktrackIs
  <2>2. PICK j \in 1..Len(u.trail) : u.trail[j] = v.trail[i]
    BY <2>1 DEF IsTrue, Contains
  <2>3. Alive(u, c, j)
    BY <2>1, <2>2 DEF Justified
  <2> QED BY <1>3, <2>2, <2>3 DEF Alive
<1>7. Sound(F, c, v)
  <2>1. \A x \in Lit : IsTrue(v, x) /\ LevelOf(v, x) = 0 => IsTrue(u, x) /\ LevelOf(u, x) = 0
    BY <1>1, BacktrackIs
  <2> HIDE DEF v
  <2> QED BY <1>1, <2>1, SoundTrail
<1> HIDE DEF v
<1>8. Store(v, c) /\ Explains(v, c)
  BY <1>1, <1>4, <1>5, <1>6 DEF Store, Explains, Justified
<1> QED BY <1>7, <1>8 DEF v

\* What the other literals of a clause imply.
Implies(u, c, lit, id) ==
  /\ id \in DOMAIN c /\ lit \in c[id].lits /\ IsOpen(u, lit)
  /\ \A other \in c[id].lits \ {lit} : IsFalse(u, other)
  /\ Cardinality(c[id].lits) > 2 => ~c[id].garbage

\* A literal is assigned at level k and everything stays in order.
Keeps(v, u, c, F, lit, k) ==
  /\ Store(v, c) /\ Explains(v, c) /\ Sound(F, c, v) /\ Extended(v, u, lit)
  /\ k \in 0..Len(u.control) /\ LevelOf(v, lit) = k
  /\ v.control = u.control /\ v.propagated = u.propagated

\* Assigning the literal that a clause implies keeps trail, reasons and models
\* in order (search_assign).
LEMMA ImplyKeeps ==
  ASSUME NEW u, NEW c, Store(u, c), Explains(u, c), NEW lit, NEW id,
         Implies(u, c, lit, id), NEW F, Sound(F, c, u)
  PROVE  Keeps(Imply(u, lit, id, c[id].lits), u, c, F, lit,
               HighestLevel(u, c[id].lits \ {lit}))
<1> DEFINE clause == c[id].lits
           v == Imply(u, lit, id, clause)
           n == Len(u.trail)
           k == HighestLevel(u, clause \ {lit})
           L == LitsOf(c)
<1>1. /\ TrailOK(u) /\ ClausesOK(c) /\ id \in DOMAIN c /\ lit \in clause /\ IsOpen(u, lit)
      /\ \A other \in clause \ {lit} : IsFalse(u, other)
      /\ Cardinality(clause) > 2 => ~c[id].garbage
  BY DEF Store, Implies
<1>2. clause \subseteq Lit /\ lit \in Lit /\ id \in Nat \ {0}
  BY <1>1, ClauseFacts
<1>3. /\ \A j \in DOMAIN L : L[j] \subseteq Lit
      /\ id \in DOMAIN L /\ L[id] = clause
      /\ \A i \in 1..Len(u.trail) : Explained(u, L, i)
  BY <1>1, LitsOfIs DEF Explains, Justified
<1> HIDE DEF L, clause
<1>0. Assigned(v, u, lit, k, id, L)
  <2>1. /\ TrailOK(u) /\ lit \in Lit /\ IsOpen(u, lit) /\ id \in Nat \ {0}
        /\ clause \subseteq Lit /\ lit \in clause
        /\ \A other \in clause \ {lit} : IsFalse(u, other)
        /\ \A j \in DOMAIN L : L[j] \subseteq Lit
        /\ id \in DOMAIN L /\ L[id] = clause
        /\ \A i \in 1..Len(u.trail) : Explained(u, L, i)
    BY <1>1, <1>2, <1>3
  <2> QED BY <2>1, ImplyOK
<1> HIDE DEF v
<1>4. /\ TrailOK(v)
      /\ Extended(v, u, lit)
      /\ \A i \in 1..(n + 1) : Explained(v, L, i)
      /\ k \in 0..Len(u.control) /\ LevelOf(v, lit) = k
      /\ ReasonOf(v, lit) = (IF k = 0 THEN 0 ELSE id)
      /\ v.control = u.control /\ v.propagated = u.propagated
  BY <1>0 DEF Assigned
<1>5. /\ Extended(v, u, lit) /\ Len(v.trail) = n + 1 /\ v.trail[n + 1] = lit
      /\ \A i \in 1..n : v.trail[i] = u.trail[i]
      /\ \A x \in Lit : IsTrue(v, x) <=> IsTrue(u, x) \/ x = lit
  BY <1>4 DEF Extended
<1>6. n \in Nat
  BY <1>1, TrailTypes DEF TrailOK
<1>7. ASSUME NEW i \in 1..(n + 1)
      PROVE  ReasonOf(v, v.trail[i]) \in DOMAIN c \cup {0} /\ Alive(v, c, i)
  <2>1. CASE i = n + 1
    BY <1>1, <1>4, <1>5, <2>1 DEF Alive, clause
  <2>2. CASE i # n + 1
    <3>1. i \in 1..n
      BY <1>6, <2>2
    <3>2. u.trail[i] \in Lit /\ IsTrue(u, u.trail[i])
      BY <1>1, <3>1, TrailTypes DEF TrailOK, IsTrue, Contains
    <3>3. ReasonOf(v, v.trail[i]) = ReasonOf(u, u.trail[i])
      BY <1>1, <1>2, <1>4, <1>5, <3>1, <3>2, ExtendedKeeps
    <3>4. Alive(u, c, i)
      BY <3>1 DEF Explains, Justified
    <3>5. ReasonOf(u, u.trail[i]) \in DOMAIN c \cup {0}
      BY <3>2, LitFacts DEF Store, Stored, ReasonOf
    <3> QED BY <3>3, <3>4, <3>5 DEF Alive
  <2> QED BY <2>1, <2>2
<1>8. Store(v, c) /\ Explains(v, c)
  <2>1. Stored(v, c)
    BY <1>4, <1>5, <1>7, StoredReasons
  <2>2. Explains(v, c)
    BY <1>4, <1>5, <1>7 DEF Explains, Justified, L
  <2> QED BY <1>1, <1>4, <2>1, <2>2 DEF Store
<1>9. Sound(F, c, v)
  <2>1. ASSUME NEW x \in Lit, IsTrue(v, x), LevelOf(v, x) = 0
        PROVE  \/ IsTrue(u, x) /\ LevelOf(u, x) = 0
               \/ \A m \in SUBSET Var : IsModel(m, F, {}) => True(m, x)
    <3>1. CASE x # lit
      <4>1. IsTrue(u, x)
        BY <1>5, <2>1, <3>1
      <4> QED BY <1>1, <1>2, <1>5, <2>1, <4>1, ExtendedKeeps
    <3>2. CASE x = lit
      <4> SUFFICES ASSUME NEW m \in SUBSET Var, IsModel(m, F, {}) PROVE True(m, lit)
        BY <3>2
      <4>1. k = 0
        BY <1>4, <2>1, <3>2
      <4>2. Satisfies(m, u, L)
        BY DEF Sound, L
      <4>3. PICK y \in clause : True(m, y)
        BY <1>3, <4>2 DEF Satisfies, Holds
      <4>4. ASSUME y # lit PROVE FALSE
        <5>1. y \in Lit /\ IsFalse(u, y) /\ y \in clause \ {lit}
          BY <1>1, <1>2, <4>4
        <5>2. clause \ {lit} \subseteq Lit
          BY <1>2
        <5>3. LevelOf(u, y) <= 0
          BY <1>1, <4>1, <5>1, <5>2, HighestIs
        <5>4. LevelOf(u, y) \in Nat
          BY <1>1, <5>1, TrailTypes DEF TrailOK
        <5>5. LevelOf(u, y) = 0
          BY <5>3, <5>4
        <5> QED BY <1>1, <4>2, <4>3, <5>1, <5>5, RootFalse
      <4> QED BY <4>3, <4>4
    <3> QED BY <3>1, <3>2
  <2> QED BY <1>1, <1>4, <2>1, SoundTrail
<1> HIDE DEF k
<1>10. Keeps(v, u, c, F, lit, k)
  BY <1>4, <1>5, <1>8, <1>9 DEF Keeps
<1> QED BY <1>10 DEF clause, v, k

\* A unit that every model satisfies.
LEMMA UnitKeeps ==
  ASSUME NEW u, NEW c, Store(u, c), Explains(u, c), NEW lit \in Lit, IsOpen(u, lit),
         NEW F, Sound(F, c, u), \A m \in SUBSET Var : IsModel(m, F, {}) => True(m, lit)
  PROVE  LET v == AssignUnit(u, lit)
         IN  /\ Store(v, c) /\ Explains(v, c) /\ Sound(F, c, v)
             /\ Extended(v, u, lit) /\ LevelOf(v, lit) = 0
             /\ v.control = u.control /\ v.propagated = u.propagated
<1> DEFINE v == AssignUnit(u, lit)
           n == Len(u.trail)
           L == LitsOf(c)
<1>1. TrailOK(u) /\ ClausesOK(c)
  BY DEF Store
<1>2. /\ \A j \in DOMAIN L : L[j] \subseteq Lit
      /\ \A i \in 1..Len(u.trail) : Explained(u, L, i)
  BY <1>1, LitsOfIs DEF Explains, Justified
<1> HIDE DEF L
<1>3. /\ TrailOK(v)
      /\ Extended(v, u, lit)
      /\ \A i \in 1..(n + 1) : Explained(v, L, i)
      /\ LevelOf(v, lit) = 0 /\ ReasonOf(v, lit) = 0
      /\ v.control = u.control /\ v.propagated = u.propagated
  BY <1>1, <1>2, UnitOK
<1> HIDE DEF v
<1>4. /\ Extended(v, u, lit) /\ Len(v.trail) = n + 1 /\ v.trail[n + 1] = lit
      /\ \A i \in 1..n : v.trail[i] = u.trail[i]
      /\ \A x \in Lit : IsTrue(v, x) <=> IsTrue(u, x) \/ x = lit
  BY <1>3 DEF Extended
<1>5. ASSUME NEW i \in 1..(n + 1)
      PROVE  ReasonOf(v, v.trail[i]) \in DOMAIN c \cup {0} /\ Alive(v, c, i)
  <2>0. n \in Nat
    BY <1>1, TrailTypes DEF TrailOK
  <2>1. CASE i = n + 1
    BY <1>3, <1>4, <2>1 DEF Alive
  <2>2. CASE i # n + 1
    <3>1. i \in 1..n
      BY <2>0, <2>2
    <3>2. u.trail[i] \in Lit /\ IsTrue(u, u.trail[i])
      BY <1>1, <3>1, TrailTypes DEF TrailOK, IsTrue, Contains
    <3>3. ReasonOf(v, v.trail[i]) = ReasonOf(u, u.trail[i])
      BY <1>1, <1>3, <1>4, <3>1, <3>2, ExtendedKeeps
    <3>4. Alive(u, c, i)
      BY <3>1 DEF Explains, Justified
    <3>5. ReasonOf(u, u.trail[i]) \in DOMAIN c \cup {0}
      BY <3>2, LitFacts DEF Store, Stored, ReasonOf
    <3> QED BY <3>3, <3>4, <3>5 DEF Alive
  <2> QED BY <2>1, <2>2
<1>6. Store(v, c) /\ Explains(v, c)
  <2>1. Stored(v, c)
    BY <1>3, <1>4, <1>5, StoredReasons
  <2>2. Explains(v, c)
    BY <1>3, <1>4, <1>5 DEF Explains, Justified, L
  <2> QED BY <1>1, <1>3, <2>1, <2>2 DEF Store
<1>7. Sound(F, c, v)
  <2>1. ASSUME NEW x \in Lit, IsTrue(v, x), LevelOf(v, x) = 0
        PROVE  \/ IsTrue(u, x) /\ LevelOf(u, x) = 0
               \/ \A m \in SUBSET Var : IsModel(m, F, {}) => True(m, x)
    <3>1. CASE x # lit
      <4>1. IsTrue(u, x)
        BY <1>4, <2>1, <3>1
      <4> QED BY <1>1, <1>4, <2>1, <4>1, ExtendedKeeps
    <3> QED BY <3>1
  <2> QED BY <1>1, <1>3, <2>1, SoundTrail
<1> QED BY <1>3, <1>4, <1>6, <1>7 DEF v

\* A new level on a trail that is propagated; the watches stay.
LEMMA LevelKeeps ==
  ASSUME NEW u, NEW c, Store(u, c), Explains(u, c), u.propagated = Len(u.trail),
         NEW d \in Lit \cup {0}, NEW F, Sound(F, c, u), WatchesOK(u, c, u.propagated)
  PROVE  LET v == NewTrailLevel(u, d)
         IN  /\ Store(v, c) /\ Explains(v, c) /\ Sound(F, c, v)
             /\ WatchesOK(v, c, v.propagated)
<1> DEFINE v == NewTrailLevel(u, d)
<1>1. TrailOK(u) /\ ClausesOK(c)
  BY DEF Store
<1>2. /\ TrailOK(v)
      /\ v.trail = u.trail /\ v.level = u.level /\ v.reason = u.reason
      /\ v.propagated = u.propagated /\ Len(v.control) = Len(u.control) + 1
      /\ \A k \in 1..Len(u.control) : v.control[k] = u.control[k]
  BY <1>1, NewLevelOK
<1>3. \A i \in 1..Len(u.trail) : Explained(v, LitsOf(c), i)
  <2>1. \A i \in 1..Len(u.trail) : Explained(u, LitsOf(c), i)
    BY DEF Explains, Justified
  <2> DEFINE L == LitsOf(c)
  <2> HIDE DEF L
  <2>2. \A i \in 1..Len(u.trail) : Explained(u, L, i)
    BY <2>1 DEF L
  <2>3. \A i \in 1..Len(u.trail) : Explained(v, L, i)
    BY <1>1, <2>2, NewLevelExplained
  <2> QED BY <2>3 DEF L
<1> HIDE DEF v
<1>4. \A x : /\ LevelOf(v, x) = LevelOf(u, x) /\ ReasonOf(v, x) = ReasonOf(u, x)
             /\ IsTrue(v, x) <=> IsTrue(u, x)
  BY <1>2 DEF LevelOf, ReasonOf, IsTrue
<1>5. Store(v, c)
  BY <1>1, <1>2 DEF Store, Stored
<1>6. Explains(v, c)
  BY <1>2, <1>3, <1>4 DEF Explains, Justified, Alive
<1>7. Sound(F, c, v)
  BY <1>1, <1>2, <1>4, SoundTrail
<1>8. ASSUME NEW id \in DOMAIN c, NEW p \in 1..u.propagated PROVE Watched(v, c, id, p)
  <2> SUFFICES ASSUME ~c[id].garbage, -v.trail[p] \in c[id].watch
               PROVE  Supported(v, c, id, p)
    BY DEF Watched
  <2>1. Supported(u, c, id, p)
    BY <1>2 DEF WatchesOK, Watched
  <2>2. PICK x \in c[id].lits :
          IsTrue(u, x) /\ (LevelOf(u, x) = 0 \/ u.control[LevelOf(u, x)].trail < p)
    BY <2>1 DEF Supported
  <2>3. x \in Lit
    BY <1>1, ClauseFacts
  <2>4. LevelOf(u, x) \in 0..Len(u.control) /\ Len(u.control) \in Nat
    BY <1>1, <2>3, LevelBound, TrailTypes DEF TrailOK
  <2>5. LevelOf(u, x) = 0 \/ LevelOf(u, x) \in 1..Len(u.control)
    BY <2>4
  <2> QED BY <1>2, <1>4, <2>2, <2>5 DEF Supported
<1>9. WatchesOK(v, c, v.propagated)
  BY <1>2, <1>8 DEF WatchesOK
<1> QED BY <1>5, <1>6, <1>7, <1>9 DEF v

\* A decision keeps trail, reasons, models and watches in order
\* (search_assume_decision).
LEMMA DecisionKeeps ==
  ASSUME NEW u, NEW c, Store(u, c), Explains(u, c), u.propagated = Len(u.trail),
         NEW lit \in Lit, IsOpen(u, lit), NEW F, Sound(F, c, u),
         WatchesOK(u, c, u.propagated)
  PROVE  LET v == AssumeDecision(u, lit)
         IN  /\ Store(v, c) /\ Explains(v, c) /\ Sound(F, c, v)
             /\ WatchesOK(v, c, v.propagated) /\ Extended(v, u, lit)
             /\ Len(v.control) = Len(u.control) + 1 /\ LevelOf(v, lit) = Len(u.control) + 1
             /\ v.control[Len(u.control) + 1].decision = lit
<1> DEFINE v == AssumeDecision(u, lit)
           n == Len(u.trail)
           L == LitsOf(c)
<1>1. TrailOK(u) /\ ClausesOK(c)
  BY DEF Store
<1>2. /\ \A j \in DOMAIN L : L[j] \subseteq Lit
      /\ \A i \in 1..Len(u.trail) : Explained(u, L, i)
  BY <1>1, LitsOfIs DEF Explains, Justified
<1> HIDE DEF L
<1>3. /\ TrailOK(v) /\ Extended(v, u, lit)
      /\ \A i \in 1..(Len(u.trail) + 1) : Explained(v, L, i)
      /\ LevelOf(v, lit) = Len(u.control) + 1 /\ ReasonOf(v, lit) = 0
      /\ v.propagated = u.propagated /\ Len(v.control) = Len(u.control) + 1
      /\ v.control[Len(u.control) + 1].decision = lit
  BY <1>1, <1>2, DecisionOK
<1> HIDE DEF v
<1>4. /\ Len(v.trail) = n + 1 /\ v.trail[n + 1] = lit
      /\ \A i \in 1..n : v.trail[i] = u.trail[i]
      /\ \A x \in Lit : IsTrue(v, x) <=> IsTrue(u, x) \/ x = lit
  BY <1>3 DEF Extended
<1>0. n \in Nat /\ Len(u.control) \in Nat /\ u.propagated \in Nat
  BY <1>1, TrailTypes DEF TrailOK
<1>5. ASSUME NEW i \in 1..(n + 1)
      PROVE  ReasonOf(v, v.trail[i]) \in DOMAIN c \cup {0} /\ Alive(v, c, i)
  <2>1. CASE i = n + 1
    BY <1>3, <1>4, <2>1 DEF Alive
  <2>2. CASE i # n + 1
    <3>1. i \in 1..n
      BY <1>0, <2>2
    <3>2. u.trail[i] \in Lit /\ IsTrue(u, u.trail[i])
      BY <1>1, <3>1, TrailTypes DEF TrailOK, IsTrue, Contains
    <3>3. ReasonOf(v, v.trail[i]) = ReasonOf(u, u.trail[i])
      BY <1>1, <1>3, <1>4, <3>1, <3>2, ExtendedKeeps
    <3>4. Alive(u, c, i)
      BY <3>1 DEF Explains, Justified
    <3>5. ReasonOf(u, u.trail[i]) \in DOMAIN c \cup {0}
      BY <3>2, LitFacts DEF Store, Stored, ReasonOf
    <3> QED BY <3>3, <3>4, <3>5 DEF Alive
  <2> QED BY <2>1, <2>2
<1>6. Store(v, c) /\ Explains(v, c)
  <2>1. Stored(v, c)
    BY <1>3, <1>4, <1>5, StoredReasons
  <2>2. Explains(v, c)
    BY <1>3, <1>4, <1>5 DEF Explains, Justified, L
  <2> QED BY <1>1, <1>3, <2>1, <2>2 DEF Store
<1>7. Sound(F, c, v)
  <2>1. ASSUME NEW x \in Lit, IsTrue(v, x), LevelOf(v, x) = 0
        PROVE  IsTrue(u, x) /\ LevelOf(u, x) = 0
    <3>1. x # lit
      BY <1>0, <1>3, <2>1
    <3>2. IsTrue(u, x)
      BY <1>4, <2>1, <3>1
    <3> QED BY <1>1, <1>3, <2>1, <3>2, ExtendedKeeps
  <2> QED BY <1>1, <1>3, <2>1, SoundTrail
<1>8. WatchesOK(v, c, v.propagated)
  <2>1. u.propagated \in Int /\ u.propagated <= Len(u.trail)
    BY <1>0
  <2> QED BY <1>1, <1>3, <2>1, ExtendedWatches
<1> QED BY <1>3, <1>6, <1>7, <1>8 DEF v

-----------------------------------------------------------------------------
(* The watches of a clause that forces a literal after backtracking. *)

\* The one watch is forced, the other one is the highest of the rest: when it
\* goes, so does the forced literal.
LEMMA ForcedWatched ==
  ASSUME NEW u, TrailOK(u), NEW forced \in Lit, IsOpen(u, forced), NEW lits, lits \subseteq Lit,
         NEW v, Extended(v, u, forced), LevelOf(v, forced) = HighestLevel(u, lits \ {forced}),
         v.control = u.control, NEW c, NEW id, c[id].lits = lits, forced \in lits,
         NEW a \in lits \ {forced}, c[id].watch \subseteq {forced, a},
         \A b \in lits \ {forced} : LevelOf(u, b) <= LevelOf(u, a),
         NEW p \in 1..Len(u.trail)
  PROVE  Watched(v, c, id, p)
<1> DEFINE k == HighestLevel(u, lits \ {forced})
<1> SUFFICES ASSUME -v.trail[p] \in c[id].watch PROVE Supported(v, c, id, p)
  BY DEF Watched
<1>1. v.trail[p] = u.trail[p] /\ IsTrue(v, forced)
  BY DEF Extended
<1>2. u.trail[p] \in Lit
  BY TrailTypes DEF TrailOK
<1>3. -u.trail[p] # forced
  <2>1. ASSUME -u.trail[p] = forced PROVE FALSE
    <3>1. u.trail[p] = -forced
      BY <1>2, <2>1, LitFacts
    <3> QED BY <3>1 DEF IsOpen, IsFalse, Contains
  <2> QED BY <2>1
<1>4. -u.trail[p] = a
  BY <1>1, <1>3
<1>5. LevelOf(u, u.trail[p]) = LevelOf(u, a)
  BY <1>2, <1>4, SameVar
<1>6. LevelOf(u, a) = k
  <2>1. lits \ {forced} \subseteq Lit
    OBVIOUS
  <2>0. /\ k \in 0..Len(u.control) /\ \A b \in lits \ {forced} : LevelOf(u, b) <= k
        /\ k = 0 \/ \E b \in lits \ {forced} : LevelOf(u, b) = k
    BY <2>1, HighestIs
  <2>2. /\ k \in Nat /\ LevelOf(u, a) <= k
        /\ k = 0 \/ \E b \in lits \ {forced} : LevelOf(u, b) = k
    <3> HIDE DEF k
    <3> QED BY <2>0
  <2>3. LevelOf(u, a) \in Nat
    BY TrailTypes DEF TrailOK
  <2> HIDE DEF k
  <2> QED BY <2>2, <2>3
<1>7. k = 0 \/ u.control[k].trail < p
  <2>1. k > 0 => u.control[k].trail < p
    BY <1>5, <1>6 DEF TrailOK, Levels
  <2>2. k \in Nat
    BY <1>6, TrailTypes DEF TrailOK
  <2> HIDE DEF k
  <2> QED BY <2>1, <2>2
<1> QED BY <1>1, <1>7 DEF Supported

\* What the choice of the highest watches means.
Dominates(u, w, lits) ==
  /\ w \subseteq lits /\ Pair(w)
  /\ \A a \in w, b \in lits \ w : LevelOf(u, a) >= LevelOf(u, b)

\* The watches chosen after a conflict are literals of highest level
\* (move_literals_to_watch).
LEMMA HighestWatchesAre ==
  ASSUME NEW lits, lits \subseteq Lit, NEW old, NEW w \in HighestWatches(lits, old)
  PROVE  Dominates(t, w, lits)
<1>1. /\ w \in SUBSET lits /\ Cardinality(w) = 2
      /\ \A a \in w, b \in lits \ w : LevelOf(t, a) >= LevelOf(t, b)
  BY DEF HighestWatches
<1>2. w \subseteq Lit
  BY <1>1
<1>3. Pair(w)
  BY <1>1, <1>2, PairSize
<1> QED BY <1>1, <1>3 DEF Dominates

\* A single literal of the highest level is watched, and a highest of the rest.
TopPair(u, lits, w, forced) ==
  \E a \in lits \ {forced} :
    w = {forced, a} /\ \A b \in lits \ {forced} : LevelOf(u, b) <= LevelOf(u, a)

\* The watches chosen are such a pair when the highest literal is the only one of
\* its level.
LEMMA SingleTop ==
  ASSUME NEW u, u \in TrailType, NEW lits, lits \subseteq Lit, NEW w, Dominates(u, w, lits),
         NEW forced \in lits,
         \A b \in lits \ {forced} : LevelOf(u, b) < LevelOf(u, forced)
  PROVE  TopPair(u, lits, w, forced)
<1>1. \A x \in lits : LevelOf(u, x) \in Nat
  BY TrailTypes
<1>2. PICK a, b \in w : a # b /\ w = {a, b}
  BY DEF Dominates, Pair
<1>3. a \in lits /\ b \in lits
  BY DEF Dominates
<1>4. forced \in w
  <2>1. ASSUME forced \notin w PROVE FALSE
    <3>1. LevelOf(u, a) >= LevelOf(u, forced)
      BY <2>1 DEF Dominates
    <3>2. LevelOf(u, a) < LevelOf(u, forced)
      BY <1>3, <2>1
    <3> QED BY <1>1, <1>3, <3>1, <3>2
  <2> QED BY <2>1
<1>5. PICK x \in w : x # forced /\ w = {forced, x}
  BY <1>2, <1>4
<1>6. ASSUME NEW y \in lits \ {forced} PROVE LevelOf(u, y) <= LevelOf(u, x)
  <2>1. CASE y = x
    BY <1>1, <2>1
  <2>2. CASE y # x
    <3>1. y \in lits \ w
      BY <1>5, <2>2
    <3>2. LevelOf(u, x) >= LevelOf(u, y)
      BY <3>1 DEF Dominates
    <3> QED BY <3>2
  <2> QED BY <2>1, <2>2
<1> QED BY <1>3, <1>2, <1>5, <1>6 DEF TopPair

\* When two literals are on the highest level, both watches are.
LEMMA BothTop ==
  ASSUME NEW u, u \in TrailType, NEW lits, lits \subseteq Lit, NEW w, Dominates(u, w, lits),
         NEW l \in Nat, \A x \in lits : LevelOf(u, x) <= l,
         NEW x \in lits, NEW y \in lits, x # y, LevelOf(u, x) = l, LevelOf(u, y) = l
  PROVE  \A a \in w : LevelOf(u, a) = l
<1> SUFFICES ASSUME NEW a \in w, LevelOf(u, a) # l PROVE FALSE
  OBVIOUS
<1>1. a \in lits /\ LevelOf(u, a) \in Nat
  BY TrailTypes DEF Dominates
<1>2. LevelOf(u, a) < l
  BY <1>1
<1>3. x \in w /\ y \in w
  <2>1. ASSUME NEW z \in lits \ w, LevelOf(u, z) = l PROVE FALSE
    BY <1>1, <1>2, <2>1 DEF Dominates
  <2> QED BY <2>1
<1>4. a # x /\ a # y
  OBVIOUS
<1> QED BY <1>3, <1>4 DEF Dominates, Pair

-----------------------------------------------------------------------------
(* The invariant of the search. *)

Plain ==
  /\ calls \in Seq(CallType) /\ formula \subseteq SUBSET Lit /\ used \subseteq Var
  /\ assumptions \in Seq(Lit) /\ constraint \subseteq Lit
  /\ unsat \in BOOLEAN /\ unsatConstraint \in BOOLEAN
  /\ pc \in Answered \cup {"ready", "propagate", "analyze", "resolve", "loop", "collect"}
  /\ caller \in {"none", "add", "solve", "search", "reduce"}
  /\ reductions \in 0..MaxReductions

\* Which steps follow each other.
Flow ==
  /\ pc = "propagate" <=> caller # "none"
  /\ caller \in {"add", "solve", "reduce"} => Len(t.control) = 0
  /\ conflict # 0 => pc \in {"propagate", "analyze", "resolve"}
  /\ pc \in {"analyze", "resolve"} => conflict # 0
  /\ visiting # {} => pc = "propagate"
  /\ unsat => pc \in Answered \cup {"ready"}
  /\ pc \in {"loop", "collect"} => t.propagated = Len(t.trail)
  /\ pc = "collect" => \A i \in 1..Len(t.trail) : \A k \in 1..Len(t.control) :
       LevelOf(t, t.trail[i]) = 0 => i <= t.control[k].trail

\* The last literal propagated is above the heights of all levels.
OnTop(u) ==
  u.propagated > 0 /\ \A k \in 1..Len(u.control) : u.control[k].trail < u.propagated

\* What is visited watches the last literal propagated; the literals of the
\* conflict are false.
Traversal ==
  /\ visiting \subseteq DOMAIN db /\ conflict \in DOMAIN db \cup {0}
  /\ visiting # {} \/ (pc \in {"propagate", "analyze"} /\ conflict # 0) => OnTop(t)
  /\ \A id \in visiting : -t.trail[t.propagated] \in db[id].watch
  /\ conflict # 0 => \A lit \in db[conflict].lits : IsFalse(t, lit)
  /\ pc \in {"propagate", "analyze"} /\ conflict # 0 /\ Cardinality(db[conflict].lits) > 2
       => ~db[conflict].garbage

\* The literals collected by the analysis.
Analysed ==
  /\ analysis.lits \subseteq Lit
  /\ pc = "resolve" =>
       /\ Len(t.control) > 0
       /\ \E x \in analysis.lits : LevelOf(t, x) = Len(t.control)
       /\ \A x \in analysis.lits : InClause(t, x)
       /\ \A m \in SUBSET Var : IsModel(m, formula, {}) => Holds(m, analysis.lits)
       /\ analysis.first => /\ analysis.lits \subseteq db[conflict].lits
                            /\ analysis.conflictSize = Cardinality(analysis.lits)

\* The analysis is not past the place i: the reasons it is past may have been
\* strengthened.
Ahead(u, lits, i) ==
  \/ LevelOf(u, u.trail[i]) < Len(u.control)
  \/ \E x \in lits : \E j \in i..Len(u.trail) :
       LevelOf(u, x) = Len(u.control) /\ u.trail[j] = -x

ReasonsOK ==
  \A i \in 1..Len(t.trail) :
    (pc = "resolve" => Ahead(t, analysis.lits, i)) => Justified(t, db, i)

\* The watches; those of the literal being propagated are taken care of
\* except for the clauses still to visit.
WatchInv ==
  ~unsat =>
    /\ pc \in Answered \cup {"ready", "loop", "collect"} => WatchesOK(t, db, t.propagated)
    /\ pc \in {"propagate", "analyze"} => WatchesOK(t, db, t.propagated - 1)
    /\ pc = "propagate" /\ conflict = 0 /\ t.propagated > 0 =>
         \A id \in DOMAIN db \ visiting : Watched(t, db, id, t.propagated)
    /\ pc = "resolve" => WatchesOK(t, db, t.control[Len(t.control)].trail)

Refuted == unsat => Models(formula) = {}

SearchInv ==
  /\ Plain /\ Flow /\ Store(t, db) /\ Sound(formula, db, t) /\ Refuted
  /\ Traversal /\ Analysed /\ ReasonsOK /\ WatchInv

\* Between propagation and analysis.
Rests == pc \in Answered \cup {"ready", "loop", "collect"}

\* What holds when neither propagation nor analysis is going on.
LEMMA AtRest ==
  ASSUME SearchInv, Rests
  PROVE  /\ Store(t, db) /\ Explains(t, db) /\ Sound(formula, db, t)
         /\ visiting = {} /\ conflict = 0 /\ caller = "none"
         /\ ~unsat => WatchesOK(t, db, t.propagated)
<1>1. pc \notin {"propagate", "analyze", "resolve"}
  BY DEF Rests, Answered
<1>2. visiting = {} /\ conflict = 0 /\ caller = "none"
  BY <1>1 DEF SearchInv, Flow
<1>3. Explains(t, db)
  BY <1>1 DEF SearchInv, ReasonsOK, Explains
<1>4. ~unsat => WatchesOK(t, db, t.propagated)
  BY DEF SearchInv, WatchInv, Rests
<1> QED BY <1>2, <1>3, <1>4 DEF SearchInv

\* A step to a state without a conflict in which every literal has its reason
\* and what counts as propagated is taken care of.
LEMMA Settles ==
  ASSUME Plain', Flow', Store(t', db'), Explains(t', db'), Sound(formula', db', t'),
         Refuted', visiting' = {}, conflict' = 0, pc' \notin {"analyze", "resolve"},
         analysis'.lits \subseteq Lit, ~unsat' => WatchesOK(t', db', t'.propagated)
  PROVE  SearchInv'
<1>1. Traversal' /\ Analysed'
  BY DEF Traversal, Analysed
<1>2. ReasonsOK'
  BY DEF ReasonsOK, Explains
<1>3. WatchInv'
  <2> SUFFICES ASSUME ~unsat' PROVE WatchInv'
    BY DEF WatchInv
  <2>1. WatchesOK(t', db', t'.propagated)
    OBVIOUS
  <2>2. t'.propagated \in Nat
    BY TrailTypes DEF Store, TrailOK
  <2>3. 1..(t'.propagated - 1) \subseteq 1..t'.propagated
    BY <2>2
  <2>4. WatchesOK(t', db', t'.propagated - 1)
    BY <2>1, <2>3 DEF WatchesOK
  <2>5. t'.propagated > 0 => \A id \in DOMAIN db' : Watched(t', db', id, t'.propagated)
    BY <2>1, <2>2 DEF WatchesOK
  <2> QED BY <2>1, <2>4, <2>5 DEF WatchInv
<1> QED BY <1>1, <1>2, <1>3 DEF SearchInv

\* Nothing is in memory at first.
LEMMA InitInv ==
  ASSUME Init
  PROVE  SearchInv
<1>1. /\ t.trail = <<>> /\ t.control = <<>> /\ t.level = [v \in Var |-> 0]
      /\ t.reason = [v \in Var |-> 0] /\ t.propagated = 0
      /\ Len(t.trail) = 0 /\ Len(t.control) = 0
  BY DEF Init, EmptyTrail
<1>2. t \in TrailType
  BY DEF Init, EmptyTrail, TrailType
<1>3. TrailOK(t)
  BY <1>1, <1>2 DEF TrailOK, Once, Heights, Levels, Decided, Unassigned
<1>4. DOMAIN db = {}
  BY DEF Init
<1>5. Store(t, db)
  BY <1>1, <1>3, <1>4 DEF Store, ClausesOK, Stored
<1>6. Sound(formula, db, t)
  <2>1. RootUnits(t) = {}
    <3>1. DOMAIN t.trail = {}
      BY <1>1
    <3> QED BY <3>1 DEF RootUnits, ToSet
  <2>2. DOMAIN LitsOf(db) = {}
    BY <1>4 DEF LitsOf
  <2> QED BY <2>1, <2>2 DEF Sound, Satisfies
<1>7. Plain
  <2>1. calls \in Seq(CallType)
    BY SearchAssumption DEF Init
  <2>2. reductions \in 0..MaxReductions
    BY SearchAssumption DEF Init
  <2>3. <<>> \in Seq(Lit)
    OBVIOUS
  <2>4. assumptions \in Seq(Lit)
    BY <2>3 DEF Init
  <2> QED BY <2>1, <2>2, <2>4 DEF Init, Plain, Answered
<1>8. Flow /\ Refuted
  BY <1>1 DEF Init, Flow, Refuted, Answered
<1>9. Traversal /\ Analysed
  BY DEF Init, Traversal, Analysed, NoAnalysis
<1>10. ReasonsOK
  BY <1>1 DEF ReasonsOK
<1>11. WatchInv
  BY <1>4 DEF Init, WatchInv, WatchesOK
<1> QED BY <1>5, <1>6, <1>7, <1>8, <1>9, <1>10, <1>11 DEF SearchInv

-----------------------------------------------------------------------------
(* The calls between two searches. *)

\* Backtracking from such a state.
LEMMA BacktrackRests ==
  ASSUME SearchInv, Rests, NEW l \in 0..Len(t.control)
  PROVE  LET u == Backtrack(t, l)
         IN  /\ Store(u, db) /\ Explains(u, db) /\ Sound(formula, db, u) /\ Len(u.control) = l
             /\ ~unsat => WatchesOK(u, db, u.propagated)
<1>1. /\ Store(t, db) /\ Explains(t, db) /\ Sound(formula, db, t)
      /\ ~unsat => WatchesOK(t, db, t.propagated)
  BY AtRest
<1>2. \A i \in 1..Len(t.trail) : LevelOf(t, t.trail[i]) <= l => Justified(t, db, i)
  BY <1>1 DEF Explains
<1>3. TrailOK(t) /\ ClausesOK(db)
  BY <1>1 DEF Store
<1>4. LET u == Backtrack(t, l)
      IN  Store(u, db) /\ Explains(u, db) /\ Sound(formula, db, u)
  BY <1>1, <1>2, BacktrackKeeps
<1>5. Len(Backtrack(t, l).control) = l
  BY <1>3, BacktrackIs
<1>6. ~unsat => WatchesOK(Backtrack(t, l), db, Backtrack(t, l).propagated)
  BY <1>1, <1>3, BacktrackSettled
<1> QED BY <1>4, <1>5, <1>6

\* At the root level every literal of the trail is a unit.
LEMMA AtRoot ==
  ASSUME NEW u, TrailOK(u), Len(u.control) = 0, NEW x \in Lit
  PROVE  LevelOf(u, x) = 0
  BY LevelBound

\* The root level is a level of the trail.
LEMMA ZeroLevel ==
  ASSUME SearchInv
  PROVE  0 \in 0..Len(t.control)
  BY TrailTypes DEF SearchInv, Store, TrailOK

\* The call that comes next.
LEMMA HeadCall ==
  ASSUME Plain, calls # <<>>
  PROVE  /\ Head(calls) \in CallType /\ Tail(calls) \in Seq(CallType)
         /\ Head(calls).lits \in Seq(Lit) /\ ToSet(Head(calls).lits) \subseteq Lit
         /\ Head(calls).op = "assume" => Head(calls).lits[1] \in Lit
<1>1. Head(calls) \in CallType /\ Tail(calls) \in Seq(CallType)
  BY DEF Plain
<1>2. /\ Head(calls).lits \in Seq(Lit)
      /\ Head(calls).op = "assume" => Len(Head(calls).lits) = 1
  BY <1>1 DEF CallType
<1> DEFINE s == Head(calls).lits
<1>3. \A i \in DOMAIN s : s[i] \in Lit
  BY <1>2
<1>4. ToSet(s) \subseteq Lit
  BY <1>3 DEF ToSet
<1>5. Len(s) = 1 => s[1] \in Lit
  BY <1>2
<1> QED BY <1>1, <1>2, <1>4, <1>5

\* A call names variables only.
LEMMA UsedGrows ==
  ASSUME Plain, NEW lits, lits \subseteq Lit, Internalize(lits)
  PROVE  used' \subseteq Var
  BY LitFacts DEF Plain, Internalize

\* assume preserves the invariant.
LEMMA AssumeInv ==
  ASSUME SearchInv, Assume
  PROVE  SearchInv'
<1> DEFINE lit == Head(calls).lits[1]
<1>1. /\ pc = "ready" /\ calls # <<>> /\ Head(calls).op = "assume" /\ calls' = Tail(calls)
      /\ t' = Backtrack(t, 0)
      /\ assumptions' = IF Contains(assumptions, lit) THEN assumptions
                        ELSE Append(assumptions, lit)
      /\ Internalize({lit})
      /\ UNCHANGED <<formula, db, visiting, conflict, analysis, constraint, unsat,
                     unsatConstraint, pc, caller, reductions>>
  BY DEF Assume, Call, limitVars
<1>2. Rests /\ 0 \in 0..Len(t.control)
  BY <1>1, ZeroLevel DEF Rests
<1>3. /\ Store(t', db) /\ Explains(t', db) /\ Sound(formula, db, t') /\ Len(t'.control) = 0
      /\ ~unsat => WatchesOK(t', db, t'.propagated)
  BY <1>1, <1>2, BacktrackRests
<1>4. visiting = {} /\ conflict = 0 /\ caller = "none"
  BY <1>2, AtRest
<1>5. Plain'
  <2>1. lit \in Lit /\ calls' \in Seq(CallType)
    BY <1>1, HeadCall DEF SearchInv
  <2>2. assumptions' \in Seq(Lit)
    BY <1>1, <2>1 DEF SearchInv, Plain
  <2>3. used' \subseteq Var
    BY <1>1, <2>1, UsedGrows DEF SearchInv
  <2> QED BY <1>1, <2>1, <2>2, <2>3 DEF SearchInv, Plain
<1>6. Flow' /\ Refuted'
  BY <1>1, <1>3, <1>4 DEF SearchInv, Flow, Refuted, Models
<1>7. analysis'.lits \subseteq Lit
  BY <1>1 DEF SearchInv, Analysed
<1> QED BY <1>1, <1>3, <1>4, <1>5, <1>6, <1>7, Settles

\* constrain preserves the invariant.
LEMMA ConstrainInv ==
  ASSUME SearchInv, Constrain
  PROVE  SearchInv'
<1> DEFINE lits == ToSet(Head(calls).lits)
<1>1. /\ pc = "ready" /\ calls # <<>> /\ calls' = Tail(calls) /\ t' = Backtrack(t, 0)
      /\ constraint' \subseteq lits /\ unsatConstraint' \in BOOLEAN /\ Internalize(lits)
      /\ UNCHANGED <<formula, db, visiting, conflict, analysis, assumptions, unsat,
                     pc, caller, reductions>>
  BY DEF Constrain, Call, limitVars
<1>2. Rests /\ 0 \in 0..Len(t.control)
  BY <1>1, ZeroLevel DEF Rests
<1>3. /\ Store(t', db) /\ Explains(t', db) /\ Sound(formula, db, t') /\ Len(t'.control) = 0
      /\ ~unsat => WatchesOK(t', db, t'.propagated)
  BY <1>1, <1>2, BacktrackRests
<1>4. visiting = {} /\ conflict = 0 /\ caller = "none"
  BY <1>2, AtRest
<1>5. Plain'
  <2>1. lits \subseteq Lit /\ calls' \in Seq(CallType)
    BY <1>1, HeadCall DEF SearchInv
  <2>2. used' \subseteq Var
    BY <1>1, <2>1, UsedGrows DEF SearchInv
  <2> HIDE DEF lits
  <2> QED BY <1>1, <2>1, <2>2 DEF SearchInv, Plain
<1>6. Flow' /\ Refuted'
  BY <1>1, <1>3, <1>4 DEF SearchInv, Flow, Refuted, Models
<1>7. analysis'.lits \subseteq Lit
  BY <1>1 DEF SearchInv, Analysed
<1> QED BY <1>1, <1>3, <1>4, <1>5, <1>6, <1>7, Settles

\* solve preserves the invariant.
LEMMA SolveInv ==
  ASSUME SearchInv, Solve
  PROVE  SearchInv'
<1>1. /\ pc = "ready" /\ calls # <<>> /\ calls' = Tail(calls)
      /\ IF unsat \/ unsatConstraint
         THEN /\ pc' = "unsat" /\ UNCHANGED <<t, caller>>
         ELSE /\ pc' = "propagate" /\ caller' = "solve" /\ t' = Backtrack(t, 0)
      /\ UNCHANGED <<formula, used, db, visiting, conflict, analysis, assumptions,
                     constraint, unsat, unsatConstraint, reductions>>
  BY DEF Solve, Call, clauseVars, limitVars
<1>2. Rests /\ 0 \in 0..Len(t.control)
  BY <1>1, ZeroLevel DEF Rests
<1>3. /\ Store(t', db) /\ Explains(t', db) /\ Sound(formula, db, t')
      /\ ~unsat => WatchesOK(t', db, t'.propagated)
      /\ ~(unsat \/ unsatConstraint) => Len(t'.control) = 0
  BY <1>1, <1>2, BacktrackRests, AtRest
<1>4. visiting = {} /\ conflict = 0 /\ caller = "none"
  BY <1>2, AtRest
<1>5. Plain'
  <2>1. calls' \in Seq(CallType)
    BY <1>1, HeadCall DEF SearchInv
  <2>2. pc' \in {"unsat", "propagate"} /\ caller' \in {"solve", caller}
    BY <1>1
  <2> QED BY <1>1, <2>1, <2>2 DEF SearchInv, Plain, Answered
<1>6. Flow' /\ Refuted'
  BY <1>1, <1>3, <1>4 DEF SearchInv, Flow, Refuted, Models, Answered
<1>7. analysis'.lits \subseteq Lit /\ pc' \notin {"analyze", "resolve"}
  BY <1>1 DEF SearchInv, Analysed
<1> QED BY <1>1, <1>3, <1>4, <1>5, <1>6, <1>7, Settles

\* Dropping assumptions and constraint preserves the invariant.
LEMMA ReleaseInv ==
  ASSUME SearchInv, Release
  PROVE  SearchInv'
<1>1. /\ pc \in Answered /\ pc' = "ready" /\ assumptions' = <<>> /\ constraint' = {}
      /\ unsatConstraint' = FALSE
      /\ UNCHANGED <<formula, used, db, calls, t, visiting, conflict, analysis, unsat,
                     caller, reductions>>
  BY DEF Release, clauseVars, limitVars
<1>2. Rests
  BY <1>1 DEF Rests
<1>3. /\ Store(t, db) /\ Explains(t, db) /\ Sound(formula, db, t)
      /\ visiting = {} /\ conflict = 0 /\ caller = "none"
      /\ ~unsat => WatchesOK(t, db, t.propagated)
  BY <1>2, AtRest
<1>5. Plain'
  <2>1. <<>> \in Seq(Lit)
    OBVIOUS
  <2>2. assumptions' \in Seq(Lit)
    BY <1>1, <2>1
  <2> QED BY <1>1, <2>2 DEF SearchInv, Plain
<1>6. Flow' /\ Refuted'
  BY <1>1, <1>3 DEF SearchInv, Flow, Refuted, Models
<1>7. analysis'.lits \subseteq Lit
  BY <1>1 DEF SearchInv, Analysed
<1> QED BY <1>1, <1>3, <1>5, <1>6, <1>7, Settles

\* Every member of a sequence has a first place in it.
LEMMA FirstPlace ==
  ASSUME NEW s \in Seq(Lit), NEW x \in ToSet(s)
  PROVE  \E i \in DOMAIN s : s[i] = x /\ \A j \in 1..(i - 1) : s[j] # s[i]
<1> DEFINE S == {i \in 1..Len(s) : s[i] = x}
<1>1. DOMAIN s = 1..Len(s) /\ Len(s) \in Nat
  OBVIOUS
<1>2. S \subseteq Nat /\ S # {}
  BY <1>1 DEF ToSet
<1>3. PICK i \in S : \A n \in S : i <= n
  BY <1>2, LeastNumber
<1>4. ASSUME NEW j \in 1..(i - 1) PROVE s[j] # s[i]
  <2>1. j \in 1..Len(s) /\ j < i
    BY <1>1, <1>3
  <2> QED BY <1>3, <2>1
<1> QED BY <1>1, <1>3, <1>4

\* The first two of the places that are kept give the watches.
LEMMA FirstTwo ==
  ASSUME NEW s \in Seq(Lit), NEW K, K \subseteq DOMAIN s,
         \A i \in K : \A j \in 1..(i - 1) : s[j] # s[i],
         NEW R, R = {s[i] : i \in K}, Cardinality(R) > 1,
         NEW w, w = {s[i] : i \in {k \in K : Cardinality({j \in K : j < k}) < 2}}
  PROVE  w \subseteq R /\ Pair(w)
<1> DEFINE Before(k) == {j \in K : j < k}
           I == {k \in K : Cardinality(Before(k)) < 2}
<1>1. DOMAIN s = 1..Len(s) /\ Len(s) \in Nat /\ K \subseteq Nat
  OBVIOUS
<1>2. R \subseteq Lit
  BY <1>1
<1>3. PICK x, y \in R : x # y
  BY <1>2, MoreThanOne
<1>4. PICK a \in K : \A k \in K : a <= k
  <2>1. K # {}
    BY <1>3
  <2> QED BY <1>1, <2>1, LeastNumber
<1>5. PICK b \in K \ {a} : \A k \in K \ {a} : b <= k
  <2>1. K \ {a} # {} /\ K \ {a} \subseteq Nat
    BY <1>1, <1>3
  <2> DEFINE T == K \ {a}
  <2> HIDE DEF T
  <2>2. T # {} /\ T \subseteq Nat
    BY <2>1 DEF T
  <2>3. \E m \in T : \A n \in T : m <= n
    BY <2>2, LeastNumber
  <2> QED BY <2>3 DEF T
<1>6. a < b /\ a \in Nat /\ b \in Nat
  BY <1>1, <1>4, <1>5
<1>7. a \in I
  <2>1. Before(a) = {}
    BY <1>1, <1>4
  <2>2. Cardinality({}) = 0
    BY FS_EmptySet
  <2>3. Cardinality(Before(a)) = 0
    BY <2>1, <2>2
  <2> HIDE DEF Before
  <2> QED BY <2>3
<1>8. b \in I
  <2>1. Before(b) = {a}
    BY <1>1, <1>4, <1>5, <1>6
  <2>2. Cardinality({a}) = 1
    BY FS_Singleton
  <2>3. Cardinality(Before(b)) = 1
    BY <2>1, <2>2
  <2> HIDE DEF Before
  <2> QED BY <2>3
<1>9. ASSUME NEW k \in I PROVE k \in {a, b}
  <2>1. SUFFICES ASSUME k # a, k # b PROVE FALSE
    OBVIOUS
  <2>2. a < k /\ b < k
    BY <1>1, <1>4, <1>5, <2>1
  <2>3. {a, b} \subseteq Before(k)
    BY <1>4, <1>5, <2>2
  <2>4. IsFiniteSet(Before(k))
    <3>1. IsFiniteSet(1..Len(s))
      BY <1>1, FS_Interval
    <3>2. Before(k) \subseteq 1..Len(s)
      BY <1>1
    <3> QED BY <3>1, <3>2, FS_Subset
  <2>5. Cardinality({a, b}) = 2
    <3>1. Cardinality({a}) = 1 /\ IsFiniteSet({a})
      BY FS_Singleton
    <3>2. b \notin {a}
      BY <1>6
    <3>3. Cardinality({a} \cup {b}) = Cardinality({a}) + 1
      BY <3>1, <3>2, FS_AddElement
    <3>4. {a} \cup {b} = {a, b}
      OBVIOUS
    <3> QED BY <3>1, <3>3, <3>4
  <2>6. Cardinality({a, b}) <= Cardinality(Before(k)) /\ Cardinality(Before(k)) \in Nat
    BY <2>3, <2>4, FS_Subset, FS_CardinalityType
  <2>7. Cardinality(Before(k)) < 2
    OBVIOUS
  <2> HIDE DEF Before
  <2> QED BY <2>5, <2>6, <2>7
<1>10. I = {a, b}
  <2> HIDE DEF I
  <2> QED BY <1>7, <1>8, <1>9
<1>11. s[a] # s[b]
  <2>1. a \in 1..(b - 1)
    BY <1>1, <1>4, <1>6
  <2> QED BY <1>5, <2>1
<1>12. w = {s[i] : i \in I}
  OBVIOUS
<1> HIDE DEF I
<1>13. w = {s[a], s[b]}
  BY <1>10, <1>12
<1> QED BY <1>4, <1>5, <1>11, <1>13 DEF Pair

\* A clause is added; the literals that are not false at the root level are
\* left of it.
LEMMA AddInv ==
  ASSUME SearchInv, Add
  PROVE  SearchInv'
<1> DEFINE lits == Head(calls).lits
           root == Backtrack(t, 0)
           kept == {i \in DOMAIN lits :
                      ~IsFalse(root, lits[i]) /\ \A j \in 1..(i - 1) : lits[j] # lits[i]}
           rest == {lits[i] : i \in kept}
           watch == {lits[i] : i \in {k \in kept : Cardinality({j \in kept : j < k}) < 2}}
           skip == unsat \/ \E lit \in ToSet(lits) : IsTrue(root, lit) \/ -lit \in ToSet(lits)
           id == Min(FreeIds)
<1>1. /\ pc = "ready" /\ calls # <<>> /\ calls' = Tail(calls)
      /\ formula' = formula \cup {ToSet(lits)} /\ Internalize(ToSet(lits))
      /\ \/ /\ skip
            /\ t' = root /\ UNCHANGED <<db, unsat, pc, caller>>
         \/ /\ ~skip /\ rest = {}
            /\ unsat' = TRUE /\ t' = root /\ UNCHANGED <<db, pc, caller>>
         \/ /\ ~skip
            /\ \E lit \in rest :
                 /\ rest = {lit}
                 /\ t' = AssignUnit(root, lit)
                 /\ pc' = "propagate" /\ caller' = "add"
                 /\ UNCHANGED <<db, unsat>>
         \/ /\ ~skip /\ Cardinality(rest) > 1 /\ FreeIds # {}
            /\ db' = With(id, NewClause(rest, watch, FALSE))
            /\ t' = root /\ UNCHANGED <<unsat, pc, caller>>
      /\ UNCHANGED <<visiting, conflict, analysis, assumptions, constraint,
                     unsatConstraint, reductions>>
  BY DEF Add, Call, limitVars
<1>2. Rests /\ 0 \in 0..Len(t.control)
  BY <1>1, ZeroLevel DEF Rests
<1>3. /\ Store(root, db) /\ Explains(root, db) /\ Sound(formula, db, root) /\ Len(root.control) = 0
      /\ ~unsat => WatchesOK(root, db, root.propagated)
  BY <1>2, BacktrackRests
<1>4. visiting = {} /\ conflict = 0 /\ caller = "none"
  BY <1>2, AtRest
<1>5. lits \in Seq(Lit) /\ ToSet(lits) \subseteq Lit /\ calls' \in Seq(CallType)
  BY <1>1, HeadCall DEF SearchInv
<1>6. used' \subseteq Var /\ formula' \subseteq SUBSET Lit
  BY <1>1, <1>5, UsedGrows DEF SearchInv, Plain
<1>7. rest = {x \in ToSet(lits) : ~IsFalse(root, x)} /\ rest \subseteq Lit
  <2>1. ASSUME NEW x \in ToSet(lits), ~IsFalse(root, x) PROVE x \in rest
    <3>1. PICK i \in DOMAIN lits : lits[i] = x /\ \A j \in 1..(i - 1) : lits[j] # lits[i]
      BY <1>5, FirstPlace
    <3>2. i \in kept
      BY <2>1, <3>1
    <3> QED BY <3>1, <3>2
  <2>2. ASSUME NEW x \in rest PROVE x \in ToSet(lits) /\ ~IsFalse(root, x)
    BY DEF ToSet
  <2> HIDE DEF rest
  <2> QED BY <1>5, <2>1, <2>2
<1>8. Sound(formula', db, root)
  <2>1. formula \subseteq formula' /\ Sound(formula, db, root)
    BY <1>1, <1>3
  <2> QED BY <2>1, SoundFormula
<1>9. analysis'.lits \subseteq Lit
  BY <1>1 DEF SearchInv, Analysed
<1>10. TrailOK(root) /\ ClausesOK(db) /\ root.propagated \in Nat /\ root.propagated <= Len(root.trail)
  BY <1>3, TrailTypes DEF Store, TrailOK, Heights
<1>11. ASSUME NEW m \in SUBSET Var, IsModel(m, formula', {}) PROVE Holds(m, rest)
  <2>1. PICK x \in ToSet(lits) : True(m, x)
    BY <1>1, <1>11 DEF IsModel, Holds
  <2>2. Satisfies(m, root, LitsOf(db))
    BY <1>8, <1>11 DEF Sound
  <2>3. x \in Lit
    BY <1>5
  <2>4. LevelOf(root, x) = 0
    BY <1>3, <1>10, <2>3, AtRoot
  <2>5. ~IsFalse(root, x)
    BY <1>10, <2>1, <2>2, <2>3, <2>4, RootFalse
  <2> HIDE DEF rest, lits
  <2> QED BY <1>7, <2>1, <2>5 DEF Holds
<1> HIDE DEF lits, root, kept, rest, watch, skip, id
<1>12. CASE skip /\ t' = root /\ UNCHANGED <<db, unsat, pc, caller>>
  <2>1. Plain'
    BY <1>1, <1>5, <1>6, <1>12 DEF SearchInv, Plain
  <2>2. Flow'
    BY <1>1, <1>3, <1>4, <1>12 DEF Flow
  <2>3. Refuted'
    <3>1. unsat => Models(formula) = {}
      BY DEF SearchInv, Refuted
    <3>2. Models(formula') \subseteq Models(formula)
      BY <1>1 DEF Models, IsModel
    <3> QED BY <1>12, <3>1, <3>2 DEF Refuted
  <2> QED BY <1>1, <1>3, <1>4, <1>8, <1>9, <1>12, <2>1, <2>2, <2>3, Settles
<1>13. CASE ~skip /\ rest = {} /\ unsat' = TRUE /\ t' = root /\ UNCHANGED <<db, pc, caller>>
  <2>1. Plain'
    BY <1>1, <1>5, <1>6, <1>13 DEF SearchInv, Plain
  <2>2. Flow'
    BY <1>1, <1>3, <1>4, <1>13 DEF Flow
  <2>3. Refuted'
    BY <1>11, <1>13 DEF Refuted, Models, Holds
  <2> QED BY <1>1, <1>3, <1>4, <1>8, <1>9, <1>13, <2>1, <2>2, <2>3, Settles
<1>14. ASSUME ~skip, NEW lit \in rest, rest = {lit}, t' = AssignUnit(root, lit),
              pc' = "propagate", caller' = "add", UNCHANGED <<db, unsat>>
       PROVE  SearchInv'
  <2>1. lit \in Lit /\ IsOpen(root, lit) /\ ~unsat
    BY <1>7, <1>14 DEF skip, IsOpen
  <2>2. \A m \in SUBSET Var : IsModel(m, formula', {}) => True(m, lit)
    BY <1>11, <1>14 DEF Holds
  <2>3. /\ Store(t', db) /\ Explains(t', db) /\ Sound(formula', db, t')
        /\ Extended(t', root, lit)
        /\ t'.control = root.control /\ t'.propagated = root.propagated
    BY <1>3, <1>8, <1>14, <2>1, <2>2, UnitKeeps
  <2>4. WatchesOK(t', db, t'.propagated)
    <3>1. root.propagated \in Int
      BY <1>10
    <3> QED BY <1>3, <1>10, <2>1, <2>3, <3>1, ExtendedWatches
  <2>5. Plain'
    BY <1>1, <1>5, <1>6, <1>14 DEF SearchInv, Plain
  <2>6. Flow' /\ Refuted'
    BY <1>1, <1>3, <1>4, <1>14, <2>1, <2>3 DEF Flow, Refuted
  <2> QED BY <1>1, <1>4, <1>9, <1>14, <2>3, <2>4, <2>5, <2>6, Settles
<1>15. CASE /\ ~skip /\ Cardinality(rest) > 1 /\ FreeIds # {}
            /\ db' = With(id, NewClause(rest, watch, FALSE))
            /\ t' = root /\ UNCHANGED <<unsat, pc, caller>>
  <2> DEFINE x == NewClause(rest, watch, FALSE)
  <2>0. ~unsat
    BY <1>15 DEF skip
  <2>1. watch \subseteq rest /\ Pair(watch)
    <3>1. kept \subseteq DOMAIN lits /\ \A i \in kept : \A j \in 1..(i - 1) : lits[j] # lits[i]
      BY DEF kept
    <3>2. rest = {lits[i] : i \in kept}
      BY DEF rest
    <3>3. watch = {lits[i] : i \in {k \in kept : Cardinality({j \in kept : j < k}) < 2}}
      BY DEF watch
    <3> QED BY <1>5, <1>15, <3>1, <3>2, <3>3, FirstTwo
  <2>2. /\ x.lits = rest /\ x.watch = watch /\ ~x.garbage /\ x.redundant = FALSE
        /\ ClauseOK(x)
    BY <1>7, <2>1 DEF NewClause, ClauseOK, ClauseType
  <2> HIDE DEF x
  <2>3. id \in Ids \ DOMAIN db /\ id # 0
    BY <1>15, FreeIs DEF id
  <2>4. /\ ClausesOK(db') /\ DOMAIN db' = DOMAIN db \cup {id} /\ db'[id] = x
        /\ \A i \in DOMAIN db : db'[i] = db[i]
    <3>1. db' = Put(db, id, x)
      BY <1>15 DEF x, With, Put
    <3>2. id \in Ids /\ \A i \in DOMAIN db : i \in DOMAIN db \ {id}
      BY <2>3
    <3>3. ClausesOK(db) /\ ClauseOK(x)
      BY <1>10, <2>2
    <3>4. /\ ClausesOK(Put(db, id, x)) /\ DOMAIN Put(db, id, x) = DOMAIN db \cup {id}
          /\ Put(db, id, x)[id] = x
          /\ \A i \in DOMAIN db \ {id} : Put(db, id, x)[i] = db[i]
      BY <3>2, <3>3, PutIs
    <3> QED BY <3>1, <3>2, <3>4
  <2>5. Store(t', db')
    BY <1>3, <1>15, <2>4 DEF Store, Stored
  <2>6. Explains(t', db')
    <3> SUFFICES ASSUME NEW i \in 1..Len(root.trail) PROVE Justified(root, db', i)
      BY <1>15 DEF Explains
    <3>1. Justified(root, db, i)
      BY <1>3 DEF Explains
    <3>2. ReasonOf(root, root.trail[i]) # 0 => ReasonOf(root, root.trail[i]) \in DOMAIN db
      BY <1>10, <3>1, LitsOfIs DEF Justified, Explained
    <3> QED BY <1>10, <2>4, <3>1, <3>2, JustifiedClauses
  <2>7. Sound(formula', db', t')
    <3>1. ASSUME NEW m \in SUBSET Var, NEW i \in DOMAIN db', IsModel(m, formula', {}),
                 Satisfies(m, root, LitsOf(db))
          PROVE  Holds(m, db'[i].lits)
      <4>1. CASE i = id
        BY <1>11, <2>2, <2>4, <3>1, <4>1
      <4>2. CASE i # id
        BY <1>10, <2>4, <3>1, <4>2, LitsOfIs DEF Satisfies
      <4> QED BY <4>1, <4>2
    <3> QED BY <1>8, <1>15, <2>4, <3>1, SoundClauses
  <2>8. WatchesOK(t', db', t'.propagated)
    <3> SUFFICES ASSUME NEW i \in DOMAIN db', NEW p \in 1..root.propagated
                 PROVE  Watched(root, db', i, p)
      BY <1>15 DEF WatchesOK
    <3>1. CASE i = id
      <4>1. p \in 1..Len(root.trail)
        BY <1>10, TrailTypes DEF TrailOK
      <4>2. root.trail[p] \in Lit
        BY <1>10, <4>1, TrailTypes DEF TrailOK
      <4>3. IsFalse(root, -root.trail[p])
        BY <4>1, <4>2, LitFacts DEF IsFalse, Contains
      <4>4. -root.trail[p] \notin watch
        BY <1>7, <2>1, <4>3
      <4> QED BY <2>2, <2>4, <3>1, <4>4 DEF Watched
    <3>2. CASE i # id
      <4>1. i \in DOMAIN db
        BY <2>4, <3>2
      <4>2. Watched(root, db, i, p)
        BY <1>3, <2>0, <4>1 DEF WatchesOK
      <4> QED BY <2>4, <4>1, <4>2 DEF Watched, Supported
    <3> QED BY <3>1, <3>2
  <2>9. Plain'
    BY <1>1, <1>5, <1>6, <1>15 DEF SearchInv, Plain
  <2>10. Flow' /\ Refuted'
    BY <1>1, <1>3, <1>4, <1>15, <2>0 DEF Flow, Refuted
  <2> QED BY <1>1, <1>4, <1>9, <1>15, <2>5, <2>6, <2>7, <2>8, <2>9, <2>10, Settles
<1> QED BY <1>1, <1>12, <1>13, <1>14, <1>15

-----------------------------------------------------------------------------
(* propagate *)

\* Other literals of a clause are watched.
LEMMA Rewatching ==
  ASSUME NEW u, NEW c, Store(u, c), NEW id \in DOMAIN c, NEW w, w \subseteq c[id].lits, Pair(w),
         NEW d, d = Put(c, id, Rewatched(c[id], w)), NEW F, Sound(F, c, u)
  PROVE  /\ Store(u, d) /\ Sound(F, d, u) /\ DOMAIN d = DOMAIN c
         /\ d[id].watch = w /\ \A j \in DOMAIN c \ {id} : d[j] = c[j]
         /\ \A j \in DOMAIN c : d[j].lits = c[j].lits /\ d[j].garbage = c[j].garbage
         /\ \A i \in 1..Len(u.trail) : Justified(u, c, i) => Justified(u, d, i)
<1> DEFINE x == Rewatched(c[id], w)
<1>1. ClausesOK(c) /\ TrailOK(u) /\ Stored(u, c)
  BY DEF Store
<1>2. /\ c[id].lits \subseteq Lit /\ c[id].garbage \in BOOLEAN /\ c[id].redundant \in BOOLEAN
      /\ id \in Ids
  BY <1>1, ClauseFacts DEF ClausesOK
<1>3. x.lits = c[id].lits /\ x.watch = w /\ x.garbage = c[id].garbage
  BY DEF Rewatched
<1>4. ClauseOK(x)
  BY <1>2 DEF Rewatched, ClauseOK, ClauseType
<1> HIDE DEF x
<1>5. d = Put(c, id, x)
  BY DEF x
<1>6. /\ ClausesOK(d) /\ DOMAIN d = DOMAIN c \cup {id} /\ d[id] = x
      /\ \A i \in DOMAIN c \ {id} : d[i] = c[i]
  <2>1. ClausesOK(c) /\ id \in Ids /\ ClauseOK(x)
    BY <1>1, <1>2, <1>4
  <2> QED BY <1>5, <2>1, PutIs
<1>7. DOMAIN d = DOMAIN c
  BY <1>6
<1>8. \A j \in DOMAIN c : d[j].lits = c[j].lits /\ d[j].garbage = c[j].garbage
  BY <1>3, <1>6
<1>9. Store(u, d)
  BY <1>1, <1>6, <1>7 DEF Store, Stored
<1>10. ASSUME NEW i \in 1..Len(u.trail), Justified(u, c, i) PROVE Justified(u, d, i)
  <2>1. ReasonOf(u, u.trail[i]) # 0 => ReasonOf(u, u.trail[i]) \in DOMAIN c
    BY <1>1, <1>10, LitsOfIs DEF Justified, Explained
  <2> QED BY <1>1, <1>6, <1>7, <1>8, <1>10, <2>1, JustifiedClauses
<1>11. Sound(F, d, u)
  <2>1. ASSUME NEW m \in SUBSET Var, NEW i \in DOMAIN d, Satisfies(m, u, LitsOf(c))
        PROVE  Holds(m, d[i].lits)
    BY <1>1, <1>7, <1>8, <2>1, LitsOfIs DEF Satisfies
  <2> QED BY <1>6, <2>1, SoundClauses
<1> QED BY <1>3, <1>6, <1>7, <1>8, <1>9, <1>10, <1>11

\* While literals are propagated.
LEMMA Propagating ==
  ASSUME SearchInv, pc = "propagate"
  PROVE  /\ Store(t, db) /\ Explains(t, db) /\ Sound(formula, db, t) /\ unsat = FALSE
         /\ TrailOK(t) /\ ClausesOK(db) /\ t.propagated \in Nat /\ Len(t.trail) \in Nat
         /\ WatchesOK(t, db, t.propagated - 1)
<1>1. Explains(t, db)
  BY DEF SearchInv, ReasonsOK, Explains
<1>2. unsat = FALSE
  BY DEF SearchInv, Plain, Flow, Answered
<1>3. WatchesOK(t, db, t.propagated - 1)
  BY <1>2 DEF SearchInv, WatchInv
<1>4. Store(t, db) /\ Sound(formula, db, t)
  BY DEF SearchInv
<1> QED BY <1>1, <1>2, <1>3, <1>4, TrailTypes DEF Store, TrailOK

\* Taking the next literal to propagate preserves the invariant: the clauses
\* that watch its negation are to be visited.
LEMMA NextLiteralInv ==
  ASSUME SearchInv, NextLiteral
  PROVE  SearchInv'
<1>1. /\ pc = "propagate" /\ visiting = {} /\ conflict = 0
      /\ t.propagated < Len(t.trail)
      /\ t' = [t EXCEPT !.propagated = @ + 1]
      /\ visiting' = Watches(-t.trail[t.propagated + 1])
      /\ UNCHANGED <<db, conflict, pc, formula, used, calls, assumptions, constraint,
                     reductions, analysis, unsat, unsatConstraint, caller>>
  BY DEF NextLiteral, PropagationUnchanged, queryVars, limitVars
<1>2. /\ Store(t, db) /\ Explains(t, db) /\ Sound(formula, db, t) /\ unsat = FALSE
      /\ TrailOK(t) /\ ClausesOK(db) /\ t.propagated \in Nat /\ Len(t.trail) \in Nat
      /\ WatchesOK(t, db, t.propagated - 1)
  BY <1>1, Propagating
<1>3. /\ TrailOK(t')
      /\ t'.trail = t.trail /\ t'.control = t.control /\ t'.level = t.level
      /\ t'.reason = t.reason /\ t'.propagated = t.propagated + 1
      /\ \A lits : \A i \in 1..Len(t.trail) : Explained(t, lits, i) => Explained(t', lits, i)
  BY <1>1, <1>2, PropagatedOK
<1>4. \A x : /\ LevelOf(t', x) = LevelOf(t, x) /\ ReasonOf(t', x) = ReasonOf(t, x)
             /\ IsTrue(t', x) <=> IsTrue(t, x)
  BY <1>3 DEF LevelOf, ReasonOf, IsTrue
<1>5. Store(t', db')
  BY <1>1, <1>2, <1>3 DEF Store, Stored
<1>6. ReasonsOK'
  <2> SUFFICES ASSUME NEW i \in 1..Len(t.trail) PROVE Justified(t', db, i)
    BY <1>1, <1>3 DEF ReasonsOK
  <2>1. Explained(t, LitsOf(db), i) /\ Alive(t, db, i)
    BY <1>2 DEF Explains, Justified
  <2>2. Explained(t', LitsOf(db), i)
    BY <1>3, <2>1
  <2>3. Alive(t', db, i)
    BY <1>3, <1>4, <2>1 DEF Alive
  <2> QED BY <2>2, <2>3 DEF Justified
<1>7. Sound(formula', db', t')
  BY <1>1, <1>2, <1>3, <1>4, SoundTrail
<1>8. Plain' /\ Flow' /\ Refuted' /\ Analysed'
  BY <1>1, <1>2, <1>3 DEF SearchInv, Plain, Flow, Refuted, Analysed
<1>9. OnTop(t')
  <2>1. \A k \in 1..Len(t.control) : t.control[k].trail <= t.propagated
    BY <1>2 DEF TrailOK, Heights
  <2>2. \A k \in 1..Len(t.control) : t.control[k].trail \in Nat
    BY <1>2, TrailTypes DEF TrailOK
  <2> QED BY <1>2, <1>3, <2>1, <2>2 DEF OnTop
<1>10. Traversal'
  <2>1. visiting' \subseteq DOMAIN db' /\ \A id \in visiting' : -t'.trail[t'.propagated] \in db'[id].watch
    BY <1>1, <1>3 DEF Watches
  <2> QED BY <1>1, <1>9, <2>1 DEF SearchInv, Traversal
<1>11. ASSUME NEW id \in DOMAIN db, NEW p \in 1..t.propagated PROVE Watched(t', db', id, p)
  <2>1. Watched(t, db, id, p)
    <3>1. CASE p = t.propagated
      BY <1>1, <1>2, <3>1 DEF SearchInv, WatchInv
    <3>2. CASE p # t.propagated
      <4>1. p \in 1..(t.propagated - 1)
        BY <1>2, <3>2
      <4> QED BY <1>2, <4>1 DEF WatchesOK
    <3> QED BY <3>1, <3>2
  <2> QED BY <1>1, <1>3, <1>4, <2>1 DEF Watched, Supported
<1>12. WatchInv'
  <2>1. WatchesOK(t', db', t'.propagated - 1)
    <3>1. t'.propagated - 1 = t.propagated
      BY <1>2, <1>3
    <3> QED BY <1>1, <1>11, <3>1 DEF WatchesOK
  <2>2. \A id \in DOMAIN db' \ visiting' : Watched(t', db', id, t'.propagated)
    BY <1>1, <1>3 DEF Watched, Watches
  <2> QED BY <1>1, <2>1, <2>2 DEF WatchInv, Answered
<1> QED BY <1>5, <1>6, <1>7, <1>8, <1>10, <1>12 DEF SearchInv

\* What a visit of a clause leaves alone.
VisitFrame ==
  /\ pc = "propagate"
  /\ UNCHANGED <<pc, formula, used, calls, assumptions, constraint, reductions, analysis,
                 unsat, unsatConstraint, caller>>

\* A visit that changes neither trail nor clause.
LEMMA VisitEnds ==
  ASSUME SearchInv, VisitFrame, OnTop(t), visiting' \subseteq visiting,
         Store(t', db'), Explains(t', db'), Sound(formula, db', t'),
         t'.control = t.control, t'.propagated = t.propagated, DOMAIN db' = DOMAIN db,
         \A j \in visiting' : -t'.trail[t'.propagated] \in db'[j].watch,
         conflict' \in DOMAIN db \cup {0},
         conflict' # 0 => /\ \A x \in db'[conflict'].lits : IsFalse(t', x)
                          /\ Cardinality(db'[conflict'].lits) > 2 => ~db'[conflict'].garbage,
         WatchesOK(t', db', t'.propagated - 1),
         conflict' = 0 => \A j \in DOMAIN db' \ visiting' : Watched(t', db', j, t'.propagated)
  PROVE  SearchInv'
<1>1. unsat = FALSE /\ pc' = "propagate" /\ pc = "propagate"
  BY Propagating DEF VisitFrame
<1>2. Plain' /\ Refuted'
  BY <1>1 DEF SearchInv, Plain, Refuted, VisitFrame
<1>3. Flow'
  BY <1>1 DEF SearchInv, Flow, VisitFrame
<1>4. OnTop(t')
  BY DEF OnTop
<1>5. Traversal'
  BY <1>1, <1>4 DEF SearchInv, Traversal
<1>6. Analysed'
  BY <1>1 DEF SearchInv, Analysed, VisitFrame
<1>7. ReasonsOK'
  BY DEF ReasonsOK, Explains
<1>8. WatchInv'
  BY <1>1 DEF WatchInv, Answered
<1>9. Sound(formula', db', t')
  BY DEF VisitFrame
<1> QED BY <1>2, <1>3, <1>5, <1>6, <1>7, <1>8, <1>9 DEF SearchInv

\* The clause that is visited, and its other watch.
LEMMA Visited ==
  ASSUME SearchInv, pc = "propagate", NEW id \in visiting
  PROVE  /\ id \in DOMAIN db /\ OnTop(t) /\ t.propagated \in 1..Len(t.trail)
         /\ t.trail[t.propagated] \in Lit /\ Falsified = -t.trail[t.propagated]
         /\ Falsified \in Lit /\ IsFalse(t, Falsified)
         /\ OtherWatch(id) \in db[id].lits /\ OtherWatch(id) # Falsified
         /\ db[id].watch = {Falsified, OtherWatch(id)}
         /\ db[id].lits \subseteq Lit /\ id \in Nat \ {0}
<1>1. id \in DOMAIN db /\ OnTop(t) /\ Falsified \in db[id].watch
  BY DEF SearchInv, Traversal, Falsified
<1>2. TrailOK(t) /\ ClausesOK(db) /\ t.propagated \in Nat
  BY Propagating
<1>3. t.propagated \in 1..Len(t.trail)
  BY <1>1, <1>2, TrailTypes DEF OnTop, TrailOK, Heights
<1>4. t.trail[t.propagated] \in Lit
  BY <1>2, <1>3, TrailTypes DEF TrailOK
<1>5. Falsified \in Lit /\ IsFalse(t, Falsified)
  BY <1>3, <1>4, LitFacts DEF Falsified, IsFalse, Contains
<1>6. /\ db[id].lits \subseteq Lit /\ id \in Nat \ {0}
      /\ db[id].watch \subseteq db[id].lits /\ Pair(db[id].watch)
  BY <1>1, <1>2, ClauseFacts
<1>7. PICK y \in db[id].watch : y # Falsified /\ db[id].watch = {Falsified, y}
  BY <1>1, <1>6 DEF Pair
<1>8. OtherWatch(id) = y
  BY <1>7 DEF OtherWatch
<1> QED BY <1>1, <1>3, <1>4, <1>5, <1>6, <1>7, <1>8 DEF Falsified

\* A visit that changes neither the clauses nor the trail.
LEMMA VisitOnly ==
  ASSUME SearchInv, VisitFrame, UNCHANGED <<db, t>>, NEW id \in visiting,
         visiting' \subseteq visiting, conflict' \in DOMAIN db \cup {0},
         conflict' # 0 => /\ \A x \in db[conflict'].lits : IsFalse(t, x)
                          /\ Cardinality(db[conflict'].lits) > 2 => ~db[conflict'].garbage,
         conflict' = 0 => /\ conflict = 0 /\ visiting' = visiting \ {id}
                          /\ Watched(t, db, id, t.propagated)
  PROVE  SearchInv'
<1>1. pc = "propagate"
  BY DEF VisitFrame
<1>2. /\ Store(t, db) /\ Explains(t, db) /\ Sound(formula, db, t) /\ unsat = FALSE
      /\ WatchesOK(t, db, t.propagated - 1)
  BY <1>1, Propagating
<1>3. OnTop(t) /\ t.propagated > 0
  BY <1>1, Visited DEF OnTop
<1>4. \A j \in visiting' : -t'.trail[t'.propagated] \in db'[j].watch
  BY DEF SearchInv, Traversal
<1>5. conflict' = 0 => \A j \in DOMAIN db' \ visiting' : Watched(t', db', j, t'.propagated)
  BY <1>1, <1>2, <1>3 DEF SearchInv, WatchInv
<1> QED BY <1>2, <1>3, <1>4, <1>5, VisitEnds

\* The conflict found before stays one.
LEMMA ConflictStays ==
  ASSUME SearchInv, pc = "propagate"
  PROVE  /\ conflict \in DOMAIN db \cup {0}
         /\ conflict # 0 => /\ \A x \in db[conflict].lits : IsFalse(t, x)
                            /\ Cardinality(db[conflict].lits) > 2 => ~db[conflict].garbage
  BY DEF SearchInv, Traversal

\* A clause with a true literal keeps its watches.
LEMMA KeepWatchInv ==
  ASSUME SearchInv, VisitFrame, NEW id \in visiting, KeepWatch(id)
  PROVE  SearchInv'
<1>1. /\ (\E lit \in db[id].lits : IsTrue(t, lit)) \/ db[id].garbage
      /\ visiting' = visiting \ {id} /\ UNCHANGED <<db, t, conflict>>
  BY DEF KeepWatch, Lits
<1>2. id \in DOMAIN db /\ OnTop(t) /\ TrailOK(t) /\ ClausesOK(db)
  BY Visited, Propagating DEF VisitFrame
<1>3. Watched(t, db, id, t.propagated)
  BY <1>1, <1>2, SupportedAbove DEF Watched, OnTop
<1>4. /\ conflict \in DOMAIN db \cup {0}
      /\ conflict # 0 => /\ \A x \in db[conflict].lits : IsFalse(t, x)
                         /\ Cardinality(db[conflict].lits) > 2 => ~db[conflict].garbage
  BY ConflictStays DEF VisitFrame
<1> QED BY <1>1, <1>3, <1>4, VisitOnly

\* A conflict of a binary clause ends the traversal.
LEMMA StopAtLongInv ==
  ASSUME SearchInv, VisitFrame, NEW id \in visiting, StopAtLong
  PROVE  SearchInv'
<1>1. conflict # 0 /\ visiting' = {} /\ UNCHANGED <<db, t, conflict>>
  BY DEF StopAtLong
<1>2. /\ conflict \in DOMAIN db \cup {0}
      /\ conflict # 0 => /\ \A x \in db[conflict].lits : IsFalse(t, x)
                         /\ Cardinality(db[conflict].lits) > 2 => ~db[conflict].garbage
  BY ConflictStays DEF VisitFrame
<1> QED BY <1>1, <1>2, VisitOnly

\* A falsified clause is the conflict.
LEMMA FalsifiedClauseInv ==
  ASSUME SearchInv, VisitFrame, NEW id \in visiting, FalsifiedClause(id)
  PROVE  SearchInv'
<1>1. /\ ~db[id].garbage /\ \A lit \in db[id].lits : IsFalse(t, lit)
      /\ conflict' = id /\ visiting' = {} /\ UNCHANGED <<db, t>>
  BY DEF FalsifiedClause, Lits
<1>2. id \in DOMAIN db /\ id # 0
  BY Visited DEF VisitFrame
<1> QED BY <1>1, <1>2, VisitOnly

\* A clause implies its other watch.
LEMMA ImplyVisit ==
  ASSUME SearchInv, VisitFrame, NEW id \in visiting,
         NEW other, other = OtherWatch(id), Implies(t, db, other, id),
         NEW u, u = Imply(t, other, id, db[id].lits)
  PROVE  /\ Store(u, db) /\ Explains(u, db) /\ Sound(formula, db, u)
         /\ other \in Lit /\ Extended(u, t, other) /\ u.control = t.control /\ u.propagated = t.propagated
         /\ \A j \in visiting : -u.trail[u.propagated] \in db[j].watch
         /\ WatchesOK(u, db, u.propagated - 1)
         /\ conflict = 0 => \A j \in (DOMAIN db \ visiting) \cup {id} : Watched(u, db, j, u.propagated)
         /\ conflict # 0 => \A x \in db[conflict].lits : IsFalse(u, x)
         /\ LevelOf(u, other) = HighestLevel(t, db[id].lits \ {other})
         /\ HighestLevel(t, db[id].lits \ {other}) \in 0..Len(t.control)
<1>1. pc = "propagate"
  BY DEF VisitFrame
<1>2. /\ Store(t, db) /\ Explains(t, db) /\ Sound(formula, db, t) /\ unsat = FALSE
      /\ TrailOK(t) /\ ClausesOK(db) /\ t.propagated \in Nat /\ Len(t.trail) \in Nat
      /\ WatchesOK(t, db, t.propagated - 1)
  BY <1>1, Propagating
<1>3. id \in DOMAIN db /\ OnTop(t) /\ t.propagated \in 1..Len(t.trail) /\ db[id].lits \subseteq Lit
  BY <1>1, Visited
<1> DEFINE k == HighestLevel(t, db[id].lits \ {other})
<1>a. Keeps(u, t, db, formula, other, k)
  BY <1>2, ImplyKeeps
<1> HIDE DEF k
<1>4. /\ Store(u, db) /\ Explains(u, db) /\ Sound(formula, db, u)
      /\ Extended(u, t, other) /\ k \in 0..Len(t.control)
      /\ LevelOf(u, other) = k
      /\ u.control = t.control /\ u.propagated = t.propagated
  BY <1>a DEF Keeps
<1>5. other \in Lit /\ other \in db[id].lits /\ IsOpen(t, other)
  BY <1>3 DEF Implies
<1>6. u.trail[u.propagated] = t.trail[t.propagated] /\ IsTrue(u, other)
  BY <1>3, <1>4, <1>5 DEF Extended
<1>7. \A j \in visiting : -u.trail[u.propagated] \in db[j].watch
  BY <1>6 DEF SearchInv, Traversal
<1>8. WatchesOK(u, db, u.propagated - 1)
  <2>1. t.propagated - 1 \in Int /\ t.propagated - 1 <= Len(t.trail)
    BY <1>2, <1>3
  <2> DEFINE q == t.propagated - 1
  <2> HIDE DEF q
  <2>2. q \in Int /\ q <= Len(t.trail) /\ WatchesOK(t, db, q)
    BY <1>2, <2>1 DEF q
  <2>3. WatchesOK(u, db, q)
    BY <1>2, <1>4, <1>5, <2>2, ExtendedWatches
  <2> QED BY <1>4, <2>3 DEF q
<1>9. ASSUME conflict = 0, NEW j \in (DOMAIN db \ visiting) \cup {id}
      PROVE  Watched(u, db, j, u.propagated)
  <2>1. CASE j = id
    <3>1. \A n \in 1..Len(u.control) : u.control[n].trail < u.propagated
      BY <1>3, <1>4 DEF OnTop
    <3>2. TrailOK(u)
      BY <1>4 DEF Store
    <3>3. Supported(u, db, id, u.propagated)
      BY <1>2, <1>3, <1>5, <1>6, <3>1, <3>2, SupportedAbove
    <3> QED BY <2>1, <3>3 DEF Watched
  <2>2. CASE j # id
    <3>1. j \in DOMAIN db \ visiting /\ t.propagated > 0
      BY <1>3, <2>2 DEF OnTop
    <3>2. Watched(t, db, j, t.propagated)
      BY <1>1, <1>2, <1>9, <3>1 DEF SearchInv, WatchInv
    <3>3. j \in DOMAIN db
      BY <3>1
    <3>4. Watched(u, db, j, t.propagated)
      BY <1>2, <1>3, <1>4, <1>5, <3>2, <3>3, ExtendedWatched
    <3> QED BY <1>4, <3>4
  <2> QED BY <2>1, <2>2
<1>10. ASSUME conflict # 0, NEW x \in db[conflict].lits PROVE IsFalse(u, x)
  <2>1. conflict \in DOMAIN db /\ IsFalse(t, x)
    BY <1>10 DEF SearchInv, Traversal
  <2>2. x \in Lit
    BY <1>2, <2>1, ClauseFacts
  <2> QED BY <1>2, <1>4, <1>5, <2>1, <2>2, ExtendedKeeps
<1> QED BY <1>4, <1>5, <1>7, <1>8, <1>9, <1>10 DEF k

\* A binary clause is a conflict, forces its other literal, or is left alone.
LEMMA VisitBinaryInv ==
  ASSUME SearchInv, VisitFrame, NEW id \in visiting, VisitBinary(id)
  PROVE  SearchInv'
<1> DEFINE other == OtherWatch(id)
<1>1. /\ Cardinality(db[id].lits) = 2 /\ visiting' = visiting \ {id}
      /\ conflict' = IF IsFalse(t, other) THEN id ELSE conflict
      /\ t' = IF IsOpen(t, other) THEN Imply(t, other, id, db[id].lits) ELSE t
      /\ UNCHANGED db
  BY DEF VisitBinary, Lits
<1>2. /\ id \in DOMAIN db /\ OnTop(t) /\ IsFalse(t, Falsified) /\ id \in Nat \ {0}
      /\ other \in db[id].lits /\ other # Falsified /\ db[id].watch = {Falsified, other}
      /\ db[id].lits \subseteq Lit
  BY Visited DEF VisitFrame
<1>3. TrailOK(t) /\ ClausesOK(db)
  BY Propagating DEF VisitFrame
<1>4. db[id].lits = {Falsified, other}
  <2>1. db[id].watch \subseteq db[id].lits /\ Pair(db[id].watch) /\ db[id].watch \subseteq Lit
    BY <1>2, <1>3, ClauseFacts
  <2>2. Cardinality(db[id].watch) = 2
    BY <2>1, PairSize
  <2>3. db[id].watch = db[id].lits
    BY <1>1, <1>2, <2>1, <2>2, LitSet
  <2> QED BY <1>2, <2>3
<1>5. /\ conflict \in DOMAIN db \cup {0}
      /\ conflict # 0 => /\ \A x \in db[conflict].lits : IsFalse(t, x)
                         /\ Cardinality(db[conflict].lits) > 2 => ~db[conflict].garbage
  BY ConflictStays DEF VisitFrame
<1> HIDE DEF other
<1>6. CASE IsFalse(t, other)
  <2>1. t' = t /\ conflict' = id
    BY <1>1, <1>6 DEF IsOpen
  <2>2. \A x \in db[id].lits : IsFalse(t, x)
    BY <1>2, <1>4, <1>6
  <2>3. ~(Cardinality(db[id].lits) > 2)
    BY <1>1
  <2> QED BY <1>1, <1>2, <2>1, <2>2, <2>3, VisitOnly
<1>7. CASE IsTrue(t, other)
  <2>1. ~IsFalse(t, other)
    BY <1>2, <1>3, <1>7, NotBoth
  <2>2. t' = t /\ conflict' = conflict
    BY <1>1, <1>7, <2>1 DEF IsOpen
  <2>3. Watched(t, db, id, t.propagated)
    BY <1>2, <1>3, <1>7, SupportedAbove DEF Watched, OnTop
  <2> QED BY <1>1, <1>5, <2>2, <2>3, VisitOnly
<1>8. CASE IsOpen(t, other)
  <2>1. t' = Imply(t, other, id, db[id].lits) /\ conflict' = conflict
    BY <1>1, <1>8 DEF IsOpen
  <2>2. Implies(t, db, other, id)
    <3>1. ~(Cardinality(db[id].lits) > 2)
      BY <1>1
    <3> QED BY <1>2, <1>4, <1>8, <3>1 DEF Implies
  <2>3. /\ Store(t', db) /\ Explains(t', db) /\ Sound(formula, db, t')
        /\ Extended(t', t, other) /\ t'.control = t.control /\ t'.propagated = t.propagated
        /\ \A j \in visiting : -t'.trail[t'.propagated] \in db[j].watch
        /\ WatchesOK(t', db, t'.propagated - 1)
        /\ conflict = 0 => \A j \in (DOMAIN db \ visiting) \cup {id} : Watched(t', db, j, t'.propagated)
        /\ conflict # 0 => \A x \in db[conflict].lits : IsFalse(t', x)
    <3>1. other = OtherWatch(id)
      BY DEF other
    <3> QED BY <2>1, <2>2, <3>1, ImplyVisit
  <2>4. DOMAIN db \ visiting' \subseteq (DOMAIN db \ visiting) \cup {id}
    BY <1>1
  <2> QED BY <1>1, <1>2, <1>5, <2>1, <2>3, <2>4, VisitEnds
<1> QED BY <1>6, <1>7, <1>8 DEF IsOpen

\* A clause with the same literals that is not garbage in one is supported in
\* the other.
LEMMA SameClause ==
  ASSUME NEW u, NEW c, NEW d, NEW id, d[id] = c[id], NEW p, Watched(u, c, id, p)
  PROVE  Watched(u, d, id, p)
  BY DEF Watched, Supported

\* An open literal is watched in the place of the false one.
LEMMA ReplaceWatchInv ==
  ASSUME SearchInv, VisitFrame, NEW id \in visiting, ReplaceWatch(id)
  PROVE  SearchInv'
<1> DEFINE other == OtherWatch(id)
<1>1. PICK lit \in db[id].lits \ db[id].watch :
        IsOpen(t, lit) /\ db' = With(id, Rewatched(db[id], {other, lit}))
  BY DEF ReplaceWatch, Lits
<1>2. conflict = 0 /\ conflict' = 0 /\ visiting' = visiting \ {id} /\ t' = t
  BY DEF ReplaceWatch
<1>3. pc = "propagate"
  BY DEF VisitFrame
<1>4. /\ id \in DOMAIN db /\ OnTop(t) /\ t.propagated \in 1..Len(t.trail)
      /\ Falsified = -t.trail[t.propagated] /\ Falsified \in Lit /\ IsFalse(t, Falsified)
      /\ other \in db[id].lits /\ other # Falsified /\ db[id].watch = {Falsified, other}
      /\ db[id].lits \subseteq Lit
  BY <1>3, Visited
<1>5. /\ Store(t, db) /\ Explains(t, db) /\ Sound(formula, db, t) /\ unsat = FALSE
      /\ TrailOK(t) /\ ClausesOK(db) /\ t.propagated \in Nat /\ Len(t.trail) \in Nat
      /\ WatchesOK(t, db, t.propagated - 1)
  BY <1>3, Propagating
<1> HIDE DEF other
<1> DEFINE w == {other, lit}
           d == Put(db, id, Rewatched(db[id], w))
<1>6. db' = d
  BY <1>1 DEF With, Put
<1>7. w \subseteq db[id].lits /\ Pair(w)
  BY <1>1, <1>4 DEF Pair
<1> HIDE DEF w, d
<1>8. /\ Store(t, d) /\ Sound(formula, d, t) /\ DOMAIN d = DOMAIN db
      /\ d[id].watch = w /\ \A j \in DOMAIN db \ {id} : d[j] = db[j]
      /\ \A j \in DOMAIN db : d[j].lits = db[j].lits /\ d[j].garbage = db[j].garbage
      /\ \A i \in 1..Len(t.trail) : Justified(t, db, i) => Justified(t, d, i)
  <2>1. /\ Store(t, db) /\ id \in DOMAIN db /\ w \subseteq db[id].lits /\ Pair(w)
        /\ d = Put(db, id, Rewatched(db[id], w)) /\ Sound(formula, db, t)
    BY <1>4, <1>5, <1>7 DEF d
  <2> QED BY <2>1, Rewatching
<1>9. Explains(t, d)
  BY <1>5, <1>8 DEF Explains
<1>10. \A p \in 1..Len(t.trail) : -t.trail[p] # lit
  <2> SUFFICES ASSUME NEW p \in 1..Len(t.trail), -t.trail[p] = lit PROVE FALSE
    OBVIOUS
  <2>1. t.trail[p] \in Lit
    BY <1>5, TrailTypes DEF TrailOK
  <2>2. t.trail[p] = -lit
    BY <2>1, LitFacts
  <2> QED BY <1>1, <2>2 DEF IsOpen, IsFalse, Contains
<1>11. ASSUME NEW p \in 1..Len(t.trail), Watched(t, db, id, p) \/ p = t.propagated
       PROVE  Watched(t, d, id, p)
  <2> SUFFICES ASSUME ~d[id].garbage, -t.trail[p] \in d[id].watch
               PROVE  Supported(t, d, id, p)
    BY DEF Watched
  <2>1. -t.trail[p] = other
    BY <1>8, <1>10 DEF w
  <2>2. Watched(t, db, id, p)
    BY <1>4, <1>11, <2>1
  <2>3. Supported(t, db, id, p)
    BY <1>4, <1>8, <2>1, <2>2 DEF Watched
  <2> QED BY <1>4, <1>8, <2>3 DEF Supported
<1>12. WatchesOK(t, d, t.propagated - 1)
  <2> SUFFICES ASSUME NEW j \in DOMAIN d, NEW p \in 1..(t.propagated - 1) PROVE Watched(t, d, j, p)
    BY DEF WatchesOK
  <2>1. p \in 1..Len(t.trail) /\ Watched(t, db, j, p)
    BY <1>4, <1>5, <1>8 DEF WatchesOK
  <2>2. CASE j = id
    BY <1>11, <2>1, <2>2
  <2>3. CASE j # id
    BY <1>8, <2>1, <2>3, SameClause
  <2> QED BY <2>2, <2>3
<1>13. ASSUME NEW j \in DOMAIN d \ (visiting \ {id}) PROVE Watched(t, d, j, t.propagated)
  <2>1. CASE j = id
    BY <1>4, <1>11, <2>1
  <2>2. CASE j # id
    <3>1. j \in DOMAIN db \ visiting /\ d[j] = db[j]
      BY <1>8, <2>2
    <3>2. t.propagated > 0
      BY <1>4
    <3>3. Watched(t, db, j, t.propagated)
      BY <1>2, <1>3, <1>5, <3>1, <3>2 DEF SearchInv, WatchInv
    <3> QED BY <3>1, <3>3, SameClause
  <2> QED BY <2>1, <2>2
<1>14. \A j \in visiting' : -t'.trail[t'.propagated] \in db'[j].watch
  BY <1>2, <1>6, <1>8 DEF SearchInv, Traversal
<1> QED BY <1>2, <1>4, <1>6, <1>8, <1>9, <1>12, <1>13, <1>14, VisitEnds

\* The other watch is forced.
LEMMA UnitInv ==
  ASSUME SearchInv, VisitFrame, NEW id \in visiting, Unit(id)
  PROVE  SearchInv'
<1> DEFINE other == OtherWatch(id)
<1>1. /\ conflict = 0 /\ conflict' = 0 /\ ~db[id].garbage /\ IsOpen(t, other)
      /\ \A lit \in db[id].lits \ {other} : IsFalse(t, lit)
      /\ t' = Imply(t, other, id, db[id].lits) /\ visiting' = visiting \ {id}
  BY DEF Unit, Lits
<1>2. \/ UNCHANGED db
      \/ \E lit \in db[id].lits \ {other} :
           /\ LevelOf(t, lit) = LevelOf(t', other)
           /\ db' = With(id, Rewatched(db[id], {other, lit}))
  BY DEF Unit, Lits
<1>3. pc = "propagate"
  BY DEF VisitFrame
<1>4. /\ id \in DOMAIN db /\ OnTop(t) /\ t.propagated \in 1..Len(t.trail)
      /\ other \in db[id].lits /\ db[id].lits \subseteq Lit
  BY <1>3, Visited
<1>5. TrailOK(t) /\ ClausesOK(db) /\ unsat = FALSE /\ Len(t.trail) \in Nat /\ t.propagated \in Nat
  BY <1>3, Propagating
<1>6. Implies(t, db, other, id)
  BY <1>1, <1>4 DEF Implies
<1>7. other = OtherWatch(id)
  OBVIOUS
<1> HIDE DEF other
<1>8. /\ Store(t', db) /\ Explains(t', db) /\ Sound(formula, db, t')
      /\ other \in Lit /\ Extended(t', t, other) /\ t'.control = t.control /\ t'.propagated = t.propagated
      /\ \A j \in visiting : -t'.trail[t'.propagated] \in db[j].watch
      /\ WatchesOK(t', db, t'.propagated - 1)
      /\ conflict = 0 => \A j \in (DOMAIN db \ visiting) \cup {id} : Watched(t', db, j, t'.propagated)
      /\ LevelOf(t', other) = HighestLevel(t, db[id].lits \ {other})
  BY <1>1, <1>6, <1>7, ImplyVisit
<1>9. CASE UNCHANGED db
  <2>1. DOMAIN db \ visiting' \subseteq (DOMAIN db \ visiting) \cup {id}
    BY <1>1
  <2> QED BY <1>1, <1>4, <1>8, <1>9, <2>1, VisitEnds
<1>10. ASSUME NEW lit \in db[id].lits \ {other}, LevelOf(t, lit) = LevelOf(t', other),
              db' = With(id, Rewatched(db[id], {other, lit}))
       PROVE  SearchInv'
  <2> DEFINE w == {other, lit}
             d == Put(db, id, Rewatched(db[id], w))
  <2>1. db' = d
    BY <1>10 DEF With, Put
  <2>2. w \subseteq db[id].lits /\ Pair(w)
    BY <1>4, <1>10 DEF Pair
  <2> HIDE DEF w, d
  <2>3. /\ Store(t', d) /\ Sound(formula, d, t') /\ DOMAIN d = DOMAIN db
        /\ d[id].watch = w /\ \A j \in DOMAIN db \ {id} : d[j] = db[j]
        /\ \A j \in DOMAIN db : d[j].lits = db[j].lits /\ d[j].garbage = db[j].garbage
        /\ \A i \in 1..Len(t'.trail) : Justified(t', db, i) => Justified(t', d, i)
    <3>1. /\ Store(t', db) /\ id \in DOMAIN db /\ w \subseteq db[id].lits /\ Pair(w)
          /\ d = Put(db, id, Rewatched(db[id], w)) /\ Sound(formula, db, t')
      BY <1>4, <1>8, <2>2 DEF d
    <3> QED BY <3>1, Rewatching
  <2>4. Explains(t', d)
    BY <1>8, <2>3 DEF Explains
  <2>5. ASSUME NEW p \in 1..Len(t.trail) PROVE Watched(t', d, id, p)
    <3> DEFINE lits == db[id].lits
    <3>1. /\ lits \subseteq Lit /\ other \in lits /\ lit \in lits \ {other}
          /\ d[id].lits = lits /\ d[id].watch \subseteq {other, lit}
      BY <1>4, <1>10, <2>3 DEF w
    <3>2. LevelOf(t', other) = HighestLevel(t, lits \ {other})
      BY <1>8
    <3> HIDE DEF lits
    <3>3. \A b \in lits \ {other} : LevelOf(t, b) <= LevelOf(t, lit)
      <4>1. lits \ {other} \subseteq Lit
        BY <3>1
      <4>2. \A b \in lits \ {other} : LevelOf(t, b) <= HighestLevel(t, lits \ {other})
        BY <1>5, <4>1, HighestIs
      <4> QED BY <1>10, <3>2, <4>2
    <3>4. TrailOK(t) /\ other \in Lit /\ IsOpen(t, other) /\ Extended(t', t, other)
          /\ t'.control = t.control
      BY <1>1, <1>5, <1>8
    <3> QED BY <3>1, <3>2, <3>3, <3>4, ForcedWatched
  <2>6. WatchesOK(t', d, t'.propagated - 1)
    <3> SUFFICES ASSUME NEW j \in DOMAIN d, NEW p \in 1..(t.propagated - 1) PROVE Watched(t', d, j, p)
      BY <1>8 DEF WatchesOK
    <3>1. p \in 1..Len(t.trail) /\ Watched(t', db, j, p)
      BY <1>4, <1>5, <1>8, <2>3 DEF WatchesOK
    <3>2. CASE j = id
      BY <2>5, <3>1, <3>2
    <3>3. CASE j # id
      BY <2>3, <3>1, <3>3, SameClause
    <3> QED BY <3>2, <3>3
  <2>7. ASSUME NEW j \in DOMAIN d \ (visiting \ {id}) PROVE Watched(t', d, j, t'.propagated)
    <3>1. CASE j = id
      BY <1>4, <1>8, <2>5, <3>1
    <3>2. CASE j # id
      <4>1. j \in (DOMAIN db \ visiting) \cup {id} /\ d[j] = db[j]
        BY <2>3, <3>2
      <4> QED BY <1>1, <1>8, <4>1, SameClause
    <3> QED BY <3>1, <3>2
  <2>8. \A j \in visiting' : -t'.trail[t'.propagated] \in db'[j].watch
    <3>1. \A j \in visiting' : j \in visiting /\ d[j] = db[j]
      BY <1>1, <2>3 DEF SearchInv, Traversal
    <3> QED BY <1>8, <2>1, <3>1
  <2> QED BY <1>1, <1>4, <1>8, <2>1, <2>3, <2>4, <2>6, <2>7, <2>8, VisitEnds
<1> QED BY <1>2, <1>9, <1>10

\* Every visit of a watched clause preserves the invariant.
LEMMA VisitInv ==
  ASSUME SearchInv, Visit
  PROVE  SearchInv'
<1>1. VisitFrame
  BY DEF Visit, VisitFrame, PropagationUnchanged, queryVars, limitVars
<1>2. PICK id \in visiting :
        VisitBinary(id) \/ KeepWatch(id) \/ StopAtLong \/ ReplaceWatch(id) \/ Unit(id)
          \/ FalsifiedClause(id)
  BY DEF Visit
<1> QED BY <1>1, <1>2, VisitBinaryInv, KeepWatchInv, StopAtLongInv, ReplaceWatchInv, UnitInv,
           FalsifiedClauseInv

\* Outside the search loop the conflict is at the root level, where it refutes
\* the formula.
LEMMA RootConflict ==
  ASSUME SearchInv, conflict # 0, Len(t.control) = 0
  PROVE  Models(formula) = {}
<1>1. Store(t, db) /\ Sound(formula, db, t) /\ TrailOK(t) /\ ClausesOK(db)
  BY DEF SearchInv, Store
<1>2. conflict \in DOMAIN db /\ \A x \in db[conflict].lits : IsFalse(t, x)
  BY DEF SearchInv, Traversal
<1> SUFFICES ASSUME NEW m \in Models(formula) PROVE FALSE
  OBVIOUS
<1>3. Satisfies(m, t, LitsOf(db))
  BY <1>1 DEF Sound, Models
<1>4. PICK x \in db[conflict].lits : True(m, x)
  BY <1>1, <1>2, <1>3, LitsOfIs DEF Satisfies, Holds
<1>5. x \in Lit
  BY <1>1, <1>2, ClauseFacts
<1> QED BY <1>1, <1>2, <1>3, <1>4, <1>5, AtRoot, RootFalse

\* The end of propagate preserves the invariant; a conflict outside the search
\* loop refutes the formula.
LEMMA PropagatedInv ==
  ASSUME SearchInv, Propagated
  PROVE  SearchInv'
<1>1. /\ pc = "propagate" /\ visiting = {} /\ (conflict # 0 \/ t.propagated = Len(t.trail))
      /\ unsat' = (unsat \/ (conflict # 0 /\ caller # "search"))
      /\ conflict' = IF caller = "search" THEN conflict ELSE 0
      /\ caller' = "none"
      /\ UNCHANGED <<formula, used, db, calls, assumptions, constraint, reductions, t, visiting,
                     analysis, unsatConstraint>>
  BY DEF Propagated, clauseVars, queryVars
<1>2. /\ Store(t, db) /\ Explains(t, db) /\ Sound(formula, db, t) /\ unsat = FALSE
      /\ TrailOK(t) /\ ClausesOK(db) /\ t.propagated \in Nat /\ Len(t.trail) \in Nat
      /\ WatchesOK(t, db, t.propagated - 1)
  BY <1>1, Propagating
<1>3. caller \in {"add", "solve", "search", "reduce"}
  BY <1>1 DEF SearchInv, Plain, Flow
<1>4. caller # "search" => Len(t.control) = 0
  BY <1>3 DEF SearchInv, Flow
<1>5. analysis'.lits \subseteq Lit
  BY <1>1 DEF SearchInv, Analysed
<1>6. CASE conflict = 0
  <2>1. /\ unsat' = FALSE /\ conflict' = 0 /\ t.propagated = Len(t.trail)
    BY <1>1, <1>2, <1>6
  <2>2. pc' = CASE caller = "add" -> "ready" [] caller = "reduce" -> "collect" [] OTHER -> "loop"
    BY <1>3, <1>6 DEF Propagated
  <2>3. pc' \in {"ready", "collect", "loop"} /\ (pc' = "collect" => caller = "reduce")
    BY <1>3, <2>2
  <2>4. WatchesOK(t, db, t.propagated)
    <3> SUFFICES ASSUME NEW j \in DOMAIN db, NEW p \in 1..t.propagated PROVE Watched(t, db, j, p)
      BY DEF WatchesOK
    <3>1. CASE p = t.propagated
      BY <1>1, <1>2, <1>6, <3>1 DEF SearchInv, WatchInv
    <3>2. CASE p # t.propagated
      <4>1. p \in 1..(t.propagated - 1)
        BY <1>2, <3>2
      <4> QED BY <1>2, <4>1 DEF WatchesOK
    <3> QED BY <3>1, <3>2
  <2>5. Plain' /\ Refuted'
    BY <1>1, <2>1, <2>3 DEF SearchInv, Plain, Refuted
  <2>6. Flow'
    BY <1>1, <1>4, <2>1, <2>3 DEF Flow
  <2> QED BY <1>1, <1>2, <1>5, <2>1, <2>3, <2>4, <2>5, <2>6, Settles
<1>7. CASE conflict # 0 /\ caller # "search"
  <2>1. unsat' = TRUE /\ conflict' = 0
    BY <1>1, <1>7
  <2>2. pc' = CASE caller = "add" -> "ready" [] OTHER -> "unsat"
    BY <1>3, <1>7 DEF Propagated
  <2>3. pc' \in {"ready", "unsat"}
    BY <1>3, <2>2
  <2>4. Models(formula) = {}
    BY <1>4, <1>7, RootConflict
  <2>5. Plain'
    BY <1>1, <2>1, <2>3 DEF SearchInv, Plain, Answered
  <2>6. Refuted'
    BY <1>1, <2>4 DEF Refuted, Models
  <2>7. Flow'
    BY <1>1, <2>1, <2>3 DEF Flow, Answered
  <2> QED BY <1>1, <1>2, <1>5, <2>1, <2>3, <2>5, <2>6, <2>7, Settles
<1>8. CASE conflict # 0 /\ caller = "search"
  <2>1. unsat' = FALSE /\ conflict' = conflict /\ pc' = "analyze"
    BY <1>1, <1>2, <1>8 DEF Propagated
  <2>2. Plain'
    BY <1>1, <2>1 DEF SearchInv, Plain
  <2>3. Flow' /\ Refuted'
    BY <1>1, <1>8, <2>1 DEF Flow, Refuted
  <2>4. Traversal'
    BY <1>1, <1>8, <2>1 DEF SearchInv, Traversal
  <2>5. Analysed' /\ ReasonsOK'
    BY <1>1, <1>2, <1>5, <2>1 DEF Analysed, ReasonsOK, Explains
  <2>6. WatchInv'
    BY <1>1, <1>2, <2>1 DEF WatchInv, Answered
  <2>7. Store(t', db') /\ Sound(formula', db', t')
    BY <1>1, <1>2
  <2> QED BY <2>2, <2>3, <2>4, <2>5, <2>6, <2>7 DEF SearchInv
<1> QED BY <1>6, <1>7, <1>8

-----------------------------------------------------------------------------
(* The branches of the main loop. *)

\* What holds in the main loop.
LEMMA InLoop ==
  ASSUME SearchInv, pc = "loop"
  PROVE  /\ Store(t, db) /\ Explains(t, db) /\ Sound(formula, db, t) /\ TrailOK(t) /\ ClausesOK(db)
         /\ visiting = {} /\ conflict = 0 /\ caller = "none" /\ unsat = FALSE
         /\ WatchesOK(t, db, t.propagated) /\ t.propagated = Len(t.trail)
         /\ Rests
<1>1. Rests
  BY DEF Rests
<1>2. unsat = FALSE /\ t.propagated = Len(t.trail)
  BY DEF SearchInv, Plain, Flow, Answered
<1> QED BY <1>1, <1>2, AtRest DEF Store

\* A branch that leads to an answer, or back to propagation.
LEMMA LoopStep ==
  ASSUME SearchInv, pc = "loop", LoopUnchanged, unsatConstraint' \in BOOLEAN,
         reductions' \in 0..MaxReductions,
         Store(t', db), Explains(t', db), Sound(formula, db, t'), WatchesOK(t', db, t'.propagated),
         \/ pc' \in Answered /\ caller' = "none"
         \/ pc' = "propagate" /\ caller' = "search"
         \/ pc' = "propagate" /\ caller' = "reduce" /\ Len(t'.control) = 0
  PROVE  SearchInv'
<1>1. UNCHANGED <<formula, used, db, calls, assumptions, constraint, visiting, conflict,
                  analysis, unsat>>
  BY DEF LoopUnchanged, clauseVars
<1>2. visiting = {} /\ conflict = 0 /\ unsat = FALSE
  BY InLoop
<1>3. Plain'
  BY <1>1 DEF SearchInv, Plain, Answered
<1>4. Flow' /\ Refuted'
  BY <1>1, <1>2 DEF Flow, Refuted, Answered
<1>5. analysis'.lits \subseteq Lit /\ pc' \notin {"analyze", "resolve"}
  BY <1>1 DEF SearchInv, Analysed, Answered
<1> QED BY <1>1, <1>2, <1>3, <1>4, <1>5, Settles

\* An answer preserves the invariant.
LEMMA AnswerInv ==
  ASSUME SearchInv, FoundModel \/ GiveUp \/ FailAssumption \/ FailConstraint
  PROVE  SearchInv'
<1>1. /\ pc = "loop" /\ pc' \in Answered /\ LoopUnchanged
      /\ UNCHANGED <<t, caller, reductions>>
      /\ unsatConstraint' \in {unsatConstraint, TRUE}
  BY DEF FoundModel, GiveUp, FailAssumption, FailConstraint, limitVars, Answered
<1>2. unsatConstraint' \in BOOLEAN /\ reductions' \in 0..MaxReductions
  BY <1>1 DEF SearchInv, Plain
<1>3. /\ Store(t', db) /\ Explains(t', db) /\ Sound(formula, db, t')
      /\ WatchesOK(t', db, t'.propagated) /\ caller' = "none"
  BY <1>1, InLoop
<1> QED BY <1>1, <1>2, <1>3, LoopStep

\* A restart preserves the invariant.
LEMMA RestartInv ==
  ASSUME SearchInv, Restart
  PROVE  SearchInv'
<1>1. /\ pc = "loop" /\ LoopUnchanged /\ UNCHANGED <<reductions, unsatConstraint>>
      /\ pc' = "propagate" /\ caller' = "search"
  BY DEF Restart, Search
<1>2. PICK level \in TrivialDecisions..DecisionLevel(t) : t' = Backtrack(t, level)
  BY DEF Restart
<1>3. level \in 0..Len(t.control)
  <2>1. TrailOK(t) /\ Len(t.control) \in Nat /\ Len(assumptions) \in Nat
    <3>1. TrailOK(t) /\ assumptions \in Seq(Lit)
      BY <1>1, InLoop DEF SearchInv, Plain
    <3> QED BY <3>1, TrailTypes DEF TrailOK
  <2>2. TrivialDecisions \in Nat
    BY <2>1 DEF TrivialDecisions
  <2> QED BY <1>2, <2>1, <2>2 DEF DecisionLevel
<1>4. /\ Store(t', db) /\ Explains(t', db) /\ Sound(formula, db, t')
      /\ WatchesOK(t', db, t'.propagated)
  BY <1>1, <1>2, <1>3, InLoop, BacktrackRests
<1>5. unsatConstraint' \in BOOLEAN /\ reductions' \in 0..MaxReductions
  BY <1>1 DEF SearchInv, Plain
<1> QED BY <1>1, <1>4, <1>5, LoopStep

\* The first part of reduce preserves the invariant.
LEMMA ReduceInv ==
  ASSUME SearchInv, Reduce
  PROVE  SearchInv'
<1> DEFINE outOfOrder == /\ DecisionLevel(t) > 0
                         /\ \E i \in (t.control[1].trail + 1)..Len(t.trail) :
                              LevelOf(t, t.trail[i]) = 0
<1>1. /\ pc = "loop" /\ LoopUnchanged /\ reductions < MaxReductions
      /\ reductions' = reductions + 1 /\ UNCHANGED unsatConstraint
      /\ IF outOfOrder
         THEN /\ pc' = "propagate" /\ caller' = "reduce" /\ t' = Backtrack(t, 0)
         ELSE pc' = "collect" /\ UNCHANGED <<t, caller>>
  BY DEF Reduce
<1>2. unsatConstraint' \in BOOLEAN /\ reductions' \in 0..MaxReductions
  <2>1. reductions \in 0..MaxReductions /\ MaxReductions \in Nat
    BY SearchAssumption DEF SearchInv, Plain
  <2> QED BY <1>1, <2>1 DEF SearchInv, Plain
<1>3. CASE outOfOrder
  <2>1. /\ pc' = "propagate" /\ caller' = "reduce" /\ t' = Backtrack(t, 0)
    BY <1>1, <1>3
  <2>2. /\ Store(t', db) /\ Explains(t', db) /\ Sound(formula, db, t')
        /\ WatchesOK(t', db, t'.propagated) /\ Len(t'.control) = 0
    BY <1>1, <2>1, InLoop, ZeroLevel, BacktrackRests
  <2> QED BY <1>1, <1>2, <2>1, <2>2, LoopStep
<1>4. CASE ~outOfOrder
  <2>1. /\ pc' = "collect" /\ UNCHANGED <<t, caller>>
        /\ UNCHANGED <<formula, used, db, calls, assumptions, constraint, visiting, conflict,
                       analysis, unsat>>
    BY <1>1, <1>4 DEF LoopUnchanged, clauseVars
  <2>2. /\ Store(t, db) /\ Explains(t, db) /\ Sound(formula, db, t) /\ TrailOK(t) /\ ClausesOK(db)
        /\ visiting = {} /\ conflict = 0 /\ caller = "none" /\ unsat = FALSE
        /\ WatchesOK(t, db, t.propagated) /\ t.propagated = Len(t.trail)
    BY <1>1, InLoop
  <2>3. Plain'
    BY <1>2, <2>1 DEF SearchInv, Plain
  <2>4. ASSUME NEW i \in 1..Len(t.trail), NEW k \in 1..Len(t.control), LevelOf(t, t.trail[i]) = 0
        PROVE  i <= t.control[k].trail
    <3>1. /\ Len(t.trail) \in Nat /\ Len(t.control) \in Nat
          /\ t.control[1].trail \in Nat /\ t.control[k].trail \in Nat
      BY <2>2, TrailTypes DEF TrailOK
    <3>2. i <= t.control[1].trail
      BY <1>4, <2>4, <3>1 DEF DecisionLevel
    <3>3. t.control[1].trail <= t.control[k].trail
      BY <2>2, <3>1 DEF TrailOK, Heights
    <3> QED BY <3>1, <3>2, <3>3
  <2>5. Flow' /\ Refuted'
    BY <2>1, <2>2, <2>4 DEF Flow, Refuted
  <2>6. analysis'.lits \subseteq Lit
    BY <2>1 DEF SearchInv, Analysed
  <2> QED BY <2>1, <2>2, <2>3, <2>5, <2>6, Settles
<1> QED BY <1>3, <1>4

\* A decision or a pseudo decision level preserves the invariant.
LEMMA DecideInv ==
  ASSUME SearchInv, Decide
  PROVE  SearchInv'
<1>1. /\ pc = "loop" /\ LoopUnchanged /\ UNCHANGED <<reductions, unsatConstraint>>
      /\ pc' = "propagate" /\ caller' = "search"
  BY DEF Decide, Search, limitVars
<1>2. unsatConstraint' \in BOOLEAN /\ reductions' \in 0..MaxReductions
  BY <1>1 DEF SearchInv, Plain
<1>3. \/ t' = NewTrailLevel(t, 0)
      \/ \E lit \in Lit : IsOpen(t, lit) /\ t' = AssumeDecision(t, lit)
  <2> DEFINE level == DecisionLevel(t)
  <2>1. CASE /\ level < Len(assumptions)
             /\ ~IsFalse(t, assumptions[level + 1])
             /\ t' = IF IsTrue(t, assumptions[level + 1])
                     THEN NewTrailLevel(t, 0)
                     ELSE AssumeDecision(t, assumptions[level + 1])
    <3>1. level \in Nat /\ assumptions \in Seq(Lit)
      BY <1>1, InLoop, TrailTypes DEF TrailOK, SearchInv, Plain, DecisionLevel
    <3>2. assumptions[level + 1] \in Lit
      BY <2>1, <3>1
    <3> QED BY <2>1, <3>2 DEF IsOpen
  <2>2. CASE \/ t' = NewTrailLevel(t, 0)
             \/ \E lit \in constraint : IsOpen(t, lit) /\ t' = AssumeDecision(t, lit)
    BY <2>2 DEF SearchInv, Plain
  <2>3. CASE \E lit \in Phases : IsOpen(t, lit) /\ t' = AssumeDecision(t, lit)
    BY <2>3, SearchAssumption
  <2> QED BY <2>1, <2>2, <2>3 DEF Decide
<1>4. /\ Store(t, db) /\ Explains(t, db) /\ Sound(formula, db, t)
      /\ WatchesOK(t, db, t.propagated) /\ t.propagated = Len(t.trail)
  BY <1>1, InLoop
<1>5. /\ Store(t', db) /\ Explains(t', db) /\ Sound(formula, db, t')
      /\ WatchesOK(t', db, t'.propagated)
  <2>1. CASE t' = NewTrailLevel(t, 0)
    BY <1>4, <2>1, LevelKeeps
  <2>2. ASSUME NEW lit \in Lit, IsOpen(t, lit), t' = AssumeDecision(t, lit)
        PROVE  /\ Store(t', db) /\ Explains(t', db) /\ Sound(formula, db, t')
               /\ WatchesOK(t', db, t'.propagated)
    BY <1>4, <2>2, DecisionKeeps
  <2> QED BY <1>3, <2>1, <2>2
<1> QED BY <1>1, <1>2, <1>5, LoopStep

-----------------------------------------------------------------------------
(* Reduction of the clauses. *)

\* No watch of a clause that is not satisfied at the root level is false there.
LEMMA WatchesStay ==
  ASSUME SearchInv, pc = "collect", NEW id \in DOMAIN db, ~db[id].garbage,
         db[id].lits \cap RootUnits(t) = {}, NEW w \in db[id].watch
  PROVE  -w \notin RootUnits(t)
<1>1. Rests /\ unsat = FALSE /\ t.propagated = Len(t.trail)
  BY DEF Rests, SearchInv, Plain, Flow, Answered
<1>2. Store(t, db) /\ WatchesOK(t, db, t.propagated) /\ TrailOK(t) /\ ClausesOK(db)
  BY <1>1, AtRest DEF Store
<1> SUFFICES ASSUME -w \in RootUnits(t) PROVE FALSE
  OBVIOUS
<1>3. w \in Lit /\ -w \in Lit /\ -(-w) = w
  BY <1>2, ClauseFacts, LitFacts
<1>4. IsTrue(t, -w) /\ LevelOf(t, -w) = 0
  BY <1>2, <1>3, RootUnitsAre
<1>5. PICK p \in 1..Len(t.trail) : t.trail[p] = -w
  BY <1>4 DEF IsTrue, Contains
<1>6. Supported(t, db, id, p)
  <2>1. -t.trail[p] \in db[id].watch
    BY <1>3, <1>5
  <2> QED BY <1>1, <1>2, <2>1 DEF WatchesOK, Watched
<1>7. PICK x \in db[id].lits : /\ IsTrue(t, x)
                               /\ LevelOf(t, x) = 0 \/ t.control[LevelOf(t, x)].trail < p
  BY <1>6 DEF Supported
<1>8. x \in Lit
  BY <1>2, ClauseFacts
<1>9. LevelOf(t, x) # 0
  BY <1>2, <1>7, <1>8, RootUnitsAre
<1>10. LevelOf(t, x) \in 1..Len(t.control)
  <2>1. LevelOf(t, x) \in 0..Len(t.control) /\ Len(t.control) \in Nat
    BY <1>2, <1>8, LevelBound, TrailTypes DEF TrailOK
  <2> QED BY <1>9, <2>1
<1> DEFINE k == LevelOf(t, x)
<1>11. p <= t.control[k].trail
  BY <1>4, <1>5, <1>10 DEF SearchInv, Flow
<1>12. t.control[k].trail \in Nat /\ t.control[k].trail < p
  BY <1>2, <1>7, <1>9, <1>10, TrailTypes DEF TrailOK
<1> HIDE DEF k
<1> QED BY <1>11, <1>12

\* What becomes of a clause: literals that are false at the root level go, and
\* the watches stay.
FlushedFrom(f, x, u) ==
  /\ ClauseOK(f) /\ f.watch = x.watch /\ f.lits \subseteq x.lits
  /\ \A y \in x.lits \ f.lits : -y \in RootUnits(u)
  /\ f.garbage = FALSE => x.garbage = FALSE
  /\ x.garbage = FALSE /\ x.lits \cap RootUnits(u) = {} => f.garbage = FALSE

\* A flushed clause has lost only literals that are false at the root level.
LEMMA FlushedIs ==
  ASSUME SearchInv, pc = "collect", NEW id \in DOMAIN db
  PROVE  FlushedFrom(Flushed(id), db[id], t)
<1>1. TrailOK(t) /\ ClausesOK(db)
  BY DEF SearchInv, Store
<1>2. /\ db[id].lits \subseteq Lit /\ db[id].watch \subseteq db[id].lits /\ Pair(db[id].watch)
      /\ db[id].garbage \in BOOLEAN /\ db[id].redundant \in BOOLEAN /\ ClauseOK(db[id])
  BY <1>1, ClauseFacts DEF ClausesOK
<1> DEFINE units == RootUnits(t)
           lits == db[id].lits \ {-lit : lit \in units}
<1>3. \A w \in Lit : -(-w) = w
  BY LitFacts
<1>4. units \subseteq Lit
  BY <1>1, RootUnitsAre
<1>5. CASE db[id].garbage
  BY <1>2, <1>5 DEF Flushed, FlushedFrom
<1>6. CASE ~db[id].garbage /\ db[id].lits \cap units # {}
  <2>1. Flushed(id) = Discarded(db[id])
    BY <1>6 DEF Flushed, Lits
  <2>2. ClauseOK(Discarded(db[id]))
    BY <1>2 DEF Discarded, ClauseOK, ClauseType
  <2> HIDE DEF units
  <2> QED BY <1>2, <1>6, <2>1, <2>2 DEF FlushedFrom, Discarded, units
<1>7. CASE ~db[id].garbage /\ db[id].lits \cap units = {}
  <2>1. db[id].watch \subseteq lits
    <3> SUFFICES ASSUME NEW w \in db[id].watch, NEW y \in units, w = -y PROVE FALSE
      BY <1>2
    <3>1. -w = y
      BY <1>3, <1>4
    <3> QED BY <1>7, <3>1, WatchesStay
  <2>2. lits \subseteq Lit /\ lits \subseteq db[id].lits
    BY <1>2
  <2> HIDE DEF lits, units
  <2>3. ~(Cardinality(lits) < 2)
    <3>1. Cardinality(lits) \in Nat
      BY <2>2, LitSet
    <3>2. \E a, b \in lits : a # b
      BY <1>2, <2>1 DEF Pair
    <3>3. Cardinality(lits) > 1
      BY <2>2, <3>2, MoreThanOne
    <3> QED BY <3>1, <3>3
  <2>4. Flushed(id) = Shortened(db[id], lits, db[id].watch \cap lits)
    BY <1>7, <2>3 DEF Flushed, Lits, lits, units
  <2>5. db[id].watch \cap lits = db[id].watch
    BY <2>1
  <2>6. ClauseOK(Shortened(db[id], lits, db[id].watch))
    BY <1>2, <2>1, <2>2 DEF Shortened, ClauseOK, ClauseType
  <2> DEFINE f == Flushed(id)
  <2>7. ClauseOK(f) /\ f.watch = db[id].watch /\ f.lits = lits /\ f.garbage = db[id].garbage
    BY <2>4, <2>5, <2>6 DEF Shortened
  <2>8. \A y \in db[id].lits \ lits : -y \in units
    BY <1>3, <1>4 DEF lits
  <2> HIDE DEF f
  <2>9. FlushedFrom(f, db[id], t)
    BY <1>7, <2>2, <2>7, <2>8 DEF FlushedFrom, units
  <2> QED BY <2>9 DEF f
<1> QED BY <1>5, <1>6, <1>7

\* Clauses that are flushed, the reasons among them.
Flush(d, c, u) ==
  /\ DOMAIN d \subseteq DOMAIN c
  /\ \A id \in DOMAIN c : (\E v \in Var : u.reason[v] = id) => id \in DOMAIN d
  /\ \A id \in DOMAIN d : FlushedFrom(d[id], c[id], u)

\* Reasons are not flushed away, and the clauses still follow.
LEMMA FlushKeeps ==
  ASSUME NEW u, NEW c, Store(u, c), Explains(u, c), NEW F, Sound(F, c, u), NEW d, Flush(d, c, u)
  PROVE  Store(u, d) /\ Sound(F, d, u) /\ Explains(u, d)
<1>1. TrailOK(u) /\ ClausesOK(c) /\ Stored(u, c)
  BY DEF Store
<1>2. ClausesOK(d)
  BY <1>1 DEF ClausesOK, Flush, FlushedFrom
<1>3. Stored(u, d)
  BY <1>1 DEF Stored, Flush
<1>4. Sound(F, d, u)
  <2>1. ASSUME NEW m \in SUBSET Var, NEW id \in DOMAIN d, Satisfies(m, u, LitsOf(c))
        PROVE  Holds(m, d[id].lits)
    <3>1. id \in DOMAIN c /\ FlushedFrom(d[id], c[id], u)
      BY DEF Flush
    <3>2. PICK x \in c[id].lits : True(m, x)
      BY <1>1, <2>1, <3>1, LitsOfIs DEF Satisfies, Holds
    <3>3. x \in Lit
      BY <1>1, <3>1, ClauseFacts
    <3>4. ASSUME x \notin d[id].lits PROVE FALSE
      <4>1. -x \in RootUnits(u)
        BY <3>1, <3>2, <3>4 DEF FlushedFrom
      <4>2. True(m, -x)
        BY <2>1, <4>1 DEF Satisfies
      <4> QED BY <3>2, <3>3, <4>2, Negated
    <3> QED BY <3>2, <3>4 DEF Holds
  <2> QED BY <1>2, <2>1, SoundClauses
<1>5. ASSUME NEW i \in 1..Len(u.trail) PROVE Justified(u, d, i)
  <2> DEFINE lit == u.trail[i]
             id == ReasonOf(u, lit)
  <2>1. lit \in Lit /\ id \in Nat /\ IsTrue(u, lit)
    BY <1>1, TrailTypes DEF TrailOK, IsTrue, Contains
  <2>2. Justified(u, c, i)
    BY DEF Explains
  <2>3. CASE id = 0
    BY <2>3 DEF Justified, Explained, Alive
  <2>4. CASE id # 0
    <3>1. VarOf(lit) \in Var
      BY <2>1, LitFacts
    <3>2. id \in DOMAIN c /\ id \in DOMAIN d
      BY <1>1, <2>1, <2>4, <3>1 DEF Stored, Flush, ReasonOf
    <3>3. /\ lit \in c[id].lits
          /\ \A other \in c[id].lits \ {lit} :
               /\ \E j \in 1..(i - 1) : u.trail[j] = -other
               /\ LevelOf(u, other) <= LevelOf(u, lit)
          /\ \E other \in c[id].lits \ {lit} : LevelOf(u, other) = LevelOf(u, lit)
          /\ LevelOf(u, lit) > 0
          /\ Cardinality(c[id].lits) > 2 => ~c[id].garbage
      <4>1. LitsOf(c)[id] = c[id].lits
        BY <1>1, <3>2, LitsOfIs
      <4> HIDE DEF id, lit
      <4>2. Explained(u, LitsOf(c), i) /\ Alive(u, c, i) /\ lit = u.trail[i] /\ id = ReasonOf(u, lit)
        BY <2>2 DEF Justified, lit, id
      <4> QED BY <2>4, <4>1, <4>2 DEF Explained, Alive
    <3>4. c[id].lits \subseteq Lit /\ d[id].lits \subseteq c[id].lits /\ LitsOf(d)[id] = d[id].lits
      <4>1. FlushedFrom(d[id], c[id], u)
        BY <3>2 DEF Flush
      <4> QED BY <1>1, <1>2, <3>2, <4>1, ClauseFacts, LitsOfIs DEF FlushedFrom
    <3>5. \A y \in c[id].lits : LevelOf(u, y) > 0 => y \in d[id].lits
      <4> SUFFICES ASSUME NEW y \in c[id].lits, LevelOf(u, y) > 0, y \notin d[id].lits PROVE FALSE
        OBVIOUS
      <4>1. -y \in RootUnits(u)
        BY <3>2 DEF Flush, FlushedFrom
      <4>2. y \in Lit /\ -y \in Lit
        BY <3>4, LitFacts
      <4>3. LevelOf(u, -y) = 0
        BY <1>1, <4>1, <4>2, RootUnitsAre
      <4>4. LevelOf(u, y) = 0
        BY <4>2, <4>3, SameVar
      <4> QED BY <4>4
    <3>6. \E other \in c[id].lits \ {lit} : LevelOf(u, other) = LevelOf(u, lit) /\ other \in d[id].lits
      <4> HIDE DEF id, lit
      <4> QED BY <3>3, <3>5
    <3>7. Explained(u, LitsOf(d), i)
      <4>1. /\ id \in DOMAIN LitsOf(d) /\ lit \in LitsOf(d)[id]
            /\ \A other \in LitsOf(d)[id] \ {lit} :
                 /\ \E j \in 1..(i - 1) : u.trail[j] = -other
                 /\ LevelOf(u, other) <= LevelOf(u, lit)
            /\ \E other \in LitsOf(d)[id] \ {lit} : LevelOf(u, other) = LevelOf(u, lit)
            /\ LevelOf(u, lit) > 0
        <5>1. id \in DOMAIN LitsOf(d)
          BY <1>2, <3>2, LitsOfIs
        <5> HIDE DEF id, lit
        <5> QED BY <3>3, <3>4, <3>5, <3>6, <5>1
      <4> QED BY <4>1 DEF Explained
    <3>8. Cardinality(d[id].lits) > 2 => ~d[id].garbage
      <4> SUFFICES ASSUME Cardinality(d[id].lits) > 2 PROVE d[id].garbage = FALSE
        BY <1>2, <3>2, ClauseFacts
      <4>1. Cardinality(d[id].lits) <= Cardinality(c[id].lits) /\ Cardinality(c[id].lits) \in Nat
            /\ Cardinality(d[id].lits) \in Nat
        BY <3>4, LitSet
      <4>2. c[id].garbage = FALSE
        <5>1. Cardinality(c[id].lits) > 2
          BY <4>1
        <5>2. c[id].garbage \in BOOLEAN
          BY <1>1, <3>2, ClauseFacts
        <5> QED BY <3>3, <5>1, <5>2
      <4>3. c[id].lits \cap RootUnits(u) = {}
        <5> SUFFICES ASSUME NEW y \in c[id].lits, y \in RootUnits(u) PROVE FALSE
          OBVIOUS
        <5>1. y \in Lit /\ IsTrue(u, y) /\ LevelOf(u, y) = 0
          BY <1>1, <3>4, RootUnitsAre
        <5>2. y # lit
          BY <3>3, <5>1
        <5>3. IsFalse(u, y)
          <6>1. PICK j \in 1..(i - 1) : u.trail[j] = -y
            BY <3>3, <5>2
          <6>2. j \in 1..Len(u.trail)
            BY <1>1, TrailTypes DEF TrailOK
          <6> QED BY <6>1, <6>2 DEF IsFalse, Contains
        <5> QED BY <1>1, <5>1, <5>3, NotBoth
      <4>4. FlushedFrom(d[id], c[id], u)
        BY <3>2 DEF Flush
      <4> HIDE DEF id, lit
      <4> QED BY <4>2, <4>3, <4>4 DEF FlushedFrom
    <3> QED BY <3>7, <3>8 DEF Justified, Alive
  <2> QED BY <2>3, <2>4
<1> QED BY <1>1, <1>2, <1>3, <1>4, <1>5 DEF Store, Explains

\* A flushed clause watches what it watched.
LEMMA FlushWatches ==
  ASSUME NEW u, TrailOK(u), NEW c, ClausesOK(c), NEW d, Flush(d, c, u),
         NEW q \in Nat, q <= Len(u.trail), WatchesOK(u, c, q)
  PROVE  WatchesOK(u, d, q)
<1> SUFFICES ASSUME NEW id \in DOMAIN d, NEW p \in 1..q,
                    ~d[id].garbage, -u.trail[p] \in d[id].watch
             PROVE  Supported(u, d, id, p)
  BY DEF WatchesOK, Watched
<1>1. id \in DOMAIN c /\ FlushedFrom(d[id], c[id], u)
  BY DEF Flush
<1>2. c[id].garbage = FALSE /\ -u.trail[p] \in c[id].watch
  <2>1. ClauseOK(d[id])
    BY <1>1 DEF FlushedFrom
  <2>2. d[id].garbage = FALSE
    BY <2>1 DEF ClauseOK, ClauseType
  <2> QED BY <1>1, <2>2 DEF FlushedFrom
<1>3. Supported(u, c, id, p)
  BY <1>1, <1>2 DEF WatchesOK, Watched
<1>4. PICK x \in c[id].lits : /\ IsTrue(u, x)
                              /\ LevelOf(u, x) = 0 \/ u.control[LevelOf(u, x)].trail < p
  BY <1>3 DEF Supported
<1>5. x \in Lit
  BY <1>1, ClauseFacts
<1>6. ASSUME x \notin d[id].lits PROVE FALSE
  <2>1. -x \in RootUnits(u) /\ -x \in Lit
    BY <1>1, <1>5, <1>6, LitFacts DEF FlushedFrom
  <2>2. IsFalse(u, x)
    BY <2>1, RootUnitsAre DEF IsFalse, IsTrue
  <2> QED BY <1>4, <1>5, <2>2, NotBoth
<1> QED BY <1>4, <1>6 DEF Supported

\* Garbage collection preserves the invariant.
LEMMA CollectInv ==
  ASSUME SearchInv, Collect
  PROVE  SearchInv'
<1> DEFINE flushed == [id \in DOMAIN db |-> Flushed(id)]
           useless == {id \in DOMAIN db : flushed[id].redundant /\ ~IsReason(id)}
<1>1. /\ pc = "collect" /\ pc' = "propagate" /\ caller' = "search"
      /\ UNCHANGED <<formula, used, calls, assumptions, constraint, reductions, t, visiting,
                     conflict, analysis, unsat, unsatConstraint>>
  BY DEF Collect, Search, queryVars, limitVars
<1>2. PICK given \in SUBSET useless :
        db' = [id \in {i \in DOMAIN db : \/ IsReason(i)
                                         \/ ~flushed[i].garbage /\ i \notin given} |-> flushed[id]]
  BY DEF Collect
<1>3. Rests /\ unsat = FALSE /\ t.propagated = Len(t.trail)
  BY <1>1 DEF Rests, SearchInv, Plain, Flow, Answered
<1>4. /\ Store(t, db) /\ Explains(t, db) /\ Sound(formula, db, t)
      /\ visiting = {} /\ conflict = 0 /\ WatchesOK(t, db, t.propagated)
  BY <1>3, AtRest
<1>5. Flush(db', db, t)
  <2>1. DOMAIN db' \subseteq DOMAIN db /\ \A id \in DOMAIN db' : db'[id] = Flushed(id)
    BY <1>2
  <2>2. \A id \in DOMAIN db : (\E v \in Var : t.reason[v] = id) => id \in DOMAIN db'
    BY <1>2 DEF IsReason
  <2> QED BY <1>1, <2>1, <2>2, FlushedIs DEF Flush
<1>6. Store(t, db') /\ Sound(formula, db', t) /\ Explains(t, db')
  BY <1>4, <1>5, FlushKeeps
<1>7. WatchesOK(t, db', t.propagated)
  <2>1. TrailOK(t) /\ ClausesOK(db)
    BY <1>4 DEF Store
  <2>2. t.propagated \in Nat /\ t.propagated <= Len(t.trail)
    BY <1>3, <2>1, TrailTypes DEF TrailOK
  <2> QED BY <1>4, <1>5, <2>1, <2>2, FlushWatches
<1>8. Plain'
  BY <1>1 DEF SearchInv, Plain
<1>9. Flow' /\ Refuted'
  BY <1>1, <1>3, <1>4 DEF Flow, Refuted
<1>10. analysis'.lits \subseteq Lit
  BY <1>1 DEF SearchInv, Analysed
<1> QED BY <1>1, <1>4, <1>6, <1>7, <1>8, <1>9, <1>10, Settles

-----------------------------------------------------------------------------
(* analyze *)

\* A clause whose literals are false at the root level refutes the formula.
LEMMA RefutedAtRoot ==
  ASSUME NEW u, NEW c, Store(u, c), NEW F, Sound(F, c, u), NEW id \in DOMAIN c,
         \A x \in c[id].lits : IsFalse(u, x) /\ LevelOf(u, x) = 0
  PROVE  Models(F) = {}
<1>1. TrailOK(u) /\ ClausesOK(c)
  BY DEF Store
<1> SUFFICES ASSUME NEW m \in Models(F) PROVE FALSE
  OBVIOUS
<1>2. Satisfies(m, u, LitsOf(c))
  BY DEF Sound, Models
<1>3. PICK x \in c[id].lits : True(m, x)
  BY <1>1, <1>2, LitsOfIs DEF Satisfies, Holds
<1>4. x \in Lit
  BY <1>1, ClauseFacts
<1> QED BY <1>1, <1>2, <1>3, <1>4, RootFalse

\* When the analysis starts.
LEMMA Analyzing ==
  ASSUME SearchInv, pc = "analyze"
  PROVE  /\ Store(t, db) /\ Explains(t, db) /\ Sound(formula, db, t) /\ unsat = FALSE
         /\ TrailOK(t) /\ ClausesOK(db) /\ visiting = {} /\ caller = "none"
         /\ conflict \in DOMAIN db /\ conflict # 0 /\ db[conflict].lits \subseteq Lit
         /\ \A x \in db[conflict].lits : IsFalse(t, x)
         /\ Cardinality(db[conflict].lits) > 2 => ~db[conflict].garbage
         /\ t.propagated \in 1..Len(t.trail)
         /\ \A k \in 1..Len(t.control) : t.control[k].trail < t.propagated
         /\ WatchesOK(t, db, t.propagated - 1)
<1>1. Store(t, db) /\ Sound(formula, db, t) /\ TrailOK(t) /\ ClausesOK(db)
  BY DEF SearchInv, Store
<1>2. Explains(t, db)
  BY DEF SearchInv, ReasonsOK, Explains
<1>3. unsat = FALSE /\ visiting = {} /\ caller = "none" /\ conflict # 0
  BY DEF SearchInv, Plain, Flow, Answered
<1>4. /\ conflict \in DOMAIN db /\ OnTop(t) /\ \A x \in db[conflict].lits : IsFalse(t, x)
      /\ Cardinality(db[conflict].lits) > 2 => ~db[conflict].garbage
  BY <1>3 DEF SearchInv, Traversal
<1>5. t.propagated \in 1..Len(t.trail) /\ \A k \in 1..Len(t.control) : t.control[k].trail < t.propagated
  <2>1. t.propagated \in Nat /\ Len(t.trail) \in Nat /\ t.propagated <= Len(t.trail)
    BY <1>1, TrailTypes DEF TrailOK, Heights
  <2> QED BY <1>4, <2>1 DEF OnTop
<1>6. WatchesOK(t, db, t.propagated - 1)
  BY <1>3 DEF SearchInv, WatchInv
<1>7. db[conflict].lits \subseteq Lit
  BY <1>1, <1>4, ClauseFacts
<1> QED BY <1>1, <1>2, <1>3, <1>4, <1>5, <1>6, <1>7

\* The conflict with its new watches.
Highlighted(d) ==
  /\ Store(t, d) /\ Explains(t, d) /\ Sound(formula, d, t) /\ DOMAIN d = DOMAIN db
  /\ \A j \in DOMAIN db \ {conflict} : d[j] = db[j]
  /\ \A j \in DOMAIN db : d[j].lits = db[j].lits /\ d[j].garbage = db[j].garbage
  /\ Dominates(t, d[conflict].watch, db[conflict].lits)

\* The analysis starts by watching the highest literals of the conflict.
LEMMA HighlightedIs ==
  ASSUME SearchInv, Analyze
  PROVE  Highlighted(db')
<1>1. pc = "analyze"
  BY DEF Analyze
<1>2. PICK w \in HighestWatches(db[conflict].lits, db[conflict].watch) :
        db' = With(conflict, Rewatched(db[conflict], w))
  BY DEF Analyze, Lits
<1>3. /\ Store(t, db) /\ Explains(t, db) /\ Sound(formula, db, t)
      /\ conflict \in DOMAIN db /\ db[conflict].lits \subseteq Lit
  BY <1>1, Analyzing
<1>4. Dominates(t, w, db[conflict].lits)
  BY <1>3, HighestWatchesAre
<1> DEFINE d == Put(db, conflict, Rewatched(db[conflict], w))
<1>5. db' = d
  BY <1>2 DEF With, Put
<1>6. w \subseteq db[conflict].lits /\ Pair(w)
  BY <1>4 DEF Dominates
<1> HIDE DEF d
<1>7. /\ Store(t, d) /\ Sound(formula, d, t) /\ DOMAIN d = DOMAIN db
      /\ d[conflict].watch = w /\ \A j \in DOMAIN db \ {conflict} : d[j] = db[j]
      /\ \A j \in DOMAIN db : d[j].lits = db[j].lits /\ d[j].garbage = db[j].garbage
      /\ \A i \in 1..Len(t.trail) : Justified(t, db, i) => Justified(t, d, i)
  <2>1. d = Put(db, conflict, Rewatched(db[conflict], w))
    BY DEF d
  <2> QED BY <1>3, <1>6, <2>1, Rewatching
<1>8. Explains(t, d)
  BY <1>3, <1>7 DEF Explains
<1> QED BY <1>4, <1>5, <1>7, <1>8 DEF Highlighted

\* A clause that is ready to force a literal: all its literals are false, the
\* others are of level l at most and the highest of them is watched.
Ready(u, d, id, forced, l) ==
  /\ id \in DOMAIN d /\ forced \in d[id].lits /\ LevelOf(u, forced) > l
  /\ \A x \in d[id].lits : IsFalse(u, x)
  /\ \A b \in d[id].lits \ {forced} : LevelOf(u, b) <= l
  /\ Cardinality(d[id].lits) > 2 => ~d[id].garbage
  /\ \E a \in d[id].lits \ {forced} :
       /\ d[id].watch = {forced, a}
       /\ \A b \in d[id].lits \ {forced} : LevelOf(u, b) <= LevelOf(u, a)

\* Everything is in order, and what counts as propagated is taken care of.
Settled(v, d, F) ==
  Store(v, d) /\ Explains(v, d) /\ Sound(F, d, v) /\ WatchesOK(v, d, v.propagated)

\* Backtracking and assigning the literal that a clause forces.
LEMMA ForcedStep ==
  ASSUME NEW u, NEW d, Store(u, d), NEW F, Sound(F, d, u), NEW l \in 0..(Len(u.control) - 1),
         \A i \in 1..Len(u.trail) : LevelOf(u, u.trail[i]) <= l => Justified(u, d, i),
         NEW id, NEW forced, Ready(u, d, id, forced, l),
         \A j \in DOMAIN d \ {id} : \A q \in 1..u.control[l + 1].trail : Watched(u, d, j, q)
  PROVE  Settled(Imply(Backtrack(u, l), forced, id, d[id].lits), d, F)
<1> DEFINE B == Backtrack(u, l)
           lits == d[id].lits
           v == Imply(B, forced, id, lits)
<1>1. /\ TrailOK(u) /\ ClausesOK(d) /\ id \in DOMAIN d /\ forced \in lits /\ LevelOf(u, forced) > l
      /\ \A x \in lits : IsFalse(u, x)
      /\ \A b \in lits \ {forced} : LevelOf(u, b) <= l
      /\ Cardinality(lits) > 2 => ~d[id].garbage
  BY DEF Store, Ready
<1>2. PICK a \in lits \ {forced} :
        /\ d[id].watch = {forced, a}
        /\ \A b \in lits \ {forced} : LevelOf(u, b) <= LevelOf(u, a)
  BY DEF Ready
<1>3. /\ Len(u.control) \in Nat /\ Len(u.trail) \in Nat /\ l \in 0..Len(u.control)
      /\ l # Len(u.control) /\ l + 1 \in 1..Len(u.control) /\ u.control[l + 1].trail \in Nat
      /\ lits \subseteq Lit /\ LevelOf(u, forced) \in Nat
  <2>1. Len(u.control) \in Nat /\ Len(u.trail) \in Nat
    BY <1>1, TrailTypes DEF TrailOK
  <2>2. l + 1 \in 1..Len(u.control) /\ l \in 0..Len(u.control) /\ l # Len(u.control)
    BY <2>1
  <2>3. lits \subseteq Lit
    BY <1>1, ClauseFacts
  <2> QED BY <1>1, <2>1, <2>2, <2>3, TrailTypes DEF TrailOK
<1>4. Store(B, d) /\ Explains(B, d) /\ Sound(F, d, B)
  BY <1>3, BacktrackKeeps
<1>5. /\ TrailOK(B)
      /\ \A lit \in Lit : IsTrue(B, lit) <=> IsTrue(u, lit) /\ LevelOf(u, lit) <= l
      /\ \A lit \in Lit : IsTrue(B, lit) \/ IsTrue(B, -lit) => LevelOf(B, lit) = LevelOf(u, lit)
      /\ B.propagated = u.control[l + 1].trail /\ B.propagated <= Len(u.trail)
  BY <1>1, <1>3, BacktrackIs
<1> HIDE DEF B, lits
<1>6. ASSUME NEW x \in lits PROVE IsFalse(B, x) <=> LevelOf(u, x) <= l
  <2>1. x \in Lit /\ -x \in Lit /\ IsTrue(u, -x) /\ LevelOf(u, -x) = LevelOf(u, x)
    BY <1>1, <1>3, LitFacts, SameVar DEF IsFalse, IsTrue
  <2>2. IsTrue(B, -x) <=> LevelOf(u, x) <= l
    BY <1>5, <2>1
  <2> QED BY <2>2 DEF IsFalse, IsTrue
<1>7. IsOpen(B, forced) /\ forced \in Lit
  <2>1. ~IsTrue(u, forced) /\ forced \in Lit
    BY <1>1, <1>3, NotBoth
  <2>2. ~(LevelOf(u, forced) <= l)
    BY <1>1, <1>3
  <2> QED BY <1>1, <1>5, <1>6, <2>1, <2>2 DEF IsOpen
<1>8. ASSUME NEW b \in lits \ {forced} PROVE IsFalse(B, b) /\ LevelOf(B, b) = LevelOf(u, b)
  <2>1. IsFalse(B, b)
    BY <1>1, <1>6
  <2>2. b \in Lit /\ IsTrue(B, -b)
    BY <1>3, <2>1 DEF IsFalse, IsTrue
  <2> QED BY <1>5, <2>1, <2>2
<1>9. Implies(B, d, forced, id)
  BY <1>1, <1>7, <1>8 DEF Implies, lits
<1> DEFINE k == HighestLevel(B, lits \ {forced})
<1>10. Keeps(v, B, d, F, forced, k)
  BY <1>4, <1>9, ImplyKeeps DEF lits
<1> HIDE DEF v, k
<1>11. /\ Store(v, d) /\ Explains(v, d) /\ Sound(F, d, v) /\ Extended(v, B, forced)
       /\ LevelOf(v, forced) = k /\ v.control = B.control /\ v.propagated = B.propagated
  BY <1>10 DEF Keeps
<1>12. WatchesOK(v, d, v.propagated)
  <2> SUFFICES ASSUME NEW j \in DOMAIN d, NEW p \in 1..B.propagated PROVE Watched(v, d, j, p)
    BY <1>11 DEF WatchesOK
  <2>1. p \in 1..Len(B.trail)
    BY <1>5, TrailTypes DEF TrailOK, Heights
  <2>2. CASE j = id
    <3>1. \A b \in lits \ {forced} : LevelOf(B, b) <= LevelOf(B, a)
      BY <1>2, <1>8
    <3>2. d[id].watch \subseteq {forced, a} /\ d[id].lits = lits
      BY <1>2 DEF lits
    <3>3. LevelOf(v, forced) = HighestLevel(B, lits \ {forced})
      BY <1>11 DEF k
    <3> QED BY <1>1, <1>3, <1>5, <1>7, <1>11, <2>1, <2>2, <3>1, <3>2, <3>3, ForcedWatched
  <2>3. CASE j # id
    <3>1. p \in 1..u.control[l + 1].trail /\ p \in 1..Len(u.trail) /\ p <= u.control[l + 1].trail
      BY <1>3, <1>5
    <3>2. Watched(u, d, j, p)
      BY <2>3, <3>1
    <3>3. Watched(B, d, j, p)
      BY <1>1, <1>3, <3>1, <3>2, BacktrackWatched DEF B
    <3> QED BY <1>1, <1>5, <1>7, <1>11, <2>1, <3>3, ExtendedWatched
  <2> QED BY <2>2, <2>3
<1>13. Settled(v, d, F)
  BY <1>11, <1>12 DEF Settled
<1> QED BY <1>13 DEF v, B, lits

\* A single literal of the highest level is flipped by the conflict.
LEMMA AnalyzeForced ==
  ASSUME SearchInv, pc = "analyze", NEW d, Highlighted(d), NEW forced \in db[conflict].lits,
         NEW level \in 1..Len(t.control), LevelOf(t, forced) = level,
         \A b \in db[conflict].lits \ {forced} : LevelOf(t, b) < level
  PROVE  Settled(Imply(Backtrack(t, level - 1), forced, conflict, db[conflict].lits), d, formula)
<1> DEFINE lits == db[conflict].lits
           l == level - 1
<1>1. /\ TrailOK(t) /\ ClausesOK(db) /\ conflict \in DOMAIN db /\ lits \subseteq Lit
      /\ \A x \in lits : IsFalse(t, x)
      /\ Cardinality(lits) > 2 => ~db[conflict].garbage
      /\ t.propagated \in 1..Len(t.trail)
      /\ \A k \in 1..Len(t.control) : t.control[k].trail < t.propagated
      /\ WatchesOK(t, db, t.propagated - 1)
  BY Analyzing
<1>2. /\ Store(t, d) /\ Explains(t, d) /\ Sound(formula, d, t) /\ DOMAIN d = DOMAIN db
      /\ \A j \in DOMAIN db \ {conflict} : d[j] = db[j]
      /\ d[conflict].lits = lits /\ d[conflict].garbage = db[conflict].garbage
      /\ Dominates(t, d[conflict].watch, lits)
  BY <1>1 DEF Highlighted
<1>3. /\ Len(t.control) \in Nat /\ Len(t.trail) \in Nat /\ l \in 0..(Len(t.control) - 1)
      /\ l + 1 = level /\ t.control[level].trail \in Nat /\ t \in TrailType
      /\ LevelOf(t, forced) > l
  BY <1>1, TrailTypes DEF TrailOK
<1>4. \A b \in lits \ {forced} : LevelOf(t, b) <= l /\ LevelOf(t, b) < LevelOf(t, forced)
  <2>1. \A b \in lits \ {forced} : LevelOf(t, b) \in Nat /\ LevelOf(t, b) < level
    BY <1>1, <1>3, TrailTypes
  <2> QED BY <1>3, <2>1
<1>5. Ready(t, d, conflict, forced, l)
  <2>1. \E a \in lits \ {forced} :
          /\ d[conflict].watch = {forced, a}
          /\ \A b \in lits \ {forced} : LevelOf(t, b) <= LevelOf(t, a)
    <3>1. TopPair(t, lits, d[conflict].watch, forced)
      BY <1>1, <1>2, <1>3, <1>4, SingleTop
    <3> QED BY <3>1 DEF TopPair
  <2> HIDE DEF l
  <2> QED BY <1>1, <1>2, <1>3, <1>4, <2>1 DEF Ready
<1>6. ASSUME NEW j \in DOMAIN d \ {conflict}, NEW q \in 1..t.control[l + 1].trail
      PROVE  Watched(t, d, j, q)
  <2>1. q \in 1..(t.propagated - 1)
    BY <1>1, <1>3
  <2>2. j \in DOMAIN db /\ d[j] = db[j]
    BY <1>2
  <2> QED BY <1>1, <2>1, <2>2, SameClause DEF WatchesOK
<1>7. \A i \in 1..Len(t.trail) : LevelOf(t, t.trail[i]) <= l => Justified(t, d, i)
  BY <1>2 DEF Explains
<1> HIDE DEF l
<1>8. Settled(Imply(Backtrack(t, l), forced, conflict, d[conflict].lits), d, formula)
  BY <1>2, <1>3, <1>5, <1>6, <1>7, ForcedStep
<1> QED BY <1>2, <1>8 DEF l

\* Several literals are on the highest level: the literals of the conflict are
\* those to resolve.
LEMMA AnalyzeResolve ==
  ASSUME SearchInv, pc = "analyze", NEW d, Highlighted(d),
         NEW level \in 1..Len(t.control), \A b \in db[conflict].lits : LevelOf(t, b) <= level,
         NEW x \in db[conflict].lits, NEW y \in db[conflict].lits, x # y,
         LevelOf(t, x) = level, LevelOf(t, y) = level, NEW B, B = Backtrack(t, level)
  PROVE  /\ Store(B, d) /\ Explains(B, d) /\ Sound(formula, d, B) /\ Len(B.control) = level
         /\ \A b \in db[conflict].lits : IsFalse(B, b) /\ LevelOf(B, b) = LevelOf(t, b)
         /\ WatchesOK(B, d, B.control[level].trail)
<1> DEFINE lits == db[conflict].lits
<1>1. /\ TrailOK(t) /\ ClausesOK(db) /\ conflict \in DOMAIN db /\ lits \subseteq Lit
      /\ \A b \in lits : IsFalse(t, b)
      /\ t.propagated \in 1..Len(t.trail)
      /\ \A k \in 1..Len(t.control) : t.control[k].trail < t.propagated
      /\ WatchesOK(t, db, t.propagated - 1)
  BY Analyzing
<1>2. /\ Store(t, d) /\ Explains(t, d) /\ Sound(formula, d, t) /\ DOMAIN d = DOMAIN db
      /\ \A j \in DOMAIN db \ {conflict} : d[j] = db[j]
      /\ Dominates(t, d[conflict].watch, lits) /\ ClausesOK(d)
  BY <1>1 DEF Highlighted, Store
<1>3. /\ Len(t.control) \in Nat /\ Len(t.trail) \in Nat /\ level \in 0..Len(t.control)
      /\ t.control[level].trail \in Nat /\ t \in TrailType /\ level \in Nat
  BY <1>1, TrailTypes DEF TrailOK
<1>4. Store(B, d) /\ Explains(B, d) /\ Sound(formula, d, B)
  <2>1. \A i \in 1..Len(t.trail) : LevelOf(t, t.trail[i]) <= level => Justified(t, d, i)
    BY <1>2 DEF Explains
  <2> QED BY <1>2, <1>3, <2>1, BacktrackKeeps
<1>5. /\ TrailOK(B) /\ Len(B.control) = level /\ B.control[level] = t.control[level]
      /\ \A lit \in Lit : IsTrue(B, lit) <=> IsTrue(t, lit) /\ LevelOf(t, lit) <= level
      /\ \A lit \in Lit : IsTrue(B, lit) \/ IsTrue(B, -lit) => LevelOf(B, lit) = LevelOf(t, lit)
  BY <1>1, <1>3, BacktrackIs
<1>6. ASSUME NEW b \in lits PROVE IsFalse(B, b) /\ LevelOf(B, b) = LevelOf(t, b)
  <2>1. b \in Lit /\ -b \in Lit /\ IsTrue(t, -b) /\ LevelOf(t, -b) = LevelOf(t, b)
    BY <1>1, LitFacts, SameVar DEF IsFalse, IsTrue
  <2>2. IsTrue(B, -b)
    BY <1>5, <2>1
  <2> QED BY <1>5, <2>1, <2>2 DEF IsFalse, IsTrue
<1> HIDE DEF lits
<1>7. \A a \in d[conflict].watch : LevelOf(t, a) = level /\ a \in lits
  <2>1. \A b \in lits : LevelOf(t, b) <= level
    BY DEF lits
  <2>2. x \in lits /\ y \in lits
    BY DEF lits
  <2>3. d[conflict].watch \subseteq lits
    BY <1>2 DEF Dominates
  <2> QED BY <1>1, <1>2, <1>3, <2>1, <2>2, <2>3, BothTop
<1>8. WatchesOK(B, d, B.control[level].trail)
  <2> SUFFICES ASSUME NEW j \in DOMAIN d, NEW p \in 1..t.control[level].trail PROVE Watched(B, d, j, p)
    BY <1>5 DEF WatchesOK
  <2>1. CASE j = conflict
    <3> SUFFICES ASSUME -B.trail[p] \in d[conflict].watch PROVE FALSE
      BY <2>1 DEF Watched
    <3>1. p \in 1..Len(B.trail)
      <4>1. B.control[level].trail <= B.propagated /\ B.propagated <= Len(B.trail)
        BY <1>3, <1>5 DEF TrailOK, Heights
      <4>2. B.propagated \in Nat /\ Len(B.trail) \in Nat
        BY <1>5, TrailTypes DEF TrailOK
      <4> QED BY <1>3, <1>5, <4>1, <4>2
    <3>2. B.trail[p] \in Lit
      BY <1>5, <3>1, TrailTypes DEF TrailOK
    <3>3. LevelOf(B, B.trail[p]) = level
      <4>1. LevelOf(B, -B.trail[p]) = level
        BY <1>6, <1>7 DEF lits
      <4> QED BY <3>2, <4>1, SameVar
    <3>4. B.control[level].trail < p
      BY <1>3, <1>5, <3>1, <3>3 DEF TrailOK, Levels
    <3> QED BY <1>3, <1>5, <3>4
  <2>2. CASE j # conflict
    <3>1. p \in 1..Len(t.trail) /\ p \in 1..(t.propagated - 1)
      BY <1>1, <1>3
    <3>2. j \in DOMAIN db /\ d[j] = db[j]
      BY <1>2, <2>2
    <3>3. Watched(t, d, j, p)
      BY <1>1, <3>1, <3>2, SameClause DEF WatchesOK
    <3>4. level # Len(t.control) => p <= t.control[level + 1].trail
      <4> SUFFICES ASSUME level # Len(t.control) PROVE p <= t.control[level + 1].trail
        OBVIOUS
      <4>1. level + 1 \in level..Len(t.control) /\ level + 1 \in 1..Len(t.control)
        BY <1>3
      <4>2. t.control[level].trail <= t.control[level + 1].trail
        BY <1>1, <4>1 DEF TrailOK, Heights
      <4>3. t.control[level + 1].trail \in Nat
        BY <1>1, <4>1, TrailTypes DEF TrailOK
      <4> QED BY <1>3, <4>2, <4>3
    <3> QED BY <1>1, <1>2, <1>3, <3>1, <3>3, <3>4, BacktrackWatched
  <2> QED BY <2>1, <2>2
<1> QED BY <1>4, <1>5, <1>6, <1>8 DEF lits

\* The start of the analysis preserves the invariant.
LEMMA AnalyzeInv ==
  ASSUME SearchInv, Analyze
  PROVE  SearchInv'
<1> DEFINE lits == db[conflict].lits
           level == HighestLevel(t, lits)
           top == AtLevel(lits, level)
           nonroot == {lit \in lits : LevelOf(t, lit) > 0}
<1>1. /\ pc = "analyze"
      /\ UNCHANGED <<formula, used, calls, assumptions, constraint, reductions, visiting,
                     unsatConstraint>>
  BY DEF Analyze, AnalysisUnchanged, queryVars, limitVars
<1>2. \/ \E forced \in top :
           /\ level > 0 /\ top = {forced}
           /\ t' = Imply(Backtrack(t, level - 1), forced, conflict, lits)
           /\ conflict' = 0 /\ pc' = "propagate" /\ caller' = "search" /\ UNCHANGED <<analysis, unsat>>
      \/ /\ level = 0
         /\ t' = Backtrack(t, 0) /\ unsat' = TRUE
         /\ conflict' = 0 /\ pc' = "unsat"
         /\ UNCHANGED <<analysis, caller>>
      \/ /\ level > 0 /\ Cardinality(top) > 1
         /\ t' = Backtrack(t, level)
         /\ analysis' = [lits |-> nonroot, first |-> TRUE, conflictSize |-> Cardinality(nonroot)]
         /\ pc' = "resolve" /\ UNCHANGED <<conflict, unsat, caller>>
  BY DEF Analyze, Lits, Search
<1>3. /\ Store(t, db) /\ Explains(t, db) /\ Sound(formula, db, t) /\ unsat = FALSE
      /\ TrailOK(t) /\ ClausesOK(db) /\ visiting = {} /\ caller = "none"
      /\ conflict \in DOMAIN db /\ conflict # 0 /\ lits \subseteq Lit
      /\ \A x \in lits : IsFalse(t, x)
  BY <1>1, Analyzing
<1>4. Highlighted(db')
  BY HighlightedIs
<1>5. /\ Store(t, db') /\ Explains(t, db') /\ Sound(formula, db', t) /\ DOMAIN db' = DOMAIN db
      /\ db'[conflict].lits = lits
  BY <1>3, <1>4 DEF Highlighted
<1>6. /\ level \in 0..Len(t.control) /\ Len(t.control) \in Nat
      /\ \A x \in lits : LevelOf(t, x) <= level /\ LevelOf(t, x) \in Nat
  BY <1>3, HighestIs, TrailTypes DEF TrailOK
<1>7. analysis.lits \subseteq Lit
  BY DEF SearchInv, Analysed
<1> HIDE DEF level, lits
<1>8. ASSUME NEW forced \in top, level > 0, top = {forced},
             t' = Imply(Backtrack(t, level - 1), forced, conflict, lits),
             conflict' = 0, pc' = "propagate", caller' = "search", UNCHANGED <<analysis, unsat>>
      PROVE  SearchInv'
  <2>1. /\ forced \in lits /\ LevelOf(t, forced) = level /\ level \in 1..Len(t.control)
    BY <1>6, <1>8 DEF AtLevel
  <2>2. \A b \in lits \ {forced} : LevelOf(t, b) < level
    BY <1>6, <1>8 DEF AtLevel
  <2>3. Settled(t', db', formula)
    BY <1>1, <1>4, <1>8, <2>1, <2>2, AnalyzeForced DEF lits
  <2>4. Store(t', db') /\ Explains(t', db') /\ Sound(formula, db', t') /\ WatchesOK(t', db', t'.propagated)
    BY <2>3 DEF Settled
  <2>5. Plain'
    BY <1>1, <1>8 DEF SearchInv, Plain
  <2>6. Flow' /\ Refuted'
    BY <1>1, <1>3, <1>8 DEF Flow, Refuted
  <2> QED BY <1>1, <1>3, <1>7, <1>8, <2>4, <2>5, <2>6, Settles
<1>9. CASE /\ level = 0
           /\ t' = Backtrack(t, 0) /\ unsat' = TRUE
           /\ conflict' = 0 /\ pc' = "unsat"
           /\ UNCHANGED <<analysis, caller>>
  <2>1. \A x \in db[conflict].lits : IsFalse(t, x) /\ LevelOf(t, x) = 0
    BY <1>3, <1>6, <1>9 DEF lits
  <2>2. Models(formula) = {}
    BY <1>3, <2>1, RefutedAtRoot
  <2>3. Store(t', db') /\ Explains(t', db') /\ Sound(formula, db', t')
    <3>1. \A i \in 1..Len(t.trail) : LevelOf(t, t.trail[i]) <= 0 => Justified(t, db', i)
      BY <1>5 DEF Explains
    <3>2. 0 \in 0..Len(t.control)
      BY <1>6
    <3> QED BY <1>5, <1>9, <3>1, <3>2, BacktrackKeeps
  <2>4. Plain' /\ Refuted'
    BY <1>1, <1>9, <2>2 DEF SearchInv, Plain, Refuted, Answered, Models
  <2>5. Flow'
    BY <1>1, <1>3, <1>9 DEF Flow, Answered
  <2> QED BY <1>1, <1>3, <1>7, <1>9, <2>3, <2>4, <2>5, Settles
<1>10. CASE /\ level > 0 /\ Cardinality(top) > 1
            /\ t' = Backtrack(t, level)
            /\ analysis' = [lits |-> nonroot, first |-> TRUE, conflictSize |-> Cardinality(nonroot)]
            /\ pc' = "resolve" /\ UNCHANGED <<conflict, unsat, caller>>
  <2>1. PICK x \in lits, y \in lits : x # y /\ LevelOf(t, x) = level /\ LevelOf(t, y) = level
    <3>1. top \subseteq Lit
      BY <1>3 DEF AtLevel
    <3> QED BY <1>10, <3>1, MoreThanOne DEF AtLevel
  <2>2. level \in 1..Len(t.control)
    BY <1>6, <1>10
  <2>3. /\ Store(t', db') /\ Explains(t', db') /\ Sound(formula, db', t') /\ Len(t'.control) = level
        /\ \A b \in lits : IsFalse(t', b) /\ LevelOf(t', b) = LevelOf(t, b)
        /\ WatchesOK(t', db', t'.control[level].trail)
    <3>1. t' = Backtrack(t, level)
      BY <1>10
    <3> QED BY <1>1, <1>4, <1>6, <2>1, <2>2, <3>1, AnalyzeResolve DEF lits
  <2>4. Plain'
    BY <1>1, <1>10 DEF SearchInv, Plain
  <2>5. Flow' /\ Refuted'
    BY <1>1, <1>3, <1>10 DEF Flow, Refuted
  <2>6. Traversal'
    BY <1>1, <1>3, <1>5, <1>10, <2>3 DEF Traversal
  <2>7. Analysed'
    <3>1. /\ nonroot \subseteq Lit /\ nonroot \subseteq db'[conflict'].lits
          /\ analysis'.lits = nonroot /\ analysis'.conflictSize = Cardinality(nonroot)
      BY <1>3, <1>5, <1>10
    <3>2. Len(t'.control) > 0 /\ \E z \in nonroot : LevelOf(t', z) = Len(t'.control)
      BY <1>6, <2>1, <2>2, <2>3
    <3>3. ASSUME NEW z \in nonroot PROVE InClause(t', z)
      <4>1. z \in Lit /\ IsFalse(t', z) /\ LevelOf(t', z) > 0 /\ LevelOf(t', z) \in Nat /\ LevelOf(t', z) <= level
        BY <1>3, <1>6, <2>3
      <4> QED BY <2>2, <2>3, <4>1 DEF InClause, DecisionLevel
    <3>4. ASSUME NEW m \in SUBSET Var, IsModel(m, formula, {}) PROVE Holds(m, nonroot)
      <4>1. Satisfies(m, t, LitsOf(db))
        BY <1>3, <3>4 DEF Sound
      <4>2. PICK z \in lits : True(m, z)
        BY <1>3, <4>1, LitsOfIs DEF Satisfies, Holds, lits
      <4>3. LevelOf(t, z) # 0
        BY <1>3, <4>1, <4>2, RootFalse
      <4>4. LevelOf(t, z) > 0
        BY <1>6, <4>3
      <4> QED BY <4>2, <4>4 DEF Holds
    <3>5. UNCHANGED formula
      BY <1>1
    <3> HIDE DEF nonroot
    <3> QED BY <3>1, <3>2, <3>3, <3>4, <3>5 DEF Analysed
  <2>8. ReasonsOK'
    BY <2>3 DEF ReasonsOK, Explains
  <2>9. WatchInv'
    BY <1>10, <2>3 DEF WatchInv, Answered
  <2>10. Sound(formula', db', t')
    BY <1>1, <2>3
  <2> QED BY <2>3, <2>4, <2>5, <2>6, <2>7, <2>8, <2>9, <2>10 DEF SearchInv
<1> QED BY <1>2, <1>8, <1>9, <1>10

\* While literals are resolved.
LEMMA Resolving ==
  ASSUME SearchInv, pc = "resolve"
  PROVE  /\ Store(t, db) /\ Sound(formula, db, t) /\ unsat = FALSE
         /\ TrailOK(t) /\ ClausesOK(db) /\ visiting = {} /\ caller = "none"
         /\ conflict \in DOMAIN db /\ conflict # 0
         /\ \A x \in db[conflict].lits : IsFalse(t, x)
         /\ Len(t.control) \in Nat \ {0} /\ Len(t.trail) \in Nat
         /\ analysis.lits \subseteq Lit /\ \A x \in analysis.lits : InClause(t, x)
         /\ \E x \in analysis.lits : LevelOf(t, x) = Len(t.control)
         /\ WatchesOK(t, db, t.control[Len(t.control)].trail)
         /\ \A i \in 1..Len(t.trail) : Ahead(t, analysis.lits, i) => Justified(t, db, i)
<1>1. Store(t, db) /\ Sound(formula, db, t) /\ TrailOK(t) /\ ClausesOK(db)
  BY DEF SearchInv, Store
<1>2. unsat = FALSE /\ visiting = {} /\ caller = "none" /\ conflict # 0
  BY DEF SearchInv, Plain, Flow, Answered
<1>3. conflict \in DOMAIN db /\ \A x \in db[conflict].lits : IsFalse(t, x)
  BY <1>2 DEF SearchInv, Traversal
<1>4. /\ Len(t.control) > 0 /\ analysis.lits \subseteq Lit /\ \A x \in analysis.lits : InClause(t, x)
      /\ \E x \in analysis.lits : LevelOf(t, x) = Len(t.control)
  BY DEF SearchInv, Analysed
<1>5. Len(t.control) \in Nat /\ Len(t.trail) \in Nat
  BY <1>1, TrailTypes DEF TrailOK
<1>6. WatchesOK(t, db, t.control[Len(t.control)].trail)
  BY <1>2 DEF SearchInv, WatchInv
<1>7. \A i \in 1..Len(t.trail) : Ahead(t, analysis.lits, i) => Justified(t, db, i)
  BY DEF SearchInv, ReasonsOK
<1> QED BY <1>1, <1>2, <1>3, <1>4, <1>5, <1>6, <1>7

\* The place of a false literal.
LEMMA PositionIs ==
  ASSUME NEW u, TrailOK(u), NEW x \in Lit, NEW p \in 1..Len(u.trail), u.trail[p] = -x
  PROVE  Position(u, x) = p
<1>1. DOMAIN u.trail = 1..Len(u.trail) /\ VarOf(-x) = VarOf(x)
  BY TrailTypes, LitFacts DEF TrailOK
<1>2. \A i \in 1..Len(u.trail) : VarOf(u.trail[i]) = VarOf(x) <=> i = p
  BY <1>1 DEF TrailOK, Once
<1> QED BY <1>1, <1>2 DEF Position

\* The last of some false literals on the trail.
LEMMA LastOne ==
  ASSUME NEW u, TrailOK(u), NEW open, open # {}, \A x \in open : x \in Lit /\ IsFalse(u, x)
  PROVE  \E p \in 1..Len(u.trail) : /\ \E x \in open : u.trail[p] = -x
                                    /\ \A x \in open : \E q \in 1..p : u.trail[q] = -x
<1> DEFINE n == Len(u.trail)
           P == {p \in 1..n : \E x \in open : u.trail[p] = -x}
           S == {n - p : p \in P}
<1>1. n \in Nat
  BY TrailTypes DEF TrailOK
<1>2. \A x \in open : \E p \in P : u.trail[p] = -x
  <2> SUFFICES ASSUME NEW x \in open PROVE \E p \in P : u.trail[p] = -x
    OBVIOUS
  <2>1. PICK p \in 1..n : u.trail[p] = -x
    BY DEF IsFalse, Contains
  <2>2. p \in P
    BY <2>1
  <2> QED BY <2>1, <2>2
<1>3. S \subseteq Nat /\ S # {}
  <2>1. P # {} /\ P \subseteq 1..n
    BY <1>2
  <2> HIDE DEF P, n
  <2>2. \A p \in P : n - p \in Nat
    BY <1>1, <2>1
  <2>3. S # {}
    BY <2>1
  <2>4. S \subseteq Nat
    BY <2>2
  <2> QED BY <2>3, <2>4
<1>a. \A q \in P : n - q \in S
  OBVIOUS
<1>b. \A s \in S : \E p \in P : s = n - p
  OBVIOUS
<1>c. Min(S) \in S /\ \A s \in S : Min(S) <= s
  <2> HIDE DEF S
  <2> QED BY <1>3, MinIs
<1>4. PICK p \in P : Min(S) = n - p
  BY <1>b, <1>c
<1>5. ASSUME NEW q \in P PROVE q <= p
  <2>1. n - p <= n - q
    <3> HIDE DEF S, P, n
    <3> QED BY <1>a, <1>c, <1>4
  <2>2. p \in 1..n /\ q \in 1..n
    OBVIOUS
  <2> HIDE DEF n, P, S
  <2> QED BY <1>1, <2>1, <2>2
<1>6. \A x \in open : \E q \in 1..p : u.trail[q] = -x
  <2> SUFFICES ASSUME NEW x \in open PROVE \E q \in 1..p : u.trail[q] = -x
    OBVIOUS
  <2>1. PICK q \in P : u.trail[q] = -x
    BY <1>2
  <2>2. q \in 1..p
    BY <1>1, <1>5
  <2> QED BY <2>1, <2>2
<1> QED BY <1>6

\* The last of the literals to resolve, at the place p.
UipAt(p) ==
  /\ p \in 1..Len(t.trail) /\ t.trail[p] = Uip /\ Uip \in Lit /\ -Uip = LastOpen
  /\ LastOpen \in OpenLits /\ LevelOf(t, Uip) = Len(t.control)
  /\ \A x \in OpenLits : \E q \in 1..p : t.trail[q] = -x

\* The literal to resolve is the last one on the trail.
LEMMA UipIs ==
  ASSUME SearchInv, pc = "resolve"
  PROVE  \E p : UipAt(p)
<1>1. /\ TrailOK(t) /\ analysis.lits \subseteq Lit /\ \A x \in analysis.lits : InClause(t, x)
      /\ \E x \in analysis.lits : LevelOf(t, x) = Len(t.control)
  BY Resolving
<1>2. /\ OpenLits # {}
      /\ \A x \in OpenLits : x \in Lit /\ IsFalse(t, x) /\ LevelOf(t, x) = Len(t.control)
  BY <1>1 DEF OpenLits, AtLevel, InClause, DecisionLevel
<1>3. PICK p \in 1..Len(t.trail) : /\ \E x \in OpenLits : t.trail[p] = -x
                                   /\ \A x \in OpenLits : \E q \in 1..p : t.trail[q] = -x
  <2>1. \A x \in OpenLits : x \in Lit /\ IsFalse(t, x)
    BY <1>2
  <2> QED BY <1>1, <1>2, <2>1, LastOne
<1>4. PICK x \in OpenLits : t.trail[p] = -x
  BY <1>3
<1>5. Len(t.trail) \in Nat /\ p \in Nat
  BY <1>1, TrailTypes DEF TrailOK
<1>6. Position(t, x) = p
  BY <1>1, <1>2, <1>4, PositionIs
<1>7. ASSUME NEW b \in OpenLits PROVE Position(t, b) <= p /\ Position(t, b) \in Nat
                                      /\ t.trail[Position(t, b)] = -b
  <2>1. PICK q \in 1..p : t.trail[q] = -b
    BY <1>3
  <2>2. q \in 1..Len(t.trail) /\ q \in Nat /\ q <= p
    BY <1>5
  <2>3. Position(t, b) = q
    BY <1>1, <1>2, <2>1, <2>2, PositionIs
  <2> QED BY <2>1, <2>2, <2>3
<1>8. \A b \in OpenLits : Position(t, x) >= Position(t, b)
  BY <1>5, <1>6, <1>7
<1>9. LastOpen \in OpenLits /\ \A b \in OpenLits : Position(t, LastOpen) >= Position(t, b)
  BY <1>4, <1>8 DEF LastOpen
<1>10. Position(t, LastOpen) = p
  BY <1>4, <1>5, <1>6, <1>7, <1>9
<1>11. t.trail[p] = -LastOpen
  BY <1>7, <1>9, <1>10
<1>12. LastOpen \in Lit /\ Uip \in Lit /\ -Uip = LastOpen /\ LevelOf(t, Uip) = Len(t.control)
  BY <1>2, <1>9, LitFacts, SameVar DEF Uip
<1> QED BY <1>3, <1>9, <1>11, <1>12 DEF UipAt, Uip

\* What the analysis is ahead of.
LEMMA AheadIs ==
  ASSUME SearchInv, pc = "resolve", NEW p, UipAt(p), NEW i \in 1..Len(t.trail)
  PROVE  Ahead(t, analysis.lits, i) <=> LevelOf(t, t.trail[i]) < Len(t.control) \/ i <= p
<1>1. TrailOK(t) /\ Len(t.trail) \in Nat /\ p \in 1..Len(t.trail)
  BY Resolving DEF UipAt
<1>2. ASSUME i <= p PROVE Ahead(t, analysis.lits, i)
  <2>1. p \in i..Len(t.trail) /\ t.trail[p] = -LastOpen /\ LastOpen \in analysis.lits
        /\ LevelOf(t, LastOpen) = Len(t.control)
    BY <1>1, <1>2 DEF UipAt, OpenLits, AtLevel, Uip, DecisionLevel
  <2> QED BY <2>1 DEF Ahead
<1>3. ASSUME NEW x \in analysis.lits, NEW j \in i..Len(t.trail),
             LevelOf(t, x) = Len(t.control), t.trail[j] = -x
      PROVE  i <= p
  <2>1. x \in OpenLits
    BY <1>3 DEF OpenLits, AtLevel, DecisionLevel
  <2>2. PICK q \in 1..p : t.trail[q] = -x
    BY <2>1 DEF UipAt
  <2>3. q \in 1..Len(t.trail) /\ j \in 1..Len(t.trail)
    BY <1>1
  <2>4. q = j
    BY <1>1, <1>3, <2>2, <2>3 DEF TrailOK, Once
  <2> QED BY <1>1, <2>2, <2>3, <2>4
<1> QED BY <1>2, <1>3 DEF Ahead

\* The reason of the last literal and the resolvent with it.
Resolved(p) ==
  /\ Reason \in DOMAIN db /\ Reason # 0 /\ Uip \in db[Reason].lits /\ Justified(t, db, p)
  /\ \A x \in db[Reason].lits \ {Uip} :
       /\ \E q \in 1..(p - 1) : t.trail[q] = -x
       /\ LevelOf(t, x) <= Len(t.control)
  /\ Resolvent \subseteq Lit /\ \A x \in Resolvent : InClause(t, x)
  /\ \E x \in Resolvent : LevelOf(t, x) = Len(t.control)
  /\ \A x \in Resolvent : LevelOf(t, x) = Len(t.control) => \E q \in 1..(p - 1) : t.trail[q] = -x
  /\ \A m \in SUBSET Var : IsModel(m, formula, {}) => Holds(m, Resolvent)

\* The resolvent follows from the formula, is false, and reaches less far on the
\* trail.
LEMMA ResolventIs ==
  ASSUME SearchInv, pc = "resolve", Cardinality(OpenLits) > 1, NEW p, UipAt(p)
  PROVE  Resolved(p)
<1> DEFINE D == Len(t.control)
<1>1. /\ Store(t, db) /\ Sound(formula, db, t) /\ TrailOK(t) /\ ClausesOK(db)
      /\ D \in Nat \ {0} /\ Len(t.trail) \in Nat
      /\ analysis.lits \subseteq Lit /\ \A x \in analysis.lits : InClause(t, x)
      /\ \A i \in 1..Len(t.trail) : Ahead(t, analysis.lits, i) => Justified(t, db, i)
  BY Resolving
<1>2. /\ p \in 1..Len(t.trail) /\ t.trail[p] = Uip /\ Uip \in Lit /\ -Uip = LastOpen
      /\ LastOpen \in OpenLits /\ LevelOf(t, Uip) = D
      /\ \A x \in OpenLits : \E q \in 1..p : t.trail[q] = -x
  BY DEF UipAt
<1>3. OpenLits \subseteq analysis.lits /\ \A x \in OpenLits : LevelOf(t, x) = D
  BY DEF OpenLits, AtLevel, DecisionLevel
<1>4. -LastOpen = Uip
  BY DEF Uip
<1>5. ASSUME NEW x \in OpenLits, x # LastOpen PROVE \E q \in 1..(p - 1) : t.trail[q] = -x
  <2>1. PICK q \in 1..p : t.trail[q] = -x
    BY <1>2
  <2>2. x \in Lit /\ -(-x) = x /\ -(-LastOpen) = LastOpen
    BY <1>1, <1>2, <1>3, LitFacts
  <2>3. q # p
    BY <1>2, <1>4, <1>5, <2>1, <2>2
  <2>4. q \in 1..(p - 1)
    BY <1>1, <1>2, <2>3
  <2> QED BY <2>1, <2>4
<1>6. PICK other \in OpenLits : other # LastOpen
  <2>1. OpenLits \subseteq Lit
    BY <1>1, <1>3
  <2> QED BY <2>1, MoreThanOne
<1>7. PICK q \in 1..(p - 1) : t.trail[q] = -other
  BY <1>5, <1>6
<1>8. Reason # 0
  <2>1. other \in Lit /\ LevelOf(t, other) = D
    BY <1>1, <1>3
  <2>2. LevelOf(t, t.trail[q]) = D
    BY <1>7, <2>1, SameVar
  <2>3. LevelOf(t, t.trail[p]) > 0 /\ LevelOf(t, t.trail[p]) = LevelOf(t, t.trail[q])
    BY <1>1, <1>2, <2>2
  <2>4. ReasonOf(t, t.trail[p]) # 0
    BY <1>1, <1>2, <2>3, LaterHasReason
  <2> QED BY <1>2, <2>4 DEF Reason
<1>9. Justified(t, db, p)
  <2>1. Ahead(t, analysis.lits, p)
    <3>1. p <= p
      BY <1>1, <1>2
    <3> QED BY <1>2, <3>1, AheadIs
  <2> QED BY <1>1, <1>2, <2>1
<1>10. /\ Reason \in DOMAIN db /\ Uip \in db[Reason].lits
       /\ \A x \in db[Reason].lits \ {Uip} :
            /\ \E i \in 1..(p - 1) : t.trail[i] = -x
            /\ LevelOf(t, x) <= D
  <2>1. Explained(t, LitsOf(db), p) /\ t.trail[p] = Uip /\ ReasonOf(t, Uip) = Reason
    BY <1>2, <1>9 DEF Justified, Reason
  <2>2. /\ Reason \in DOMAIN LitsOf(db) /\ Uip \in LitsOf(db)[Reason]
        /\ \A x \in LitsOf(db)[Reason] \ {Uip} :
             /\ \E i \in 1..(p - 1) : t.trail[i] = -x
             /\ LevelOf(t, x) <= D
    BY <1>2, <1>8, <2>1 DEF Explained
  <2>3. Reason \in DOMAIN db /\ LitsOf(db)[Reason] = db[Reason].lits
    BY <1>1, <2>2, LitsOfIs
  <2> QED BY <2>2, <2>3
<1>11. db[Reason].lits \subseteq Lit
  BY <1>1, <1>10, ClauseFacts
<1>12. Resolvent = (analysis.lits \ {LastOpen})
                     \cup {x \in db[Reason].lits \ {Uip} : LevelOf(t, x) > 0}
  BY <1>2 DEF Resolvent, Antecedent, Lits
<1>13. ASSUME NEW x \in db[Reason].lits \ {Uip} PROVE IsFalse(t, x) /\ LevelOf(t, x) \in Nat
  <2>1. PICK i \in 1..(p - 1) : t.trail[i] = -x
    BY <1>10
  <2>2. i \in 1..Len(t.trail)
    BY <1>1, <1>2
  <2>3. IsFalse(t, x)
    BY <2>1, <2>2 DEF IsFalse, Contains
  <2> QED BY <1>1, <1>11, <2>3, TrailTypes DEF TrailOK
<1>14. Resolvent \subseteq Lit /\ \A x \in Resolvent : InClause(t, x)
  BY <1>1, <1>10, <1>11, <1>12, <1>13 DEF InClause, DecisionLevel
<1>15. \E x \in Resolvent : LevelOf(t, x) = D
  BY <1>3, <1>6, <1>12
<1>16. ASSUME NEW x \in Resolvent, LevelOf(t, x) = D PROVE \E i \in 1..(p - 1) : t.trail[i] = -x
  <2>1. CASE x \in analysis.lits \ {LastOpen}
    <3>1. x \in OpenLits
      BY <1>16, <2>1 DEF OpenLits, AtLevel, DecisionLevel
    <3> QED BY <1>5, <2>1, <3>1
  <2> QED BY <1>10, <1>12, <1>16, <2>1
<1>17. ASSUME NEW m \in SUBSET Var, IsModel(m, formula, {}) PROVE Holds(m, Resolvent)
  <2>1. Holds(m, analysis.lits)
    BY <1>17 DEF SearchInv, Analysed
  <2>2. PICK y \in analysis.lits : True(m, y)
    BY <2>1 DEF Holds
  <2>3. CASE y # LastOpen
    BY <1>12, <2>2, <2>3 DEF Holds
  <2>4. CASE y = LastOpen
    <3>1. Satisfies(m, t, LitsOf(db))
      BY <1>1, <1>17 DEF Sound
    <3>2. PICK z \in db[Reason].lits : True(m, z)
      BY <1>1, <1>10, <3>1, LitsOfIs DEF Satisfies, Holds
    <3>3. ~True(m, Uip)
      BY <1>2, <2>2, <2>4, Negated
    <3>4. z # Uip
      BY <3>2, <3>3
    <3>5. z \in Lit /\ IsFalse(t, z) /\ LevelOf(t, z) \in Nat
      BY <1>11, <1>13, <3>4
    <3>6. LevelOf(t, z) # 0
      BY <1>1, <3>1, <3>2, <3>5, RootFalse
    <3>7. LevelOf(t, z) > 0
      BY <3>5, <3>6
    <3> QED BY <1>12, <3>2, <3>4, <3>7 DEF Holds
  <2> QED BY <2>3, <2>4
<1> QED BY <1>8, <1>9, <1>10, <1>14, <1>15, <1>16, <1>17 DEF Resolved

\* The analysis has gone on: it is ahead of fewer places.
LEMMA AheadOfResolvent ==
  ASSUME SearchInv, pc = "resolve", NEW p, UipAt(p), Resolved(p), NEW i \in 1..Len(t.trail),
         Ahead(t, Resolvent, i)
  PROVE  i # p /\ Justified(t, db, i)
<1>1. /\ TrailOK(t) /\ Len(t.trail) \in Nat /\ Len(t.control) \in Nat
      /\ \A j \in 1..Len(t.trail) : Ahead(t, analysis.lits, j) => Justified(t, db, j)
  BY Resolving
<1>2. p \in 1..Len(t.trail) /\ LevelOf(t, t.trail[p]) = Len(t.control)
  BY DEF UipAt
<1>3. CASE LevelOf(t, t.trail[i]) < Len(t.control)
  <2>1. Ahead(t, analysis.lits, i)
    BY <1>3 DEF Ahead
  <2> QED BY <1>1, <1>2, <1>3, <2>1
<1>4. ASSUME NEW x \in Resolvent, NEW j \in i..Len(t.trail),
             LevelOf(t, x) = Len(t.control), t.trail[j] = -x
      PROVE  i # p /\ Justified(t, db, i)
  <2>1. PICK q \in 1..(p - 1) : t.trail[q] = -x
    BY <1>4 DEF Resolved
  <2>2. q \in 1..Len(t.trail) /\ j \in 1..Len(t.trail)
    BY <1>1, <1>2
  <2>3. q = j
    BY <1>1, <1>4, <2>1, <2>2 DEF TrailOK, Once
  <2>4. i < p /\ i <= p
    BY <1>1, <1>2, <2>1, <2>2, <2>3
  <2>5. Ahead(t, analysis.lits, i)
    BY <2>4, AheadIs
  <2> QED BY <1>1, <1>2, <2>4, <2>5
<1> QED BY <1>3, <1>4 DEF Ahead

\* A resolution preserves the invariant.
LEMMA ResolveInv ==
  ASSUME SearchInv, Resolve
  PROVE  SearchInv'
<1>1. /\ pc = "resolve" /\ Cardinality(OpenLits) > 1
      /\ analysis' = [lits |-> Resolvent, first |-> FALSE, conflictSize |-> analysis.conflictSize]
      /\ UNCHANGED <<db, t, conflict, unsat, pc, caller, formula, used, calls, assumptions,
                     constraint, reductions, visiting, unsatConstraint>>
  BY DEF Resolve, AnalysisUnchanged, queryVars, limitVars
<1>2. PICK p : UipAt(p)
  BY <1>1, UipIs
<1>3. Resolved(p)
  BY <1>1, <1>2, ResolventIs
<1>4. analysis'.lits = Resolvent /\ analysis'.first = FALSE
  BY <1>1
<1>5. Plain' /\ Flow' /\ Refuted'
  BY <1>1 DEF SearchInv, Plain, Flow, Refuted, Models
<1>6. Traversal'
  BY <1>1 DEF SearchInv, Traversal
<1>7. Analysed'
  <2>1. /\ Resolvent \subseteq Lit /\ \A x \in Resolvent : InClause(t, x)
        /\ \E x \in Resolvent : LevelOf(t, x) = Len(t.control)
        /\ \A m \in SUBSET Var : IsModel(m, formula, {}) => Holds(m, Resolvent)
    BY <1>3 DEF Resolved
  <2>2. Len(t.control) > 0
    BY <1>1 DEF SearchInv, Analysed
  <2> QED BY <1>1, <1>4, <2>1, <2>2 DEF Analysed
<1>8. ReasonsOK'
  <2> SUFFICES ASSUME NEW i \in 1..Len(t.trail), Ahead(t, Resolvent, i) PROVE Justified(t, db, i)
    BY <1>1, <1>4 DEF ReasonsOK
  <2> QED BY <1>1, <1>2, <1>3, AheadOfResolvent
<1>9. WatchInv'
  BY <1>1 DEF SearchInv, WatchInv, Answered
<1>10. Store(t', db') /\ Sound(formula', db', t')
  BY <1>1 DEF SearchInv
<1> QED BY <1>5, <1>6, <1>7, <1>8, <1>9, <1>10 DEF SearchInv

\* The levels to backtrack to.
LEMMA BacktrackLevelsIn ==
  ASSUME NEW jump \in 0..(Len(t.control) - 1), Len(t.control) \in Nat, assumptions \in Seq(Lit),
         NEW level \in BacktrackLevels(jump)
  PROVE  level \in jump..(Len(t.control) - 1)
<1> DEFINE D == Len(t.control)
<1>1. \/ level = jump \/ level = D - 1 \/ level \in (jump + 1)..(D - 1)
  BY DEF BacktrackLevels, DecisionLevel
<1> HIDE DEF D
<1>2. D \in Nat /\ jump \in 0..(D - 1)
  BY DEF D
<1>3. level \in jump..(D - 1)
  BY <1>1, <1>2
<1> QED BY <1>3 DEF D

\* The reason is strengthened, and it may subsume the conflict.
Strengthened(d) ==
  /\ ClausesOK(d) /\ DOMAIN d = DOMAIN db
  /\ d[Reason].lits = Resolvent /\ Dominates(t, d[Reason].watch, Resolvent)
  /\ d[Reason].garbage = FALSE
  /\ \A j \in DOMAIN db \ {Reason} : /\ d[j].lits = db[j].lits /\ d[j].watch = db[j].watch
                                     /\ d[j].garbage = FALSE => db[j].garbage = FALSE
                                     /\ j # conflict => d[j] = db[j]

\* The conflict is not the reason of a literal.
LEMMA ConflictNoReason ==
  ASSUME SearchInv, pc = "resolve", NEW i \in 1..Len(t.trail), Justified(t, db, i)
  PROVE  ReasonOf(t, t.trail[i]) # conflict
<1>1. /\ TrailOK(t) /\ ClausesOK(db) /\ conflict \in DOMAIN db
      /\ \A x \in db[conflict].lits : IsFalse(t, x)
  BY Resolving
<1>2. Explained(t, LitsOf(db), i)
  BY DEF Justified
<1> QED BY <1>1, <1>2, FalseNoReason

\* The strengthened reason is the resolvent, and the conflict it may subsume
\* becomes garbage.
LEMMA StrengthenedIs ==
  ASSUME SearchInv, Strengthen, NEW p, UipAt(p), Resolved(p)
  PROVE  Strengthened(db')
<1>1. pc = "resolve" /\ Strengthens
  BY DEF Strengthen
<1>2. PICK w \in HighestWatches(Resolvent, {}) :
        LET stronger == With(Reason, Shortened(db[Reason], Resolvent, w))
        IN  db' = IF analysis.first /\ Cardinality(Resolvent) < analysis.conflictSize
                  THEN Subsume(stronger, Reason, conflict)
                  ELSE stronger
  BY DEF Strengthen
<1> DEFINE x == Shortened(db[Reason], Resolvent, w)
           e == Put(db, Reason, x)
<1>3. With(Reason, x) = e
  BY DEF With, Put
<1>4. db' = Subsume(e, Reason, conflict) \/ db' = e
  BY <1>2, <1>3
<1>5. ClausesOK(db) /\ TrailOK(t) /\ conflict \in DOMAIN db
  BY <1>1, Resolving
<1>6. /\ Reason \in DOMAIN db /\ Reason # 0 /\ Justified(t, db, p) /\ Resolvent \subseteq Lit
      /\ p \in 1..Len(t.trail) /\ t.trail[p] = Uip
  BY DEF Resolved, UipAt
<1>7. conflict # Reason
  BY <1>1, <1>6, ConflictNoReason DEF Reason
<1>8. Dominates(t, w, Resolvent)
  BY <1>6, HighestWatchesAre
<1>9. /\ db[Reason].lits \subseteq Lit /\ db[Reason].redundant \in BOOLEAN
      /\ db[Reason].garbage \in BOOLEAN /\ Reason \in Ids
  BY <1>5, <1>6, ClauseFacts DEF ClausesOK
<1>10. db[Reason].garbage = FALSE
  <2>1. Antecedent \subseteq db[Reason].lits
    BY DEF Antecedent, Lits
  <2>2. Cardinality(Antecedent) > 2 /\ Cardinality(Antecedent) <= Cardinality(db[Reason].lits)
    BY <1>1, <1>9, <2>1, LitSet DEF Strengthens
  <2>3. Cardinality(Antecedent) \in Nat /\ Cardinality(db[Reason].lits) \in Nat
    BY <1>9, <2>1, LitSet
  <2>4. Cardinality(db[Reason].lits) > 2
    BY <2>2, <2>3
  <2>5. Alive(t, db, p) /\ ReasonOf(t, t.trail[p]) = Reason
    BY <1>6 DEF Justified, Reason
  <2>6. ~db[Reason].garbage
    BY <1>6, <2>4, <2>5 DEF Alive
  <2> QED BY <1>9, <2>6
<1>11. /\ x.lits = Resolvent /\ x.watch = w /\ x.garbage = FALSE /\ x.redundant \in BOOLEAN
  BY <1>9, <1>10 DEF Shortened
<1>12. ClauseOK(x)
  <2>1. w \subseteq Resolvent /\ Pair(w)
    BY <1>8 DEF Dominates
  <2> QED BY <1>6, <1>9, <2>1 DEF Shortened, ClauseOK, ClauseType
<1> HIDE DEF x
<1>13. /\ ClausesOK(e) /\ DOMAIN e = DOMAIN db /\ e[Reason] = x
       /\ \A i \in DOMAIN db \ {Reason} : e[i] = db[i]
  <2>1. ClausesOK(db) /\ Reason \in Ids /\ ClauseOK(x)
    BY <1>5, <1>9, <1>12
  <2>2. /\ ClausesOK(e) /\ DOMAIN e = DOMAIN db \cup {Reason} /\ e[Reason] = x
        /\ \A i \in DOMAIN db \ {Reason} : e[i] = db[i]
    BY <2>1, PutIs
  <2> QED BY <1>6, <2>2
<1> HIDE DEF e
<1>14. CASE db' = e
  BY <1>8, <1>11, <1>13, <1>14 DEF Strengthened
<1>15. CASE db' = Subsume(e, Reason, conflict)
  <2>1. DOMAIN db' = DOMAIN db
    BY <1>13, <1>15 DEF Subsume
  <2>2. /\ \A j \in DOMAIN db \ {Reason, conflict} : db'[j] = db[j]
        /\ db'[conflict] = Discarded(db[conflict])
        /\ db'[Reason] = [lits |-> x.lits, watch |-> x.watch, garbage |-> x.garbage,
                          redundant |-> x.redundant /\ e[conflict].redundant]
    BY <1>5, <1>6, <1>7, <1>13, <1>15 DEF Subsume
  <2>3. ClauseOK(db'[conflict])
    <3>1. ClauseOK(db[conflict])
      BY <1>5 DEF ClausesOK
    <3>2. ClauseOK(Discarded(db[conflict]))
      BY <3>1 DEF Discarded, ClauseOK, ClauseType
    <3> QED BY <2>2, <3>2
  <2>4. ClauseOK(db'[Reason])
    <3>1. (x.redundant /\ e[conflict].redundant) \in BOOLEAN
      OBVIOUS
    <3>2. x.lits \in SUBSET Lit /\ x.watch \in SUBSET Lit /\ x.watch \subseteq x.lits /\ Pair(x.watch)
          /\ x.garbage \in BOOLEAN
      BY <1>12 DEF ClauseOK, ClauseType
    <3> QED BY <2>2, <3>1, <3>2 DEF ClauseOK, ClauseType
  <2>5. ClausesOK(db')
    BY <1>5, <2>1, <2>2, <2>3, <2>4 DEF ClausesOK
  <2>6. db'[Reason].lits = Resolvent /\ db'[Reason].watch = w /\ db'[Reason].garbage = FALSE
    BY <1>11, <2>2
  <2>7. /\ db'[conflict].lits = db[conflict].lits /\ db'[conflict].watch = db[conflict].watch
        /\ db'[conflict].garbage = TRUE
    BY <2>2 DEF Discarded
  <2> QED BY <1>8, <2>1, <2>2, <2>5, <2>6, <2>7 DEF Strengthened
<1> QED BY <1>4, <1>14, <1>15

\* The reasons of the other literals and the other watches are as before.
LEMMA StrengthenKeeps ==
  ASSUME SearchInv, pc = "resolve", NEW p, UipAt(p), Resolved(p), NEW d, Strengthened(d)
  PROVE  /\ Store(t, d) /\ Sound(formula, d, t)
         /\ \A i \in 1..Len(t.trail) : i # p /\ Justified(t, db, i) => Justified(t, d, i)
         /\ \A j \in DOMAIN d \ {Reason} : \A q \in 1..t.control[Len(t.control)].trail :
              Watched(t, d, j, q)
<1>1. /\ Store(t, db) /\ Sound(formula, db, t) /\ TrailOK(t) /\ ClausesOK(db) /\ Stored(t, db)
      /\ conflict \in DOMAIN db
      /\ WatchesOK(t, db, t.control[Len(t.control)].trail)
  BY Resolving DEF Store
<1>2. /\ ClausesOK(d) /\ DOMAIN d = DOMAIN db /\ d[Reason].lits = Resolvent
      /\ \A j \in DOMAIN db \ {Reason} : /\ d[j].lits = db[j].lits /\ d[j].watch = db[j].watch
                                         /\ d[j].garbage = FALSE => db[j].garbage = FALSE
                                         /\ j # conflict => d[j] = db[j]
  BY DEF Strengthened
<1>3. Store(t, d)
  BY <1>1, <1>2 DEF Store, Stored
<1>4. Sound(formula, d, t)
  <2>1. ASSUME NEW m \in SUBSET Var, NEW id \in DOMAIN d, IsModel(m, formula, {}),
               Satisfies(m, t, LitsOf(db))
        PROVE  Holds(m, d[id].lits)
    <3>1. CASE id = Reason
      BY <1>2, <2>1, <3>1 DEF Resolved
    <3>2. CASE id # Reason
      BY <1>1, <1>2, <2>1, <3>2, LitsOfIs DEF Satisfies
    <3> QED BY <3>1, <3>2
  <2> QED BY <1>1, <1>2, <2>1, SoundClauses
<1>5. ASSUME NEW i \in 1..Len(t.trail), i # p, Justified(t, db, i) PROVE Justified(t, d, i)
  <2> DEFINE id == ReasonOf(t, t.trail[i])
  <2>1. id # 0 => id \in DOMAIN db
    BY <1>1, <1>5, LitsOfIs DEF Justified, Explained
  <2>2. id # conflict
    BY <1>5, ConflictNoReason
  <2>3. id # 0 => id # Reason
    <3> SUFFICES ASSUME id # 0, id = Reason PROVE FALSE
      OBVIOUS
    <3>1. /\ p \in 1..Len(t.trail) /\ ReasonOf(t, t.trail[p]) = Reason
          /\ Explained(t, LitsOf(db), p) /\ Explained(t, LitsOf(db), i)
      BY <1>5 DEF UipAt, Resolved, Justified, Reason
    <3>2. i = p
      BY <1>1, <3>1, ReasonOfOne
    <3> QED BY <1>5, <3>2
  <2>4. id # 0 => id \in DOMAIN d /\ d[id] = db[id]
    BY <1>2, <2>1, <2>2, <2>3
  <2> QED BY <1>1, <1>2, <1>5, <2>4, JustifiedClauses
<1>6. ASSUME NEW j \in DOMAIN d \ {Reason}, NEW q \in 1..t.control[Len(t.control)].trail
      PROVE  Watched(t, d, j, q)
  <2>1. j \in DOMAIN db /\ Watched(t, db, j, q)
    BY <1>1, <1>2 DEF WatchesOK
  <2>2. d[j].garbage \in BOOLEAN /\ db[j].garbage \in BOOLEAN
    BY <1>1, <1>2, <2>1, ClauseFacts
  <2>3. ~d[j].garbage => ~db[j].garbage
    BY <1>2, <2>1, <2>2
  <2>4. d[j].lits = db[j].lits /\ d[j].watch = db[j].watch
    BY <1>2
  <2> QED BY <2>1, <2>3, <2>4 DEF Watched, Supported
<1> QED BY <1>3, <1>4, <1>5, <1>6

\* The strengthened reason forces its literal of the conflict level.
LEMMA StrengthenForced ==
  ASSUME SearchInv, pc = "resolve", NEW p, UipAt(p), Resolved(p), NEW d, Strengthened(d),
         NEW forced \in Resolvent, LevelOf(t, forced) = Len(t.control),
         \A b \in Resolvent \ {forced} : LevelOf(t, b) # Len(t.control),
         NEW level \in BacktrackLevels(HighestLevel(t, Resolvent \ {forced}))
  PROVE  Settled(Imply(Backtrack(t, level), forced, Reason, Resolvent), d, formula)
<1> DEFINE D == Len(t.control)
           jump == HighestLevel(t, Resolvent \ {forced})
<1>1. TrailOK(t) /\ D \in Nat \ {0} /\ t \in TrailType /\ Len(t.trail) \in Nat
  BY Resolving DEF TrailOK
<1>2. /\ Store(t, d) /\ Sound(formula, d, t)
      /\ \A i \in 1..Len(t.trail) : i # p /\ Justified(t, db, i) => Justified(t, d, i)
      /\ \A j \in DOMAIN d \ {Reason} : \A q \in 1..t.control[Len(t.control)].trail :
           Watched(t, d, j, q)
  BY StrengthenKeeps
<1>3. /\ DOMAIN d = DOMAIN db /\ d[Reason].lits = Resolvent
      /\ Dominates(t, d[Reason].watch, Resolvent) /\ d[Reason].garbage = FALSE
  BY DEF Strengthened
<1>4. /\ Reason \in DOMAIN db /\ Resolvent \subseteq Lit /\ \A x \in Resolvent : InClause(t, x)
  BY DEF Resolved
<1>5. /\ jump \in 0..D /\ \A b \in Resolvent \ {forced} : LevelOf(t, b) <= jump
      /\ jump = 0 \/ \E b \in Resolvent \ {forced} : LevelOf(t, b) = jump
  <2>1. Resolvent \ {forced} \subseteq Lit
    BY <1>4
  <2> QED BY <1>1, <2>1, HighestIs
<1> HIDE DEF jump
<1>6. jump \in 0..(D - 1)
  BY <1>1, <1>5
<1>7. level \in jump..(D - 1)
  <2>1. assumptions \in Seq(Lit)
    BY DEF SearchInv, Plain
  <2>2. level \in BacktrackLevels(jump)
    BY DEF jump
  <2> QED BY <1>1, <1>6, <2>1, <2>2, BacktrackLevelsIn
<1>8. level \in 0..(D - 1) /\ level < D /\ jump <= level /\ level \in Nat
  BY <1>1, <1>6, <1>7
<1>9. \A b \in Resolvent \ {forced} : LevelOf(t, b) <= level /\ LevelOf(t, b) < LevelOf(t, forced)
  <2>1. \A b \in Resolvent : LevelOf(t, b) \in Nat
    BY <1>1, <1>4, TrailTypes
  <2> QED BY <1>1, <1>5, <1>6, <1>8, <2>1
<1>10. Ready(t, d, Reason, forced, level)
  <2>1. \E a \in Resolvent \ {forced} :
          /\ d[Reason].watch = {forced, a}
          /\ \A b \in Resolvent \ {forced} : LevelOf(t, b) <= LevelOf(t, a)
    <3>1. t \in TrailType /\ Resolvent \subseteq Lit /\ Dominates(t, d[Reason].watch, Resolvent)
      BY <1>1, <1>3, <1>4
    <3>2. \A b \in Resolvent \ {forced} : LevelOf(t, b) < LevelOf(t, forced)
      BY <1>9
    <3>3. TopPair(t, Resolvent, d[Reason].watch, forced)
      BY <3>1, <3>2, SingleTop
    <3> QED BY <3>3 DEF TopPair
  <2>2. \A x \in Resolvent : IsFalse(t, x)
    BY <1>4 DEF InClause
  <2>3. LevelOf(t, forced) > level
    BY <1>1, <1>8
  <2> QED BY <1>3, <1>4, <1>9, <2>1, <2>2, <2>3 DEF Ready
<1>11. ASSUME NEW i \in 1..Len(t.trail), LevelOf(t, t.trail[i]) <= level PROVE Justified(t, d, i)
  <2>1. LevelOf(t, t.trail[i]) \in Nat
    BY <1>1, TrailTypes
  <2>2. LevelOf(t, t.trail[i]) < D
    BY <1>8, <1>11, <2>1
  <2>3. Ahead(t, analysis.lits, i)
    BY <2>2 DEF Ahead
  <2>4. Justified(t, db, i)
    BY <2>3, Resolving
  <2>5. i # p
    BY <1>1, <2>2 DEF UipAt
  <2> QED BY <1>2, <2>4, <2>5
<1>12. ASSUME NEW j \in DOMAIN d \ {Reason}, NEW q \in 1..t.control[level + 1].trail
       PROVE  Watched(t, d, j, q)
  <2>1. level + 1 \in 1..D /\ D \in (level + 1)..D /\ D \in 1..D
    BY <1>1, <1>8
  <2>2. t.control[level + 1].trail <= t.control[D].trail
    BY <1>1, <2>1 DEF TrailOK, Heights
  <2>3. t.control[level + 1].trail \in Nat /\ t.control[D].trail \in Nat
    BY <1>1, <2>1, TrailTypes
  <2>4. q \in 1..t.control[D].trail
    BY <2>2, <2>3
  <2> QED BY <1>2, <2>4
<1>13. Settled(Imply(Backtrack(t, level), forced, Reason, d[Reason].lits), d, formula)
  BY <1>2, <1>8, <1>10, <1>11, <1>12, ForcedStep
<1> QED BY <1>3, <1>13

\* The watches of the strengthened reason when several of its literals are of
\* the conflict level.
LEMMA StrengthenWatches ==
  ASSUME SearchInv, pc = "resolve", NEW p, UipAt(p), Resolved(p), NEW d, Strengthened(d),
         NEW x \in Resolvent, NEW y \in Resolvent, x # y,
         LevelOf(t, x) = Len(t.control), LevelOf(t, y) = Len(t.control)
  PROVE  WatchesOK(t, d, t.control[Len(t.control)].trail)
<1> DEFINE D == Len(t.control)
<1>1. TrailOK(t) /\ D \in Nat \ {0} /\ t \in TrailType /\ Len(t.trail) \in Nat
  BY Resolving DEF TrailOK
<1>2. \A j \in DOMAIN d \ {Reason} : \A q \in 1..t.control[D].trail : Watched(t, d, j, q)
  BY StrengthenKeeps
<1>3. Dominates(t, d[Reason].watch, Resolvent) /\ Resolvent \subseteq Lit
  BY DEF Strengthened, Resolved
<1>4. \A a \in d[Reason].watch : LevelOf(t, a) = D
  <2>1. \A b \in Resolvent : LevelOf(t, b) <= D
    <3>1. \A b \in Resolvent : LevelOf(t, b) \in 0..D
      BY <1>1, <1>3, LevelBound
    <3> QED BY <1>1, <3>1
  <2> QED BY <1>1, <1>3, <2>1, BothTop
<1> SUFFICES ASSUME NEW j \in DOMAIN d, NEW q \in 1..t.control[D].trail PROVE Watched(t, d, j, q)
  BY DEF WatchesOK
<1>5. CASE j = Reason
  <2> SUFFICES ASSUME -t.trail[q] \in d[Reason].watch PROVE FALSE
    BY <1>5 DEF Watched
  <2>1. D \in 1..D /\ t.control[D].trail \in Nat
    BY <1>1, TrailTypes
  <2>2. t.control[D].trail <= t.propagated /\ t.propagated <= Len(t.trail) /\ t.propagated \in Nat
    BY <1>1, <2>1, TrailTypes DEF TrailOK, Heights
  <2>3. q \in 1..Len(t.trail)
    BY <1>1, <2>1, <2>2
  <2>4. t.trail[q] \in Lit
    BY <1>1, <2>3, TrailTypes
  <2>5. LevelOf(t, t.trail[q]) = D
    BY <1>4, <2>4, SameVar
  <2>6. t.control[D].trail < q
    BY <1>1, <2>3, <2>5 DEF TrailOK, Levels
  <2> QED BY <2>1, <2>6
<1>6. CASE j # Reason
  BY <1>2, <1>6
<1> QED BY <1>5, <1>6

\* On-the-fly strengthening preserves the invariant.
LEMMA StrengthenInv ==
  ASSUME SearchInv, Strengthen
  PROVE  SearchInv'
<1> DEFINE open == AtLevel(Resolvent, DecisionLevel(t))
           jump == HighestLevel(t, Resolvent \ open)
<1>1. /\ pc = "resolve" /\ Cardinality(OpenLits) > 1
      /\ UNCHANGED <<unsat, formula, used, calls, assumptions,
                     constraint, reductions, visiting, unsatConstraint>>
  BY DEF Strengthen, AnalysisUnchanged, queryVars, limitVars
<1>2. \/ \E forced \in open, level \in BacktrackLevels(jump) :
           /\ open = {forced}
           /\ t' = Imply(Backtrack(t, level), forced, Reason, Resolvent)
           /\ conflict' = 0 /\ analysis' = NoAnalysis /\ pc' = "propagate" /\ caller' = "search"
      \/ /\ Cardinality(open) > 1
         /\ conflict' = Reason
         /\ analysis' = [lits |-> Resolvent, first |-> TRUE, conflictSize |-> Cardinality(Resolvent)]
         /\ UNCHANGED <<t, pc, caller>>
  BY DEF Strengthen, Search
<1>3. PICK p : UipAt(p)
  BY <1>1, UipIs
<1>4. Resolved(p)
  BY <1>1, <1>3, ResolventIs
<1>5. Strengthened(db')
  BY <1>3, <1>4, StrengthenedIs
<1>6. unsat = FALSE /\ visiting = {} /\ caller = "none" /\ Len(t.control) \in Nat \ {0}
  BY <1>1, Resolving
<1>7. ASSUME NEW forced \in open, NEW level \in BacktrackLevels(jump), open = {forced},
             t' = Imply(Backtrack(t, level), forced, Reason, Resolvent),
             conflict' = 0, analysis' = NoAnalysis, pc' = "propagate", caller' = "search"
      PROVE  SearchInv'
  <2>1. /\ forced \in Resolvent /\ LevelOf(t, forced) = Len(t.control)
        /\ \A b \in Resolvent \ {forced} : LevelOf(t, b) # Len(t.control)
    BY <1>7 DEF AtLevel, DecisionLevel
  <2>2. level \in BacktrackLevels(HighestLevel(t, Resolvent \ {forced}))
    BY <1>7
  <2>3. Settled(t', db', formula)
    BY <1>1, <1>3, <1>4, <1>5, <1>7, <2>1, <2>2, StrengthenForced
  <2>4. Store(t', db') /\ Explains(t', db') /\ Sound(formula, db', t') /\ WatchesOK(t', db', t'.propagated)
    BY <2>3 DEF Settled
  <2>5. Plain'
    BY <1>1, <1>7 DEF SearchInv, Plain
  <2>6. Flow' /\ Refuted'
    BY <1>1, <1>6, <1>7 DEF Flow, Refuted
  <2>7. analysis'.lits \subseteq Lit
    BY <1>7 DEF NoAnalysis
  <2> QED BY <1>1, <1>6, <1>7, <2>4, <2>5, <2>6, <2>7, Settles
<1>8. CASE /\ Cardinality(open) > 1
           /\ conflict' = Reason
           /\ analysis' = [lits |-> Resolvent, first |-> TRUE, conflictSize |-> Cardinality(Resolvent)]
           /\ UNCHANGED <<t, pc, caller>>
  <2>1. /\ Reason \in DOMAIN db /\ Reason # 0 /\ Resolvent \subseteq Lit
        /\ \A x \in Resolvent : InClause(t, x)
        /\ \E x \in Resolvent : LevelOf(t, x) = Len(t.control)
        /\ \A m \in SUBSET Var : IsModel(m, formula, {}) => Holds(m, Resolvent)
    BY <1>4 DEF Resolved
  <2>2. db'[Reason].lits = Resolvent /\ DOMAIN db' = DOMAIN db
    BY <1>5 DEF Strengthened
  <2>3. /\ Store(t, db') /\ Sound(formula, db', t)
        /\ \A i \in 1..Len(t.trail) : i # p /\ Justified(t, db, i) => Justified(t, db', i)
    BY <1>1, <1>3, <1>4, <1>5, StrengthenKeeps
  <2>4. PICK x \in Resolvent, y \in Resolvent :
          x # y /\ LevelOf(t, x) = Len(t.control) /\ LevelOf(t, y) = Len(t.control)
    <3>1. open \subseteq Lit
      BY <2>1 DEF AtLevel
    <3> QED BY <1>8, <3>1, MoreThanOne DEF AtLevel, DecisionLevel
  <2>5. WatchesOK(t, db', t.control[Len(t.control)].trail)
    BY <1>1, <1>3, <1>4, <1>5, <2>4, StrengthenWatches
  <2>6. analysis'.lits = Resolvent /\ analysis'.conflictSize = Cardinality(Resolvent)
    BY <1>8
  <2>7. Plain'
    BY <1>1, <1>8 DEF SearchInv, Plain
  <2>8. Flow' /\ Refuted'
    BY <1>1, <1>6, <1>8, <2>1 DEF Flow, Refuted
  <2>9. Traversal'
    BY <1>1, <1>6, <1>8, <2>1, <2>2 DEF Traversal, InClause
  <2>10. Analysed'
    BY <1>1, <1>6, <1>8, <2>1, <2>2, <2>6 DEF Analysed
  <2>11. ReasonsOK'
    <3> SUFFICES ASSUME NEW i \in 1..Len(t.trail), Ahead(t, Resolvent, i) PROVE Justified(t, db', i)
      BY <1>1, <1>8, <2>6 DEF ReasonsOK
    <3> QED BY <1>1, <1>3, <1>4, <2>3, AheadOfResolvent
  <2>12. WatchInv'
    BY <1>1, <1>8, <2>5 DEF WatchInv, Answered
  <2>13. Store(t', db') /\ Sound(formula', db', t')
    BY <1>1, <1>8, <2>3
  <2> QED BY <2>7, <2>8, <2>9, <2>10, <2>11, <2>12, <2>13 DEF SearchInv
<1> QED BY <1>2, <1>7, <1>8

-----------------------------------------------------------------------------
(* The clause that is learned. *)

\* The learned clause: a single literal of the conflict level, all literals
\* false, and it holds in the models of the formula.
Learned(s) ==
  /\ s \subseteq Lit /\ \A x \in s : InClause(t, x)
  /\ LastOpen \in s /\ LevelOf(t, LastOpen) = Len(t.control)
  /\ \A x \in s \ {LastOpen} : LevelOf(t, x) # Len(t.control)
  /\ \A m \in SUBSET Var : IsModel(m, formula, {}) => Holds(m, s)

\* Shrinking the literals of a finished analysis gives such a clause.
LEMMA LearnedIs ==
  ASSUME SearchInv, pc = "resolve", Cardinality(OpenLits) = 1
  PROVE  Learned(ShrunkenClause(t, analysis.lits, LitsOf(db)))
<1> DEFINE s == ShrunkenClause(t, analysis.lits, LitsOf(db))
           D == Len(t.control)
<1>1. /\ TrailOK(t) /\ ClausesOK(db) /\ Sound(formula, db, t)
      /\ D \in Nat \ {0} /\ analysis.lits \subseteq Lit /\ \A x \in analysis.lits : InClause(t, x)
      /\ \A i \in 1..Len(t.trail) : Ahead(t, analysis.lits, i) => Justified(t, db, i)
  BY Resolving
<1>2. Reasons(t, LitsOf(db))
  <2>1. \A id \in DOMAIN LitsOf(db) : LitsOf(db)[id] \subseteq Lit
    BY <1>1, LitsOfIs
  <2>2. ASSUME NEW i \in 1..Len(t.trail) PROVE Reasoned(t, LitsOf(db), i)
    <3>1. LevelOf(t, t.trail[i]) < D => Ahead(t, analysis.lits, i)
      BY DEF Ahead
    <3> QED BY <1>1, <3>1 DEF Reasoned, Justified, DecisionLevel
  <2> QED BY <2>1, <2>2 DEF Reasons
<1>3. /\ \A x \in s : InClause(t, x)
      /\ {x \in s : LevelOf(t, x) = D} = {x \in analysis.lits : LevelOf(t, x) = D}
      /\ \A m : (Satisfies(m, t, LitsOf(db)) /\ Holds(m, analysis.lits)) => Holds(m, s)
  <2>1. DecisionLevel(t) = D /\ D > 0
    BY <1>1 DEF DecisionLevel
  <2> QED BY <1>1, <1>2, <2>1, ShrunkenClauseIs
<1> HIDE DEF s
<1>4. {x \in s : LevelOf(t, x) = D} = OpenLits
  BY <1>3 DEF OpenLits, AtLevel, DecisionLevel
<1>5. PICK p : UipAt(p)
  BY UipIs
<1>6. OpenLits = {LastOpen}
  <2>1. OpenLits \subseteq Lit
    BY <1>1 DEF OpenLits, AtLevel
  <2>2. \E a \in OpenLits : OpenLits = {a}
    BY <2>1, One
  <2> QED BY <1>5, <2>2 DEF UipAt
<1>7. LastOpen \in s /\ LevelOf(t, LastOpen) = D /\ \A x \in s \ {LastOpen} : LevelOf(t, x) # D
  BY <1>4, <1>6
<1>8. s \subseteq Lit
  BY <1>3 DEF InClause
<1>9. ASSUME NEW m \in SUBSET Var, IsModel(m, formula, {}) PROVE Holds(m, s)
  <2>1. Holds(m, analysis.lits)
    BY <1>9 DEF SearchInv, Analysed
  <2>2. Satisfies(m, t, LitsOf(db))
    BY <1>1, <1>9 DEF Sound
  <2> QED BY <1>3, <2>1, <2>2
<1>10. Learned(s)
  BY <1>3, <1>7, <1>8, <1>9 DEF Learned
<1> QED BY <1>10 DEF s

\* The highest of some false literals.
LEMMA HighestLit ==
  ASSUME NEW u, TrailOK(u), NEW lits, lits # {}, \A x \in lits : x \in Lit /\ IsFalse(u, x)
  PROVE  Highest(u, lits) \in lits /\ \A b \in lits : LevelOf(u, b) <= LevelOf(u, Highest(u, lits))
<1> DEFINE k == HighestLevel(u, lits)
           top == {x \in lits : LevelOf(u, x) = k}
<1>1. lits \subseteq Lit /\ Len(u.trail) \in Nat /\ \A x \in lits : LevelOf(u, x) \in Nat
  BY TrailTypes DEF TrailOK
<1>2. k \in Nat /\ (\A x \in lits : LevelOf(u, x) <= k)
      /\ (k = 0 \/ \E x \in lits : LevelOf(u, x) = k)
  <2>1. Len(u.control) \in Nat
    BY TrailTypes DEF TrailOK
  <2> QED BY <1>1, <2>1, HighestIs
<1> HIDE DEF k
<1>3. top # {}
  BY <1>1, <1>2
<1>4. PICK p \in 1..Len(u.trail) : /\ \E x \in top : u.trail[p] = -x
                                   /\ \A x \in top : \E q \in 1..p : u.trail[q] = -x
  <2>1. \A x \in top : x \in Lit /\ IsFalse(u, x)
    OBVIOUS
  <2> HIDE DEF top
  <2> QED BY <1>3, <2>1, LastOne
<1>5. PICK a \in top : u.trail[p] = -a
  BY <1>4
<1>6. Position(u, a) = p
  BY <1>1, <1>5, PositionIs
<1>7. ASSUME NEW b \in lits \ {a} PROVE Above(u, a, b)
  <2>1. CASE LevelOf(u, b) # k
    BY <1>1, <1>2, <2>1 DEF Above
  <2>2. CASE LevelOf(u, b) = k
    <3>1. PICK q \in 1..p : u.trail[q] = -b
      BY <1>4, <2>2
    <3>2. q \in 1..Len(u.trail) /\ p \in Nat /\ q \in Nat /\ q <= p
      BY <1>1
    <3>3. Position(u, b) = q
      BY <1>1, <3>1, <3>2, PositionIs
    <3>4. q # p
      <4>1. a \in Lit /\ b \in Lit /\ a # b
        BY <1>1
      <4>2. -(-a) = a /\ -(-b) = b
        BY <4>1, LitFacts
      <4> QED BY <1>5, <3>1, <4>1, <4>2
    <3> QED BY <1>5, <1>6, <2>2, <3>2, <3>3, <3>4 DEF Above
  <2> QED BY <2>1, <2>2
<1> DEFINE h == Highest(u, lits)
<1>8. h \in lits /\ \A b \in lits \ {h} : Above(u, h, b)
  BY <1>5, <1>7 DEF Highest
<1> HIDE DEF h
<1>9. ASSUME NEW b \in lits PROVE LevelOf(u, b) <= LevelOf(u, h)
  BY <1>1, <1>8 DEF Above
<1> QED BY <1>8, <1>9 DEF h

\* The level to go back to is below that of the conflict, and the literals
\* below the conflict level have the reasons they had.
LEMMA LearnLevel ==
  ASSUME SearchInv, pc = "resolve", NEW s, Learned(s),
         NEW level \in BacktrackLevels(HighestLevel(t, s \ {LastOpen}))
  PROVE  /\ level \in 0..(Len(t.control) - 1) /\ level < Len(t.control)
         /\ \A b \in s \ {LastOpen} : LevelOf(t, b) <= level
         /\ \A i \in 1..Len(t.trail) : LevelOf(t, t.trail[i]) <= level =>
              LevelOf(t, t.trail[i]) < Len(t.control) /\ Justified(t, db, i)
         /\ t.control[level + 1].trail \in Nat
         /\ \A q \in 1..t.control[level + 1].trail : \A j \in DOMAIN db : Watched(t, db, j, q)
<1> DEFINE D == Len(t.control)
           jump == HighestLevel(t, s \ {LastOpen})
<1>1. /\ TrailOK(t) /\ D \in Nat \ {0} /\ t \in TrailType /\ Len(t.trail) \in Nat
      /\ WatchesOK(t, db, t.control[D].trail)
      /\ \A i \in 1..Len(t.trail) : Ahead(t, analysis.lits, i) => Justified(t, db, i)
  BY Resolving DEF TrailOK
<1>2. s \ {LastOpen} \subseteq Lit /\ \A b \in s \ {LastOpen} : LevelOf(t, b) # D
  BY DEF Learned
<1>3. /\ jump \in 0..D /\ \A b \in s \ {LastOpen} : LevelOf(t, b) <= jump
      /\ jump = 0 \/ \E b \in s \ {LastOpen} : LevelOf(t, b) = jump
  BY <1>1, <1>2, HighestIs
<1> HIDE DEF jump
<1>4. jump \in 0..(D - 1)
  BY <1>1, <1>2, <1>3
<1>5. level \in jump..(D - 1)
  <2>1. assumptions \in Seq(Lit)
    BY DEF SearchInv, Plain
  <2>2. level \in BacktrackLevels(jump)
    BY DEF jump
  <2> QED BY <1>1, <1>4, <2>1, <2>2, BacktrackLevelsIn
<1>6. level \in 0..(D - 1) /\ level < D /\ jump <= level /\ level \in Nat
  BY <1>1, <1>4, <1>5
<1>7. \A b \in s \ {LastOpen} : LevelOf(t, b) <= level
  <2>1. \A b \in s \ {LastOpen} : LevelOf(t, b) \in Nat
    BY <1>1, <1>2, TrailTypes
  <2> QED BY <1>3, <1>4, <1>6, <2>1
<1>8. ASSUME NEW i \in 1..Len(t.trail), LevelOf(t, t.trail[i]) <= level
      PROVE  LevelOf(t, t.trail[i]) < D /\ Justified(t, db, i)
  <2>1. LevelOf(t, t.trail[i]) \in Nat
    BY <1>1, TrailTypes
  <2>2. LevelOf(t, t.trail[i]) < D
    BY <1>1, <1>6, <1>8, <2>1
  <2>3. Ahead(t, analysis.lits, i)
    BY <2>2 DEF Ahead
  <2> QED BY <1>1, <2>2, <2>3
<1>9. level + 1 \in 1..D /\ D \in (level + 1)..D /\ D \in 1..D
  BY <1>1, <1>6
<1>10. t.control[level + 1].trail \in Nat /\ t.control[D].trail \in Nat
  BY <1>1, <1>9, TrailTypes
<1>11. t.control[level + 1].trail <= t.control[D].trail
  BY <1>1, <1>9 DEF TrailOK, Heights
<1>12. ASSUME NEW q \in 1..t.control[level + 1].trail, NEW j \in DOMAIN db PROVE Watched(t, db, j, q)
  <2>1. q \in 1..t.control[D].trail
    BY <1>10, <1>11
  <2> QED BY <1>1, <2>1 DEF WatchesOK
<1> QED BY <1>6, <1>7, <1>8, <1>10, <1>12

\* A learned unit is assigned at the root level.
LEMMA LearnUnit ==
  ASSUME SearchInv, pc = "resolve", NEW s, Learned(s), s = {LastOpen},
         NEW level \in BacktrackLevels(HighestLevel(t, s \ {LastOpen}))
  PROVE  Settled(AssignUnit(Backtrack(t, level), LastOpen), db, formula)
<1> DEFINE B == Backtrack(t, level)
           v == AssignUnit(B, LastOpen)
           D == Len(t.control)
<1>1. /\ Store(t, db) /\ Sound(formula, db, t) /\ TrailOK(t) /\ ClausesOK(db)
      /\ D \in Nat \ {0} /\ Len(t.trail) \in Nat
  BY Resolving
<1>2. /\ level \in 0..(D - 1) /\ level < D
      /\ \A i \in 1..Len(t.trail) : LevelOf(t, t.trail[i]) <= level => Justified(t, db, i)
      /\ t.control[level + 1].trail \in Nat
      /\ \A q \in 1..t.control[level + 1].trail : \A j \in DOMAIN db : Watched(t, db, j, q)
  BY LearnLevel
<1>3. level \in 0..D /\ level # D /\ level \in Nat
  BY <1>1, <1>2
<1>4. Store(B, db) /\ Explains(B, db) /\ Sound(formula, db, B)
  BY <1>1, <1>2, <1>3, BacktrackKeeps
<1>5. /\ TrailOK(B)
      /\ \A lit \in Lit : IsTrue(B, lit) <=> IsTrue(t, lit) /\ LevelOf(t, lit) <= level
      /\ B.propagated = t.control[level + 1].trail /\ B.propagated <= Len(t.trail)
  BY <1>1, <1>3, BacktrackIs
<1>6. LastOpen \in Lit /\ -LastOpen \in Lit /\ LevelOf(t, LastOpen) = D /\ LevelOf(t, -LastOpen) = D
  <2>1. LastOpen \in Lit /\ LevelOf(t, LastOpen) = D
    BY DEF Learned
  <2> QED BY <2>1, LitFacts, SameVar
<1> HIDE DEF B
<1>7. IsOpen(B, LastOpen)
  <2>1. ~(D <= level)
    BY <1>1, <1>2, <1>3
  <2>2. ~IsTrue(B, LastOpen) /\ ~IsTrue(B, -LastOpen)
    BY <1>5, <1>6, <2>1
  <2> QED BY <2>2 DEF IsOpen, IsFalse, IsTrue
<1>8. \A m \in SUBSET Var : IsModel(m, formula, {}) => True(m, LastOpen)
  BY DEF Learned, Holds
<1>9. /\ Store(v, db) /\ Explains(v, db) /\ Sound(formula, db, v)
      /\ Extended(v, B, LastOpen) /\ v.propagated = B.propagated
  BY <1>4, <1>6, <1>7, <1>8, UnitKeeps
<1> HIDE DEF v
<1>10. WatchesOK(v, db, v.propagated)
  <2> SUFFICES ASSUME NEW j \in DOMAIN db, NEW q \in 1..B.propagated PROVE Watched(v, db, j, q)
    BY <1>9 DEF WatchesOK
  <2>1. q \in 1..Len(B.trail)
    BY <1>5, TrailTypes DEF TrailOK, Heights
  <2>2. q \in 1..t.control[level + 1].trail /\ q \in 1..Len(t.trail) /\ q <= t.control[level + 1].trail
    BY <1>1, <1>2, <1>5
  <2>3. Watched(t, db, j, q)
    BY <1>2, <2>2
  <2>4. Watched(B, db, j, q)
    BY <1>1, <1>3, <2>2, <2>3, BacktrackWatched DEF B
  <2> QED BY <1>1, <1>5, <1>6, <1>7, <1>9, <2>1, <2>4, ExtendedWatched
<1>11. Settled(v, db, formula)
  BY <1>9, <1>10 DEF Settled
<1> QED BY <1>11 DEF v, B

\* The learned clause is in memory and clauses it subsumes are garbage.
Grown(d, id, s) ==
  /\ ClausesOK(d) /\ DOMAIN d = DOMAIN db \cup {id} /\ id \notin DOMAIN db /\ id # 0
  /\ d[id].lits = s /\ d[id].watch = {LastOpen, Highest(t, s \ {LastOpen})}
  /\ d[id].garbage = FALSE
  /\ \A j \in DOMAIN db : d[j] = db[j] \/ (s \subseteq db[j].lits /\ d[j] = Discarded(db[j]))

\* The learned clause enters memory and eager subsumption marks what it subsumes.
LEMMA GrownIs ==
  ASSUME SearchInv, pc = "resolve", NEW s, Learned(s), s # {LastOpen},
         NEW id \in Ids, id \notin DOMAIN db, id # 0, NEW watch, watch = {LastOpen, Highest(t, s \ {LastOpen})}
  PROVE  Grown(EagerlySubsume(With(id, NewClause(s, watch, TRUE)), id), id, s)
<1> DEFINE x == NewClause(s, watch, TRUE)
           e == Put(db, id, x)
           d == EagerlySubsume(e, id)
           h == Highest(t, s \ {LastOpen})
<1>1. TrailOK(t) /\ ClausesOK(db)
  BY Resolving
<1>2. s \subseteq Lit /\ LastOpen \in s /\ \A y \in s : IsFalse(t, y)
  BY DEF Learned, InClause
<1>3. h \in s \ {LastOpen}
  <2>1. s \ {LastOpen} # {} /\ \A y \in s \ {LastOpen} : y \in Lit /\ IsFalse(t, y)
    BY <1>2
  <2> QED BY <1>1, <2>1, HighestLit
<1> HIDE DEF h
<1>4. watch = {LastOpen, h}
  BY DEF h
<1>5. watch \subseteq s /\ Pair(watch)
  BY <1>2, <1>3, <1>4 DEF Pair
<1>6. x.lits = s /\ x.watch = watch /\ x.garbage = FALSE /\ ClauseOK(x)
  BY <1>2, <1>5 DEF NewClause, ClauseOK, ClauseType
<1>7. id \in Ids /\ id \notin DOMAIN db /\ id # 0
  OBVIOUS
<1> HIDE DEF x
<1>8. /\ ClausesOK(e) /\ DOMAIN e = DOMAIN db \cup {id} /\ e[id] = x
      /\ \A j \in DOMAIN db : e[j] = db[j]
  <2>1. ClausesOK(db) /\ id \in Ids /\ ClauseOK(x)
    BY <1>1, <1>6, <1>7
  <2>2. /\ ClausesOK(e) /\ DOMAIN e = DOMAIN db \cup {id} /\ e[id] = x
        /\ \A i \in DOMAIN db \ {id} : e[i] = db[i]
    BY <2>1, PutIs
  <2> HIDE DEF e
  <2> QED BY <1>7, <2>2
<1>9. With(id, x) = e
  BY DEF With, Put
<1> HIDE DEF e
<1>10. /\ DOMAIN d = DOMAIN db \cup {id} /\ d[id] = x
       /\ \A j \in DOMAIN db : d[j] = db[j] \/ (s \subseteq db[j].lits /\ d[j] = Discarded(db[j]))
  BY <1>6, <1>7, <1>8 DEF EagerlySubsume
<1>11. ClausesOK(d)
  <2>1. ASSUME NEW j \in DOMAIN db PROVE ClauseOK(d[j])
    <3>1. ClauseOK(db[j])
      BY <1>1 DEF ClausesOK
    <3>2. ClauseOK(Discarded(db[j]))
      BY <3>1 DEF Discarded, ClauseOK, ClauseType
    <3> QED BY <1>10, <3>1, <3>2
  <2>2. ClauseOK(d[id])
    BY <1>6, <1>10
  <2>3. DOMAIN d \subseteq Ids
    BY <1>1, <1>7, <1>10 DEF ClausesOK
  <2> HIDE DEF d
  <2> QED BY <1>10, <2>1, <2>2, <2>3 DEF ClausesOK
<1>12. d[id].lits = s /\ d[id].watch = {LastOpen, Highest(t, s \ {LastOpen})} /\ d[id].garbage = FALSE
  BY <1>6, <1>10
<1> HIDE DEF d
<1>13. Grown(d, id, s)
  BY <1>7, <1>10, <1>11, <1>12 DEF Grown
<1> QED BY <1>9, <1>13 DEF x, d

\* A learned clause forces its literal of the conflict level.
LEMMA LearnClause ==
  ASSUME SearchInv, pc = "resolve", NEW s, Learned(s), s # {LastOpen}, NEW id, NEW d, Grown(d, id, s),
         NEW level \in BacktrackLevels(HighestLevel(t, s \ {LastOpen}))
  PROVE  Settled(Imply(Backtrack(t, level), LastOpen, id, s), d, formula)
<1> DEFINE D == Len(t.control)
           h == Highest(t, s \ {LastOpen})
<1>1. /\ Store(t, db) /\ Sound(formula, db, t) /\ TrailOK(t) /\ ClausesOK(db) /\ Stored(t, db)
      /\ D \in Nat \ {0} /\ Len(t.trail) \in Nat
  BY Resolving DEF Store
<1>2. /\ level \in 0..(D - 1) /\ level < D /\ \A b \in s \ {LastOpen} : LevelOf(t, b) <= level
      /\ \A i \in 1..Len(t.trail) : LevelOf(t, t.trail[i]) <= level =>
           LevelOf(t, t.trail[i]) < D /\ Justified(t, db, i)
      /\ \A q \in 1..t.control[level + 1].trail : \A j \in DOMAIN db : Watched(t, db, j, q)
  BY LearnLevel
<1>3. /\ s \subseteq Lit /\ LastOpen \in s /\ LevelOf(t, LastOpen) = D
      /\ \A y \in s : IsFalse(t, y)
      /\ \A m \in SUBSET Var : IsModel(m, formula, {}) => Holds(m, s)
  BY DEF Learned, InClause
<1>4. /\ ClausesOK(d) /\ DOMAIN d = DOMAIN db \cup {id} /\ id \notin DOMAIN db /\ id # 0
      /\ d[id].lits = s /\ d[id].watch = {LastOpen, h} /\ d[id].garbage = FALSE
      /\ \A j \in DOMAIN db : d[j] = db[j] \/ (s \subseteq db[j].lits /\ d[j] = Discarded(db[j]))
  BY DEF Grown
<1>5. h \in s \ {LastOpen} /\ \A b \in s \ {LastOpen} : LevelOf(t, b) <= LevelOf(t, h)
  <2>1. s \ {LastOpen} # {} /\ \A y \in s \ {LastOpen} : y \in Lit /\ IsFalse(t, y)
    BY <1>3
  <2> QED BY <1>1, <2>1, HighestLit
<1> HIDE DEF h
<1>6. \A j \in DOMAIN db : d[j].lits = db[j].lits /\ d[j].watch = db[j].watch
  BY <1>4 DEF Discarded
<1>7. Store(t, d)
  BY <1>1, <1>4 DEF Store, Stored
<1>8. Sound(formula, d, t)
  <2>1. ASSUME NEW m \in SUBSET Var, NEW j \in DOMAIN d, IsModel(m, formula, {}),
               Satisfies(m, t, LitsOf(db))
        PROVE  Holds(m, d[j].lits)
    <3>1. CASE j = id
      BY <1>3, <1>4, <2>1, <3>1
    <3>2. CASE j # id
      BY <1>1, <1>4, <1>6, <2>1, <3>2, LitsOfIs DEF Satisfies
    <3> QED BY <3>1, <3>2
  <2> QED BY <1>1, <1>4, <2>1, SoundClauses
<1>9. ASSUME NEW i \in 1..Len(t.trail), LevelOf(t, t.trail[i]) <= level PROVE Justified(t, d, i)
  <2> DEFINE r == ReasonOf(t, t.trail[i])
  <2>1. Justified(t, db, i) /\ LevelOf(t, t.trail[i]) < D
    BY <1>2, <1>9
  <2>2. r # 0 => /\ r \in DOMAIN db
                 /\ \A y \in db[r].lits : y = t.trail[i] \/ LevelOf(t, y) <= LevelOf(t, t.trail[i])
    BY <1>1, <2>1, LitsOfIs DEF Justified, Explained
  <2>3. r # 0 => ~(s \subseteq db[r].lits)
    <3> SUFFICES ASSUME r # 0, LastOpen \in db[r].lits PROVE FALSE
      BY <1>3
    <3>1. LevelOf(t, t.trail[i]) \in Nat
      BY <1>1, TrailTypes DEF TrailOK
    <3> QED BY <1>1, <1>3, <2>1, <2>2, <3>1
  <2>4. r # 0 => r \in DOMAIN d /\ d[r] = db[r]
    BY <1>4, <2>2, <2>3
  <2> QED BY <1>1, <1>4, <2>1, <2>4, JustifiedClauses
<1>10. Ready(t, d, id, LastOpen, level)
  <2>1. LevelOf(t, LastOpen) > level
    BY <1>1, <1>2, <1>3
  <2>2. \E a \in d[id].lits \ {LastOpen} :
          /\ d[id].watch = {LastOpen, a}
          /\ \A b \in d[id].lits \ {LastOpen} : LevelOf(t, b) <= LevelOf(t, a)
    BY <1>4, <1>5
  <2> QED BY <1>2, <1>3, <1>4, <2>1, <2>2 DEF Ready
<1>11. ASSUME NEW j \in DOMAIN d \ {id}, NEW q \in 1..t.control[level + 1].trail
       PROVE  Watched(t, d, j, q)
  <2>1. j \in DOMAIN db /\ Watched(t, db, j, q)
    BY <1>2, <1>4
  <2>2. CASE d[j] = db[j]
    BY <2>1, <2>2 DEF Watched, Supported
  <2>3. CASE d[j] = Discarded(db[j])
    <3>1. d[j].garbage
      BY <2>3 DEF Discarded
    <3> QED BY <3>1 DEF Watched
  <2> QED BY <1>4, <2>1, <2>2, <2>3
<1>12. Settled(Imply(Backtrack(t, level), LastOpen, id, d[id].lits), d, formula)
  BY <1>2, <1>7, <1>8, <1>9, <1>10, <1>11, ForcedStep
<1> QED BY <1>4, <1>12

\* Learning a clause preserves the invariant.
LEMMA LearnInv ==
  ASSUME SearchInv, Learn
  PROVE  SearchInv'
<1> DEFINE s == ShrunkenClause(t, analysis.lits, LitsOf(db))
           id == Min(FreeIds)
           watch == {LastOpen, Highest(t, s \ {LastOpen})}
<1>0. s = ShrunkenClause(t, analysis.lits, [i \in DOMAIN db |-> Lits(i)])
  BY DEF LitsOf, Lits
<1>1. /\ pc = "resolve" /\ Cardinality(OpenLits) = 1
      /\ conflict' = 0 /\ analysis' = NoAnalysis /\ pc' = "propagate" /\ caller' = "search"
      /\ UNCHANGED <<unsat, formula, used, calls, assumptions,
                     constraint, reductions, visiting, unsatConstraint>>
  BY DEF Learn, AnalysisUnchanged, queryVars, limitVars, Search
<1>2. Learned(s)
  BY <1>1, LearnedIs
<1>3. PICK level \in BacktrackLevels(HighestLevel(t, s \ {LastOpen})) :
        \/ /\ s = {LastOpen}
           /\ t' = AssignUnit(Backtrack(t, level), LastOpen)
           /\ UNCHANGED db
        \/ /\ s # {LastOpen} /\ FreeIds # {}
           /\ t' = Imply(Backtrack(t, level), LastOpen, id, s)
           /\ db' = EagerlySubsume(With(id, NewClause(s, watch, TRUE)), id)
  BY <1>0 DEF Learn
<1>4. unsat = FALSE /\ visiting = {}
  BY <1>1, Resolving
<1> HIDE DEF s
<1>5. Settled(t', db', formula)
  <2>1. CASE /\ s = {LastOpen} /\ t' = AssignUnit(Backtrack(t, level), LastOpen) /\ UNCHANGED db
    BY <1>1, <1>2, <2>1, LearnUnit
  <2>2. CASE /\ s # {LastOpen} /\ FreeIds # {}
             /\ t' = Imply(Backtrack(t, level), LastOpen, id, s)
             /\ db' = EagerlySubsume(With(id, NewClause(s, watch, TRUE)), id)
    <3>0. id \in Ids /\ id \notin DOMAIN db /\ id # 0
      BY <2>2, FreeIs
    <3>1. Grown(db', id, s)
      BY <1>1, <1>2, <2>2, <3>0, GrownIs
    <3> HIDE DEF id, watch
    <3> QED BY <1>1, <1>2, <2>2, <3>1, LearnClause
  <2> QED BY <1>3, <2>1, <2>2
<1>6. Store(t', db') /\ Explains(t', db') /\ Sound(formula, db', t') /\ WatchesOK(t', db', t'.propagated)
  BY <1>5 DEF Settled
<1>7. Plain'
  BY <1>1 DEF SearchInv, Plain
<1>8. Flow' /\ Refuted'
  BY <1>1, <1>4 DEF Flow, Refuted
<1>9. analysis'.lits \subseteq Lit
  BY <1>1 DEF NoAnalysis
<1> QED BY <1>1, <1>4, <1>6, <1>7, <1>8, <1>9, Settles

-----------------------------------------------------------------------------
(* The invariant holds, and what follows from it. *)

\* The invariant is one of a state in which nothing changes.
LEMMA StutterInv ==
  ASSUME SearchInv, UNCHANGED vars
  PROVE  SearchInv'
<1>1. UNCHANGED <<formula, used, db, calls, assumptions, constraint, reductions, t, visiting,
                  conflict, analysis, unsat, unsatConstraint, pc, caller>>
  BY DEF vars, clauseVars, queryVars, limitVars
<1>2. Plain' /\ Flow' /\ Refuted' /\ Traversal' /\ Analysed'
  BY <1>1 DEF SearchInv, Plain, Flow, Refuted, Traversal, Analysed, Models
<1>3. ReasonsOK' /\ WatchInv'
  BY <1>1 DEF SearchInv, ReasonsOK, WatchInv
<1>4. Store(t', db') /\ Sound(formula', db', t')
  BY <1>1 DEF SearchInv
<1> QED BY <1>2, <1>3, <1>4 DEF SearchInv

\* Every step of the search preserves the invariant.
LEMMA NextInv ==
  ASSUME SearchInv, [Next]_vars
  PROVE  SearchInv'
<1>1. CASE Next
  <2>1. CASE Add \/ Assume \/ Constrain \/ Solve \/ Release
    BY <2>1, AddInv, AssumeInv, ConstrainInv, SolveInv, ReleaseInv
  <2>2. CASE NextLiteral \/ Visit \/ Propagated
    BY <2>2, NextLiteralInv, VisitInv, PropagatedInv
  <2>3. CASE Analyze \/ Resolve \/ Strengthen \/ Learn
    BY <2>3, AnalyzeInv, ResolveInv, StrengthenInv, LearnInv
  <2>4. CASE FoundModel \/ GiveUp \/ FailAssumption \/ FailConstraint
    BY <2>4, AnswerInv
  <2>5. CASE Restart \/ Reduce \/ Collect \/ Decide
    BY <2>5, RestartInv, ReduceInv, CollectInv, DecideInv
  <2> QED BY <1>1, <2>1, <2>2, <2>3, <2>4, <2>5 DEF Next
<1>2. CASE UNCHANGED vars
  BY <1>2, StutterInv
<1> QED BY <1>1, <1>2

\* The invariant holds in every state of the search.
THEOREM SearchSafe == Spec => []SearchInv
<1>1. Init => SearchInv
  BY InitInv
<1>2. SearchInv /\ [Next]_vars => SearchInv'
  BY NextInv
<1> QED BY <1>1, <1>2, PTL DEF Spec

\* The models of the formula satisfy everything derived.
LEMMA DerivedFollow ==
  ASSUME SearchInv
  PROVE  DerivedFollows
<1> SUFFICES ASSUME NEW m \in Models(formula)
             PROVE  IsModel(m, {Lits(id) : id \in DOMAIN db}, RootUnits(t)) /\ ~unsat
  BY DEF DerivedFollows
<1>1. Satisfies(m, t, LitsOf(db)) /\ ClausesOK(db)
  BY DEF SearchInv, Sound, Store, Models
<1>2. IsModel(m, {Lits(id) : id \in DOMAIN db}, RootUnits(t))
  BY <1>1, LitsOfIs DEF Satisfies, IsModel, Lits
<1>3. ~unsat
  BY DEF SearchInv, Refuted
<1> QED BY <1>2, <1>3

\* Every clause in memory and every unit of the root level follows from the
\* formula, and so does the empty clause once it is derived.
THEOREM DerivationSound == Spec => []DerivedFollows
  BY SearchSafe, DerivedFollow, PTL

\* The reasons are those that conflict analysis relies on.
LEMMA ReasonsAreExplained ==
  ASSUME SearchInv
  PROVE  ReasonsExplain
<1> SUFFICES ASSUME pc # "resolve", NEW i \in DOMAIN t.trail, ReasonOf(t, t.trail[i]) # 0
             PROVE  LET lit == t.trail[i]
                        id == ReasonOf(t, lit)
                    IN  /\ id \in DOMAIN db /\ lit \in Lits(id)
                        /\ \A other \in Lits(id) \ {lit} : \E j \in 1..(i - 1) : t.trail[j] = -other
                        /\ LevelOf(t, lit) = HighestLevel(t, Lits(id) \ {lit})
                        /\ LevelOf(t, lit) > 0
                        /\ Cardinality(Lits(id)) > 2 => ~db[id].garbage
  BY DEF ReasonsExplain
<1> DEFINE lit == t.trail[i]
           id == ReasonOf(t, lit)
           k == LevelOf(t, lit)
<1>1. TrailOK(t) /\ ClausesOK(db)
  BY DEF SearchInv, Store
<1>2. i \in 1..Len(t.trail) /\ t \in TrailType /\ lit \in Lit /\ k \in Nat
  BY <1>1, TrailTypes DEF TrailOK
<1>3. Justified(t, db, i)
  BY <1>2 DEF SearchInv, ReasonsOK
<1>4. /\ id \in DOMAIN db /\ lit \in db[id].lits
      /\ \A other \in db[id].lits \ {lit} :
           /\ \E j \in 1..(i - 1) : t.trail[j] = -other
           /\ LevelOf(t, other) <= k
      /\ \E other \in db[id].lits \ {lit} : LevelOf(t, other) = k
      /\ k > 0
  BY <1>1, <1>3, LitsOfIs DEF Justified, Explained
<1>5. Cardinality(db[id].lits) > 2 => ~db[id].garbage
  BY <1>3 DEF Justified, Alive
<1>6. db[id].lits \ {lit} \subseteq Lit
  BY <1>1, <1>4, ClauseFacts
<1> HIDE DEF lit, id, k
<1>7. HighestLevel(t, db[id].lits \ {lit}) = k
  BY <1>2, <1>4, <1>6, HighestOf
<1> QED BY <1>4, <1>5, <1>7 DEF Lits, lit, id, k

\* Outside conflict analysis every implied literal has a reason in memory.
THEOREM ReasonsSafe == Spec => []ReasonsExplain
  BY SearchSafe, ReasonsAreExplained, PTL

\* Two watches suffice: a watch that is false is excused by a true literal.
LEMMA NothingMissed ==
  ASSUME SearchInv
  PROVE  PropagationComplete
<1> SUFFICES ASSUME pc = "loop", NEW id \in DOMAIN db, ~db[id].garbage,
                    \A lit \in Lits(id) : ~IsTrue(t, lit)
             PROVE  Cardinality({lit \in Lits(id) : IsOpen(t, lit)}) > 1
  BY DEF PropagationComplete
<1>1. /\ TrailOK(t) /\ ClausesOK(db) /\ WatchesOK(t, db, t.propagated)
      /\ t.propagated = Len(t.trail)
  BY InLoop
<1>2. db[id].lits \subseteq Lit /\ db[id].watch \subseteq db[id].lits /\ Pair(db[id].watch)
  BY <1>1, ClauseFacts
<1>3. ASSUME NEW a \in db[id].watch PROVE IsOpen(t, a)
  <2>1. ~IsTrue(t, a) /\ a \in Lit
    BY <1>2 DEF Lits
  <2>2. ASSUME IsFalse(t, a) PROVE FALSE
    <3>1. PICK p \in 1..Len(t.trail) : t.trail[p] = -a
      BY <2>2 DEF IsFalse, Contains
    <3>2. -t.trail[p] = a
      BY <2>1, <3>1, LitFacts
    <3>3. Watched(t, db, id, p)
      BY <1>1, <3>1 DEF WatchesOK
    <3>4. Supported(t, db, id, p)
      BY <3>2, <3>3 DEF Watched
    <3> QED BY <3>4 DEF Supported, Lits
  <2> QED BY <2>1, <2>2 DEF IsOpen
<1> DEFINE open == {lit \in Lits(id) : IsOpen(t, lit)}
<1>4. PICK a, b \in db[id].watch : a # b
  BY <1>2 DEF Pair
<1>5. a \in open /\ b \in open /\ open \subseteq Lit
  BY <1>2, <1>3 DEF Lits
<1> HIDE DEF open
<1>6. Cardinality(open) > 1
  BY <1>4, <1>5, MoreThanOne
<1> QED BY <1>6 DEF open

\* Propagation finds every conflict and every unit before the next decision.
THEOREM PropagationSafe == Spec => []PropagationComplete
  BY SearchSafe, NothingMissed, PTL

-----------------------------------------------------------------------------
(* What the answers of the search rest on. *)

\* The trail u comes from v by undoing levels and by literals that are
\* implied: what is left keeps its level and its reason.
Carried(u, v) ==
  \A x \in Lit : IsTrue(v, x) /\ LevelOf(v, x) <= Len(u.control) =>
    IsTrue(u, x) /\ LevelOf(u, x) = LevelOf(v, x) /\ ReasonOf(u, x) = ReasonOf(v, x)
Moved(u, v, S) ==
  /\ Len(u.control) <= Len(v.control) /\ Carried(u, v)
  /\ \A x \in Lit : IsTrue(u, x) =>
       \/ IsTrue(v, x) /\ LevelOf(v, x) <= Len(u.control)
       \/ VarOf(x) \in S /\ (LevelOf(u, x) = 0 \/ ReasonOf(u, x) # 0)

\* The variables of the trail and of the question are in use.
TrailNamed(u, S) == \A x \in Lit : IsTrue(u, x) => VarOf(x) \in S
\* The first levels are those of the assumptions, in their order.
Assumed(u, A) ==
  \A k \in 1..Len(A) : k <= Len(u.control) => IsTrue(u, A[k]) /\ LevelOf(u, A[k]) <= k
\* The level after them is that of the constraint.
Bounded(u, A, C) ==
  C # {} /\ Len(u.control) > Len(A) =>
    \E x \in C : IsTrue(u, x) /\ LevelOf(u, x) <= Len(A) + 1
\* Nothing but an assumption is decided on the first levels.
Chosen(u, A) ==
  \A x \in Lit : IsTrue(u, x) /\ LevelOf(u, x) \in 1..Len(A) /\ ReasonOf(u, x) = 0 =>
    x = A[LevelOf(u, x)]
Query(u, A, C, S) ==
  /\ TrailNamed(u, S) /\ Assumed(u, A) /\ Bounded(u, A, C) /\ Chosen(u, A)
  /\ \A k \in 1..Len(A) : VarOf(A[k]) \in S
  /\ \A x \in C : VarOf(x) \in S

\* Backtracking undoes levels and keeps the rest as it was.
LEMMA BacktrackMoves ==
  ASSUME NEW v, TrailOK(v), NEW l \in 0..Len(v.control), NEW S
  PROVE  Moved(Backtrack(v, l), v, S)
<1> DEFINE u == Backtrack(v, l)
<1>1. /\ TrailOK(u) /\ Len(u.control) = l
      /\ \A lit \in Lit : IsTrue(u, lit) <=> IsTrue(v, lit) /\ LevelOf(v, lit) <= l
      /\ \A lit \in Lit : IsTrue(u, lit) \/ IsTrue(u, -lit) =>
           /\ LevelOf(u, lit) = LevelOf(v, lit)
           /\ ReasonOf(u, lit) = ReasonOf(v, lit)
  BY BacktrackIs
<1>2. l <= Len(v.control)
  BY TrailTypes DEF TrailOK
<1> HIDE DEF u
<1>3. Carried(u, v)
  BY <1>1 DEF Carried
<1>4. Moved(u, v, S)
  BY <1>1, <1>2, <1>3 DEF Moved
<1> QED BY <1>4 DEF u

\* A literal on a trail that has every variable once was open before.
LEMMA AssignMoves ==
  ASSUME NEW v, TrailOK(v), NEW lit \in Lit, NEW k, NEW r, NEW u,
         u = SearchAssign(v, lit, k, r), TrailOK(u)
  PROVE  /\ u.control = v.control
         /\ \A x \in Lit : IsTrue(v, x) =>
              /\ IsTrue(u, x) /\ LevelOf(u, x) = LevelOf(v, x)
              /\ ReasonOf(u, x) = ReasonOf(v, x)
         /\ \A x \in Lit : IsTrue(u, x) => IsTrue(v, x) \/ x = lit
         /\ IsTrue(u, lit) /\ LevelOf(u, lit) = k /\ ReasonOf(u, lit) = r
<1> DEFINE n == Len(v.trail)
<1>1. /\ v.trail \in Seq(Lit) /\ n \in Nat /\ v.level \in [Var -> Nat] /\ v.reason \in [Var -> Nat]
      /\ \A i \in 1..n : v.trail[i] \in Lit
  BY TrailTypes DEF TrailOK
<1>2. /\ u.control = v.control /\ u.trail = Append(v.trail, lit)
      /\ u.level = [v.level EXCEPT ![VarOf(lit)] = k]
      /\ u.reason = [v.reason EXCEPT ![VarOf(lit)] = r]
  BY DEF SearchAssign
<1>3. /\ Len(u.trail) = n + 1 /\ u.trail[n + 1] = lit /\ u.trail \in Seq(Lit)
      /\ \A i \in 1..n : u.trail[i] = v.trail[i]
  BY <1>1, <1>2
<1>4. \A i \in 1..n : VarOf(v.trail[i]) # VarOf(lit)
  <2>1. \A i \in 1..n : i \in 1..Len(u.trail) /\ n + 1 \in 1..Len(u.trail) /\ i # n + 1
    BY <1>1, <1>3
  <2> QED BY <2>1, <1>3 DEF TrailOK, Once
<1>5. \A x \in Lit : VarOf(x) \in Var
  BY LitFacts
<1>6. \A x \in Lit : IsTrue(v, x) <=> \E i \in 1..n : v.trail[i] = x
  BY <1>1 DEF IsTrue, Contains
<1>7. \A x \in Lit : IsTrue(u, x) <=> \E i \in 1..(n + 1) : u.trail[i] = x
  BY <1>1, <1>3 DEF IsTrue, Contains
<1>8. \A x \in Lit : IsTrue(u, x) <=> IsTrue(v, x) \/ x = lit
  BY <1>1, <1>3, <1>6, <1>7
<1>9. \A x \in Lit : IsTrue(v, x) => VarOf(x) # VarOf(lit)
  BY <1>4, <1>6
<1>10. \A x \in Lit : IsTrue(v, x) => LevelOf(u, x) = LevelOf(v, x) /\ ReasonOf(u, x) = ReasonOf(v, x)
  BY <1>1, <1>2, <1>5, <1>9 DEF LevelOf, ReasonOf
<1>11. LevelOf(u, lit) = k /\ ReasonOf(u, lit) = r
  BY <1>1, <1>2, <1>5 DEF LevelOf, ReasonOf
<1> QED BY <1>2, <1>8, <1>10, <1>11

\* A literal that is implied, or a unit, is added.
LEMMA ImpliedMoves ==
  ASSUME NEW v, TrailOK(v), NEW lit \in Lit, NEW k, NEW r, NEW u,
         u = SearchAssign(v, lit, k, r), TrailOK(u), NEW S, VarOf(lit) \in S,
         k = 0 \/ r # 0
  PROVE  Moved(u, v, S)
<1>1. /\ u.control = v.control
      /\ \A x \in Lit : IsTrue(v, x) =>
           /\ IsTrue(u, x) /\ LevelOf(u, x) = LevelOf(v, x)
           /\ ReasonOf(u, x) = ReasonOf(v, x)
      /\ \A x \in Lit : IsTrue(u, x) => IsTrue(v, x) \/ x = lit
      /\ IsTrue(u, lit) /\ LevelOf(u, lit) = k /\ ReasonOf(u, lit) = r
  BY AssignMoves
<1>2. \A x \in Lit : LevelOf(v, x) <= Len(u.control)
  BY <1>1, LevelBound, TrailTypes DEF TrailOK
<1>3. Len(u.control) <= Len(v.control)
  BY <1>1, TrailTypes DEF TrailOK
<1>4. Carried(u, v)
  BY <1>1 DEF Carried
<1> QED BY <1>1, <1>2, <1>3, <1>4 DEF Moved

\* One such change after another is one.
LEMMA MovedOn ==
  ASSUME NEW u, NEW v, NEW w, TrailOK(u), TrailOK(v), TrailOK(w), NEW S,
         Moved(w, v, S), Moved(u, w, S)
  PROVE  Moved(u, v, S)
<1>1. /\ Len(u.control) \in Nat /\ Len(v.control) \in Nat /\ Len(w.control) \in Nat
      /\ \A x \in Lit : /\ LevelOf(u, x) \in Nat /\ LevelOf(v, x) \in Nat
                        /\ LevelOf(w, x) \in Nat
  BY TrailTypes DEF TrailOK
<1>2. Len(u.control) <= Len(w.control) /\ Len(w.control) <= Len(v.control)
  BY DEF Moved
<1>3. Carried(u, v)
  <2> SUFFICES ASSUME NEW x \in Lit, IsTrue(v, x), LevelOf(v, x) <= Len(u.control)
               PROVE  /\ IsTrue(u, x) /\ LevelOf(u, x) = LevelOf(v, x)
                      /\ ReasonOf(u, x) = ReasonOf(v, x)
    BY DEF Carried
  <2>1. LevelOf(v, x) <= Len(w.control)
    BY <1>1, <1>2
  <2>2. IsTrue(w, x) /\ LevelOf(w, x) = LevelOf(v, x) /\ ReasonOf(w, x) = ReasonOf(v, x)
    BY <2>1 DEF Moved, Carried
  <2> QED BY <2>2 DEF Moved, Carried
<1>4. ASSUME NEW x \in Lit, IsTrue(u, x)
      PROVE  \/ IsTrue(v, x) /\ LevelOf(v, x) <= Len(u.control)
             \/ VarOf(x) \in S /\ (LevelOf(u, x) = 0 \/ ReasonOf(u, x) # 0)
  <2>1. CASE VarOf(x) \in S /\ (LevelOf(u, x) = 0 \/ ReasonOf(u, x) # 0)
    BY <2>1
  <2>2. CASE IsTrue(w, x) /\ LevelOf(w, x) <= Len(u.control)
    <3>1. LevelOf(u, x) = LevelOf(w, x) /\ ReasonOf(u, x) = ReasonOf(w, x)
      BY <2>2 DEF Moved, Carried
    <3>2. CASE IsTrue(v, x) /\ LevelOf(v, x) <= Len(w.control)
      <4>1. LevelOf(w, x) = LevelOf(v, x)
        BY <3>2 DEF Moved, Carried
      <4> QED BY <2>2, <3>2, <4>1
    <3>3. CASE VarOf(x) \in S /\ (LevelOf(w, x) = 0 \/ ReasonOf(w, x) # 0)
      BY <3>1, <3>3
    <3> QED BY <2>2, <3>2, <3>3 DEF Moved
  <2> QED BY <1>4, <2>1, <2>2 DEF Moved
<1>5. Len(u.control) <= Len(v.control)
  BY <1>1, <1>2
<1> QED BY <1>3, <1>4, <1>5 DEF Moved

\* Such a change keeps the levels of assumptions and constraint in order.
LEMMA MovedQuery ==
  ASSUME NEW u, NEW v, TrailOK(u), TrailOK(v), NEW A \in Seq(Lit), NEW C, C \subseteq Lit,
         NEW S, NEW T, S \subseteq T, Moved(u, v, T), Query(v, A, C, S)
  PROVE  Query(u, A, C, T)
<1>1. /\ Len(u.control) \in Nat /\ Len(v.control) \in Nat /\ Len(A) \in Nat
      /\ Len(u.control) <= Len(v.control)
      /\ \A x \in Lit : LevelOf(u, x) \in Nat /\ LevelOf(v, x) \in Nat
      /\ \A k \in 1..Len(A) : A[k] \in Lit
  BY TrailTypes DEF TrailOK, Moved
<1>2. TrailNamed(u, T)
  BY DEF TrailNamed, Moved, Query
<1>3. Assumed(u, A)
  <2> SUFFICES ASSUME NEW k \in 1..Len(A), k <= Len(u.control)
               PROVE  IsTrue(u, A[k]) /\ LevelOf(u, A[k]) <= k
    BY DEF Assumed
  <2>1. k \in Nat /\ k <= Len(v.control) /\ A[k] \in Lit
    BY <1>1
  <2>2. IsTrue(v, A[k]) /\ LevelOf(v, A[k]) <= k
    BY <2>1 DEF Query, Assumed
  <2>3. LevelOf(v, A[k]) <= Len(u.control)
    BY <1>1, <2>1, <2>2
  <2>4. IsTrue(u, A[k]) /\ LevelOf(u, A[k]) = LevelOf(v, A[k])
    BY <2>1, <2>2, <2>3 DEF Moved, Carried
  <2> QED BY <2>2, <2>4
<1>4. Bounded(u, A, C)
  <2> SUFFICES ASSUME C # {}, Len(u.control) > Len(A)
               PROVE  \E x \in C : IsTrue(u, x) /\ LevelOf(u, x) <= Len(A) + 1
    BY DEF Bounded
  <2>1. Len(v.control) > Len(A)
    BY <1>1
  <2>2. PICK x \in C : IsTrue(v, x) /\ LevelOf(v, x) <= Len(A) + 1
    BY <2>1 DEF Query, Bounded
  <2>3. x \in Lit /\ LevelOf(v, x) <= Len(u.control)
    BY <1>1, <2>2
  <2>4. IsTrue(u, x) /\ LevelOf(u, x) = LevelOf(v, x)
    BY <2>2, <2>3 DEF Moved, Carried
  <2> QED BY <2>2, <2>4
<1>5. Chosen(u, A)
  <2> SUFFICES ASSUME NEW x \in Lit, IsTrue(u, x), LevelOf(u, x) \in 1..Len(A), ReasonOf(u, x) = 0
               PROVE  x = A[LevelOf(u, x)]
    BY DEF Chosen
  <2>1. IsTrue(v, x) /\ LevelOf(v, x) <= Len(u.control)
    BY DEF Moved
  <2>2. LevelOf(u, x) = LevelOf(v, x) /\ ReasonOf(u, x) = ReasonOf(v, x)
    BY <2>1 DEF Moved, Carried
  <2> QED BY <2>1, <2>2 DEF Query, Chosen
<1>6. /\ \A k \in 1..Len(A) : VarOf(A[k]) \in T
      /\ \A x \in C : VarOf(x) \in T
  BY DEF Query
<1> QED BY <1>2, <1>3, <1>4, <1>5, <1>6 DEF Query

\* Without a decision there is nothing to keep.
LEMMA RootQuery ==
  ASSUME NEW u, TrailOK(u), Len(u.control) = 0, NEW A \in Seq(Lit), NEW C, NEW S,
         TrailNamed(u, S), \A k \in 1..Len(A) : VarOf(A[k]) \in S, \A x \in C : VarOf(x) \in S
  PROVE  Query(u, A, C, S)
<1>1. \A x \in Lit : LevelOf(u, x) = 0
  BY AtRoot
<1>2. Len(A) \in Nat
  OBVIOUS
<1>3. Assumed(u, A) /\ Bounded(u, A, C) /\ Chosen(u, A)
  BY <1>1, <1>2 DEF Assumed, Bounded, Chosen
<1> QED BY <1>3 DEF Query

\* A clause of the formula that counts.
Needed(c, id) == c[id].redundant = FALSE /\ c[id].garbage = FALSE
RootTrue(u, x) == IsTrue(u, x) /\ LevelOf(u, x) = 0

\* What is irredundant, with the units, has no model the formula has not.
Suffices(F, c, u) ==
  \A m \in SUBSET Var :
    /\ \A id \in DOMAIN c : Needed(c, id) => Holds(m, c[id].lits)
    /\ \A x \in Lit : RootTrue(u, x) => True(m, x)
    => IsModel(m, F, {})

\* Every needed clause of c is implied by one of d or by a unit.
Covers(d, c, u) ==
  \A id \in DOMAIN c : Needed(c, id) =>
    \/ \E j \in DOMAIN d : Needed(d, j) /\ d[j].lits \subseteq c[id].lits
    \/ \E x \in c[id].lits : RootTrue(u, x)

\* Clauses that imply the needed ones are enough in their place.
LEMMA CoversSuffices ==
  ASSUME NEW u, NEW v, TrailOK(u), TrailOK(v), Carried(u, v), NEW c, ClausesOK(c), NEW d,
         Covers(d, c, u), NEW F, Suffices(F, c, v)
  PROVE  Suffices(F, d, u)
<1> SUFFICES ASSUME NEW m \in SUBSET Var,
                    \A id \in DOMAIN d : Needed(d, id) => Holds(m, d[id].lits),
                    \A x \in Lit : RootTrue(u, x) => True(m, x)
             PROVE  IsModel(m, F, {})
  BY DEF Suffices
<1>1. ASSUME NEW id \in DOMAIN c, Needed(c, id)
      PROVE  Holds(m, c[id].lits)
  <2>1. c[id].lits \subseteq Lit
    BY ClauseFacts
  <2>2. CASE \E j \in DOMAIN d : Needed(d, j) /\ d[j].lits \subseteq c[id].lits
    BY <2>2 DEF Holds
  <2>3. CASE \E x \in c[id].lits : RootTrue(u, x)
    BY <2>1, <2>3 DEF Holds
  <2> QED BY <1>1, <2>2, <2>3 DEF Covers
<1>2. ASSUME NEW x \in Lit, RootTrue(v, x)
      PROVE  True(m, x)
  <2>1. 0 <= Len(u.control)
    BY TrailTypes DEF TrailOK
  <2>2. RootTrue(u, x)
    BY <1>2, <2>1 DEF RootTrue, Carried
  <2> QED BY <2>2
<1> QED BY <1>1, <1>2 DEF Suffices

ClausesNamed(c, S) == \A id \in DOMAIN c : \A x \in c[id].lits : VarOf(x) \in S

\* What is asked and what is known, between and within the searches.
QueryInv ==
  /\ ~unsat => Suffices(formula, db, t)
  /\ ClausesNamed(db, used)
  /\ Query(t, assumptions, constraint, used)

\* How a step changes the trail and the clauses.
Change ==
  /\ Moved(t', t, used') /\ used \subseteq used'
  /\ unsat' = FALSE => unsat = FALSE /\ Covers(db', db, t')
  /\ ClausesNamed(db', used')

\* The parts of the invariant of the search that are used here.
LEMMA Wellformed ==
  ASSUME SearchInv
  PROVE  /\ TrailOK(t) /\ ClausesOK(db) /\ Stored(t, db) /\ assumptions \in Seq(Lit)
         /\ constraint \subseteq Lit /\ used \subseteq Var /\ unsat \in BOOLEAN
         /\ pc = "propagate" => unsat = FALSE
  BY DEF SearchInv, Store, Plain, Flow, Answered

\* A step that moves the trail and covers the clauses keeps what is asked and
\* what is known.
LEMMA ChangeQuery ==
  ASSUME SearchInv, SearchInv', QueryInv, Change, UNCHANGED <<formula, assumptions, constraint>>
  PROVE  QueryInv'
<1>1. /\ TrailOK(t) /\ ClausesOK(db) /\ assumptions \in Seq(Lit) /\ constraint \subseteq Lit
      /\ TrailOK(t') /\ unsat' \in BOOLEAN
  BY Wellformed DEF SearchInv, Store, Plain
<1>2. Query(t', assumptions, constraint, used')
  BY <1>1, MovedQuery DEF QueryInv, Change
<1>3. ~unsat' => Suffices(formula, db', t')
  <2> SUFFICES ASSUME unsat' = FALSE PROVE Suffices(formula, db', t')
    BY <1>1
  <2>1. /\ Suffices(formula, db, t) /\ Covers(db', db, t') /\ Carried(t', t)
    BY DEF QueryInv, Change, Moved
  <2> QED BY <1>1, <2>1, CoversSuffices
<1> QED BY <1>2, <1>3 DEF QueryInv, Change

\* Clauses of which only the watches change are the same formula.
LEMMA CoversSame ==
  ASSUME NEW c, NEW d, DOMAIN d = DOMAIN c, NEW u,
         \A id \in DOMAIN c : /\ d[id].lits = c[id].lits /\ d[id].garbage = c[id].garbage
                              /\ d[id].redundant = c[id].redundant
  PROVE  Covers(d, c, u) /\ \A S : ClausesNamed(c, S) => ClausesNamed(d, S)
  BY DEF Covers, ClausesNamed, Needed

\* A trail of which only the count of propagated literals changes.
LEMMA MovedNot ==
  ASSUME NEW u, NEW v, TrailOK(v), u.trail = v.trail, u.control = v.control,
         u.level = v.level, u.reason = v.reason, NEW S
  PROVE  Moved(u, v, S)
<1>1. /\ \A x \in Lit : /\ IsTrue(u, x) <=> IsTrue(v, x)
                        /\ LevelOf(u, x) = LevelOf(v, x) /\ ReasonOf(u, x) = ReasonOf(v, x)
  BY DEF IsTrue, LevelOf, ReasonOf
<1>2. \A x \in Lit : LevelOf(v, x) <= Len(u.control)
  BY LevelBound, TrailTypes DEF TrailOK
<1>3. Len(u.control) <= Len(v.control)
  BY TrailTypes DEF TrailOK
<1> QED BY <1>1, <1>2, <1>3 DEF Moved, Carried

\* Clauses and literals stay what they are.
LEMMA OnlyTrail ==
  ASSUME SearchInv, SearchInv', QueryInv, UNCHANGED <<formula, assumptions, constraint, used, db>>,
         unsat' = FALSE => unsat = FALSE, Moved(t', t, used')
  PROVE  QueryInv'
<1>1. Covers(db', db, t') /\ ClausesNamed(db', used')
  BY CoversSame DEF QueryInv
<1> QED BY <1>1, ChangeQuery DEF Change

\* A step that changes neither clauses nor trail.
LEMMA NothingMoves ==
  ASSUME SearchInv, SearchInv', QueryInv, UNCHANGED <<formula, assumptions, constraint, used, db, t>>,
         unsat' = FALSE => unsat = FALSE
  PROVE  QueryInv'
<1>1. Moved(t', t, used')
  BY Wellformed, MovedNot
<1> QED BY <1>1, OnlyTrail

-----------------------------------------------------------------------------
(* The calls between the searches. *)

\* A clause is added that a needed clause or a unit implies, or that holds
\* whatever the model.
LEMMA SufficesMore ==
  ASSUME NEW u, NEW c, NEW F, Suffices(F, c, u), NEW L, L \subseteq Lit,
         \/ \E j \in DOMAIN c : Needed(c, j) /\ c[j].lits \subseteq L
         \/ \E x \in L : RootTrue(u, x)
         \/ \E x \in L : -x \in L
  PROVE  Suffices(F \cup {L}, c, u)
<1> SUFFICES ASSUME NEW m \in SUBSET Var,
                    \A id \in DOMAIN c : Needed(c, id) => Holds(m, c[id].lits),
                    \A x \in Lit : RootTrue(u, x) => True(m, x)
             PROVE  IsModel(m, F \cup {L}, {})
  BY DEF Suffices
<1>1. IsModel(m, F, {})
  BY DEF Suffices
<1>2. Holds(m, L)
  <2>1. CASE \E j \in DOMAIN c : Needed(c, j) /\ c[j].lits \subseteq L
    BY <2>1 DEF Holds
  <2>2. CASE \E x \in L : RootTrue(u, x)
    BY <2>2 DEF Holds
  <2>3. CASE \E x \in L : -x \in L
    <3>1. PICK x \in L : -x \in L
      BY <2>3
    <3>2. True(m, -x) <=> ~True(m, x)
      BY <3>1, Negated
    <3> QED BY <3>1, <3>2 DEF Holds
  <2> QED BY <2>1, <2>2, <2>3
<1> QED BY <1>1, <1>2 DEF IsModel

\* A call brings its variables into use.
LEMMA NamedMore ==
  ASSUME SearchInv, NEW lits, lits \subseteq Lit, Internalize(lits)
  PROVE  used \subseteq used' /\ \A x \in lits : VarOf(x) \in used'
  BY DEF Internalize

\* Backtracking to the root level.
LEMMA BacktrackRoot ==
  ASSUME SearchInv, QueryInv
  PROVE  /\ TrailOK(Backtrack(t, 0)) /\ Len(Backtrack(t, 0).control) = 0
         /\ \A S : Moved(Backtrack(t, 0), t, S)
         /\ ~unsat => Suffices(formula, db, Backtrack(t, 0))
<1>1. TrailOK(t) /\ ClausesOK(db) /\ 0 \in 0..Len(t.control)
  BY Wellformed, ZeroLevel
<1>2. TrailOK(Backtrack(t, 0)) /\ Len(Backtrack(t, 0).control) = 0
  BY <1>1, BacktrackIs
<1>3. \A S : Moved(Backtrack(t, 0), t, S)
  BY <1>1, BacktrackMoves
<1>4. Covers(db, db, Backtrack(t, 0))
  BY CoversSame
<1>5. Carried(Backtrack(t, 0), t)
  BY <1>3 DEF Moved
<1>6. ~unsat => Suffices(formula, db, Backtrack(t, 0))
  BY <1>1, <1>2, <1>4, <1>5, CoversSuffices DEF QueryInv
<1> QED BY <1>2, <1>3, <1>6

\* The clause added is in memory, a unit, satisfied at the root level or empty
\* (add_new_original_clause).
LEMMA AddQuery ==
  ASSUME SearchInv, SearchInv', QueryInv, Add
  PROVE  QueryInv'
<1> DEFINE lits == Head(calls).lits
           root == Backtrack(t, 0)
           kept == {i \in DOMAIN lits :
                      ~IsFalse(root, lits[i]) /\ \A j \in 1..(i - 1) : lits[j] # lits[i]}
           rest == {lits[i] : i \in kept}
           watch == {lits[i] : i \in {k \in kept : Cardinality({j \in kept : j < k}) < 2}}
           skip == unsat \/ \E lit \in ToSet(lits) : IsTrue(root, lit) \/ -lit \in ToSet(lits)
           id == Min(FreeIds)
<1>1. /\ calls # <<>>
      /\ formula' = formula \cup {ToSet(lits)} /\ Internalize(ToSet(lits))
      /\ \/ skip /\ t' = root /\ UNCHANGED <<db, unsat>>
         \/ unsat' = TRUE /\ t' = root /\ UNCHANGED db
         \/ /\ ~skip
            /\ \E lit \in rest : rest = {lit} /\ t' = AssignUnit(root, lit)
            /\ UNCHANGED <<db, unsat>>
         \/ /\ ~skip /\ FreeIds # {} /\ db' = With(id, NewClause(rest, watch, FALSE))
            /\ t' = root /\ UNCHANGED unsat
      /\ UNCHANGED <<assumptions, constraint>>
  BY DEF Add, Call
<1>2. /\ TrailOK(root) /\ Len(root.control) = 0
      /\ \A S : Moved(root, t, S)
      /\ ~unsat => Suffices(formula, db, root)
  BY BacktrackRoot
<1>3. /\ TrailOK(t) /\ ClausesOK(db) /\ assumptions \in Seq(Lit) /\ constraint \subseteq Lit
      /\ unsat \in BOOLEAN /\ TrailOK(t')
  BY Wellformed DEF SearchInv, Store, Plain
<1>4. lits \in Seq(Lit) /\ ToSet(lits) \subseteq Lit
  BY <1>1, HeadCall DEF SearchInv
<1>5. rest \subseteq ToSet(lits)
  BY DEF ToSet
<1> HIDE DEF lits, root, kept, rest, watch, skip, id
<1>6. used \subseteq used' /\ \A x \in ToSet(lits) : VarOf(x) \in used'
  BY <1>1, <1>4, NamedMore
<1>7. ClausesNamed(db, used')
  BY <1>6 DEF QueryInv, ClausesNamed
<1>8. \A x \in Lit : LevelOf(root, x) = 0
  BY <1>2, AtRoot
<1>9. ASSUME t' = root PROVE Query(t', assumptions, constraint, used')
  BY <1>2, <1>3, <1>6, <1>9, MovedQuery DEF QueryInv
<1>10. CASE skip /\ t' = root /\ UNCHANGED <<db, unsat>>
  <2>1. ~unsat => Suffices(formula', db, root)
    <3> SUFFICES ASSUME ~unsat PROVE Suffices(formula', db, root)
      OBVIOUS
    <3>1. \/ \E x \in ToSet(lits) : RootTrue(root, x)
          \/ \E x \in ToSet(lits) : -x \in ToSet(lits)
      BY <1>4, <1>8, <1>10 DEF skip, RootTrue
    <3> QED BY <1>1, <1>2, <1>4, <3>1, SufficesMore
  <2> QED BY <1>1, <1>7, <1>9, <1>10, <2>1 DEF QueryInv
<1>11. CASE unsat' = TRUE /\ t' = root /\ UNCHANGED db
  BY <1>1, <1>7, <1>9, <1>11 DEF QueryInv
<1>12. CASE /\ ~skip
            /\ \E lit \in rest : rest = {lit} /\ t' = AssignUnit(root, lit)
            /\ UNCHANGED <<db, unsat>>
  <2>1. PICK lit \in rest : t' = AssignUnit(root, lit)
    BY <1>12
  <2>2. lit \in Lit /\ lit \in ToSet(lits) /\ VarOf(lit) \in used'
    BY <1>4, <1>5, <1>6
  <2>3. t' = SearchAssign(root, lit, 0, 0)
    BY <2>1 DEF AssignUnit
  <2>4. Moved(t', root, used')
    BY <1>2, <1>3, <2>2, <2>3, ImpliedMoves
  <2>5. Moved(t', t, used')
    BY <1>2, <1>3, <2>4, MovedOn
  <2>6. Query(t', assumptions, constraint, used')
    BY <1>3, <1>6, <2>5, MovedQuery DEF QueryInv
  <2>7. ~unsat => Suffices(formula', db, t')
    <3> SUFFICES ASSUME ~unsat PROVE Suffices(formula', db, t')
      OBVIOUS
    <3>1. RootTrue(t', lit)
      BY <1>2, <1>3, <2>2, <2>3, AssignMoves DEF RootTrue
    <3>2. Covers(db, db, t') /\ Carried(t', root)
      BY <2>4, CoversSame DEF Moved
    <3>3. Suffices(formula, db, t')
      BY <1>2, <1>3, <3>2, CoversSuffices
    <3> QED BY <1>1, <1>4, <2>2, <3>1, <3>3, SufficesMore
  <2> QED BY <1>1, <1>7, <1>12, <2>6, <2>7 DEF QueryInv
<1>13. CASE /\ ~skip /\ FreeIds # {} /\ db' = With(id, NewClause(rest, watch, FALSE))
            /\ t' = root /\ UNCHANGED unsat
  <2>1. id \notin DOMAIN db
    BY <1>13, FreeIs DEF id
  <2>2. /\ DOMAIN db' = DOMAIN db \cup {id} /\ db'[id] = NewClause(rest, watch, FALSE)
        /\ \A j \in DOMAIN db : db'[j] = db[j]
    BY <1>13, <2>1 DEF With
  <2>3. db'[id].lits = rest /\ Needed(db', id)
    BY <2>2 DEF NewClause, Needed
  <2>4. Covers(db', db, root)
    BY <2>2 DEF Covers, Needed
  <2>5. ~unsat => Suffices(formula', db', root)
    <3> SUFFICES ASSUME ~unsat PROVE Suffices(formula', db', root)
      OBVIOUS
    <3>1. Carried(root, root)
      BY DEF Carried
    <3>2. Suffices(formula, db', root)
      BY <1>2, <1>3, <2>4, <3>1, CoversSuffices
    <3> QED BY <1>1, <1>4, <1>5, <2>2, <2>3, <3>2, SufficesMore
  <2>6. ClausesNamed(db', used')
    BY <1>5, <1>6, <1>7, <2>2, <2>3 DEF ClausesNamed
  <2> QED BY <1>1, <1>9, <1>13, <2>5, <2>6 DEF QueryInv
<1> QED BY <1>1, <1>10, <1>11, <1>12, <1>13

\* An assumption comes after the ones before, with nothing decided.
LEMMA AssumeQuery ==
  ASSUME SearchInv, SearchInv', QueryInv, Assume
  PROVE  QueryInv'
<1> DEFINE lit == Head(calls).lits[1]
           root == Backtrack(t, 0)
<1>1. /\ calls # <<>> /\ Head(calls).op = "assume" /\ t' = root
      /\ assumptions' = (IF Contains(assumptions, lit) THEN assumptions ELSE Append(assumptions, lit))
      /\ Internalize({lit}) /\ UNCHANGED <<formula, db, constraint, unsat>>
  BY DEF Assume, Call
<1>2. /\ TrailOK(root) /\ Len(root.control) = 0 /\ \A S : Moved(root, t, S)
      /\ ~unsat => Suffices(formula, db, root)
  BY BacktrackRoot
<1>3. lit \in Lit
  BY <1>1, HeadCall DEF SearchInv
<1> HIDE DEF lit, root
<1>4. used \subseteq used' /\ VarOf(lit) \in used'
  BY <1>1, <1>3, NamedMore
<1>5. assumptions \in Seq(Lit) /\ assumptions' \in Seq(Lit)
  BY DEF SearchInv, Plain
<1>6. \A k \in 1..Len(assumptions') : VarOf(assumptions'[k]) \in used'
  BY <1>1, <1>3, <1>4, <1>5 DEF QueryInv, Query
<1>7. TrailNamed(root, used') /\ \A x \in constraint : VarOf(x) \in used'
  BY <1>2, <1>4 DEF QueryInv, Query, TrailNamed, Moved
<1>8. Query(root, assumptions', constraint, used')
  BY <1>2, <1>5, <1>6, <1>7, RootQuery
<1>9. ClausesNamed(db, used')
  BY <1>4 DEF QueryInv, ClausesNamed
<1> QED BY <1>1, <1>2, <1>8, <1>9 DEF QueryInv

\* A new constraint, with nothing decided.
LEMMA ConstrainQuery ==
  ASSUME SearchInv, SearchInv', QueryInv, Constrain
  PROVE  QueryInv'
<1> DEFINE lits == ToSet(Head(calls).lits)
           root == Backtrack(t, 0)
<1>1. /\ calls # <<>> /\ t' = root /\ constraint' \subseteq lits
      /\ Internalize(lits) /\ UNCHANGED <<formula, db, assumptions, unsat>>
  BY DEF Constrain, Call
<1>2. /\ TrailOK(root) /\ Len(root.control) = 0 /\ \A S : Moved(root, t, S)
      /\ ~unsat => Suffices(formula, db, root)
  BY BacktrackRoot
<1>3. lits \subseteq Lit
  BY <1>1, HeadCall DEF SearchInv
<1> HIDE DEF lits, root
<1>4. used \subseteq used' /\ \A x \in lits : VarOf(x) \in used'
  BY <1>1, <1>3, NamedMore
<1>5. assumptions \in Seq(Lit)
  BY DEF SearchInv, Plain
<1>6. \A k \in 1..Len(assumptions) : VarOf(assumptions[k]) \in used'
  BY <1>4 DEF QueryInv, Query
<1>7. TrailNamed(root, used') /\ \A x \in constraint' : VarOf(x) \in used'
  BY <1>1, <1>2, <1>4 DEF QueryInv, Query, TrailNamed, Moved
<1>8. Query(root, assumptions, constraint', used')
  BY <1>2, <1>5, <1>6, <1>7, RootQuery
<1>9. ClausesNamed(db, used')
  BY <1>4 DEF QueryInv, ClausesNamed
<1> QED BY <1>1, <1>2, <1>8, <1>9 DEF QueryInv

\* The search starts with nothing decided.
LEMMA SolveQuery ==
  ASSUME SearchInv, SearchInv', QueryInv, Solve
  PROVE  QueryInv'
<1>1. UNCHANGED <<formula, used, db, assumptions, constraint, unsat>>
  BY DEF Solve, clauseVars
<1>2. CASE t' = t
  BY <1>1, <1>2, NothingMoves
<1>3. CASE t' = Backtrack(t, 0)
  BY <1>1, <1>3, BacktrackRoot, OnlyTrail
<1> QED BY <1>2, <1>3 DEF Solve

\* Without assumptions and constraint there is less to keep.
LEMMA ReleaseQuery ==
  ASSUME SearchInv, SearchInv', QueryInv, Release
  PROVE  QueryInv'
<1>1. UNCHANGED <<formula, used, db, t, unsat>> /\ assumptions' = <<>> /\ constraint' = {}
  BY DEF Release, clauseVars
<1>2. Query(t, <<>>, {}, used)
  <2>1. Len(<<>>) = 0 /\ TrailNamed(t, used)
    BY DEF QueryInv, Query
  <2>2. Assumed(t, <<>>) /\ Bounded(t, <<>>, {}) /\ Chosen(t, <<>>)
    BY <2>1 DEF Assumed, Bounded, Chosen
  <2> QED BY <2>1, <2>2 DEF Query
<1> QED BY <1>1, <1>2 DEF QueryInv

-----------------------------------------------------------------------------
(* Propagation. *)

\* The literal that a clause implies is added.
LEMMA ImplyMoves ==
  ASSUME NEW v, TrailOK(v), NEW lit \in Lit, NEW id, id # 0, NEW clause, clause \subseteq Lit,
         NEW u, u = Imply(v, lit, id, clause), TrailOK(u), NEW S, VarOf(lit) \in S
  PROVE  Moved(u, v, S)
<1> DEFINE k == HighestLevel(v, clause \ {lit})
           r == IF k = 0 THEN 0 ELSE id
<1>1. u = SearchAssign(v, lit, k, r)
  BY ImplyIs
<1>2. k = 0 \/ r # 0
  OBVIOUS
<1> HIDE DEF k, r
<1> QED BY <1>1, <1>2, ImpliedMoves

\* Taking the next literal to propagate changes no assignment.
LEMMA NextLiteralQuery ==
  ASSUME SearchInv, SearchInv', QueryInv, NextLiteral
  PROVE  QueryInv'
<1>1. /\ UNCHANGED <<formula, assumptions, constraint, used, db, unsat>>
      /\ t.propagated < Len(t.trail) /\ t' = [t EXCEPT !.propagated = @ + 1]
  BY DEF NextLiteral, PropagationUnchanged, queryVars
<1>2. TrailOK(t)
  BY Wellformed
<1>3. t'.trail = t.trail /\ t'.control = t.control /\ t'.level = t.level /\ t'.reason = t.reason
  BY <1>1, <1>2, PropagatedOK
<1>4. Moved(t', t, used')
  BY <1>2, <1>3, MovedNot
<1> QED BY <1>1, <1>4, OnlyTrail

\* The clause visited implies its other watch, or only its watches change.
LEMMA VisitQuery ==
  ASSUME SearchInv, SearchInv', QueryInv, Visit
  PROVE  QueryInv'
<1>1. /\ UNCHANGED <<formula, assumptions, constraint, used, unsat>> /\ pc = "propagate"
  BY DEF Visit, PropagationUnchanged, queryVars
<1>2. PICK id \in visiting :
        VisitBinary(id) \/ KeepWatch(id) \/ StopAtLong \/ ReplaceWatch(id) \/ Unit(id)
          \/ FalsifiedClause(id)
  BY DEF Visit
<1>3. /\ id \in DOMAIN db /\ OtherWatch(id) \in db[id].lits /\ db[id].lits \subseteq Lit
      /\ id \in Nat \ {0}
  BY <1>1, Visited
<1>4. TrailOK(t) /\ TrailOK(t') /\ ClausesOK(db)
  BY Wellformed DEF SearchInv, Store
<1>5. \/ UNCHANGED t
      \/ t' = Imply(t, OtherWatch(id), id, db[id].lits)
  BY <1>2 DEF VisitBinary, KeepWatch, StopAtLong, ReplaceWatch, Unit, FalsifiedClause, Lits
<1>6. Moved(t', t, used')
  <2>1. CASE UNCHANGED t
    BY <1>4, <2>1, MovedNot
  <2>2. CASE t' = Imply(t, OtherWatch(id), id, db[id].lits)
    <3>1. OtherWatch(id) \in Lit /\ VarOf(OtherWatch(id)) \in used' /\ id # 0
      BY <1>1, <1>3 DEF QueryInv, ClausesNamed
    <3> QED BY <1>3, <1>4, <2>2, <3>1, ImplyMoves
  <2> QED BY <1>5, <2>1, <2>2
<1>7. UNCHANGED db \/ \E w : db' = With(id, Rewatched(db[id], w))
  BY <1>2 DEF VisitBinary, KeepWatch, StopAtLong, ReplaceWatch, Unit, FalsifiedClause
<1>8. DOMAIN db' = DOMAIN db
      /\ \A j \in DOMAIN db : /\ db'[j].lits = db[j].lits /\ db'[j].garbage = db[j].garbage
                              /\ db'[j].redundant = db[j].redundant
  BY <1>3, <1>7 DEF With, Rewatched
<1>9. Covers(db', db, t') /\ ClausesNamed(db', used')
  BY <1>1, <1>8, CoversSame DEF QueryInv
<1> QED BY <1>1, <1>6, <1>9, ChangeQuery DEF Change

\* The end of propagation changes no assignment.
LEMMA PropagatedQuery ==
  ASSUME SearchInv, SearchInv', QueryInv, Propagated
  PROVE  QueryInv'
<1>1. /\ UNCHANGED <<formula, assumptions, constraint, used, db, t>>
      /\ unsat' = (unsat \/ (conflict # 0 /\ caller # "search"))
  BY DEF Propagated, clauseVars, queryVars
<1>2. unsat \in BOOLEAN
  BY Wellformed
<1>3. unsat' = FALSE => unsat = FALSE
  BY <1>1, <1>2
<1> QED BY <1>1, <1>3, NothingMoves

-----------------------------------------------------------------------------
(* The branches of the loop. *)

\* An answer changes no assignment.
LEMMA AnswerQuery ==
  ASSUME SearchInv, SearchInv', QueryInv, FoundModel \/ GiveUp \/ FailAssumption \/ FailConstraint
  PROVE  QueryInv'
<1>1. UNCHANGED <<formula, assumptions, constraint, used, db, t, unsat>>
  BY DEF FoundModel, GiveUp, FailAssumption, FailConstraint, LoopUnchanged, clauseVars
<1> QED BY <1>1, NothingMoves

\* A restart undoes levels.
LEMMA RestartQuery ==
  ASSUME SearchInv, SearchInv', QueryInv, Restart
  PROVE  QueryInv'
<1>1. UNCHANGED <<formula, assumptions, constraint, used, db, unsat>>
  BY DEF Restart, LoopUnchanged, clauseVars
<1>2. PICK level \in TrivialDecisions..DecisionLevel(t) : t' = Backtrack(t, level)
  BY DEF Restart
<1>3. TrailOK(t) /\ assumptions \in Seq(Lit)
  BY Wellformed
<1>4. level \in 0..Len(t.control)
  <2>1. Len(t.control) \in Nat /\ Len(assumptions) \in Nat
    BY <1>3, TrailTypes DEF TrailOK
  <2>2. TrivialDecisions \in Nat
    BY <2>1 DEF TrivialDecisions
  <2> QED BY <1>2, <2>1, <2>2 DEF DecisionLevel
<1>5. Moved(t', t, used')
  BY <1>2, <1>3, <1>4, BacktrackMoves
<1> QED BY <1>1, <1>5, OnlyTrail

\* Reduction goes back to the root level at most.
LEMMA ReduceQuery ==
  ASSUME SearchInv, SearchInv', QueryInv, Reduce
  PROVE  QueryInv'
<1>1. UNCHANGED <<formula, assumptions, constraint, used, db, unsat>>
  BY DEF Reduce, LoopUnchanged, clauseVars
<1>2. CASE t' = t
  BY <1>1, <1>2, NothingMoves
<1>3. CASE t' = Backtrack(t, 0)
  BY <1>1, <1>3, BacktrackRoot, OnlyTrail
<1> QED BY <1>2, <1>3 DEF Reduce

\* A clause flushed is satisfied by a unit or shorter.
LEMMA CollectQuery ==
  ASSUME SearchInv, SearchInv', QueryInv, Collect
  PROVE  QueryInv'
<1> DEFINE flushed == [id \in DOMAIN db |-> Flushed(id)]
           useless == {id \in DOMAIN db : flushed[id].redundant /\ ~IsReason(id)}
<1>1. /\ pc = "collect" /\ UNCHANGED <<formula, used, assumptions, constraint, t, unsat>>
  BY DEF Collect, queryVars
<1>2. PICK given \in SUBSET useless :
        db' = [id \in {i \in DOMAIN db : \/ IsReason(i)
                                         \/ ~flushed[i].garbage /\ i \notin given} |-> flushed[id]]
  BY DEF Collect
<1>3. TrailOK(t) /\ ClausesOK(db)
  BY Wellformed
<1>4. ASSUME NEW id \in DOMAIN db, Needed(db, id)
      PROVE  \/ id \in DOMAIN db' /\ Needed(db', id) /\ db'[id].lits \subseteq db[id].lits
             \/ \E x \in db[id].lits : RootTrue(t, x)
  <2>0. db[id].lits \subseteq Lit
    BY <1>3, ClauseFacts
  <2>1. CASE Lits(id) \cap RootUnits(t) # {}
    BY <1>3, <2>0, <2>1, RootUnitsAre DEF Lits, RootTrue
  <2>2. CASE Lits(id) \cap RootUnits(t) = {}
    <3>1. /\ Flushed(id).lits \subseteq db[id].lits
          /\ Flushed(id).redundant = FALSE /\ Flushed(id).garbage = FALSE
      BY <1>4, <2>2 DEF Flushed, Lits, Needed, Shortened
    <3>2. id \notin useless /\ id \in DOMAIN db'
      BY <1>2, <3>1
    <3>3. db'[id] = Flushed(id)
      BY <1>2, <3>2
    <3> QED BY <3>1, <3>2, <3>3 DEF Needed
  <2> QED BY <2>1, <2>2
<1>5. Covers(db', db, t')
  BY <1>1, <1>4 DEF Covers
<1>6. ASSUME NEW id \in DOMAIN db' PROVE id \in DOMAIN db /\ db'[id].lits \subseteq db[id].lits
  <2>1. id \in DOMAIN db /\ db'[id] = Flushed(id)
    BY <1>2
  <2>2. FlushedFrom(Flushed(id), db[id], t)
    BY <1>1, <2>1, FlushedIs
  <2> QED BY <2>1, <2>2 DEF FlushedFrom
<1>7. ClausesNamed(db', used')
  BY <1>1, <1>6 DEF QueryInv, ClausesNamed
<1>8. Moved(t', t, used')
  BY <1>1, <1>3, MovedNot
<1> QED BY <1>1, <1>5, <1>7, <1>8, ChangeQuery DEF Change

-----------------------------------------------------------------------------
(* Decisions. *)

\* The trail u has one level more than v, with the decisions X on it.
Deepened(u, v, X) ==
  /\ Len(u.control) = Len(v.control) + 1
  /\ \A x \in Lit : IsTrue(v, x) =>
       IsTrue(u, x) /\ LevelOf(u, x) = LevelOf(v, x) /\ ReasonOf(u, x) = ReasonOf(v, x)
  /\ \A x \in Lit : IsTrue(u, x) =>
       IsTrue(v, x) \/ (x \in X /\ LevelOf(u, x) = Len(v.control) + 1)

\* A pseudo decision opens a level without a literal.
LEMMA LevelDeepens ==
  ASSUME NEW v, TrailOK(v), v.propagated = Len(v.trail)
  PROVE  Deepened(NewTrailLevel(v, 0), v, {})
<1> DEFINE u == NewTrailLevel(v, 0)
<1>1. /\ u.trail = v.trail /\ u.level = v.level /\ u.reason = v.reason
      /\ Len(u.control) = Len(v.control) + 1
  BY NewLevelOK
<1> HIDE DEF u
<1>2. \A x \in Lit : /\ IsTrue(u, x) <=> IsTrue(v, x)
                     /\ LevelOf(u, x) = LevelOf(v, x) /\ ReasonOf(u, x) = ReasonOf(v, x)
  BY <1>1 DEF IsTrue, LevelOf, ReasonOf
<1>3. Deepened(u, v, {})
  BY <1>1, <1>2 DEF Deepened
<1> QED BY <1>3 DEF u

\* A decision opens a level with its literal.
LEMMA DecisionDeepens ==
  ASSUME NEW v, TrailOK(v), v.propagated = Len(v.trail), NEW lit \in Lit,
         NEW u, u = AssumeDecision(v, lit), TrailOK(u)
  PROVE  Deepened(u, v, {lit}) /\ IsTrue(u, lit)
<1> DEFINE w == NewTrailLevel(v, lit)
<1>1. /\ TrailOK(w) /\ w.trail = v.trail /\ w.level = v.level /\ w.reason = v.reason
      /\ Len(w.control) = Len(v.control) + 1
  BY NewLevelOK
<1>2. u = SearchAssign(w, lit, Len(w.control), 0)
  BY DEF AssumeDecision, DecisionLevel
<1> HIDE DEF w
<1>3. \A x \in Lit : /\ IsTrue(w, x) <=> IsTrue(v, x)
                     /\ LevelOf(w, x) = LevelOf(v, x) /\ ReasonOf(w, x) = ReasonOf(v, x)
  BY <1>1 DEF IsTrue, LevelOf, ReasonOf
<1>4. /\ u.control = w.control
      /\ \A x \in Lit : IsTrue(w, x) =>
           /\ IsTrue(u, x) /\ LevelOf(u, x) = LevelOf(w, x)
           /\ ReasonOf(u, x) = ReasonOf(w, x)
      /\ \A x \in Lit : IsTrue(u, x) => IsTrue(w, x) \/ x = lit
      /\ IsTrue(u, lit) /\ LevelOf(u, lit) = Len(w.control)
  BY <1>1, <1>2, AssignMoves
<1> QED BY <1>1, <1>3, <1>4 DEF Deepened

\* A new level is that of the next assumption, or of the constraint, or comes
\* after them.
LEMMA DeepenedQuery ==
  ASSUME NEW u, NEW v, TrailOK(u), TrailOK(v), NEW A \in Seq(Lit), NEW C, C \subseteq Lit,
         NEW S, NEW X, Deepened(u, v, X), Query(v, A, C, S), \A x \in X : VarOf(x) \in S,
         Len(v.control) < Len(A) => /\ IsTrue(u, A[Len(v.control) + 1])
                                    /\ X \subseteq {A[Len(v.control) + 1]},
         Len(v.control) = Len(A) /\ C # {} => \E x \in C : IsTrue(u, x)
  PROVE  Query(u, A, C, S)
<1> DEFINE n == Len(v.control)
<1>1. /\ n \in Nat /\ Len(A) \in Nat /\ Len(u.control) = n + 1
      /\ \A x \in Lit : LevelOf(u, x) \in 0..(n + 1) /\ LevelOf(v, x) \in Nat
      /\ \A k \in 1..Len(A) : A[k] \in Lit
  BY TrailTypes, LevelBound DEF TrailOK, Deepened
<1>2. TrailNamed(u, S)
  BY DEF TrailNamed, Deepened, Query
<1>3. Assumed(u, A)
  <2> SUFFICES ASSUME NEW k \in 1..Len(A), k <= n + 1
               PROVE  IsTrue(u, A[k]) /\ LevelOf(u, A[k]) <= k
    BY <1>1 DEF Assumed
  <2>1. CASE k <= n
    <3>1. IsTrue(v, A[k]) /\ LevelOf(v, A[k]) <= k
      BY <2>1 DEF Query, Assumed
    <3> QED BY <1>1, <3>1 DEF Deepened
  <2>2. CASE k = n + 1
    <3>1. n < Len(A)
      BY <1>1, <2>2
    <3> QED BY <1>1, <2>2, <3>1
  <2> QED BY <1>1, <2>1, <2>2
<1>4. Bounded(u, A, C)
  <2> SUFFICES ASSUME C # {}, n + 1 > Len(A)
               PROVE  \E x \in C : IsTrue(u, x) /\ LevelOf(u, x) <= Len(A) + 1
    BY <1>1 DEF Bounded
  <2>1. CASE n > Len(A)
    <3>1. PICK x \in C : IsTrue(v, x) /\ LevelOf(v, x) <= Len(A) + 1
      BY <2>1 DEF Query, Bounded
    <3> QED BY <3>1 DEF Deepened
  <2>2. CASE n = Len(A)
    <3>1. PICK x \in C : IsTrue(u, x)
      BY <2>2
    <3> QED BY <1>1, <2>2, <3>1
  <2> QED BY <1>1, <2>1, <2>2
<1>5. Chosen(u, A)
  <2> SUFFICES ASSUME NEW x \in Lit, IsTrue(u, x), LevelOf(u, x) \in 1..Len(A), ReasonOf(u, x) = 0
               PROVE  x = A[LevelOf(u, x)]
    BY DEF Chosen
  <2>1. CASE IsTrue(v, x)
    <3>1. LevelOf(u, x) = LevelOf(v, x) /\ ReasonOf(u, x) = ReasonOf(v, x)
      BY <2>1 DEF Deepened
    <3> QED BY <2>1, <3>1 DEF Query, Chosen
  <2>2. CASE x \in X /\ LevelOf(u, x) = n + 1
    <3>1. n < Len(A)
      BY <1>1, <2>2
    <3> QED BY <2>2, <3>1
  <2> QED BY <2>1, <2>2 DEF Deepened
<1> QED BY <1>2, <1>3, <1>4, <1>5 DEF Query

\* decide takes the assumptions in their order, then the constraint.
LEMMA DecideQuery ==
  ASSUME SearchInv, SearchInv', QueryInv, Decide
  PROVE  QueryInv'
<1> DEFINE n == Len(t.control)
<1>1. pc = "loop" /\ UNCHANGED <<formula, assumptions, constraint, used, db, unsat>>
  BY DEF Decide, LoopUnchanged, clauseVars
<1>2. /\ TrailOK(t) /\ TrailOK(t') /\ t.propagated = Len(t.trail) /\ ClausesOK(db)
      /\ assumptions \in Seq(Lit) /\ constraint \subseteq Lit /\ n \in Nat
  BY <1>1, InLoop, TrailTypes DEF SearchInv, Plain, Store, TrailOK
<1>3. \E X : /\ Deepened(t', t, X) /\ \A x \in X : VarOf(x) \in used
             /\ n < Len(assumptions) => /\ IsTrue(t', assumptions[n + 1])
                                        /\ X \subseteq {assumptions[n + 1]}
             /\ n = Len(assumptions) /\ constraint # {} => \E x \in constraint : IsTrue(t', x)
  <2>1. CASE /\ n < Len(assumptions)
             /\ t' = IF IsTrue(t, assumptions[n + 1])
                     THEN NewTrailLevel(t, 0)
                     ELSE AssumeDecision(t, assumptions[n + 1])
    <3>1. assumptions[n + 1] \in Lit /\ VarOf(assumptions[n + 1]) \in used /\ n # Len(assumptions)
      BY <1>2, <2>1 DEF QueryInv, Query
    <3>2. CASE IsTrue(t, assumptions[n + 1])
      <4>1. Deepened(t', t, {})
        BY <1>2, <2>1, <3>2, LevelDeepens
      <4>2. IsTrue(t', assumptions[n + 1])
        BY <3>1, <3>2, <4>1 DEF Deepened
      <4> QED BY <3>1, <4>1, <4>2
    <3>3. CASE ~IsTrue(t, assumptions[n + 1])
      <4>1. Deepened(t', t, {assumptions[n + 1]}) /\ IsTrue(t', assumptions[n + 1])
        BY <1>2, <2>1, <3>1, <3>3, DecisionDeepens
      <4> QED BY <3>1, <4>1
    <3> QED BY <3>2, <3>3
  <2>2. CASE /\ n = Len(assumptions)
             /\ \E lit \in constraint : IsTrue(t, lit)
             /\ t' = NewTrailLevel(t, 0)
    <3>1. Deepened(t', t, {})
      BY <1>2, <2>2, LevelDeepens
    <3>2. \E x \in constraint : IsTrue(t', x)
      BY <1>2, <2>2, <3>1 DEF Deepened
    <3> QED BY <1>2, <2>2, <3>1, <3>2
  <2>3. CASE /\ n = Len(assumptions)
             /\ \E lit \in constraint : t' = AssumeDecision(t, lit)
    <3>1. PICK lit \in constraint : t' = AssumeDecision(t, lit)
      BY <2>3
    <3>2. lit \in Lit /\ VarOf(lit) \in used
      BY <1>2 DEF QueryInv, Query
    <3>3. Deepened(t', t, {lit}) /\ IsTrue(t', lit)
      BY <1>2, <3>1, <3>2, DecisionDeepens
    <3> QED BY <1>2, <2>3, <3>2, <3>3
  <2>4. CASE /\ n > Len(assumptions) \/ (n = Len(assumptions) /\ constraint = {})
             /\ \E lit \in Phases : VarOf(lit) \in used /\ t' = AssumeDecision(t, lit)
    <3>1. PICK lit \in Phases : VarOf(lit) \in used /\ t' = AssumeDecision(t, lit)
      BY <2>4
    <3>2. lit \in Lit
      BY SearchAssumption
    <3>3. Deepened(t', t, {lit})
      BY <1>2, <3>1, <3>2, DecisionDeepens
    <3>4. ~(n < Len(assumptions)) /\ (n = Len(assumptions) => constraint = {})
      BY <1>2, <2>4
    <3> QED BY <3>1, <3>3, <3>4
  <2> QED BY <2>1, <2>2, <2>3, <2>4 DEF Decide, DecisionLevel
<1>4. PICK X : /\ Deepened(t', t, X) /\ \A x \in X : VarOf(x) \in used
               /\ n < Len(assumptions) => /\ IsTrue(t', assumptions[n + 1])
                                          /\ X \subseteq {assumptions[n + 1]}
               /\ n = Len(assumptions) /\ constraint # {} => \E x \in constraint : IsTrue(t', x)
  BY <1>3
<1>5. Query(t', assumptions, constraint, used)
  BY <1>2, <1>4, DeepenedQuery DEF QueryInv
<1>6. Carried(t', t)
  BY <1>4 DEF Carried, Deepened
<1>7. ~unsat => Suffices(formula, db, t')
  BY <1>2, <1>6, CoversSame, CoversSuffices DEF QueryInv
<1> QED BY <1>1, <1>5, <1>7 DEF QueryInv

-----------------------------------------------------------------------------
(* Analysis. *)

\* Levels are undone, then a clause implies a literal.
LEMMA JumpMoves ==
  ASSUME NEW v, TrailOK(v), NEW l \in 0..Len(v.control), NEW lit \in Lit, NEW id, id # 0,
         NEW clause, clause \subseteq Lit, NEW S, VarOf(lit) \in S,
         NEW u, u = Imply(Backtrack(v, l), lit, id, clause), TrailOK(u)
  PROVE  Moved(u, v, S)
<1> DEFINE w == Backtrack(v, l)
<1>1. TrailOK(w)
  BY BacktrackIs
<1>2. Moved(w, v, S)
  BY BacktrackMoves
<1> HIDE DEF w
<1>3. u = Imply(w, lit, id, clause)
  BY DEF w
<1>4. Moved(u, w, S)
  BY <1>1, <1>3, ImplyMoves
<1> QED BY <1>1, <1>2, <1>4, MovedOn

\* The variable of a literal that is false is named.
LEMMA FalseNamed ==
  ASSUME NEW u, NEW S, TrailNamed(u, S), NEW x \in Lit, IsFalse(u, x)
  PROVE  VarOf(x) \in S
<1>1. -x \in Lit /\ VarOf(-x) = VarOf(x)
  BY LitFacts
<1> QED BY <1>1 DEF TrailNamed, IsTrue, IsFalse

\* Finding the conflict level undoes levels and may flip a literal.
LEMMA AnalyzeQuery ==
  ASSUME SearchInv, SearchInv', QueryInv, Analyze
  PROVE  QueryInv'
<1> DEFINE lits == db[conflict].lits
           level == HighestLevel(t, lits)
           top == AtLevel(lits, level)
<1>1. /\ pc = "analyze" /\ UNCHANGED <<formula, assumptions, constraint, used>>
  BY DEF Analyze, AnalysisUnchanged, queryVars
<1>2. \/ \E forced \in top :
           /\ level > 0
           /\ t' = Imply(Backtrack(t, level - 1), forced, conflict, lits) /\ unsat' = unsat
      \/ t' = Backtrack(t, 0) /\ unsat' = TRUE
      \/ t' = Backtrack(t, level) /\ unsat' = unsat
  BY DEF Analyze, Lits
<1>3. /\ TrailOK(t) /\ ClausesOK(db) /\ conflict \in DOMAIN db /\ conflict # 0 /\ lits \subseteq Lit
      /\ TrailOK(t')
  BY <1>1, Analyzing DEF SearchInv, Store
<1>4. level \in 0..Len(t.control) /\ Len(t.control) \in Nat
  BY <1>3, HighestIs, TrailTypes DEF TrailOK
<1>5. top \subseteq lits
  BY DEF AtLevel
<1>6. PICK w : db' = With(conflict, Rewatched(db[conflict], w))
  BY DEF Analyze
<1>7. DOMAIN db' = DOMAIN db
      /\ \A j \in DOMAIN db : /\ db'[j].lits = db[j].lits /\ db'[j].garbage = db[j].garbage
                              /\ db'[j].redundant = db[j].redundant
  BY <1>3, <1>6 DEF With, Rewatched
<1>8. Covers(db', db, t') /\ ClausesNamed(db', used')
  BY <1>1, <1>7, CoversSame DEF QueryInv
<1>9. \A x \in lits : VarOf(x) \in used'
  BY <1>1, <1>3 DEF QueryInv, ClausesNamed
<1> HIDE DEF level, lits, top
<1>10. Moved(t', t, used')
  <2>1. ASSUME NEW forced \in top, level > 0,
               t' = Imply(Backtrack(t, level - 1), forced, conflict, lits)
        PROVE  Moved(t', t, used')
    <3>1. level - 1 \in 0..Len(t.control)
      BY <1>4, <2>1
    <3>2. forced \in Lit /\ VarOf(forced) \in used'
      BY <1>3, <1>5, <1>9
    <3> QED BY <1>3, <2>1, <3>1, <3>2, JumpMoves
  <2>2. 0 \in 0..Len(t.control)
    BY <1>4
  <2>3. CASE t' = Backtrack(t, 0)
    BY <1>3, <2>2, <2>3, BacktrackMoves
  <2>4. CASE t' = Backtrack(t, level)
    BY <1>3, <1>4, <2>4, BacktrackMoves
  <2> QED BY <1>2, <2>1, <2>3, <2>4
<1>11. unsat' = FALSE => unsat = FALSE
  BY <1>2
<1> QED BY <1>1, <1>8, <1>10, <1>11, ChangeQuery DEF Change

\* A resolution changes neither clauses nor trail.
LEMMA ResolveQuery ==
  ASSUME SearchInv, SearchInv', QueryInv, Resolve
  PROVE  QueryInv'
<1>1. UNCHANGED <<formula, assumptions, constraint, used, db, t, unsat>>
  BY DEF Resolve, AnalysisUnchanged, queryVars
<1> QED BY <1>1, NothingMoves

\* A resolvent smaller than the reason is the reason without the literal
\* resolved upon.
LEMMA ResolventOfReason ==
  ASSUME SearchInv, pc = "resolve", Strengthens, NEW p, UipAt(p), Resolved(p)
  PROVE  /\ Resolvent \subseteq db[Reason].lits
         /\ analysis.first /\ Cardinality(Resolvent) < analysis.conflictSize =>
              Resolvent \subseteq db[conflict].lits
<1>1. /\ ClausesOK(db) /\ analysis.lits \subseteq Lit /\ Reason \in DOMAIN db
      /\ Uip \in db[Reason].lits /\ Resolvent \subseteq Lit
  BY Resolving DEF Resolved
<1>2. db[Reason].lits \subseteq Lit
  BY <1>1, ClauseFacts
<1>3. Antecedent \subseteq db[Reason].lits /\ Uip \in Antecedent
  BY <1>1 DEF Antecedent, Lits
<1>4. /\ Cardinality(Antecedent \ {Uip}) = Cardinality(Antecedent) - 1
      /\ Cardinality(Antecedent) \in Nat
  BY <1>2, <1>3, LitRemove
<1>5. /\ Antecedent \ {Uip} \subseteq Resolvent /\ analysis.lits \ {-Uip} \subseteq Resolvent
  BY DEF Resolvent
<1>6. /\ Cardinality(Resolvent) \in Nat
      /\ \A T \in SUBSET Resolvent : /\ Cardinality(T) <= Cardinality(Resolvent)
                                     /\ Cardinality(T) = Cardinality(Resolvent) => T = Resolvent
  BY <1>1, LitSet
<1>7. Resolvent = Antecedent \ {Uip}
  <2>1. Cardinality(Antecedent \ {Uip}) <= Cardinality(Resolvent)
    BY <1>5, <1>6
  <2>2. Cardinality(Resolvent) < Cardinality(Antecedent)
    BY DEF Strengthens
  <2>3. Cardinality(Antecedent \ {Uip}) = Cardinality(Resolvent)
    BY <1>4, <1>6, <2>1, <2>2
  <2> QED BY <1>5, <1>6, <2>3
<1>8. ASSUME analysis.first, Cardinality(Resolvent) < analysis.conflictSize
      PROVE  Resolvent \subseteq db[conflict].lits
  <2>1. analysis.lits \subseteq db[conflict].lits /\ analysis.conflictSize = Cardinality(analysis.lits)
    BY <1>8 DEF SearchInv, Analysed
  <2>2. -Uip \in analysis.lits
    BY DEF UipAt, OpenLits, AtLevel
  <2>3. /\ Cardinality(analysis.lits \ {-Uip}) = Cardinality(analysis.lits) - 1
        /\ Cardinality(analysis.lits) \in Nat
    BY <1>1, <2>2, LitRemove
  <2>4. Cardinality(analysis.lits \ {-Uip}) <= Cardinality(Resolvent)
    BY <1>5, <1>6
  <2>5. Cardinality(analysis.lits \ {-Uip}) = Cardinality(Resolvent)
    BY <1>6, <1>8, <2>1, <2>3, <2>4
  <2>6. Resolvent = analysis.lits \ {-Uip}
    BY <1>5, <1>6, <2>5
  <2> QED BY <2>1, <2>6
<1>9. Resolvent \subseteq db[Reason].lits
  BY <1>3, <1>7
<1> QED BY <1>8, <1>9

\* The strengthened reason takes the place of the clauses it is part of.
LEMMA StrengthenCovers ==
  ASSUME SearchInv, Strengthen, NEW p, UipAt(p), Resolved(p), NEW u
  PROVE  Covers(db', db, u)
<1>1. pc = "resolve" /\ Strengthens
  BY DEF Strengthen
<1>2. /\ Resolvent \subseteq db[Reason].lits
      /\ analysis.first /\ Cardinality(Resolvent) < analysis.conflictSize =>
           Resolvent \subseteq db[conflict].lits
  BY <1>1, ResolventOfReason
<1>3. PICK w : LET stronger == With(Reason, Shortened(db[Reason], Resolvent, w))
               IN  db' = IF analysis.first /\ Cardinality(Resolvent) < analysis.conflictSize
                         THEN Subsume(stronger, Reason, conflict)
                         ELSE stronger
  BY DEF Strengthen
<1> DEFINE x == Shortened(db[Reason], Resolvent, w)
           e == With(Reason, x)
<1>4. /\ ClausesOK(db) /\ conflict \in DOMAIN db /\ Reason \in DOMAIN db
      /\ Justified(t, db, p) /\ p \in 1..Len(t.trail) /\ t.trail[p] = Uip
  BY <1>1, Resolving DEF Resolved, UipAt
<1>5. conflict # Reason
  BY <1>1, <1>4, ConflictNoReason DEF Reason
<1>6. /\ x.lits = Resolvent /\ x.redundant = db[Reason].redundant /\ x.garbage = db[Reason].garbage
  BY DEF Shortened
<1> HIDE DEF x
<1>7. /\ DOMAIN e = DOMAIN db /\ e[Reason] = x /\ \A i \in DOMAIN db \ {Reason} : e[i] = db[i]
  BY <1>4 DEF With
<1>8. \/ db' = e
      \/ db' = Subsume(e, Reason, conflict) /\ Resolvent \subseteq db[conflict].lits
  BY <1>2, <1>3 DEF x
<1> HIDE DEF e
<1>9. CASE db' = e
  <2>1. ASSUME NEW i \in DOMAIN db, Needed(db, i)
        PROVE  i \in DOMAIN db' /\ Needed(db', i) /\ db'[i].lits \subseteq db[i].lits
    <3>1. CASE i = Reason
      BY <1>2, <1>6, <1>7, <1>9, <2>1, <3>1 DEF Needed
    <3>2. CASE i # Reason
      BY <1>7, <1>9, <2>1, <3>2 DEF Needed
    <3> QED BY <3>1, <3>2
  <2> QED BY <2>1 DEF Covers
<1>10. CASE db' = Subsume(e, Reason, conflict) /\ Resolvent \subseteq db[conflict].lits
  <2>1. /\ DOMAIN db' = DOMAIN db
        /\ \A i \in DOMAIN db \ {Reason, conflict} : db'[i] = db[i]
        /\ db'[Reason] = [lits |-> x.lits, watch |-> x.watch, garbage |-> x.garbage,
                          redundant |-> x.redundant /\ e[conflict].redundant]
    BY <1>4, <1>5, <1>7, <1>10 DEF Subsume
  <2>2. /\ db'[Reason].lits = Resolvent /\ db'[Reason].garbage = db[Reason].garbage
        /\ db'[Reason].redundant = (db[Reason].redundant /\ db[conflict].redundant)
    BY <1>4, <1>5, <1>6, <1>7, <2>1
  <2>3. db[Reason].garbage = FALSE
    <3>1. Strengthened(db')
      BY StrengthenedIs
    <3> QED BY <2>2, <3>1 DEF Strengthened
  <2>4. ASSUME NEW i \in DOMAIN db, Needed(db, i)
        PROVE  \E j \in DOMAIN db' : Needed(db', j) /\ db'[j].lits \subseteq db[i].lits
    <3>1. CASE i = Reason \/ i = conflict
      <4>1. db'[Reason].redundant = FALSE
        BY <2>2, <2>4, <3>1 DEF Needed
      <4>2. Reason \in DOMAIN db' /\ Needed(db', Reason) /\ db'[Reason].lits \subseteq db[i].lits
        BY <1>2, <1>4, <1>10, <2>1, <2>2, <2>3, <3>1, <4>1 DEF Needed
      <4> QED BY <4>2
    <3>2. CASE i # Reason /\ i # conflict
      BY <2>1, <2>4, <3>2 DEF Needed
    <3> QED BY <3>1, <3>2
  <2> QED BY <2>4 DEF Covers
<1> QED BY <1>8, <1>9, <1>10

\* On-the-fly strengthening loses no clause of the formula.
LEMMA StrengthenQuery ==
  ASSUME SearchInv, SearchInv', QueryInv, Strengthen
  PROVE  QueryInv'
<1> DEFINE open == AtLevel(Resolvent, DecisionLevel(t))
           jump == HighestLevel(t, Resolvent \ open)
<1>1. /\ pc = "resolve" /\ Cardinality(OpenLits) > 1
      /\ UNCHANGED <<unsat, formula, used, assumptions, constraint>>
  BY DEF Strengthen, AnalysisUnchanged, queryVars
<1>2. \/ \E forced \in open, level \in BacktrackLevels(jump) :
           open = {forced} /\ t' = Imply(Backtrack(t, level), forced, Reason, Resolvent)
      \/ UNCHANGED t
  BY DEF Strengthen
<1>3. PICK p : UipAt(p)
  BY <1>1, UipIs
<1>4. Resolved(p)
  BY <1>1, <1>3, ResolventIs
<1>5. Strengthened(db')
  BY <1>3, <1>4, StrengthenedIs
<1>6. /\ TrailOK(t) /\ TrailOK(t') /\ assumptions \in Seq(Lit) /\ Len(t.control) \in Nat \ {0}
  BY <1>1, Resolving, Wellformed DEF SearchInv, Store
<1>7. /\ Resolvent \subseteq Lit /\ \A x \in Resolvent : InClause(t, x)
      /\ Reason # 0
  BY <1>4 DEF Resolved
<1>8. \A x \in Resolvent : VarOf(x) \in used
  BY <1>7, FalseNamed DEF QueryInv, Query, InClause
<1>9. Covers(db', db, t')
  BY <1>3, <1>4, StrengthenCovers
<1>10. ClausesNamed(db', used')
  BY <1>1, <1>5, <1>8 DEF Strengthened, QueryInv, ClausesNamed
<1>11. Moved(t', t, used')
  <2>1. CASE UNCHANGED t
    BY <1>6, <2>1, MovedNot
  <2>2. ASSUME NEW forced \in open, NEW level \in BacktrackLevels(jump), open = {forced},
               t' = Imply(Backtrack(t, level), forced, Reason, Resolvent)
        PROVE  Moved(t', t, used')
    <3>1. forced \in Resolvent /\ forced \in Lit /\ VarOf(forced) \in used'
      BY <1>1, <1>7, <1>8 DEF AtLevel
    <3>2. \A x \in Resolvent \ open : LevelOf(t, x) \in 0..(Len(t.control) - 1)
      <4> SUFFICES ASSUME NEW x \in Resolvent \ open
                   PROVE  LevelOf(t, x) \in 0..(Len(t.control) - 1)
        OBVIOUS
      <4>1. LevelOf(t, x) \in 1..Len(t.control)
        BY <1>7 DEF InClause, DecisionLevel
      <4>2. LevelOf(t, x) # Len(t.control)
        BY DEF AtLevel, DecisionLevel
      <4> QED BY <1>6, <4>1, <4>2
    <3>3. jump \in 0..(Len(t.control) - 1)
      <4>1. /\ Resolvent \ open \subseteq Lit /\ t \in TrailType
        BY <1>6, <1>7 DEF TrailOK
      <4>2. /\ jump \in Nat /\ \/ jump = 0
                               \/ \E x \in Resolvent \ open : LevelOf(t, x) = jump
        BY <1>6, <4>1, HighestIs
      <4> HIDE DEF jump, open
      <4> QED BY <1>6, <3>2, <4>2
    <3> HIDE DEF jump, open
    <3>4. level \in jump..(Len(t.control) - 1)
      BY <1>6, <3>3, BacktrackLevelsIn
    <3>5. level \in 0..Len(t.control)
      BY <1>6, <3>3, <3>4
    <3> QED BY <1>6, <1>7, <2>2, <3>1, <3>5, JumpMoves
  <2> QED BY <1>2, <2>1, <2>2
<1> QED BY <1>1, <1>9, <1>10, <1>11, ChangeQuery DEF Change

\* What is learned is redundant, and so is what it subsumes.
LEMMA GrownCovers ==
  ASSUME ClausesOK(db), NEW id, id \notin DOMAIN db, NEW s, NEW watch, NEW d,
         d = EagerlySubsume(With(id, NewClause(s, watch, TRUE)), id), NEW u
  PROVE  Covers(d, db, u)
<1> DEFINE e == With(id, NewClause(s, watch, TRUE))
<1>1. DOMAIN e = DOMAIN db \cup {id} /\ \A j \in DOMAIN db : e[j] = db[j]
  BY DEF With
<1> HIDE DEF e
<1>2. d = EagerlySubsume(e, id)
  BY DEF e
<1>3. ASSUME NEW i \in DOMAIN db, Needed(db, i)
      PROVE  i \in DOMAIN d /\ d[i] = db[i]
  <2>1. i \in DOMAIN e /\ e[i].redundant = FALSE
    BY <1>1, <1>3 DEF Needed
  <2>2. i \in DOMAIN d /\ d[i] = e[i]
    BY <1>2, <2>1 DEF EagerlySubsume
  <2> QED BY <1>1, <2>2
<1> QED BY <1>3 DEF Covers, Needed

\* Learning loses no clause of the formula.
LEMMA LearnQuery ==
  ASSUME SearchInv, SearchInv', QueryInv, Learn
  PROVE  QueryInv'
<1> DEFINE s == ShrunkenClause(t, analysis.lits, LitsOf(db))
           id == Min(FreeIds)
           watch == {LastOpen, Highest(t, s \ {LastOpen})}
<1>0. s = ShrunkenClause(t, analysis.lits, [i \in DOMAIN db |-> Lits(i)])
  BY DEF LitsOf, Lits
<1>1. /\ pc = "resolve" /\ Cardinality(OpenLits) = 1
      /\ UNCHANGED <<unsat, formula, used, assumptions, constraint>>
  BY DEF Learn, AnalysisUnchanged, queryVars
<1>2. Learned(s)
  BY <1>1, LearnedIs
<1>3. PICK level \in BacktrackLevels(HighestLevel(t, s \ {LastOpen})) :
        \/ /\ s = {LastOpen}
           /\ t' = AssignUnit(Backtrack(t, level), LastOpen)
           /\ UNCHANGED db
        \/ /\ s # {LastOpen} /\ FreeIds # {}
           /\ t' = Imply(Backtrack(t, level), LastOpen, id, s)
           /\ db' = EagerlySubsume(With(id, NewClause(s, watch, TRUE)), id)
  BY <1>0 DEF Learn
<1> HIDE DEF s
<1>4. /\ TrailOK(t) /\ TrailOK(t') /\ ClausesOK(db) /\ Len(t.control) \in Nat \ {0}
  BY <1>1, Resolving DEF SearchInv, Store
<1>5. level \in 0..Len(t.control)
  BY <1>1, <1>2, <1>4, LearnLevel
<1>6. s \subseteq Lit /\ LastOpen \in s /\ \A x \in s : InClause(t, x)
  BY <1>2 DEF Learned
<1>7. \A x \in s : VarOf(x) \in used'
  BY <1>1, <1>6, FalseNamed DEF QueryInv, Query, InClause
<1>8. LastOpen \in Lit /\ VarOf(LastOpen) \in used'
  BY <1>6, <1>7
<1>9. CASE /\ t' = AssignUnit(Backtrack(t, level), LastOpen)
           /\ UNCHANGED db
  <2> DEFINE w == Backtrack(t, level)
  <2>1. TrailOK(w) /\ Moved(w, t, used')
    BY <1>4, <1>5, BacktrackIs, BacktrackMoves
  <2> HIDE DEF w
  <2>2. t' = SearchAssign(w, LastOpen, 0, 0)
    BY <1>9 DEF w, AssignUnit
  <2>3. Moved(t', w, used')
    BY <1>4, <1>8, <2>1, <2>2, ImpliedMoves
  <2>4. Moved(t', t, used')
    BY <1>4, <2>1, <2>3, MovedOn
  <2> QED BY <1>1, <1>9, <2>4, OnlyTrail
<1>10. CASE /\ s # {LastOpen} /\ FreeIds # {}
            /\ t' = Imply(Backtrack(t, level), LastOpen, id, s)
            /\ db' = EagerlySubsume(With(id, NewClause(s, watch, TRUE)), id)
  <2>1. id \in Ids /\ id \notin DOMAIN db /\ id # 0
    BY <1>10, FreeIs
  <2>2. Grown(db', id, s)
    BY <1>1, <1>2, <1>10, <2>1, GrownIs
  <2> HIDE DEF id, watch
  <2>3. Covers(db', db, t')
    BY <1>4, <1>10, <2>1, GrownCovers
  <2>4. ClausesNamed(db', used')
    <3> SUFFICES ASSUME NEW j \in DOMAIN db', NEW x \in db'[j].lits PROVE VarOf(x) \in used'
      BY DEF ClausesNamed
    <3>1. CASE j = id
      BY <1>7, <2>2, <3>1 DEF Grown
    <3>2. CASE j \in DOMAIN db
      <4>1. db'[j].lits = db[j].lits
        BY <2>2, <3>2 DEF Grown, Discarded
      <4> QED BY <1>1, <3>2, <4>1 DEF QueryInv, ClausesNamed
    <3> QED BY <2>2, <3>1, <3>2 DEF Grown
  <2>5. Moved(t', t, used')
    BY <1>4, <1>5, <1>6, <1>8, <1>10, <2>1, JumpMoves
  <2> QED BY <1>1, <2>3, <2>4, <2>5, ChangeQuery DEF Change
<1> QED BY <1>3, <1>9, <1>10

\* At first nothing is asked and nothing is known.
LEMMA InitQuery ==
  ASSUME Init, SearchInv
  PROVE  QueryInv
<1>1. /\ formula = {} /\ used = {} /\ db = <<>> /\ t = EmptyTrail /\ assumptions = <<>>
      /\ constraint = {} /\ unsat = FALSE
  BY DEF Init
<1>2. t.trail = <<>> /\ t.control = <<>> /\ Len(t.control) = 0
  BY <1>1 DEF EmptyTrail
<1>3. \A x \in Lit : ~IsTrue(t, x)
  BY <1>2 DEF IsTrue, Contains
<1>4. TrailOK(t) /\ assumptions \in Seq(Lit)
  BY Wellformed
<1>5. TrailNamed(t, used)
  BY <1>3 DEF TrailNamed
<1>6. Len(assumptions) = 0
  BY <1>1
<1>7. Query(t, assumptions, constraint, used)
  <2>1. /\ \A k \in 1..Len(assumptions) : VarOf(assumptions[k]) \in used
        /\ \A x \in constraint : VarOf(x) \in used
    BY <1>1, <1>6
  <2>2. Len(t.control) = 0
    BY <1>2
  <2> QED BY <1>4, <1>5, <2>1, <2>2, RootQuery
<1>8. Suffices(formula, db, t)
  BY <1>1 DEF Suffices, IsModel
<1>9. DOMAIN db = {}
  BY <1>1
<1>10. ClausesNamed(db, used)
  BY <1>9 DEF ClausesNamed
<1> QED BY <1>7, <1>8, <1>10 DEF QueryInv

\* Every step keeps what is asked and what is known.
LEMMA NextQuery ==
  ASSUME SearchInv, SearchInv', QueryInv, [Next]_vars
  PROVE  QueryInv'
<1>1. CASE Next
  <2>1. CASE Add \/ Assume \/ Constrain \/ Solve \/ Release
    BY <2>1, AddQuery, AssumeQuery, ConstrainQuery, SolveQuery, ReleaseQuery
  <2>2. CASE NextLiteral \/ Visit \/ Propagated
    BY <2>2, NextLiteralQuery, VisitQuery, PropagatedQuery
  <2>3. CASE Analyze \/ Resolve \/ Strengthen \/ Learn
    BY <2>3, AnalyzeQuery, ResolveQuery, StrengthenQuery, LearnQuery
  <2>4. CASE FoundModel \/ GiveUp \/ FailAssumption \/ FailConstraint
    BY <2>4, AnswerQuery
  <2>5. CASE Restart \/ Reduce \/ Collect \/ Decide
    BY <2>5, RestartQuery, ReduceQuery, CollectQuery, DecideQuery
  <2> QED BY <1>1, <2>1, <2>2, <2>3, <2>4, <2>5 DEF Next
<1>2. CASE UNCHANGED vars
  <2>1. UNCHANGED <<formula, assumptions, constraint, used, db, t, unsat>>
    BY <1>2 DEF vars, clauseVars, queryVars
  <2> QED BY <2>1, NothingMoves
<1> QED BY <1>1, <1>2

\* The question asked and what is known stay as the calls made them.
THEOREM QuerySafe == Spec => []QueryInv
<1>1. Init => QueryInv
  BY InitInv, InitQuery
<1>2. SearchInv /\ SearchInv' /\ QueryInv /\ [Next]_vars => QueryInv'
  BY NextQuery
<1> QED BY <1>1, <1>2, SearchSafe, PTL DEF Spec

\* What counts as irredundant is enough.
LEMMA IrredundantIsEnough ==
  ASSUME SearchInv, QueryInv
  PROVE  IrredundantSuffices
<1> DEFINE kept == {Lits(id) : id \in {i \in DOMAIN db : ~db[i].redundant /\ ~db[i].garbage}}
<1> SUFFICES ASSUME ~unsat, NEW m \in Models(kept), IsModel(m, {}, RootUnits(t))
             PROVE  IsModel(m, formula, {})
  BY DEF IrredundantSuffices
<1>1. TrailOK(t) /\ Suffices(formula, db, t)
  BY Wellformed DEF QueryInv
<1>2. m \in SUBSET Var /\ \A c \in kept : Holds(m, c)
  BY DEF Models, IsModel
<1>3. \A id \in DOMAIN db : Needed(db, id) => Holds(m, db[id].lits)
  BY <1>2 DEF Needed, Lits
<1>4. \A x \in Lit : RootTrue(t, x) => True(m, x)
  BY <1>1, RootUnitsAre DEF RootTrue, IsModel
<1> QED BY <1>1, <1>2, <1>3, <1>4 DEF Suffices

\* Redundant clauses and garbage can be dropped at any time.
THEOREM IrredundantSafe == Spec => []IrredundantSuffices
  BY SearchSafe, QuerySafe, IrredundantIsEnough, PTL

-----------------------------------------------------------------------------
(* A model. *)

\* The assignment that the trail gives.
LEMMA TrailTrue ==
  ASSUME NEW u, TrailOK(u), NEW x \in Lit, IsTrue(u, x)
  PROVE  True({v \in Var : IsTrue(u, v)}, x)
<1>1. ~IsFalse(u, x)
  BY NotBoth
<1>2. CASE x > 0
  <2>1. x \in Var
    BY <1>2, LitFacts, MaxVarAssumption DEF Lit, Var
  <2> QED BY <1>2, <2>1 DEF True
<1>3. CASE ~(x > 0)
  <2>1. ~IsTrue(u, -x)
    BY <1>1 DEF IsTrue, IsFalse
  <2> QED BY <1>3, <2>1 DEF True
<1> QED BY <1>2, <1>3

\* A literal whose variable is assigned is.
LEMMA NotOpen ==
  ASSUME NEW u, NEW x \in Lit, ~IsOpen(u, VarOf(x))
  PROVE  ~IsOpen(u, x)
<1>1. x \in Int /\ (VarOf(x) = x \/ VarOf(x) = -x)
  BY LitFacts DEF VarOf
<1>2. CASE VarOf(x) = x
  BY <1>2
<1>3. CASE VarOf(x) = -x
  <2>1. -(-x) = x
    BY <1>1
  <2> QED BY <1>3, <2>1 DEF IsOpen, IsTrue, IsFalse
<1> QED BY <1>1, <1>2, <1>3

\* When every variable in use is assigned and assumptions and constraint are
\* decided, the trail is a model.
LEMMA ModelFound ==
  ASSUME SearchInv, QueryInv, pc = "loop", Satisfied
  PROVE  IsModel({v \in Var : IsTrue(t, v)},
                 formula \cup (IF constraint = {} THEN {} ELSE {constraint}),
                 ToSet(assumptions))
<1> DEFINE m == {v \in Var : IsTrue(t, v)}
<1>1. /\ TrailOK(t) /\ ClausesOK(db) /\ unsat = FALSE /\ assumptions \in Seq(Lit)
      /\ constraint \subseteq Lit
  BY InLoop, Wellformed
<1>2. \A x \in Lit : IsTrue(t, x) => True(m, x)
  BY <1>1, TrailTrue
<1>3. m \in SUBSET Var
  OBVIOUS
<1> HIDE DEF m
<1>4. ASSUME NEW id \in DOMAIN db, Needed(db, id) PROVE Holds(m, db[id].lits)
  <2>1. db[id].lits \subseteq Lit
    BY <1>1, ClauseFacts
  <2>2. ASSUME NEW x \in db[id].lits PROVE ~IsOpen(t, x)
    <3>1. VarOf(x) \in used
      BY DEF QueryInv, ClausesNamed
    <3>2. ~IsOpen(t, VarOf(x))
      BY <3>1 DEF Satisfied
    <3> QED BY <2>1, <3>2, NotOpen
  <2> DEFINE open == {lit \in Lits(id) : IsOpen(t, lit)}
  <2>3. open \subseteq Lit /\ ~ \E a, b \in open : a # b
    BY <2>1, <2>2 DEF Lits
  <2>4. ~(Cardinality(open) > 1)
    BY <2>3, MoreThanOne
  <2>5. PropagationComplete
    BY NothingMissed
  <2>6. \E x \in db[id].lits : IsTrue(t, x)
    BY <1>4, <2>4, <2>5 DEF PropagationComplete, Needed, Lits
  <2> QED BY <1>2, <2>1, <2>6 DEF Holds
<1>5. \A x \in Lit : RootTrue(t, x) => True(m, x)
  BY <1>2 DEF RootTrue
<1>6. IsModel(m, formula, {})
  BY <1>1, <1>3, <1>4, <1>5 DEF QueryInv, Suffices
<1>7. /\ Len(t.control) \in Nat /\ Len(assumptions) \in Nat
      /\ Len(t.control) >= Len(assumptions)
      /\ constraint # {} => Len(t.control) > Len(assumptions)
  <2>1. Len(t.control) \in Nat /\ Len(assumptions) \in Nat
    BY <1>1, TrailTypes DEF TrailOK
  <2> QED BY <2>1 DEF Satisfied, DecisionLevel
<1>8. \A lit \in ToSet(assumptions) : True(m, lit)
  <2> SUFFICES ASSUME NEW k \in 1..Len(assumptions) PROVE True(m, assumptions[k])
    BY <1>1 DEF ToSet
  <2>1. k <= Len(t.control) /\ assumptions[k] \in Lit
    BY <1>1, <1>7
  <2>2. IsTrue(t, assumptions[k])
    BY <2>1 DEF QueryInv, Query, Assumed
  <2> QED BY <1>2, <2>1, <2>2
<1>9. constraint # {} => Holds(m, constraint)
  BY <1>1, <1>2, <1>7 DEF QueryInv, Query, Bounded, Holds
<1>10. IsModel(m, formula \cup (IF constraint = {} THEN {} ELSE {constraint}), ToSet(assumptions))
  BY <1>6, <1>8, <1>9 DEF IsModel
<1> QED BY <1>10 DEF m

\* Only a complete assignment is answered, and nothing changes until the
\* next call.
LEMMA Answering ==
  ASSUME SearchInv, [Next]_vars, pc' = "sat"
  PROVE  FoundModel \/ UNCHANGED vars
<1>1. ASSUME Add \/ Assume \/ Constrain \/ Solve \/ Release PROVE FALSE
  BY <1>1 DEF Add, Assume, Constrain, Solve, Release, Call
<1>2. ASSUME NextLiteral \/ Visit \/ Propagated PROVE FALSE
  BY <1>2 DEF NextLiteral, Visit, Propagated
<1>3. ASSUME Analyze \/ Resolve \/ Strengthen \/ Learn PROVE FALSE
  BY <1>3 DEF Analyze, Resolve, Strengthen, Learn, Search
<1>4. ASSUME GiveUp \/ FailAssumption \/ FailConstraint PROVE FALSE
  BY <1>4 DEF GiveUp, FailAssumption, FailConstraint
<1>5. ASSUME Restart \/ Reduce \/ Collect \/ Decide PROVE FALSE
  BY <1>5 DEF Restart, Reduce, Collect, Decide, Search
<1> QED BY <1>1, <1>2, <1>3, <1>4, <1>5 DEF Next

\* A model satisfies the formula, every assumption and the constraint.
THEOREM ModelSafe == Spec => []ModelIsModel
<1>1. Init => ModelIsModel
  BY DEF Init, ModelIsModel
<1>2. ASSUME SearchInv, QueryInv, ModelIsModel, [Next]_vars
      PROVE  ModelIsModel'
  <2> SUFFICES ASSUME pc' = "sat" PROVE ModelIsModel'
    BY DEF ModelIsModel
  <2>1. CASE FoundModel
    <3>1. /\ pc = "loop" /\ Satisfied /\ UNCHANGED <<t, formula, constraint, assumptions>>
      BY <2>1 DEF FoundModel, LoopUnchanged, clauseVars
    <3>2. IsModel({v \in Var : IsTrue(t, v)},
                  formula \cup (IF constraint = {} THEN {} ELSE {constraint}),
                  ToSet(assumptions))
      BY <1>2, <3>1, ModelFound
    <3> QED BY <3>1, <3>2 DEF ModelIsModel
  <2>2. CASE UNCHANGED vars
    <3>1. UNCHANGED <<pc, t, formula, constraint, assumptions>>
      BY <2>2 DEF vars, clauseVars, queryVars
    <3> QED BY <1>2, <3>1 DEF ModelIsModel
  <2> QED BY <1>2, <2>1, <2>2, Answering
<1> QED BY <1>1, <1>2, SearchSafe, QuerySafe, PTL DEF Spec

-----------------------------------------------------------------------------
(* Failed assumptions. *)

\* The negations of the other literals of the reason of x.
Behind(x) == {-other : other \in db[ReasonOf(t, x)].lits \ {x}}

\* The walk back along the trail from the literals L.
Reaches(f, L) ==
  /\ f[0] = L
  /\ \A i \in 1..Len(t.trail) :
       LET x == t.trail[Len(t.trail) - i + 1]
       IN  f[i] = IF x \in f[i - 1] /\ ReasonOf(t, x) # 0 THEN f[i - 1] \cup Behind(x)
                  ELSE f[i - 1]
  /\ Decisions(L) = {x \in f[Len(t.trail)] : LevelOf(t, x) > 0 /\ ReasonOf(t, x) = 0}

\* The search for failed assumptions goes back along the trail.
LEMMA ReachWalk ==
  ASSUME Store(t, db), NEW L, L \subseteq Lit
  PROVE  \E f : Reaches(f, L)
<1> DEFINE n == Len(t.trail)
           S == SUBSET Lit
           at(i) == t.trail[n - i + 1]
           step == [i \in 1..n |-> [s \in S |->
                      IF at(i) \in s /\ ReasonOf(t, at(i)) # 0 THEN s \cup Behind(at(i)) ELSE s]]
           body(f, i) == IF i = 0 THEN L
                         ELSE IF at(i) \in f[i - 1] /\ ReasonOf(t, at(i)) # 0
                         THEN f[i - 1] \cup Behind(at(i))
                         ELSE f[i - 1]
           Walks(f) == f = [i \in 0..n |-> body(f, i)]
<1>1. n \in Nat /\ L \in S /\ \A i \in 1..n : t.trail[i] \in Lit
  BY TrailTypes DEF Store, TrailOK
<1>2. step \in [1..n -> [S -> S]]
  <2>1. ASSUME NEW i \in 1..n, ReasonOf(t, at(i)) # 0 PROVE Behind(at(i)) \subseteq Lit
    <3>1. n - i + 1 \in 1..n
      BY <1>1
    <3>2. VarOf(at(i)) \in Var
      BY <1>1, <3>1, LitFacts
    <3>3. ReasonOf(t, at(i)) \in DOMAIN db
      BY <2>1, <3>2 DEF Store, Stored, ReasonOf
    <3> HIDE DEF n, at
    <3>4. db[ReasonOf(t, at(i))].lits \subseteq Lit
      BY <3>3, ClauseFacts DEF Store
    <3> QED BY <3>4, LitFacts DEF Behind
  <2> HIDE DEF n, at
  <2> QED BY <2>1
<1>3. \E g : Steps(g, n, S, L, step)
  <2> HIDE DEF step, n, S
  <2> QED BY <1>1, <1>2, Recursion
<1>4. PICK g \in [0..n -> S] :
        g[0] = L /\ \A i \in 1..n : g[i] = step[i][g[i - 1]]
  <2> HIDE DEF step, n, S
  <2> QED BY <1>3 DEF Steps
<1>5. ASSUME NEW i \in 0..n PROVE g[i] = body(g, i)
  <2>1. CASE i = 0
    BY <1>4, <2>1
  <2>2. CASE i \in 1..n
    <3>1. g[i - 1] \in S /\ i # 0
      BY <1>1, <2>2
    <3> HIDE DEF n, S, at
    <3> QED BY <1>1, <1>4, <2>2, <3>1
  <2> QED BY <1>1, <2>1, <2>2
<1>6. Walks(g)
  <2> HIDE DEF body
  <2> QED BY <1>5
<1> DEFINE f == CHOOSE h : Walks(h)
<1>7. Walks(f)
  <2> HIDE DEF Walks
  <2> QED BY <1>6
<1>8. Decisions(L) = {x \in f[n] : LevelOf(t, x) > 0 /\ ReasonOf(t, x) = 0}
  BY DEF Decisions, Behind, Lits
<1>9. \A i \in 0..n : f[i] = body(f, i)
  <2> HIDE DEF f, body, n
  <2> QED BY <1>7
<1> HIDE DEF f
<1>10. ASSUME NEW i \in 1..n
       PROVE  f[i] = IF at(i) \in f[i - 1] /\ ReasonOf(t, at(i)) # 0
                     THEN f[i - 1] \cup Behind(at(i)) ELSE f[i - 1]
  <2>1. i \in 0..n /\ i # 0
    BY <1>1
  <2> HIDE DEF n, at
  <2> QED BY <1>9, <2>1
<1>11. f[0] = L
  <2>1. 0 \in 0..n
    BY <1>1
  <2> HIDE DEF n
  <2> QED BY <1>9, <2>1
<1> QED BY <1>8, <1>10, <1>11 DEF Reaches

\* A set of literals of the trail that has the reasons of its last i places.
ClosedTo(c, L, i) ==
  /\ L \subseteq c
  /\ \A x \in c : /\ x \in Lit
                  /\ \E p \in 1..Len(t.trail) : t.trail[p] = x
  /\ \A p \in 1..Len(t.trail) :
       p > Len(t.trail) - i /\ t.trail[p] \in c /\ ReasonOf(t, t.trail[p]) # 0 =>
         Behind(t.trail[p]) \subseteq c

\* What a reason leads to is below its literal on the trail.
LEMMA BehindIs ==
  ASSUME Store(t, db), Explains(t, db), NEW p \in 1..Len(t.trail), ReasonOf(t, t.trail[p]) # 0
  PROVE  \A y \in Behind(t.trail[p]) : y \in Lit /\ \E q \in 1..(p - 1) : t.trail[q] = y
<1>1. Explained(t, LitsOf(db), p) /\ ClausesOK(db)
  BY DEF Explains, Justified, Store
<1>2. /\ ReasonOf(t, t.trail[p]) \in DOMAIN db
      /\ \A other \in db[ReasonOf(t, t.trail[p])].lits \ {t.trail[p]} :
           \E q \in 1..(p - 1) : t.trail[q] = -other
  BY <1>1, LitsOfIs DEF Explained
<1>3. db[ReasonOf(t, t.trail[p])].lits \subseteq Lit
  BY <1>1, <1>2, ClauseFacts
<1> QED BY <1>2, <1>3, LitFacts DEF Behind

\* One step of the walk closes the set at its place of the trail.
LEMMA ReachStep ==
  ASSUME Store(t, db), Explains(t, db), NEW L, NEW i \in 1..Len(t.trail), NEW c,
         ClosedTo(c, L, i - 1), NEW x, x = t.trail[Len(t.trail) - i + 1], NEW d,
         d = IF x \in c /\ ReasonOf(t, x) # 0 THEN c \cup Behind(x) ELSE c
  PROVE  ClosedTo(d, L, i)
<1> DEFINE n == Len(t.trail)
           p == n - i + 1
<1>1. /\ n \in Nat /\ p \in 1..n /\ p \in Nat /\ TrailOK(t) /\ \A j \in 1..n : t.trail[j] \in Lit
  BY TrailTypes DEF Store, TrailOK
<1>2. x = t.trail[p]
  OBVIOUS
<1>3. /\ c \subseteq d
      /\ \A y \in d : y \in c \/ (y \in Behind(x) /\ ReasonOf(t, x) # 0)
  OBVIOUS
<1>4. ReasonOf(t, x) # 0 => \A y \in Behind(x) : y \in Lit /\ \E q \in 1..(p - 1) : t.trail[q] = y
  <2> HIDE DEF p
  <2> QED BY <1>1, <1>2, BehindIs
<1>5. \A q \in 1..(p - 1) : q \in 1..n
  BY <1>1
<1>6. \A y \in d : y \in Lit /\ \E q \in 1..n : t.trail[q] = y
  <2> HIDE DEF p
  <2> QED BY <1>3, <1>4, <1>5 DEF ClosedTo
<1>7. ASSUME NEW q \in 1..n, q > n - i, t.trail[q] \in d, ReasonOf(t, t.trail[q]) # 0
      PROVE  Behind(t.trail[q]) \subseteq d
  <2>1. t.trail[q] \in c
    <3> SUFFICES ASSUME t.trail[q] \in Behind(x), ReasonOf(t, x) # 0 PROVE FALSE
      BY <1>3, <1>7
    <3>1. PICK r \in 1..(p - 1) : t.trail[r] = t.trail[q]
      BY <1>4
    <3>2. r = q
      BY <1>1, <1>5, <3>1 DEF TrailOK, Once
    <3> QED BY <1>1, <1>7, <3>1, <3>2
  <2>2. CASE q = p
    BY <1>2, <1>7, <2>1, <2>2
  <2>3. CASE q # p
    <3>1. q > n - (i - 1)
      BY <1>1, <1>7, <2>3
    <3>2. Behind(t.trail[q]) \subseteq c
      BY <1>7, <2>1, <3>1 DEF ClosedTo
    <3> QED BY <1>3, <3>2
  <2> QED BY <2>2, <2>3
<1>8. L \subseteq d
  BY <1>3 DEF ClosedTo
<1> QED BY <1>6, <1>7, <1>8 DEF ClosedTo

\* The walk ends in a set of literals of the trail closed under reasons, of
\* which the decisions are those without one.
Cone(c, L) ==
  /\ ClosedTo(c, L, Len(t.trail))
  /\ Decisions(L) = {x \in c : LevelOf(t, x) > 0 /\ ReasonOf(t, x) = 0}

\* At the end the set is closed.
LEMMA ConeIs ==
  ASSUME Store(t, db), Explains(t, db), NEW L, \A x \in L : x \in Lit /\ IsTrue(t, x)
  PROVE  \E c : Cone(c, L)
<1> DEFINE n == Len(t.trail)
<1>1. n \in Nat
  BY TrailTypes DEF Store, TrailOK
<1>2. PICK f : Reaches(f, L)
  BY ReachWalk
<1> DEFINE S == {i \in 0..n : ClosedTo(f[i], L, i)}
<1>3. 0 \in S
  <2>1. f[0] = L
    BY <1>2 DEF Reaches
  <2>2. \A x \in L : \E p \in 1..n : t.trail[p] = x
    BY DEF IsTrue, Contains
  <2>3. \A p \in 1..n : ~(p > n - 0)
    BY <1>1
  <2>4. ClosedTo(L, L, 0)
    BY <2>2, <2>3 DEF ClosedTo
  <2> QED BY <1>1, <2>1, <2>4
<1>4. ASSUME NEW i \in 1..n, i - 1 \in S PROVE i \in S
  <2>1. ClosedTo(f[i - 1], L, i - 1)
    BY <1>4
  <2> DEFINE x == t.trail[n - i + 1]
  <2>2. f[i] = IF x \in f[i - 1] /\ ReasonOf(t, x) # 0 THEN f[i - 1] \cup Behind(x) ELSE f[i - 1]
    BY <1>2 DEF Reaches
  <2>3. x = t.trail[Len(t.trail) - i + 1]
    OBVIOUS
  <2> HIDE DEF x
  <2>4. ClosedTo(f[i], L, i)
    BY <2>1, <2>2, <2>3, ReachStep
  <2>5. i \in 0..n
    BY <1>1
  <2> QED BY <2>4, <2>5
<1> HIDE DEF S
<1>5. \A i \in 0..n : i \in S
  BY <1>1, <1>3, <1>4, InductionUpTo
<1>6. ClosedTo(f[n], L, n)
  BY <1>1, <1>5 DEF S
<1>7. Decisions(L) = {x \in f[n] : LevelOf(t, x) > 0 /\ ReasonOf(t, x) = 0}
  BY <1>2 DEF Reaches
<1> QED BY <1>6, <1>7 DEF Cone

\* The decisions are decided literals, and the literals they were collected
\* for hold wherever they and the clauses do.
LEMMA DecisionsAre ==
  ASSUME Store(t, db), Explains(t, db), NEW L, \A x \in L : x \in Lit /\ IsTrue(t, x)
  PROVE  /\ \A x \in Decisions(L) : /\ x \in Lit /\ IsTrue(t, x)
                                    /\ LevelOf(t, x) > 0 /\ ReasonOf(t, x) = 0
         /\ \A m : (Satisfies(m, t, LitsOf(db)) /\ \A x \in Decisions(L) : True(m, x))
                     => \A x \in L : True(m, x)
<1> DEFINE n == Len(t.trail)
<1>1. /\ n \in Nat /\ TrailOK(t) /\ ClausesOK(db) /\ \A i \in 1..n : t.trail[i] \in Lit
      /\ t.trail \in Seq(Lit)
  BY TrailTypes DEF Store, TrailOK
<1>2. PICK c : Cone(c, L)
  BY ConeIs
<1>3. /\ L \subseteq c
      /\ \A x \in c : x \in Lit /\ \E p \in 1..n : t.trail[p] = x
      /\ \A p \in 1..n : t.trail[p] \in c /\ ReasonOf(t, t.trail[p]) # 0 => Behind(t.trail[p]) \subseteq c
      /\ Decisions(L) = {x \in c : LevelOf(t, x) > 0 /\ ReasonOf(t, x) = 0}
  <2>1. \A p \in 1..n : p > n - n
    BY <1>1
  <2> QED BY <1>2, <2>1 DEF Cone, ClosedTo
<1>4. ASSUME NEW x \in Decisions(L)
      PROVE  x \in Lit /\ IsTrue(t, x) /\ LevelOf(t, x) > 0 /\ ReasonOf(t, x) = 0
  BY <1>1, <1>3 DEF IsTrue, Contains
<1>5. ASSUME NEW m, Satisfies(m, t, LitsOf(db)), \A x \in Decisions(L) : True(m, x), NEW x \in L
      PROVE  True(m, x)
  <2> DEFINE S == {i \in 0..n : \A p \in 1..i : t.trail[p] \in c => True(m, t.trail[p])}
  <2>1. 0 \in S
    BY <1>1
  <2>2. ASSUME NEW i \in 1..n, i - 1 \in S PROVE i \in S
    <3>1. \A p \in 1..(i - 1) : t.trail[p] \in c => True(m, t.trail[p])
      BY <2>2
    <3>2. ASSUME t.trail[i] \in c PROVE True(m, t.trail[i])
      <4>0. t.trail[i] \in Lit /\ LevelOf(t, t.trail[i]) \in Nat
        BY <1>1, TrailTypes DEF TrailOK
      <4>1. CASE ReasonOf(t, t.trail[i]) # 0
        <5> DEFINE id == ReasonOf(t, t.trail[i])
        <5>1. Explained(t, LitsOf(db), i)
          BY DEF Explains, Justified
        <5>2. id \in DOMAIN db /\ db[id].lits \subseteq Lit
          BY <1>1, <4>1, <5>1, LitsOfIs, ClauseFacts DEF Explained
        <5>3. \A y \in Behind(t.trail[i]) : True(m, y)
          <6>1. \A y \in Behind(t.trail[i]) : \E q \in 1..(i - 1) : t.trail[q] = y
            BY <4>1, BehindIs
          <6> QED BY <1>3, <3>1, <3>2, <4>1, <6>1
        <5>4. \A other \in db[id].lits \ {t.trail[i]} : ~True(m, other)
          <6>1. \A other \in db[id].lits \ {t.trail[i]} : True(m, -other)
            BY <5>3 DEF Behind
          <6> QED BY <5>2, <6>1, Negated
        <5>5. Holds(m, db[id].lits)
          BY <1>1, <1>5, <5>2, LitsOfIs DEF Satisfies
        <5> HIDE DEF id
        <5> QED BY <5>4, <5>5 DEF Holds
      <4>2. CASE LevelOf(t, t.trail[i]) = 0
        <5>1. IsTrue(t, t.trail[i])
          BY <1>1 DEF IsTrue, Contains
        <5>2. t.trail[i] \in RootUnits(t)
          BY <1>1, <4>0, <4>2, <5>1, RootUnitsAre
        <5> QED BY <1>5, <5>2 DEF Satisfies
      <4>3. CASE LevelOf(t, t.trail[i]) > 0 /\ ReasonOf(t, t.trail[i]) = 0
        BY <1>3, <1>5, <3>2, <4>3
      <4> QED BY <4>0, <4>1, <4>2, <4>3
    <3>3. \A p \in 1..i : t.trail[p] \in c => True(m, t.trail[p])
      <4>1. \A p \in 1..i : p \in 1..(i - 1) \/ p = i
        BY <1>1
      <4> QED BY <3>1, <3>2, <4>1
    <3>4. i \in 0..n
      BY <1>1
    <3> QED BY <3>3, <3>4
  <2> HIDE DEF S
  <2>3. \A i \in 0..n : i \in S
    BY <1>1, <2>1, <2>2, InductionUpTo
  <2>4. n \in S
    BY <1>1, <2>3
  <2>5. PICK p \in 1..n : t.trail[p] = x
    BY <1>3, <1>5
  <2> QED BY <1>3, <1>5, <2>4, <2>5 DEF S
<1> QED BY <1>4, <1>5

\* A decision on the levels of the assumptions is one.
LEMMA DecidedAssumed ==
  ASSUME SearchInv, QueryInv, DecisionLevel(t) <= Len(assumptions), NEW x \in Lit, IsTrue(t, x),
         LevelOf(t, x) > 0, ReasonOf(t, x) = 0
  PROVE  x \in ToSet(assumptions)
<1>1. TrailOK(t) /\ assumptions \in Seq(Lit)
  BY Wellformed
<1>2. /\ LevelOf(t, x) \in 0..Len(t.control) /\ Len(t.control) \in Nat /\ Len(assumptions) \in Nat
  BY <1>1, LevelBound, TrailTypes DEF TrailOK
<1>3. LevelOf(t, x) \in 1..Len(assumptions)
  BY <1>2 DEF DecisionLevel
<1>4. x = assumptions[LevelOf(t, x)]
  BY <1>3 DEF QueryInv, Query, Chosen
<1> QED BY <1>1, <1>3, <1>4 DEF ToSet

\* The model of the formula and the clauses in memory.
LEMMA ModelsSatisfy ==
  ASSUME SearchInv, NEW m \in SUBSET Var, IsModel(m, formula, {})
  PROVE  Satisfies(m, t, LitsOf(db))
  BY DEF SearchInv, Sound

\* The literals cannot hold together with the formula.
Fails(K) == K \subseteq ToSet(assumptions) /\ NoModel(formula, K)

\* The earliest of some assumptions is one of them.
LEMMA EarliestIs ==
  ASSUME NEW A \in Seq(Lit), NEW S, S \subseteq ToSet(A), S # {}
  PROVE  A[Min({i \in DOMAIN A : A[i] \in S})] \in S
<1> DEFINE I == {i \in DOMAIN A : A[i] \in S}
<1>1. I \subseteq Nat
  OBVIOUS
<1>2. I # {}
  BY DEF ToSet
<1> HIDE DEF I
<1>3. Min(I) \in I
  BY <1>1, <1>2, MinIs
<1> QED BY <1>3 DEF I

\* A falsified assumption of the root level fails by itself.
LEMMA UnitFails ==
  ASSUME SearchInv, NEW e \in ToSet(assumptions), IsFalse(t, e), LevelOf(t, e) = 0
  PROVE  Fails({e})
<1>1. TrailOK(t) /\ assumptions \in Seq(Lit)
  BY Wellformed
<1>2. e \in Lit
  BY <1>1 DEF ToSet
<1>3. ASSUME NEW m \in SUBSET Var, IsModel(m, formula, {e}) PROVE FALSE
  <2>1. IsModel(m, formula, {}) /\ True(m, e)
    BY <1>3 DEF IsModel
  <2>2. Satisfies(m, t, LitsOf(db))
    BY <2>1, ModelsSatisfy
  <2> QED BY <1>1, <1>2, <2>1, <2>2, RootFalse
<1> QED BY <1>3 DEF Fails, NoModel

\* Two assumptions that clash fail.
LEMMA ClashFails ==
  ASSUME SearchInv, QueryInv, DecisionLevel(t) <= Len(assumptions), NEW e \in ToSet(assumptions),
         IsFalse(t, e), LevelOf(t, e) > 0, ReasonOf(t, e) = 0
  PROVE  Fails({e, -e})
<1>1. assumptions \in Seq(Lit)
  BY Wellformed
<1>2. e \in Lit /\ -e \in Lit
  BY <1>1, LitFacts DEF ToSet
<1>3. IsTrue(t, -e) /\ LevelOf(t, -e) > 0 /\ ReasonOf(t, -e) = 0
  BY <1>2, SameVar DEF IsTrue, IsFalse
<1>4. -e \in ToSet(assumptions)
  BY <1>2, <1>3, DecidedAssumed
<1>5. ASSUME NEW m \in SUBSET Var, IsModel(m, formula, {e, -e}) PROVE FALSE
  <2>1. True(m, e) /\ True(m, -e)
    BY <1>5 DEF IsModel
  <2> QED BY <1>2, <2>1, Negated
<1> QED BY <1>4, <1>5 DEF Fails, NoModel

\* A falsified assumption fails with the decisions it was derived from.
LEMMA DerivedFails ==
  ASSUME SearchInv, QueryInv, pc = "loop", DecisionLevel(t) <= Len(assumptions),
         NEW e \in ToSet(assumptions), IsFalse(t, e)
  PROVE  Fails({e} \cup Decisions({-e}))
<1>1. assumptions \in Seq(Lit) /\ Store(t, db) /\ Explains(t, db)
  BY Wellformed, InLoop
<1>2. e \in Lit /\ -e \in Lit
  BY <1>1, LitFacts DEF ToSet
<1>3. \A x \in {-e} : x \in Lit /\ IsTrue(t, x)
  BY <1>2 DEF IsTrue, IsFalse
<1>4. /\ \A x \in Decisions({-e}) : /\ x \in Lit /\ IsTrue(t, x)
                                    /\ LevelOf(t, x) > 0 /\ ReasonOf(t, x) = 0
      /\ \A m : (Satisfies(m, t, LitsOf(db)) /\ \A x \in Decisions({-e}) : True(m, x))
                  => \A x \in {-e} : True(m, x)
  BY <1>1, <1>3, DecisionsAre
<1>5. Decisions({-e}) \subseteq ToSet(assumptions)
  BY <1>4, DecidedAssumed
<1>6. ASSUME NEW m \in SUBSET Var, IsModel(m, formula, {e} \cup Decisions({-e})) PROVE FALSE
  <2>1. IsModel(m, formula, {}) /\ True(m, e) /\ \A x \in Decisions({-e}) : True(m, x)
    BY <1>6 DEF IsModel
  <2>2. Satisfies(m, t, LitsOf(db))
    BY <2>1, ModelsSatisfy
  <2>3. True(m, -e)
    BY <1>4, <2>1, <2>2
  <2> QED BY <1>2, <2>1, <2>3, Negated
<1> QED BY <1>5, <1>6 DEF Fails, NoModel

\* What failing marks cannot hold together with the formula.
LEMMA FailedIs ==
  ASSUME SearchInv, QueryInv, FailAssumption
  PROVE  Fails(Failed)
<1> DEFINE falsified == {lit \in ToSet(assumptions) : IsFalse(t, lit)}
           units == {lit \in falsified : LevelOf(t, lit) = 0}
           clashing == {lit \in falsified \ units : ReasonOf(t, lit) = 0}
           Earliest(lits) ==
             assumptions[Min({i \in DOMAIN assumptions : assumptions[i] \in lits})]
           lowest == {lit \in falsified :
                        \A other \in falsified : LevelOf(t, lit) <= LevelOf(t, other)}
<1>1. /\ pc = "loop" /\ DecisionLevel(t) < Len(assumptions)
      /\ IsFalse(t, assumptions[DecisionLevel(t) + 1])
  BY DEF FailAssumption
<1>2. assumptions \in Seq(Lit) /\ TrailOK(t)
  BY Wellformed
<1>3. /\ DecisionLevel(t) \in Nat /\ Len(assumptions) \in Nat /\ DecisionLevel(t) <= Len(assumptions)
      /\ DecisionLevel(t) + 1 \in 1..Len(assumptions)
  BY <1>1, <1>2, TrailTypes DEF TrailOK, DecisionLevel
<1>4. falsified # {} /\ falsified \subseteq ToSet(assumptions)
  BY <1>1, <1>2, <1>3 DEF ToSet
<1>5. ToSet(assumptions) \subseteq Lit
  BY <1>2 DEF ToSet
<1>6. \A lit \in falsified : LevelOf(t, lit) \in Nat
  BY <1>2, <1>5, TrailTypes DEF TrailOK
<1>7. lowest # {}
  <2> DEFINE K == {LevelOf(t, lit) : lit \in falsified}
  <2>1. K # {} /\ K \subseteq Nat
    BY <1>4, <1>6
  <2>2. Min(K) \in K /\ \A k \in K : Min(K) <= k
    <3> HIDE DEF K
    <3> QED BY <2>1, MinIs
  <2>3. PICK lit \in falsified : LevelOf(t, lit) = Min(K)
    BY <2>2
  <2>4. \A other \in falsified : LevelOf(t, lit) <= LevelOf(t, other)
    BY <2>2, <2>3
  <2> QED BY <2>3, <2>4
<1>8. /\ units \subseteq falsified /\ clashing \subseteq falsified /\ lowest \subseteq falsified
      /\ \A lit \in units : LevelOf(t, lit) = 0
      /\ \A lit \in clashing : LevelOf(t, lit) # 0 /\ ReasonOf(t, lit) = 0
      /\ \A lit \in falsified : lit \in ToSet(assumptions) /\ IsFalse(t, lit)
  OBVIOUS
<1>9. \/ units # {} /\ Failed = {Earliest(units)}
      \/ clashing # {} /\ Failed = {Earliest(clashing), -Earliest(clashing)}
      \/ Failed = {Earliest(lowest)} \cup Decisions({-Earliest(lowest)})
  BY DEF Failed
<1>10. ASSUME NEW S, S \subseteq falsified, S # {} PROVE Earliest(S) \in S
  <2>1. S \subseteq ToSet(assumptions)
    BY <1>4, <1>10
  <2> QED BY <1>2, <1>10, <2>1, EarliestIs
<1> HIDE DEF falsified, units, clashing, lowest, Earliest
<1>11. CASE units # {} /\ Failed = {Earliest(units)}
  <2>1. Earliest(units) \in units
    BY <1>8, <1>10, <1>11
  <2>2. /\ Earliest(units) \in ToSet(assumptions) /\ IsFalse(t, Earliest(units))
        /\ LevelOf(t, Earliest(units)) = 0
    BY <1>8, <2>1
  <2>3. Fails({Earliest(units)})
    BY <2>2, UnitFails
  <2> QED BY <1>11, <2>3
<1>12. CASE clashing # {} /\ Failed = {Earliest(clashing), -Earliest(clashing)}
  <2>1. Earliest(clashing) \in clashing
    BY <1>8, <1>10, <1>12
  <2>2. /\ Earliest(clashing) \in ToSet(assumptions) /\ IsFalse(t, Earliest(clashing))
        /\ LevelOf(t, Earliest(clashing)) > 0 /\ ReasonOf(t, Earliest(clashing)) = 0
    BY <1>6, <1>8, <2>1
  <2>3. Fails({Earliest(clashing), -Earliest(clashing)})
    BY <1>3, <2>2, ClashFails
  <2> QED BY <1>12, <2>3
<1>13. CASE Failed = {Earliest(lowest)} \cup Decisions({-Earliest(lowest)})
  <2>1. Earliest(lowest) \in lowest
    BY <1>7, <1>8, <1>10
  <2>2. Earliest(lowest) \in ToSet(assumptions) /\ IsFalse(t, Earliest(lowest))
    BY <1>8, <2>1
  <2>3. Fails({Earliest(lowest)} \cup Decisions({-Earliest(lowest)}))
    BY <1>1, <1>3, <2>2, DerivedFails
  <2> QED BY <1>13, <2>3
<1> QED BY <1>9, <1>11, <1>12, <1>13

\* The assumptions under which the constraint is false.
LEMMA ConstraintFails ==
  ASSUME SearchInv, QueryInv, FailConstraint
  PROVE  /\ Decisions({-lit : lit \in constraint}) \subseteq ToSet(assumptions)
         /\ NoModel(formula \cup {constraint}, Decisions({-lit : lit \in constraint}))
<1> DEFINE L == {-lit : lit \in constraint}
<1>1. /\ pc = "loop" /\ DecisionLevel(t) = Len(assumptions)
      /\ \A lit \in constraint : IsFalse(t, lit)
  BY DEF FailConstraint
<1>2. /\ assumptions \in Seq(Lit) /\ constraint \subseteq Lit /\ Store(t, db) /\ Explains(t, db)
  BY <1>1, Wellformed, InLoop
<1>3. \A x \in L : x \in Lit /\ IsTrue(t, x)
  BY <1>1, <1>2, LitFacts DEF IsTrue, IsFalse
<1>4. DecisionLevel(t) <= Len(assumptions)
  BY <1>1, <1>2
<1>5. \A lit \in constraint : -lit \in L
  OBVIOUS
<1> HIDE DEF L
<1>6. /\ \A x \in Decisions(L) : /\ x \in Lit /\ IsTrue(t, x)
                                 /\ LevelOf(t, x) > 0 /\ ReasonOf(t, x) = 0
      /\ \A m : (Satisfies(m, t, LitsOf(db)) /\ \A x \in Decisions(L) : True(m, x))
                  => \A x \in L : True(m, x)
  BY <1>2, <1>3, DecisionsAre
<1>7. Decisions(L) \subseteq ToSet(assumptions)
  BY <1>4, <1>6, DecidedAssumed
<1>8. ASSUME NEW m \in SUBSET Var, IsModel(m, formula \cup {constraint}, Decisions(L)) PROVE FALSE
  <2>1. IsModel(m, formula, {}) /\ Holds(m, constraint) /\ \A x \in Decisions(L) : True(m, x)
    BY <1>8 DEF IsModel
  <2>2. Satisfies(m, t, LitsOf(db))
    BY <2>1, ModelsSatisfy
  <2>3. \A lit \in constraint : True(m, -lit)
    BY <1>5, <1>6, <2>1, <2>2
  <2> QED BY <1>2, <2>1, <2>3, Negated DEF Holds
<1>9. NoModel(formula \cup {constraint}, Decisions(L))
  BY <1>8 DEF NoModel
<1> QED BY <1>7, <1>9 DEF L

\* There are failed assumptions only after an answer, and a constraint is
\* empty when it failed before the search.
CoreInv ==
  /\ pc # "unsat" => core = {} /\ (unsatConstraint => constraint = {})
  /\ CoreFails

\* A step that keeps the question, and ends the search only with the empty
\* clause.
LEMMA Ends ==
  ASSUME SearchInv', CoreInv, pc # "unsat", UNCHANGED <<core, unsatConstraint, constraint>>,
         pc' = "unsat" => unsat'
  PROVE  CoreInv'
<1>1. core' = {} /\ (unsatConstraint' => constraint' = {})
  BY DEF CoreInv
<1>2. ASSUME pc' = "unsat" PROVE CoreFails'
  <2>1. Models(formula)' = {}
    BY <1>2 DEF SearchInv, Refuted
  <2>2. \A m \in SUBSET Var : ~IsModel(m, formula', {})
    BY <2>1 DEF Models
  <2>3. NoModel(formula' \cup (IF unsatConstraint' THEN {constraint'} ELSE {}), core')
    BY <1>1, <2>2 DEF NoModel, IsModel
  <2> QED BY <1>1, <2>3 DEF CoreFails
<1> QED BY <1>1, <1>2 DEF CoreInv, CoreFails

\* Most steps are of this kind.
LEMMA EndsOnlyRefuted ==
  ASSUME SearchInv, SearchInv', CoreInv,
         \/ Add \/ Assume \/ NextLiteral \/ Visit \/ Propagated
         \/ Analyze \/ Resolve \/ Strengthen \/ Learn
         \/ FoundModel \/ GiveUp \/ Restart \/ Reduce \/ Collect \/ Decide
  PROVE  CoreInv'
<1> DEFINE Quiet == /\ pc # "unsat" /\ UNCHANGED <<core, unsatConstraint, constraint>>
                    /\ pc' = "unsat" => unsat'
<1>1. Plain
  BY DEF SearchInv
<1>2. CASE Add \/ Assume
  <2>1. Quiet
    BY <1>2 DEF Add, Assume, Call
  <2> QED BY <2>1, Ends
<1>3. CASE NextLiteral \/ Visit
  <2>1. Quiet
    BY <1>3 DEF NextLiteral, Visit, PropagationUnchanged, queryVars
  <2> QED BY <2>1, Ends
<1>4. CASE Propagated
  <2>1. pc = "propagate" /\ UNCHANGED <<core, unsatConstraint, constraint>>
    BY <1>4 DEF Propagated, queryVars
  <2>2. ASSUME pc' = "unsat" PROVE unsat'
    BY <1>4, <2>2 DEF Propagated
  <2> QED BY <2>1, <2>2, Ends
<1>5. CASE Analyze
  <2>1. Quiet
    BY <1>5 DEF Analyze, AnalysisUnchanged, queryVars, Search
  <2> QED BY <2>1, Ends
<1>6. CASE Resolve \/ Strengthen \/ Learn
  <2>1. Quiet
    BY <1>6 DEF Resolve, Strengthen, Learn, AnalysisUnchanged, queryVars, Search
  <2> QED BY <2>1, Ends
<1>7. CASE FoundModel \/ GiveUp \/ Restart \/ Reduce \/ Collect \/ Decide
  <2>1. Quiet
    BY <1>7 DEF FoundModel, GiveUp, Restart, Reduce, Collect, Decide, LoopUnchanged, queryVars, Search
  <2> QED BY <2>1, Ends
<1> QED BY <1>2, <1>3, <1>4, <1>5, <1>6, <1>7

\* Every step keeps the failed assumptions right.
LEMMA NextCore ==
  ASSUME SearchInv, SearchInv', QueryInv, CoreInv, [Next]_vars
  PROVE  CoreInv'
<1>1. CASE Constrain
  <2>1. /\ pc = "ready" /\ pc' = "ready" /\ core' = core
        /\ unsatConstraint' => constraint' = {}
    BY <1>1 DEF Constrain, Call
  <2> QED BY <2>1 DEF CoreInv, CoreFails
<1>2. CASE Solve
  <2>1. /\ pc = "ready" /\ UNCHANGED <<core, unsat, unsatConstraint, constraint, formula, assumptions>>
        /\ \/ (unsat \/ unsatConstraint) /\ pc' = "unsat"
           \/ pc' = "propagate"
    BY <1>2 DEF Solve, Call, clauseVars
  <2>2. CASE ~unsatConstraint \/ pc' # "unsat"
    BY <2>1, <2>2, Ends
  <2>3. CASE unsatConstraint /\ pc' = "unsat"
    <3>1. core' = {} /\ constraint' = {} /\ unsatConstraint'
      BY <2>1, <2>3 DEF CoreInv
    <3>2. NoModel(formula' \cup (IF unsatConstraint' THEN {constraint'} ELSE {}), core')
      BY <3>1 DEF NoModel, IsModel, Holds
    <3> QED BY <2>3, <3>1, <3>2 DEF CoreInv, CoreFails
  <2> QED BY <2>2, <2>3
<1>3. CASE Release
  <2>1. pc' = "ready" /\ core' = {} /\ constraint' = {}
    BY <1>3 DEF Release
  <2> QED BY <2>1 DEF CoreInv, CoreFails
<1>4. CASE FailAssumption
  <2>1. /\ pc' = "unsat" /\ core' = Failed
        /\ UNCHANGED <<formula, assumptions, constraint, unsatConstraint>>
    BY <1>4 DEF FailAssumption, LoopUnchanged, clauseVars
  <2>2. core' \subseteq ToSet(assumptions) /\ NoModel(formula, core')
    BY <1>4, <2>1, FailedIs DEF Fails
  <2>3. NoModel(formula \cup (IF unsatConstraint THEN {constraint} ELSE {}), core')
    BY <2>2 DEF NoModel, IsModel
  <2> QED BY <2>1, <2>2, <2>3 DEF CoreInv, CoreFails
<1>5. CASE FailConstraint
  <2>1. /\ pc' = "unsat" /\ core' = Decisions({-lit : lit \in constraint}) /\ unsatConstraint' = TRUE
        /\ UNCHANGED <<formula, assumptions, constraint>>
    BY <1>5 DEF FailConstraint, LoopUnchanged, clauseVars
  <2>2. core' \subseteq ToSet(assumptions) /\ NoModel(formula \cup {constraint}, core')
    BY <1>5, <2>1, ConstraintFails
  <2> QED BY <2>1, <2>2 DEF CoreInv, CoreFails
<1>6. CASE UNCHANGED vars
  <2>1. UNCHANGED <<pc, core, unsatConstraint, constraint, formula, assumptions>>
    BY <1>6 DEF vars, clauseVars, queryVars
  <2> QED BY <2>1 DEF CoreInv, CoreFails
<1> QED BY <1>1, <1>2, <1>3, <1>4, <1>5, <1>6, EndsOnlyRefuted DEF Next

\* Assumptions fail only with an answer, and an empty constraint only fails.
THEOREM CoreInvariant == Spec => []CoreInv
<1>1. Init => CoreInv
  BY DEF Init, CoreInv, CoreFails
<1>2. SearchInv /\ SearchInv' /\ QueryInv /\ CoreInv /\ [Next]_vars => CoreInv'
  BY NextCore
<1> QED BY <1>1, <1>2, SearchSafe, QuerySafe, PTL DEF Spec

\* The failed assumptions are assumptions and cannot hold together with the
\* formula, or with the formula and the constraint when that failed.
THEOREM CoreSafe == Spec => []CoreFails
<1>1. CoreInv => CoreFails
  BY DEF CoreInv
<1> QED BY <1>1, CoreInvariant, PTL

\* The invariants give every variable its type.
LEMMA WellTyped ==
  ASSUME SearchInv, CoreInv
  PROVE  TypeOK
<1>1. /\ TrailOK(t) /\ ClausesOK(db) /\ Stored(t, db) /\ Plain
      /\ visiting \subseteq DOMAIN db /\ conflict \in DOMAIN db \cup {0} /\ analysis.lits \subseteq Lit
  BY DEF SearchInv, Store, Traversal, Analysed
<1>2. DOMAIN db \subseteq Ids
  BY <1>1 DEF ClausesOK
<1>3. ASSUME NEW id \in DOMAIN db
      PROVE  /\ db[id].lits \subseteq Lit /\ db[id].watch \subseteq db[id].lits
             /\ Cardinality(db[id].watch) = 2
             /\ db[id].redundant \in BOOLEAN /\ db[id].garbage \in BOOLEAN
  <2>1. /\ db[id].lits \subseteq Lit /\ db[id].watch \subseteq db[id].lits /\ Pair(db[id].watch)
        /\ db[id].redundant \in BOOLEAN /\ db[id].garbage \in BOOLEAN
    BY <1>1, ClauseFacts
  <2>2. db[id].watch \subseteq Lit
    BY <2>1
  <2> QED BY <2>1, <2>2, PairSize
<1>4. /\ t.trail \in Seq(Lit) /\ t.propagated \in 0..Len(t.trail)
  BY <1>1, TrailTypes DEF TrailOK, Heights
<1>5. t.level \in [Var -> 0..DecisionLevel(t)]
  <2>1. t.level \in [Var -> Nat]
    BY <1>1, TrailTypes DEF TrailOK
  <2>2. ASSUME NEW v \in Var PROVE t.level[v] \in 0..DecisionLevel(t)
    <3>1. v \in Lit /\ VarOf(v) = v
      BY VarFacts
    <3>2. LevelOf(t, v) \in 0..Len(t.control)
      BY <1>1, <3>1, LevelBound
    <3> QED BY <3>1, <3>2 DEF LevelOf, DecisionLevel
  <2> QED BY <2>1, <2>2
<1>6. t.reason \in [Var -> Ids \cup {0}]
  <2>1. t.reason \in [Var -> Nat]
    BY <1>1, TrailTypes DEF TrailOK
  <2> QED BY <1>1, <1>2, <2>1 DEF Stored
<1>7. core \subseteq Lit
  <2>1. CASE pc = "unsat"
    BY <1>1, <2>1 DEF CoreInv, CoreFails, Plain, ToSet
  <2>2. CASE pc # "unsat"
    BY <2>2 DEF CoreInv
  <2> QED BY <2>1, <2>2
<1>8. visiting \subseteq Ids /\ conflict \in Ids \cup {0}
  BY <1>1, <1>2
<1>9. /\ formula \subseteq SUBSET Lit /\ used \subseteq Var
      /\ assumptions \in Seq(Lit) /\ constraint \subseteq Lit
      /\ unsat \in BOOLEAN /\ unsatConstraint \in BOOLEAN
      /\ pc \in Answered \cup {"ready", "propagate", "analyze", "resolve", "loop", "collect"}
      /\ caller \in {"none", "add", "solve", "search", "reduce"}
      /\ reductions \in 0..MaxReductions
  BY <1>1 DEF Plain
<1> QED BY <1>1, <1>2, <1>3, <1>4, <1>5, <1>6, <1>7, <1>8, <1>9 DEF TypeOK

\* Every variable of the search has its type.
THEOREM SearchTyped == Spec => []TypeOK
  BY SearchSafe, CoreInvariant, WellTyped, PTL
=============================================================================

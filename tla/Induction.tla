------------------------------ MODULE Induction ------------------------------
(***************************************************************************)
(* Induction over the naturals in a form first-order provers can use: a    *)
(* set takes the place of the predicate, and a set of functions that of    *)
(* the body of a recursive definition.                                     *)
(***************************************************************************)
EXTENDS Naturals, WellFoundedInduction, TLAPS

\* A set with 0 that is closed under successor holds every natural number.
LEMMA SetInduction ==
  ASSUME NEW S, 0 \in S, \A n \in Nat : n \in S => n + 1 \in S
  PROVE  Nat \subseteq S
<1> SUFFICES ASSUME NEW n \in Nat, n \notin S PROVE FALSE
  OBVIOUS
<1> DEFINE T == {k \in Nat : k \notin S}
<1>1. PICK m \in T : \A k \in T : <<k, m>> \notin OpToRel(<, Nat)
  <2>1. T # {} /\ T \subseteq Nat
    OBVIOUS
  <2> HIDE DEF T
  <2>2. QED
    BY <2>1, NatLessThanWellFounded, WFMin
<1>2. m - 1 \in Nat /\ m - 1 < m
  OBVIOUS
<1>3. <<m - 1, m>> \in OpToRel(<, Nat)
  BY <1>2 DEF OpToRel
<1>4. m - 1 \in S
  BY <1>1, <1>2, <1>3
<1>5. QED
  BY <1>2, <1>4

\* The same for the numbers up to N.
LEMMA InductionUpto ==
  ASSUME NEW N \in Nat, NEW S, 0 \in S,
         \A n \in Nat : n < N /\ n \in S => n + 1 \in S
  PROVE  0..N \subseteq S
<1> DEFINE T == {n \in Nat : n <= N => n \in S}
<1>1. 0 \in T /\ \A n \in Nat : n \in T => n + 1 \in T
  OBVIOUS
<1>2. Nat \subseteq T
  <2> HIDE DEF T
  <2>1. QED
    BY <1>1, SetInduction
<1>3. QED
  BY <1>2


\* Course of values: a number may rest on all smaller ones.
LEMMA StrongInductionUpto ==
  ASSUME NEW N \in Nat, NEW S,
         \A n \in 0..N : (\A m \in 0..n - 1 : m \in S) => n \in S
  PROVE  0..N \subseteq S
<1> DEFINE T == {n \in Nat : 0..n \subseteq S}
<1>1. 0 \in T
  <2>1. 0 \in 0..N /\ 0..0 = {0} /\ \A m \in 0..0 - 1 : FALSE
    OBVIOUS
  <2>2. QED
    BY <2>1
<1>2. ASSUME NEW n \in Nat, n < N, n \in T PROVE n + 1 \in T
  <2>1. n + 1 \in 0..N /\ (n + 1) - 1 = n /\ \A m \in 0..n + 1 : m \in 0..n \/ m = n + 1
    BY <1>2
  <2>2. n + 1 \in S
    BY <1>2, <2>1
  <2>3. QED
    BY <1>2, <2>1, <2>2
<1>3. N \in T
  <2> HIDE DEF T
  <2>1. QED
    BY <1>1, <1>2, InductionUpto
<1>4. QED
  BY <1>3

-----------------------------------------------------------------------------

\* One function on V for each of N steps, and what they make of `first` when
\* step n continues from the outcome of the earlier step from[n].
Steps(N, V) == [1..N -> [V -> V]]

Earlier(N) == {from \in [1..N -> Nat] : \A n \in 1..N : from[n] < n}

Outcomes(g, N, V, first, from, F) ==
  /\ g \in [0..N -> V]
  /\ g[0] = first
  /\ \A n \in 1..N : g[n] = F[n][g[from[n]]]

\* The outcomes exist: a function may be defined by recursion to earlier values.
LEMMA OutcomesExist ==
  ASSUME NEW N \in Nat, NEW V, NEW first \in V, NEW from \in Earlier(N),
         NEW F \in Steps(N, V)
  PROVE  \E g : Outcomes(g, N, V, first, from, F)
<1> DEFINE Upto(n, g) == g[0] = first /\ \A k \in 1..n : g[k] = F[k][g[from[k]]]
           Defined == {n \in Nat : \E g \in [0..n -> V] : Upto(n, g)}
<1>1. 0 \in Defined
  <2>1. [k \in 0..0 |-> first] \in [0..0 -> V] /\ Upto(0, [k \in 0..0 |-> first])
    OBVIOUS
  <2>2. QED
    BY <2>1
<1>2. ASSUME NEW n \in Nat, n < N, n \in Defined PROVE n + 1 \in Defined
  <2>1. PICK g \in [0..n -> V] : Upto(n, g)
    BY <1>2
  <2> DEFINE next == F[n + 1][g[from[n + 1]]]
             h == [k \in 0..n + 1 |-> IF k = n + 1 THEN next ELSE g[k]]
  <2>2. \A k \in 1..n + 1 : from[k] \in 0..k - 1
    BY <1>2 DEF Earlier
  <2>3. next \in V
    <3>1. n + 1 \in 1..N /\ from[n + 1] \in 0..n
      BY <1>2, <2>2
    <3>2. QED
      BY <3>1 DEF Steps
  <2>4. h \in [0..n + 1 -> V]
    BY <2>3
  <2>5. h[0] = first /\ h[n + 1] = F[n + 1][h[from[n + 1]]]
    <3>1. from[n + 1] \in 0..n /\ n + 1 # 0
      BY <2>2
    <3>2. QED
      BY <2>1, <3>1
  <2>6. ASSUME NEW k \in 1..n PROVE h[k] = F[k][h[from[k]]]
    <3>1. from[k] \in 0..n /\ k # n + 1 /\ from[k] # n + 1
      BY <2>2
    <3>2. QED
      BY <2>1, <3>1
  <2>7. \E f \in [0..n + 1 -> V] : Upto(n + 1, f)
    <3>1. \A k \in 1..n + 1 : k \in 1..n \/ k = n + 1
      OBVIOUS
    <3> HIDE DEF h
    <3>2. Upto(n + 1, h)
      BY <2>5, <2>6, <3>1
    <3> HIDE DEF Upto
    <3>3. QED
      BY <2>4, <3>2
  <2>8. QED
    <3> HIDE DEF Upto
    <3>1. n + 1 \in Nat
      OBVIOUS
    <3>2. QED
      BY <2>7, <3>1
<1>3. N \in Defined
  <2> HIDE DEF Defined
  <2>1. QED
    BY <1>1, <1>2, InductionUpto
<1>4. QED
  BY <1>3 DEF Outcomes

\* The case of primitive recursion: step n continues from step n - 1.
Iterates(g, N, V, first, F) ==
  /\ g \in [0..N -> V]
  /\ g[0] = first
  /\ \A n \in 1..N : g[n] = F[n][g[n - 1]]

LEMMA IteratesExist ==
  ASSUME NEW N \in Nat, NEW V, NEW first \in V, NEW F \in Steps(N, V)
  PROVE  \E g : Iterates(g, N, V, first, F)
<1> DEFINE from == [n \in 1..N |-> n - 1]
<1>1. from \in Earlier(N) /\ \A n \in 1..N : from[n] = n - 1
  BY DEF Earlier
<1> HIDE DEF from
<1>2. PICK g : Outcomes(g, N, V, first, from, F)
  BY <1>1, OutcomesExist
<1>3. Iterates(g, N, V, first, F)
  BY <1>1, <1>2 DEF Outcomes, Iterates
<1>4. QED
  BY <1>3

=============================================================================

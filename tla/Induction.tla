------------------------------ MODULE Induction ------------------------------
(***************************************************************************)
(* Induction by the least counterexample, and recursions over the natural  *)
(* numbers: that a recursion has a solution, so that the function which a  *)
(* recursive definition stands for satisfies its equations.                *)
(***************************************************************************)
EXTENDS Integers, WellFoundedInduction, TLAPS

\* A set of numbers has a least one.
LEMMA LeastNumber ==
  ASSUME NEW T \in SUBSET Nat, T # {}
  PROVE  \E n \in T : \A m \in T : n <= m
<1> DEFINE Less == {ss \in Nat \X Nat : ss[1] < ss[2]}
<1>1. IsWellFoundedOn(Less, Nat)
  BY NatLessThanWellFounded DEF OpToRel
<1>2. \A m, n \in Nat : <<m, n>> \in Less <=> m < n
  OBVIOUS
<1> HIDE DEF Less
<1>3. PICK n \in T : \A m \in T : <<m, n>> \notin Less
  BY <1>1, WFMin
<1>4. ASSUME NEW m \in T PROVE n <= m
  <2>1. m \in Nat /\ n \in Nat
    OBVIOUS
  <2>2. ~(m < n)
    BY <1>2, <1>3, <2>1
  <2> QED
    BY <2>1, <2>2
<1> QED
  BY <1>4

\* A step for each number, and what solves the recursion with these steps.
StepsOver(V) == [Nat -> [V -> V]]

Solves(g, k, V, first, step) ==
  /\ g \in [0 .. k -> V]
  /\ g[0] = first
  /\ \A n \in 1 .. k : g[n] = step[n][g[n - 1]]

\* A recursion whose step from each number to the next one is given has a
\* solution as long as one likes.
LEMMA Recursion ==
  ASSUME NEW N \in Nat, NEW V, NEW first \in V, NEW step \in StepsOver(V)
  PROVE  \E g : Solves(g, N, V, first, step)
<1> DEFINE T == {k \in Nat : \A g : ~Solves(g, k, V, first, step)}
<1> SUFFICES ASSUME N \in T PROVE FALSE
  OBVIOUS
<1>1. PICK k \in T : \A m \in T : k <= m
  <2> HIDE DEF T
  <2>1. T \in SUBSET Nat
    BY DEF T
  <2> QED
    BY <2>1, LeastNumber
<1>2. k # 0
  <2>1. Solves([n \in 0 .. 0 |-> first], 0, V, first, step)
    BY DEF Solves
  <2> QED
    BY <2>1
<1>3. PICK g : Solves(g, k - 1, V, first, step)
  <2>1. k - 1 \in Nat /\ ~(k <= k - 1)
    BY <1>2
  <2>2. k - 1 \notin T
    BY <1>1, <2>1
  <2> QED
    BY <2>1, <2>2
<1> DEFINE h == [n \in 0 .. k |-> IF n = k THEN step[k][g[k - 1]] ELSE g[n]]
<1>4. k \in Nat \ {0} /\ g \in [0 .. k - 1 -> V] /\ k - 1 \in 0 .. k - 1
  BY <1>2, <1>3 DEF Solves
<1>5. step[k][g[k - 1]] \in V
  <2>1. g[k - 1] \in V
    BY <1>4
  <2> QED
    BY <1>4, <2>1 DEF StepsOver
<1>6. h \in [0 .. k -> V]
  <2>1. \A n \in 0 .. k : n # k => n \in 0 .. k - 1
    BY <1>4
  <2> QED
    BY <1>4, <1>5, <2>1
<1>7. h[0] = first
  BY <1>3, <1>4 DEF Solves
<1>8. ASSUME NEW n \in 1 .. k PROVE h[n] = step[n][h[n - 1]]
  <2>1. n \in 0 .. k /\ n - 1 \in 0 .. k /\ n - 1 # k
    BY <1>4
  <2>2. CASE n = k
    BY <2>1, <2>2
  <2>3. CASE n # k
    <3>1. n \in 1 .. k - 1
      BY <1>4, <2>3
    <3> QED
      BY <1>3, <2>1, <2>3, <3>1 DEF Solves
  <2> QED
    BY <2>2, <2>3
<1> HIDE DEF h
<1>9. Solves(h, k, V, first, step)
  BY <1>6, <1>7, <1>8 DEF Solves
<1> QED
  BY <1>9

==============================================================================

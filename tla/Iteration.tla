------------------------------ MODULE Iteration ------------------------------
(***************************************************************************)
(* A loop over the numbers 1 .. n: each turn makes the next value from the *)
(* one before it, the number of the turn and what the loop reads.          *)
(***************************************************************************)
EXTENDS Integers, WellFoundedInduction

CONSTANT Turn(_, _, _)

Iterated(c, start, n) ==
    LET it[i \in 0 .. n] == IF i = 0 THEN start ELSE Turn(c, it[i - 1], i)
    IN  it[n]

---------------------------------------------------------------------------
(* What the recursion computes                                             *)

Turns(c, start, n, f) ==
    f = [i \in 0 .. n |-> IF i = 0 THEN start ELSE Turn(c, f[i - 1], i)]

\* A non-empty set of naturals has a least element.
LEMMA LeastTurn ==
    ASSUME NEW T \in SUBSET Nat, T # {}
    PROVE  \E x \in T : \A y \in T : x <= y
<1>1. IsWellFoundedOn(OpToRel(<, Nat), Nat)
  BY NatLessThanWellFounded
<1>2. PICK x \in T : \A y \in T : ~ (<<y, x>> \in OpToRel(<, Nat))
  BY <1>1, WFMin
<1>3. \A y \in T : ~ (y < x)
  BY <1>2 DEF OpToRel
<1> QED
  BY <1>3

\* There are values for every number of turns.
LEMMA TurnsExist ==
    ASSUME NEW c, NEW start, NEW n \in Nat
    PROVE  \E f : Turns(c, start, n, f)
<1> DEFINE T == {k \in Nat : ~ \E f : Turns(c, start, k, f)}
<1>1. SUFFICES ASSUME T # {} PROVE FALSE
  OBVIOUS
<1>2. PICK x \in T : \A y \in T : x <= y
  BY <1>1, LeastTurn
<1>3. CASE x = 0
  <2>1. Turns(c, start, 0, [i \in 0 .. 0 |-> start])
    BY DEF Turns
  <2> QED
    BY <1>2, <1>3, <2>1
<1>4. CASE x # 0
  <2>1. x - 1 \in Nat /\ x - 1 \notin T
    BY <1>2, <1>4
  <2>2. PICK f : Turns(c, start, x - 1, f)
    BY <2>1
  <2> DEFINE g == [i \in 0 .. x |-> IF i = x THEN Turn(c, f[x - 1], x) ELSE f[i]]
  <2>3. \A i \in 0 .. x - 1 : f[i] = IF i = 0 THEN start ELSE Turn(c, f[i - 1], i)
    BY <2>2 DEF Turns
  <2>4. ASSUME NEW i \in 0 .. x
        PROVE  g[i] = IF i = 0 THEN start ELSE Turn(c, g[i - 1], i)
    <3>1. CASE i = x
      <4>1. g[i] = Turn(c, f[x - 1], x) /\ g[x - 1] = f[x - 1]
        BY <2>1, <3>1
      <4> QED
        BY <1>4, <3>1, <4>1
    <3>2. CASE i # x
      <4>1. i \in 0 .. x - 1
        BY <3>2
      <4>2. i # 0 => g[i - 1] = f[i - 1]
        BY <4>1
      <4> QED
        BY <2>3, <3>2, <4>1, <4>2
    <3> QED
      BY <3>1, <3>2
  <2>5. g = [i \in 0 .. x |-> IF i = 0 THEN start ELSE Turn(c, g[i - 1], i)]
    <3> HIDE DEF g
    <3>1. DOMAIN g = 0 .. x /\ g = [i \in DOMAIN g |-> g[i]]
      BY DEF g
    <3> QED
      BY <2>4, <3>1
  <2>6. Turns(c, start, x, g)
    BY <2>5 DEF Turns
  <2> QED
    BY <1>2, <2>6
<1> QED
  BY <1>3, <1>4

\* The values do not depend on the turns that are still to come.
LEMMA TurnsAgree ==
    ASSUME NEW c, NEW start, NEW m \in Nat, NEW n \in Nat, m <= n, NEW f, NEW g,
           Turns(c, start, m, f), Turns(c, start, n, g)
    PROVE  f[m] = g[m]
<1> DEFINE T == {i \in 0 .. m : f[i] # g[i]}
<1>1. SUFFICES ASSUME T # {} PROVE FALSE
  OBVIOUS
<1>2. T \in SUBSET Nat
  OBVIOUS
<1>3. PICK x \in T : \A y \in T : x <= y
  BY <1>1, <1>2, LeastTurn
<1>4. /\ f[x] = IF x = 0 THEN start ELSE Turn(c, f[x - 1], x)
      /\ g[x] = IF x = 0 THEN start ELSE Turn(c, g[x - 1], x)
  <2>1. x \in 0 .. m /\ x \in 0 .. n
    OBVIOUS
  <2> QED
    BY <2>1 DEF Turns
<1>5. x # 0 => f[x - 1] = g[x - 1]
  <2> SUFFICES ASSUME x # 0 PROVE f[x - 1] = g[x - 1]
    OBVIOUS
  <2>1. x - 1 \in 0 .. m /\ ~ (x <= x - 1)
    OBVIOUS
  <2> QED
    BY <1>3, <2>1
<1> QED
  BY <1>3, <1>4, <1>5

\* What a loop computes: nothing before the first turn, and every turn goes
\* on from the one before.
LEMMA IteratedTurns ==
    ASSUME NEW c, NEW start, NEW n \in Nat
    PROVE  /\ Iterated(c, start, 0) = start
           /\ Iterated(c, start, n + 1) = Turn(c, Iterated(c, start, n), n + 1)
<1> DEFINE it(k) == CHOOSE f : Turns(c, start, k, f)
<1>1. ASSUME NEW k \in Nat PROVE Iterated(c, start, k) = it(k)[k] /\ Turns(c, start, k, it(k))
  <2>1. Iterated(c, start, k) = it(k)[k]
    BY DEF Iterated, Turns
  <2>2. Turns(c, start, k, it(k))
    BY TurnsExist
  <2> QED
    BY <2>1, <2>2
<1> HIDE DEF it
<1>2. Iterated(c, start, 0) = start
  <2>1. Turns(c, start, 0, it(0)) /\ Iterated(c, start, 0) = it(0)[0]
    BY <1>1
  <2>2. it(0)[0] = start
    BY <2>1 DEF Turns
  <2> QED
    BY <2>1, <2>2
<1>3. Iterated(c, start, n + 1) = Turn(c, Iterated(c, start, n), n + 1)
  <2>1. n + 1 \in Nat /\ n <= n + 1 /\ n + 1 \in 0 .. n + 1 /\ n + 1 # 0 /\ n + 1 - 1 = n
    OBVIOUS
  <2>2. /\ Turns(c, start, n + 1, it(n + 1)) /\ Turns(c, start, n, it(n))
        /\ Iterated(c, start, n + 1) = it(n + 1)[n + 1] /\ Iterated(c, start, n) = it(n)[n]
    BY <1>1, <2>1
  <2>3. it(n + 1)[n + 1] = Turn(c, it(n + 1)[n], n + 1)
    BY <2>1, <2>2 DEF Turns
  <2>4. it(n)[n] = it(n + 1)[n]
    BY <2>1, <2>2, TurnsAgree
  <2> QED
    BY <2>2, <2>3, <2>4
<1> QED
  BY <1>2, <1>3
=============================================================================

----------------------------- MODULE NumberLemmas -----------------------------
(***************************************************************************)
(* Facts about numbers that several proofs need: a least and a greatest    *)
(* element, induction, recursion, and the remainder of a successor.        *)
(* Induction is stated of a set and recursion of a function, so that they  *)
(* can be used for any predicate P, by naming {n \in Nat : P(n)}, and for  *)
(* any step e, by naming [i \in 1 .. n |-> [x \in V |-> e(i, x)]].          *)
(***************************************************************************)
EXTENDS Integers, WellFoundedInduction, TLAPS

\* A nonempty set of numbers has a least one.
LEMMA Least ==
  ASSUME NEW S \in SUBSET Nat, S # {}
  PROVE  \E m \in S : \A n \in S : m <= n
<1> DEFINE R == {ss \in Nat \X Nat : ss[1] < ss[2]}
<1>1. IsWellFoundedOn(R, Nat)
  BY NatLessThanWellFounded DEF OpToRel
<1> HIDE DEF R
<1>2. PICK x \in S : \A y \in S : ~ (<<y, x>> \in R)
  BY <1>1, WFMin
<1>3. \A y \in S : x <= y
  <2> TAKE y \in S
  <2>1. x \in Nat /\ y \in Nat
    OBVIOUS
  <2>2. <<y, x>> \in Nat \X Nat => ~ (y < x)
    BY <1>2, Zenon DEF R
  <2>. QED
    BY <2>1, <2>2
<1>. QED
  BY <1>3

\* Induction: a set with 0 and the successor of each of its numbers has every number.
LEMMA SetInduction ==
  ASSUME NEW S, 0 \in S, \A n \in Nat : n \in S => n + 1 \in S
  PROVE  Nat \subseteq S
<1> DEFINE T == Nat \ S
<1> SUFFICES ASSUME T # {} PROVE FALSE
  OBVIOUS
<1>1. PICK m \in T : \A n \in T : m <= n
  BY Least
<1>2. m # 0 /\ m - 1 \in Nat /\ (m - 1) + 1 = m
  BY <1>1
<1>3. m - 1 \in S
  BY <1>1, <1>2
<1>. QED
  BY <1>1, <1>2, <1>3

\* A nonempty set of numbers with a bound has a greatest one.
LEMMA Greatest ==
  ASSUME NEW S \in SUBSET Nat, S # {}, NEW b \in Nat, \A n \in S : n <= b
  PROVE  \E m \in S : \A n \in S : n <= m
<1> DEFINE T == {k \in Nat : \A n \in S : n <= k}
<1>1. PICK k \in T : \A j \in T : k <= j
  BY Least
<1>2. k \in S
  <2> SUFFICES ASSUME k \notin S PROVE FALSE
    OBVIOUS
  <2>1. \A n \in S : n \in Nat /\ n < k
    BY <1>1
  <2>2. k # 0 /\ k - 1 \in Nat
    <3>1. PICK n \in S : TRUE
      OBVIOUS
    <3>2. k \in Nat /\ n \in Nat /\ n < k
      BY <1>1, <2>1
    <3>. QED
      BY <3>2
  <2>3. \A n \in S : n <= k - 1
    BY <1>1, <2>1, <2>2
  <2>4. k - 1 \in T
    BY <2>2, <2>3
  <2>. QED
    BY <1>1, <2>2, <2>4
<1>. QED
  BY <1>1, <1>2

\* A remainder below the last is followed by its successor, the last by zero.
LEMMA NextRemainder ==
  ASSUME NEW x \in Nat, NEW P \in Nat \ {0}
  PROVE  /\ x % P \in 0 .. P - 1
         /\ (x + 1) % P = IF (x % P) + 1 = P THEN 0 ELSE (x % P) + 1
<1>1. /\ x = P * (x \div P) + (x % P)
      /\ x + 1 = P * ((x + 1) \div P) + ((x + 1) % P)
      /\ x \div P \in Int /\ (x + 1) \div P \in Int
      /\ x % P \in 0 .. P - 1 /\ (x + 1) % P \in 0 .. P - 1
  OBVIOUS
<1> DEFINE q == (x + 1) \div P - (x \div P)
           r == (x + 1) % P
           s == x % P
<1>2. q \in Int /\ r \in 0 .. P - 1 /\ s \in 0 .. P - 1 /\ P * q + r = s + 1
  BY <1>1, Z3
<1> HIDE DEF q, r, s
<1>3. q = 0 \/ q = 1
  <2>1. ASSUME q >= 2 PROVE FALSE
    <3>1. P * q >= P * 2
      BY <1>2, <2>1
    <3>. QED
      BY <1>2, <3>1
  <2>2. ASSUME q <= -1 PROVE FALSE
    <3>1. P * q <= P * (-1)
      BY <1>2, <2>2
    <3>. QED
      BY <1>2, <3>1
  <2>. QED
    BY <1>2, <2>1, <2>2
<1>4. P * 0 = 0 /\ P * 1 = P
  OBVIOUS
<1>5. r = IF s + 1 = P THEN 0 ELSE s + 1
  BY <1>2, <1>3, <1>4
<1>. QED
  BY <1>2, <1>5 DEF r, s

\* Recursion: each step taking V into V, there is a function on 0 .. n that starts at v and
\* goes by the steps.
Follows(g, n, V, v, step) ==
  g \in [0 .. n -> V] /\ g[0] = v /\ \A i \in 1 .. n : g[i] = step[i][g[i - 1]]

LEMMA Recursion ==
  ASSUME NEW n \in Nat, NEW V, NEW v \in V, NEW step \in [1 .. n -> [V -> V]]
  PROVE  \E g : Follows(g, n, V, v, step)
<1> DEFINE Good(k, g) == g[0] = v /\ \A i \in 1 .. k : g[i] = step[i][g[i - 1]]
           S == {k \in Nat : k <= n => \E g \in [0 .. k -> V] : Good(k, g)}
<1>1. 0 \in S
  <2> DEFINE g == [i \in 0 .. 0 |-> v]
  <2>1. g \in [0 .. 0 -> V] /\ Good(0, g)
    OBVIOUS
  <2>. QED
    BY <2>1
<1>2. \A k \in Nat : k \in S => k + 1 \in S
  <2> SUFFICES ASSUME NEW k \in Nat, k \in S, k + 1 <= n
               PROVE  \E g \in [0 .. k + 1 -> V] : Good(k + 1, g)
    OBVIOUS
  <2>1. PICK h \in [0 .. k -> V] : Good(k, h)
    OBVIOUS
  <2> DEFINE last == step[k + 1][h[k]]
             g == [i \in 0 .. k + 1 |-> IF i = k + 1 THEN last ELSE h[i]]
  <2>2. h[k] \in V /\ k + 1 \in 1 .. n
    BY <2>1
  <2>3. last \in V
    BY <2>2
  <2>4. g \in [0 .. k + 1 -> V]
    BY <2>1, <2>3
  <2>5. g[0] = v
    BY <2>1
  <2>6. \A i \in 1 .. k + 1 : g[i] = step[i][g[i - 1]]
    <3> TAKE i \in 1 .. k + 1
    <3>1. i - 1 \in 0 .. k /\ g[i - 1] = h[i - 1]
      OBVIOUS
    <3>2. CASE i = k + 1
      BY <3>1, <3>2
    <3>3. CASE i # k + 1
      BY <2>1, <3>1, <3>3
    <3>. QED
      BY <3>2, <3>3
  <2>. QED
    BY <2>4, <2>5, <2>6
<1> HIDE DEF S
<1>3. n \in S
  BY <1>1, <1>2, SetInduction
<1>. QED
  BY <1>3 DEF S, Follows
=============================================================================

----------------------------- MODULE IngressProofs -----------------------------
(***************************************************************************)
(* Proofs about Ingress, for any hashes, any cache size, any cap of the    *)
(* delay and any bounds.  The dedup cache: seen from any announcement, the *)
(* hashes that came after it are either the cache's most recently used     *)
(* members or more than it holds, so what it answers depends on how many   *)
(* there were.  The fetch: the answers so far are told by which endpoint   *)
(* is being asked.  The producer: the items wait in the order of their     *)
(* announcements, and the events among them are what the fetches found.    *)
(***************************************************************************)
EXTENDS Ingress, NumberLemmas, SequenceTheorems, FiniteSetTheorems

-----------------------------------------------------------------------------
(* The dedup cache *)

Distinct(c) == \A i, j \in 1 .. Len(c) : c[i] = c[j] => i = j
CacheTyped(c) == c \in Seq(Hashes) /\ Len(c) <= CacheSize /\ Distinct(c)

\* What is after place m of a cache: its most recently used members.
Top(c, m) == {c[i] : i \in m + 1 .. Len(c)}

LEMMA TopIsAll ==
  ASSUME NEW c \in Seq(Hashes)
  PROVE  Top(c, 0) = Members(c)
BY DOMAIN c = 1 .. Len(c), 0 + 1 = 1 DEF Top, Members

\* A place gives way and the hash comes last: what was after a later place is now one
\* nearer to the front.
LEMMA Replaced ==
  ASSUME NEW c, CacheTyped(c), NEW p \in 1 .. Len(c), NEW h \in Hashes,
         h = c[p] \/ ~ Contains(c, h)
  PROVE  LET d == Replace(c, p, h)
         IN /\ CacheTyped(d) /\ Len(d) = Len(c)
            /\ \A m \in 0 .. Len(c) :
                 IF m < p THEN Top(d, m) = (Top(c, m) \ {c[p]}) \cup {h}
                 ELSE Top(d, m - 1) = Top(c, m) \cup {h}
<1> DEFINE n == Len(c)
           d == Replace(c, p, h)
<1>1. n \in Nat /\ DOMAIN c = 1 .. n /\ p \in 1 .. n /\ c \in [1 .. n -> Hashes] /\ n # 0
  BY DEF CacheTyped
<1>2. d = [i \in 1 .. n |-> IF i < p THEN c[i] ELSE IF i < n THEN c[i + 1] ELSE h]
  BY <1>1 DEF Replace
<1> HIDE DEF d
<1>3. d \in [1 .. n -> Hashes]
  BY <1>1, <1>2
<1>4. d \in Seq(Hashes) /\ Len(d) = n
  BY <1>1, <1>3
<1>5. \A i \in 1 .. n : c[i] = h => i = p
  BY <1>1 DEF CacheTyped, Distinct, Contains
<1>6. Distinct(d)
  <2> SUFFICES ASSUME NEW i \in 1 .. n, NEW j \in 1 .. n, d[i] = d[j] PROVE i = j
    BY <1>4 DEF Distinct
  <2>1. \A k \in 1 .. n - 1 : d[k] = c[IF k < p THEN k ELSE k + 1] /\ d[k] # h
    BY <1>1, <1>2, <1>5
  <2>2. d[n] = h
    BY <1>1, <1>2
  <2>3. CASE i = n \/ j = n
    BY <1>1, <2>1, <2>2, <2>3
  <2>4. CASE i # n /\ j # n
    <3>1. i \in 1 .. n - 1 /\ j \in 1 .. n - 1
      BY <1>1, <2>4
    <3> DEFINE at(k) == IF k < p THEN k ELSE k + 1
    <3>2. c[at(i)] = c[at(j)] /\ at(i) \in 1 .. n /\ at(j) \in 1 .. n
      BY <1>1, <2>1, <3>1
    <3>3. at(i) = at(j)
      BY <3>2 DEF CacheTyped, Distinct
    <3>. QED
      BY <1>1, <3>1, <3>3
  <2>. QED
    BY <2>3, <2>4
<1>7. ASSUME NEW m \in 0 .. n, m < p
      PROVE  Top(d, m) = (Top(c, m) \ {c[p]}) \cup {h}
  <2>1. ASSUME NEW x \in Top(d, m) PROVE x \in (Top(c, m) \ {c[p]}) \cup {h}
    <3>1. PICK i \in m + 1 .. n : x = d[i]
      BY <1>4, <2>1 DEF Top
    <3>2. CASE i = n
      BY <1>1, <1>2, <3>1, <3>2
    <3>3. CASE i # n
      <4> DEFINE k == IF i < p THEN i ELSE i + 1
      <4>1. k \in m + 1 .. n /\ k # p /\ x = c[k]
        BY <1>1, <1>2, <3>1, <3>3
      <4>2. c[k] # c[p]
        BY <1>1, <4>1 DEF CacheTyped, Distinct
      <4>. QED
        BY <4>1, <4>2 DEF Top
    <3>. QED
      BY <3>2, <3>3
  <2>2. ASSUME NEW x \in Top(c, m), x # c[p] PROVE x \in Top(d, m)
    <3>1. PICK i \in m + 1 .. n : x = c[i]
      BY <2>2 DEF Top
    <3> DEFINE k == IF i < p THEN i ELSE i - 1
    <3>2. k \in m + 1 .. n /\ d[k] = x
      <4>1. CASE i < p
        BY <1>1, <1>2, <3>1, <4>1
      <4>2. CASE i > p
        <5>1. i - 1 \in 1 .. n /\ ~ (i - 1 < p) /\ i - 1 < n /\ (i - 1) + 1 = i
          BY <1>1, <3>1, <4>2
        <5>. QED
          BY <1>2, <1>7, <3>1, <4>2, <5>1
      <4>. QED
        BY <2>2, <3>1, <4>1, <4>2
    <3>. QED
      BY <1>4, <3>2 DEF Top
  <2>3. h \in Top(d, m)
    <3>1. n \in m + 1 .. n /\ d[n] = h
      BY <1>1, <1>2, <1>7
    <3>. QED
      BY <1>4, <3>1 DEF Top
  <2>. QED
    BY <2>1, <2>2, <2>3
<1>8. ASSUME NEW m \in 0 .. n, ~ (m < p)
      PROVE  Top(d, m - 1) = Top(c, m) \cup {h}
  <2>1. ASSUME NEW x \in Top(d, m - 1) PROVE x \in Top(c, m) \cup {h}
    <3>1. PICK i \in m .. n : x = d[i]
      BY <1>1, <1>4, <2>1 DEF Top
    <3>2. i = n => x = h
      BY <1>1, <1>2, <3>1
    <3>3. i # n => i + 1 \in m + 1 .. n /\ x = c[i + 1]
      BY <1>1, <1>2, <1>8, <3>1
    <3>. QED
      BY <3>2, <3>3 DEF Top
  <2>2. ASSUME NEW x \in Top(c, m) PROVE x \in Top(d, m - 1)
    <3>1. PICK i \in m + 1 .. n : x = c[i]
      BY <2>2 DEF Top
    <3>2. i - 1 \in (m - 1) + 1 .. n /\ d[i - 1] = x
      BY <1>1, <1>2, <1>8, <3>1
    <3>. QED
      BY <1>4, <3>2 DEF Top
  <2>3. h \in Top(d, m - 1)
    <3>1. n \in (m - 1) + 1 .. n /\ d[n] = h
      BY <1>1, <1>2
    <3>. QED
      BY <1>4, <3>1 DEF Top
  <2>. QED
    BY <2>1, <2>2, <2>3
<1>9. CacheTyped(d) /\ Len(d) = Len(c)
  BY <1>4, <1>6 DEF CacheTyped
<1>. QED
  BY <1>7, <1>8, <1>9 DEF d

LEMMA Appended ==
  ASSUME NEW c, CacheTyped(c), NEW h \in Hashes, ~ Contains(c, h), Len(c) # CacheSize
  PROVE  LET d == Append(c, h)
         IN /\ CacheTyped(d) /\ Len(d) = Len(c) + 1
            /\ \A m \in 0 .. Len(c) : Top(d, m) = Top(c, m) \cup {h}
<1> DEFINE n == Len(c)
           d == Append(c, h)
<1>1. /\ n \in Nat /\ DOMAIN c = 1 .. n /\ d \in Seq(Hashes) /\ Len(d) = n + 1
      /\ d[n + 1] = h /\ \A i \in 1 .. n : d[i] = c[i]
  BY DEF CacheTyped
<1> HIDE DEF d
<1>2. \A i \in 1 .. n : c[i] # h
  BY <1>1 DEF Contains
<1>3. Distinct(d)
  <2> SUFFICES ASSUME NEW i \in 1 .. n + 1, NEW j \in 1 .. n + 1, d[i] = d[j] PROVE i = j
    BY <1>1 DEF Distinct
  <2>1. CASE i = n + 1 \/ j = n + 1
    BY <1>1, <1>2, <2>1
  <2>2. CASE i \in 1 .. n /\ j \in 1 .. n
    BY <1>1, <2>2 DEF CacheTyped, Distinct
  <2>. QED
    BY <1>1, <2>1, <2>2
<1>4. n + 1 <= CacheSize
  <2>1. n <= CacheSize /\ CacheSize \in Nat /\ n # CacheSize /\ n \in Nat
    BY <1>1, IngressAssumption DEF CacheTyped
  <2> HIDE DEF n
  <2>. QED
    BY <2>1
<1>5. ASSUME NEW m \in 0 .. n PROVE Top(d, m) = Top(c, m) \cup {h}
  <2>1. ASSUME NEW x \in Top(d, m) PROVE x \in Top(c, m) \cup {h}
    <3>1. PICK i \in m + 1 .. n + 1 : x = d[i]
      BY <1>1, <2>1 DEF Top
    <3>2. i # n + 1 => i \in m + 1 .. n /\ x = c[i]
      BY <1>1, <3>1
    <3>. QED
      BY <1>1, <3>1, <3>2 DEF Top
  <2>2. ASSUME NEW i \in m + 1 .. n PROVE c[i] \in Top(d, m)
    <3>1. i \in m + 1 .. n + 1 /\ d[i] = c[i]
      BY <1>1
    <3>. QED
      BY <1>1, <3>1 DEF Top
  <2>3. h \in Top(d, m)
    <3>1. n + 1 \in m + 1 .. n + 1
      BY <1>1
    <3>. QED
      BY <1>1, <3>1 DEF Top
  <2>4. Top(c, m) \subseteq Top(d, m)
    BY <2>2 DEF Top
  <2>. QED
    BY <2>1, <2>3, <2>4
<1>6. CacheTyped(d) /\ Len(d) = n + 1
  BY <1>1, <1>3, <1>4 DEF CacheTyped
<1>. QED
  BY <1>5, <1>6 DEF d

\* A set of hashes that came after some announcement, seen from a cache: either its most
\* recently used members, or more than it holds.
InWindow(c, L) ==
  \/ \E m \in 0 .. Len(c) : L = Top(c, m)
  \/ Len(c) = CacheSize /\ Members(c) \subseteq L /\ Members(c) # L

\* Putting a hash keeps that, of the set with the hash in it.
LEMMA PutKeepsWindow ==
  ASSUME NEW c, CacheTyped(c), NEW h \in Hashes
  PROVE  /\ CacheTyped(Put(c, h))
         /\ Members(Put(c, h)) \subseteq Members(c) \cup {h}
         /\ \A L : InWindow(c, L) => InWindow(Put(c, h), L \cup {h})
<1> DEFINE n == Len(c)
           d == Put(c, h)
<1>1. n \in Nat /\ DOMAIN c = 1 .. n /\ c \in Seq(Hashes) /\ Top(c, 0) = Members(c)
  BY TopIsAll DEF CacheTyped
<1>2. CASE Contains(c, h)
  <2> DEFINE p == CHOOSE q \in DOMAIN c : c[q] = h
  <2>1. p \in 1 .. n /\ c[p] = h /\ d = Replace(c, p, h)
    BY <1>1, <1>2 DEF Contains, Put
  <2> HIDE DEF p, d
  <2>2. /\ CacheTyped(d) /\ Len(d) = n
        /\ \A m \in 0 .. n : IF m < p THEN Top(d, m) = (Top(c, m) \ {c[p]}) \cup {h}
                             ELSE Top(d, m - 1) = Top(c, m) \cup {h}
    BY <2>1, Replaced
  <2>3. d \in Seq(Hashes) /\ Top(d, 0) = Members(d)
    BY <2>2, TopIsAll DEF CacheTyped
  <2>4. Members(d) = Members(c) /\ h \in Members(c)
    <3>1. Members(d) = (Members(c) \ {h}) \cup {h}
      BY <1>1, <2>1, <2>2, <2>3
    <3>2. h \in Members(c)
      BY <1>1, <2>1 DEF Members
    <3>. QED
      BY <3>1, <3>2
  <2>5. ASSUME NEW L, InWindow(c, L) PROVE InWindow(d, L \cup {h})
    <3>1. CASE \E m \in 0 .. n : L = Top(c, m)
      <4>1. PICK m \in 0 .. n : L = Top(c, m)
        BY <3>1
      <4>2. CASE m < p
        <5>1. Top(d, m) = L \cup {h}
          BY <2>1, <2>2, <4>1, <4>2
        <5>. QED
          BY <2>2, <5>1 DEF InWindow
      <4>3. CASE ~ (m < p)
        <5>1. Top(d, m - 1) = L \cup {h}
          BY <2>2, <4>1, <4>3
        <5>2. m - 1 \in 0 .. n
          BY <1>1, <2>1, <4>3
        <5>. QED
          BY <2>2, <5>1, <5>2 DEF InWindow
      <4>. QED
        BY <4>2, <4>3
    <3>2. CASE n = CacheSize /\ Members(c) \subseteq L /\ Members(c) # L
      BY <2>2, <2>4, <3>2 DEF InWindow
    <3>. QED
      BY <2>5, <3>1, <3>2 DEF InWindow
  <2>. QED
    BY <2>2, <2>4, <2>5 DEF d
<1>3. CASE ~ Contains(c, h) /\ n = CacheSize
  <2>1. d = Replace(c, 1, h) /\ 1 \in 1 .. n
    BY <1>1, <1>3, IngressAssumption DEF Put
  <2> HIDE DEF d
  <2>2. /\ CacheTyped(d) /\ Len(d) = n
        /\ \A m \in 0 .. n : IF m < 1 THEN Top(d, m) = (Top(c, m) \ {c[1]}) \cup {h}
                             ELSE Top(d, m - 1) = Top(c, m) \cup {h}
    BY <1>3, <2>1, Replaced
  <2>3. d \in Seq(Hashes) /\ Top(d, 0) = Members(d)
    BY <2>2, TopIsAll DEF CacheTyped
  <2>4. Members(d) = (Members(c) \ {c[1]}) \cup {h}
    BY <1>1, <2>2, <2>3
  <2>5. c[1] # h /\ c[1] \in Members(c)
    BY <1>1, <1>3, <2>1 DEF Contains, Members
  <2>6. ASSUME NEW L, InWindow(c, L) PROVE InWindow(d, L \cup {h})
    <3>1. CASE \E m \in 1 .. n : L = Top(c, m)
      <4>1. PICK m \in 1 .. n : L = Top(c, m)
        BY <3>1
      <4>2. Top(d, m - 1) = L \cup {h}
        BY <1>1, <2>2, <4>1
      <4>3. m - 1 \in 0 .. n
        BY <1>1
      <4>. QED
        BY <2>2, <4>2, <4>3 DEF InWindow
    <3>2. CASE Members(c) \subseteq L
      <4>1. Members(d) \subseteq L \cup {h} /\ c[1] \notin Members(d)
        BY <2>4, <2>5, <3>2
      <4>. QED
        BY <1>3, <2>2, <2>5, <3>2, <4>1 DEF InWindow
    <3>3. (\E m \in 1 .. n : L = Top(c, m)) \/ Members(c) \subseteq L
      <4>1. \A m \in 0 .. n : m = 0 \/ m \in 1 .. n
        BY <1>1
      <4>. QED
        BY <1>1, <2>6, <4>1 DEF InWindow
    <3>. QED
      BY <3>1, <3>2, <3>3
  <2>. QED
    BY <2>2, <2>4, <2>6 DEF d
<1>4. CASE ~ Contains(c, h) /\ n # CacheSize
  <2>1. d = Append(c, h)
    BY <1>4 DEF Put
  <2> HIDE DEF d
  <2>2. /\ CacheTyped(d) /\ Len(d) = n + 1
        /\ \A m \in 0 .. n : Top(d, m) = Top(c, m) \cup {h}
    BY <1>4, <2>1, Appended
  <2>3. d \in Seq(Hashes) /\ Top(d, 0) = Members(d)
    BY <2>2, TopIsAll DEF CacheTyped
  <2>4. Members(d) = Members(c) \cup {h}
    BY <1>1, <2>2, <2>3
  <2>5. ASSUME NEW L, InWindow(c, L) PROVE InWindow(d, L \cup {h})
    <3>1. PICK m \in 0 .. n : L = Top(c, m)
      BY <1>4, <2>5 DEF InWindow
    <3>2. m \in 0 .. n + 1 /\ Top(d, m) = L \cup {h}
      BY <1>1, <2>2, <3>1
    <3>. QED
      BY <2>2, <3>2 DEF InWindow
  <2>. QED
    BY <2>2, <2>4, <2>5 DEF d
<1>. QED
  BY <1>2, <1>3, <1>4

-----------------------------------------------------------------------------
(* backoff_delay *)

LEMMA ShiftedDoubles ==
  /\ \A n \in 0 .. MaxExponent : Shifted[n] \in Nat \ {0}
  /\ Shifted[0] = 1
  /\ \A n \in 1 .. MaxExponent : Shifted[n] = 2 * Shifted[n - 1]
<1> DEFINE E == MaxExponent
           V == Nat \ {0}
           step == [i \in 1 .. E |-> [x \in V |-> 2 * x]]
           Shifts(f) == f = [n \in 0 .. E |-> IF n = 0 THEN 1 ELSE 2 * f[n - 1]]
<1>1. E \in Nat /\ 1 \in V
  BY IngressAssumption
<1>2. step \in [1 .. E -> [V -> V]]
  <2>1. \A x \in V : 2 * x \in V
    OBVIOUS
  <2>2. [x \in V |-> 2 * x] \in [V -> V]
    BY <2>1
  <2>. QED
    BY <2>2
<1>3. \A i \in 1 .. E : \A x \in V : step[i][x] = 2 * x
  OBVIOUS
<1> HIDE DEF step, V, E
<1>4. PICK g : Follows(g, E, V, 1, step)
  BY <1>1, <1>2, Recursion
<1>5. g \in [0 .. E -> V] /\ g[0] = 1 /\ \A i \in 1 .. E : g[i] = 2 * g[i - 1]
  <2>1. g \in [0 .. E -> V] /\ g[0] = 1 /\ \A i \in 1 .. E : g[i] = step[i][g[i - 1]]
    BY <1>4 DEF Follows
  <2>2. \A i \in 1 .. E : g[i - 1] \in V
    BY <1>1, <2>1
  <2>. QED
    BY <1>3, <2>1, <2>2
<1>6. Shifts(g)
  <2>1. g = [n \in 0 .. E |-> g[n]]
    BY <1>5
  <2>2. \A n \in 0 .. E : g[n] = IF n = 0 THEN 1 ELSE 2 * g[n - 1]
    <3> TAKE n \in 0 .. E
    <3>1. n = 0 \/ n \in 1 .. E
      BY <1>1
    <3>. QED
      BY <1>5, <3>1
  <2>. QED
    BY <2>1, <2>2, Zenon
<1>7. Shifts(Shifted)
  <2>1. Shifted = CHOOSE f : Shifts(f)
    BY Zenon DEF Shifted, E
  <2> HIDE DEF Shifts
  <2>. QED
    BY <1>6, <2>1, Zenon
<1>8. \A n \in 0 .. E : Shifted[n] = IF n = 0 THEN 1 ELSE 2 * Shifted[n - 1]
  BY <1>7, Zenon
<1>9. Shifted[0] = 1 /\ \A n \in 1 .. E : Shifted[n] = 2 * Shifted[n - 1]
  <2>1. 0 \in 0 .. E /\ \A n \in 1 .. E : n \in 0 .. E /\ n # 0
    BY <1>1
  <2>. QED
    BY <1>8, <2>1
<1> DEFINE S == {n \in Nat : n <= E => Shifted[n] \in V}
<1>10. 0 \in S
  BY <1>1, <1>9
<1>11. ASSUME NEW n \in Nat, n \in S PROVE n + 1 \in S
  <2> SUFFICES ASSUME n + 1 <= E PROVE Shifted[n + 1] \in V
    OBVIOUS
  <2>1. n + 1 \in 1 .. E /\ (n + 1) - 1 = n /\ Shifted[n] \in V
    BY <1>1, <1>11
  <2>2. Shifted[n + 1] = 2 * Shifted[n]
    BY <1>9, <2>1
  <2>. QED
    BY <2>1, <2>2 DEF V
<1>12. \A n \in 0 .. E : Shifted[n] \in V
  <2> HIDE DEF S
  <2>1. Nat \subseteq S
    BY <1>10, <1>11, SetInduction
  <2>. QED
    BY <1>1, <2>1 DEF S
<1>. QED
  BY <1>9, <1>12 DEF V, E

\* The first delay is one second, each the double of the one before up to the cap.
LEMMA DelayDoubles ==
  /\ backoff_delay(0) = 1
  /\ \A n \in Nat : /\ backoff_delay(n) \in 0 .. MaxDelay
                    /\ backoff_delay(n + 1) = Lesser(2 * backoff_delay(n), MaxDelay)
<1>1. MaxExponent \in Nat /\ MaxDelay \in Nat \ {0} /\ MaxDelay <= Shifted[MaxExponent]
  BY IngressAssumption
<1>2. backoff_delay(0) = 1
  <2>1. Lesser(0, MaxExponent) = 0
    BY <1>1 DEF Lesser
  <2>. QED
    BY <1>1, <2>1, ShiftedDoubles DEF backoff_delay, Lesser
<1>3. ASSUME NEW n \in Nat
      PROVE  /\ backoff_delay(n) \in 0 .. MaxDelay
             /\ backoff_delay(n + 1) = Lesser(2 * backoff_delay(n), MaxDelay)
  <2> DEFINE k == Lesser(n, MaxExponent)
             x == Shifted[k]
  <2>1. k \in 0 .. MaxExponent /\ x \in Nat \ {0}
    BY <1>1, ShiftedDoubles DEF Lesser
  <2>2. backoff_delay(n) = Lesser(x, MaxDelay)
    BY DEF backoff_delay
  <2>3. CASE n < MaxExponent
    <3>1. Lesser(n + 1, MaxExponent) = n + 1 /\ k = n /\ n + 1 \in 1 .. MaxExponent
      BY <1>1, <2>3 DEF Lesser
    <3>2. Shifted[n + 1] = 2 * x
      BY <3>1, ShiftedDoubles
    <3>3. backoff_delay(n + 1) = Lesser(2 * x, MaxDelay)
      BY <3>1, <3>2 DEF backoff_delay
    <3> HIDE DEF x, k
    <3>. QED
      BY <1>1, <2>1, <2>2, <3>3 DEF Lesser
  <2>4. CASE ~ (n < MaxExponent)
    <3>1. Lesser(n + 1, MaxExponent) = MaxExponent /\ k = MaxExponent
      BY <1>1, <2>4 DEF Lesser
    <3>2. backoff_delay(n + 1) = Lesser(x, MaxDelay) /\ MaxDelay <= x
      BY <1>1, <3>1 DEF backoff_delay
    <3> HIDE DEF x, k
    <3>. QED
      BY <1>1, <2>1, <2>2, <3>2 DEF Lesser
  <2>. QED
    BY <2>3, <2>4
<1>. QED
  BY <1>2, <1>3

-----------------------------------------------------------------------------
(* Types *)

Fetching == pump \in {"primary", "retry", "fallback"}

LinkTyped ==
  /\ link \in {"connecting", "open", "sleeping", "ended"} /\ fresh \in BOOLEAN
  /\ connects \in 0 .. MaxConnects /\ attempt \in 0 .. connects /\ delay \in 0 .. MaxDelay
  /\ link \in {"open", "sleeping"} => attempt # connects

HashesTyped ==
  /\ hashes \in Seq(Hashes \cup {Error}) /\ read \in 0 .. Len(hashes)
  /\ pump \in {"recv", "primary", "retry", "fallback", "ended"}
  /\ Fetching => read # 0 /\ hashes[read] # Error

\* What the current fetch was answered is told by where the task is.
FetchTyped ==
  /\ CacheTyped(cache) /\ troubles \in 0 .. MaxTroubles /\ fallback \in BOOLEAN
  /\ answers = (IF pump = "retry" THEN <<"transport">>
                ELSE IF pump = "fallback" THEN <<"transport", "transport">> ELSE <<>>)
  /\ pump = "fallback" => fallback

SentTyped ==
  /\ fetches \in Seq([at : 1 .. read, answers : Seq(Answers)])
  /\ items \in Seq([at : 1 .. read, is : {"event", "error", "closed"}])
  /\ taken \in 0 .. Len(items)
  /\ producer \in {"recv", "finished", "aborted"}
  /\ published \in Seq(1 .. read)

Typed == LinkTyped /\ HashesTyped /\ FetchTyped /\ SentTyped

LEMMA TypedImpliesTypeOK == ASSUME Typed PROVE TypeOK
<1>1. Cardinality(Members(cache)) = Len(cache)
  <2> DEFINE n == Len(cache)
  <2>1. n \in Nat /\ DOMAIN cache = 1 .. n /\ cache \in [1 .. n -> Hashes]
    BY DEF Typed, FetchTyped, CacheTyped
  <2>2. Members(cache) = {cache[i] : i \in 1 .. n}
    BY <2>1 DEF Members
  <2>3. cache \in Bijection(1 .. n, Members(cache))
    <3>1. cache \in [1 .. n -> Members(cache)]
      BY <2>1, <2>2
    <3>2. \A i, j \in 1 .. n : cache[i] = cache[j] => i = j
      BY DEF Typed, FetchTyped, CacheTyped, Distinct
    <3>3. \A x \in Members(cache) : \E i \in 1 .. n : cache[i] = x
      BY <2>2
    <3>. QED
      BY <3>1, <3>2, <3>3 DEF Bijection, Injection, Surjection, IsInjective
  <2>4. ExistsBijection(1 .. n, Members(cache))
    BY <2>3 DEF ExistsBijection
  <2>. QED
    BY <2>1, <2>4, FS_CountingElements
<1>2. answers \in Seq(Answers)
  <2>1. "transport" \in Answers
    BY DEF Answers
  <2>. QED
    BY <2>1 DEF Typed, FetchTyped
<1>3. attempt \in 0 .. MaxConnects
  BY IngressAssumption DEF Typed, LinkTyped
<1>. QED
  BY <1>1, <1>2, <1>3
  DEF TypeOK, Typed, LinkTyped, HashesTyped, FetchTyped, SentTyped, CacheTyped

\* What each of the three tasks leaves alone.
LEMMA LinkFrame ==
  ASSUME Link \/ UNCHANGED vars
  PROVE  UNCHANGED <<pumpVars, items, producerVars, fallback>>
BY DEF Link, Connected, ConnectFails, ConnectClosed, Announce, Disconnected, Wake, vars

LEMMA PumpFrame ==
  ASSUME Pump
  PROVE  UNCHANGED <<linkVars, hashes, producerVars, fallback>>
BY DEF Pump, ForwardError, TakeHash, Fetch, HashesEnd, pumpVars

LEMMA ProducerFrame ==
  ASSUME Producer
  PROVE  UNCHANGED <<linkVars, hashes, pumpVars, items, fallback>>
BY DEF Producer, TakeItem, ItemsEnd, AbortProducer

\* The subscription's task sleeps, connects or ends, and sends at most one item.
LEMMA LinkKeepsTypes ==
  ASSUME LinkTyped, Link
  PROVE  LinkTyped'
<1>1. MaxConnects \in Nat /\ backoff_delay(attempt) \in 0 .. MaxDelay
  BY IngressAssumption, DelayDoubles DEF LinkTyped
<1>2. CASE Connected
  BY <1>1, <1>2 DEF LinkTyped, Connected
<1>3. CASE ConnectFails
  <2>1. CASE Sleep /\ connects' = connects + 1
    <3>1. connects < MaxConnects
      BY <1>3 DEF ConnectFails
    <3>2. /\ connects \in Nat /\ attempt \in 0 .. connects
          /\ attempt' = attempt /\ connects' = connects + 1
      BY <1>1, <2>1 DEF LinkTyped, Sleep
    <3>3. connects' \in 0 .. MaxConnects /\ attempt' \in 0 .. connects' /\ attempt' # connects'
      BY <1>1, <3>1, <3>2
    <3>. QED
      BY <1>1, <2>1, <3>3 DEF LinkTyped, Sleep
  <2>2. CASE ReceiverGone /\ UNCHANGED connects
    BY <1>1, <2>2 DEF LinkTyped, ReceiverGone
  <2>. QED
    BY <1>3, <2>1, <2>2 DEF ConnectFails, ReceiverGone
<1>4. CASE ConnectClosed
  BY <1>1, <1>4 DEF LinkTyped, ConnectClosed
<1>5. CASE Announce
  BY <1>1, <1>5 DEF LinkTyped, Announce, ReceiverGone, linkVars
<1>6. CASE Disconnected
  BY <1>1, <1>6 DEF LinkTyped, Disconnected, Sleep
<1>7. CASE Wake
  BY <1>1, <1>7 DEF LinkTyped, Wake
<1>. QED
  BY <1>2, <1>3, <1>4, <1>5, <1>6, <1>7 DEF Link

LEMMA HashesGrow ==
  ASSUME HashesTyped, [Next]_vars
  PROVE  /\ hashes' \in Seq(Hashes \cup {Error}) /\ Len(hashes) <= Len(hashes')
         /\ \A k \in 1 .. Len(hashes) : hashes'[k] = hashes[k]
<1>1. CASE UNCHANGED hashes
  BY <1>1 DEF HashesTyped
<1>2. CASE \E item \in Hashes \cup {Error} : hashes' = Append(hashes, item)
  BY <1>2 DEF HashesTyped
<1>3. CASE Link
  <2>1. ConnectFails => UNCHANGED hashes \/ hashes' = Append(hashes, Error)
    BY DEF ConnectFails, SendHash, ReceiverGone
  <2>2. Announce => UNCHANGED hashes \/ \E h \in Hashes : hashes' = Append(hashes, h)
    BY DEF Announce, SendHash, ReceiverGone
  <2>3. Connected \/ ConnectClosed \/ Disconnected \/ Wake => UNCHANGED hashes
    BY DEF Connected, ConnectClosed, Disconnected, Wake
  <2>. QED
    BY <1>1, <1>2, <1>3, <2>1, <2>2, <2>3 DEF Link
<1>4. CASE ~ Link
  BY <1>1, <1>4, PumpFrame, ProducerFrame DEF Next, vars
<1>. QED
  BY <1>3, <1>4

\* What SendItem and Deliver do to the second channel.
Extended(at) ==
  \/ UNCHANGED items
  \/ \E is \in {"event", "error", "closed"} : items' = Append(items, [at |-> at, is |-> is])

LEMMA PumpKeepsTypes ==
  ASSUME HashesTyped, FetchTyped, Pump
  PROVE  /\ HashesTyped' /\ FetchTyped'
         /\ read <= read'
         /\ \/ UNCHANGED fetches
            \/ Fetching /\ \E a \in Answers :
                 fetches' = Append(fetches, [at |-> read, answers |-> Append(answers, a)])
         /\ Extended(read') /\ (UNCHANGED items \/ Fetching \/ read' = read + 1)
<1>1. MaxTroubles \in Nat /\ fallback' = fallback /\ hashes' = hashes
  BY PumpFrame, IngressAssumption
<1>2. CASE ForwardError
  BY <1>1, <1>2 DEF HashesTyped, FetchTyped, ForwardError, SendItem, Fetching, Extended
<1>3. CASE TakeHash
  <2>1. hashes[read + 1] \in Hashes
    BY <1>3 DEF TakeHash, HashesTyped
  <2>2. CacheTyped(cache')
    BY <1>3, <2>1, PutKeepsWindow DEF TakeHash, FetchTyped
  <2>3. HashesTyped'
    BY <1>1, <1>3, <2>1, IngressAssumption DEF HashesTyped, TakeHash, Fetching
  <2>4. FetchTyped'
    BY <1>1, <1>3, <2>2 DEF FetchTyped, TakeHash
  <2>. QED
    BY <1>3, <2>3, <2>4 DEF TakeHash, HashesTyped, Extended
<1>4. CASE Fetch
  <2>1. PICK a \in Answers :
          /\ troubles' = IF a = "found" THEN troubles ELSE troubles + 1
          /\ PrimaryAnswers(a) \/ RetryAnswers(a) \/ FallbackAnswers(a)
    BY <1>4 DEF Fetch
  <2>2. UNCHANGED <<read, cache>> /\ troubles' <= MaxTroubles /\ read \in Nat
    BY <1>4 DEF Fetch, HashesTyped
  <2>3. troubles' \in 0 .. MaxTroubles
    BY <1>1, <2>1, <2>2 DEF FetchTyped
  <2>4. CASE Finish(a)
    <3>1. fetches' = Append(fetches, [at |-> read, answers |-> Append(answers, a)]) /\ answers' = <<>>
      BY <2>4 DEF Finish
    <3>2. pump' \in {"recv", "ended"} /\ Extended(read)
      BY <2>4 DEF Finish, Deliver, SendItem, Extended
    <3>3. Fetching
      BY <2>1 DEF Fetching, PrimaryAnswers, RetryAnswers, FallbackAnswers
    <3>4. HashesTyped' /\ FetchTyped'
      BY <1>1, <2>2, <2>3, <3>1, <3>2 DEF HashesTyped, FetchTyped, Fetching
    <3>. QED
      BY <2>2, <3>1, <3>2, <3>3, <3>4
  <2>5. CASE /\ UNCHANGED <<fetches, items>> /\ Fetching
             /\ \/ /\ pump = "primary" /\ pump' = "retry"
                   /\ answers' = Append(answers, "transport")
                \/ /\ pump = "retry" /\ pump' = "fallback" /\ fallback
                   /\ answers' = Append(answers, "transport")
    <3>1. HashesTyped' /\ Fetching'
      BY <1>1, <2>2, <2>5 DEF HashesTyped, Fetching
    <3>2. Append(<<>>, "transport") = <<"transport">>
          /\ Append(<<"transport">>, "transport") = <<"transport", "transport">>
      <4> DEFINE one == Append(<<>>, "transport")
                 two == Append(<<"transport">>, "transport")
                 T == {"transport"}
      <4>1. /\ one \in Seq(T) /\ Len(one) = 1 /\ one[1] = "transport"
            /\ <<"transport">> \in Seq(T) /\ Len(<<"transport">>) = 1
            /\ <<"transport">>[1] = "transport"
        OBVIOUS
      <4>2. /\ two \in Seq(T) /\ Len(two) = 2 /\ two[1] = "transport" /\ two[2] = "transport"
            /\ <<"transport", "transport">> \in Seq(T) /\ Len(<<"transport", "transport">>) = 2
            /\ <<"transport", "transport">>[1] = "transport"
            /\ <<"transport", "transport">>[2] = "transport"
        OBVIOUS
      <4>3. (\A i \in 1 .. 1 : i = 1) /\ (\A i \in 1 .. 2 : i = 1 \/ i = 2)
        OBVIOUS
      <4> HIDE DEF one, two, T
      <4>4. one = <<"transport">>
        BY <4>1, <4>3, SeqEqual
      <4>5. two = <<"transport", "transport">>
        BY <4>2, <4>3, SeqEqual
      <4>. QED
        BY <4>4, <4>5 DEF one, two
    <3>3. FetchTyped'
      BY <1>1, <2>2, <2>3, <2>5, <3>2 DEF FetchTyped
    <3>. QED
      BY <2>2, <2>5, <3>1, <3>3 DEF Extended
  <2>. QED
    BY <2>1, <2>4, <2>5
    DEF PrimaryAnswers, RetryAnswers, FallbackAnswers, AskAgain, Fetching
<1>5. CASE HashesEnd
  BY <1>1, <1>5 DEF HashesTyped, FetchTyped, HashesEnd, Fetching, Extended
<1>. QED
  BY <1>2, <1>3, <1>4, <1>5 DEF Pump

\* Whatever was sent stays of an announcement already read.
LEMMA SentKeepsTypes ==
  ASSUME Typed, [Next]_vars
  PROVE  SentTyped'
<1> DEFINE F(n) == [at : 1 .. n, answers : Seq(Answers)]
           I(n) == [at : 1 .. n, is : {"event", "error", "closed"}]
<1>1. CASE Link \/ UNCHANGED vars
  BY <1>1, LinkFrame DEF Typed, SentTyped, pumpVars, producerVars
<1>2. CASE Pump
  <2>1. /\ read \in Nat /\ read' \in Nat /\ read <= read' /\ read' <= Len(hashes')
        /\ UNCHANGED <<taken, producer, published>>
    BY <1>2, PumpKeepsTypes, PumpFrame DEF Typed, HashesTyped, producerVars
  <2>2. 1 .. read \subseteq 1 .. read' /\ F(read) \subseteq F(read') /\ I(read) \subseteq I(read')
    BY <2>1
  <2>3. published' \in Seq(1 .. read')
    BY <2>1, <2>2, SeqMonotonic DEF Typed, SentTyped
  <2>4. fetches' \in Seq(F(read'))
    <3>1. fetches \in Seq(F(read'))
      BY <2>2, SeqMonotonic DEF Typed, SentTyped
    <3>2. ASSUME Fetching, NEW a \in Answers
          PROVE  [at |-> read, answers |-> Append(answers, a)] \in F(read')
      <4>1. read \in 1 .. read'
        BY <2>1, <3>2 DEF Typed, HashesTyped
      <4>2. answers \in Seq(Answers)
        BY TypedImpliesTypeOK DEF TypeOK
      <4>3. Append(answers, a) \in Seq(Answers)
        BY <4>2
      <4>. QED
        BY <4>1, <4>3
    <3> HIDE DEF F
    <3>3. \A e \in F(read') : Append(fetches, e) \in Seq(F(read'))
      BY <3>1
    <3>. QED
      BY <1>2, <3>1, <3>2, <3>3, PumpKeepsTypes DEF Typed
  <2>5. items' \in Seq(I(read')) /\ Len(items) <= Len(items')
    <3>1. items \in Seq(I(read'))
      BY <2>2, SeqMonotonic DEF Typed, SentTyped
    <3>2. UNCHANGED items \/ read' \in 1 .. read'
      BY <1>2, <2>1, PumpKeepsTypes DEF Typed, HashesTyped
    <3>3. \A is \in {"event", "error", "closed"} :
            read' \in 1 .. read' => [at |-> read', is |-> is] \in I(read')
      OBVIOUS
    <3> HIDE DEF I
    <3>4. \A e \in I(read') : /\ Append(items, e) \in Seq(I(read'))
                              /\ Len(Append(items, e)) = Len(items) + 1
      BY <3>1
    <3>5. UNCHANGED items \/ \E e \in I(read') : items' = Append(items, e)
      BY <1>2, <3>2, <3>3, PumpKeepsTypes DEF Typed, Extended
    <3>6. Len(items) \in Nat
      BY <3>1
    <3>. QED
      BY <3>1, <3>4, <3>5, <3>6
  <2>. QED
    BY <2>1, <2>3, <2>4, <2>5 DEF Typed, SentTyped
<1>3. CASE Producer
  <2>1. UNCHANGED <<fetches, items, read>>
    BY <1>3, ProducerFrame DEF pumpVars
  <2>2. CASE TakeItem
    <3>1. taken' \in 1 .. Len(items)
      BY <2>2 DEF TakeItem, Typed, SentTyped
    <3>2. items \in Seq(I(read)) /\ published \in Seq(1 .. read)
      BY DEF Typed, SentTyped
    <3>3. items[taken'] \in I(read)
      BY <3>1, <3>2, ElementOfSeq
    <3>4. \A n \in 1 .. read : Append(published, n) \in Seq(1 .. read)
      BY <3>2
    <3>5. published' \in Seq(1 .. read)
      BY <2>2, <3>2, <3>3, <3>4 DEF TakeItem
    <3>. QED
      BY <2>1, <2>2, <3>1, <3>5 DEF TakeItem, Typed, SentTyped
  <2>3. CASE ItemsEnd \/ AbortProducer
    BY <2>1, <2>3 DEF ItemsEnd, AbortProducer, Typed, SentTyped
  <2>. QED
    BY <1>3, <2>2, <2>3 DEF Producer
<1>. QED
  BY <1>1, <1>2, <1>3 DEF Next

LEMMA TypedInductive ==
  /\ Init => Typed
  /\ Typed /\ [Next]_vars => Typed'
<1>1. ASSUME Init PROVE Typed
  <2>1. CacheTyped(<<>>)
    BY IngressAssumption DEF CacheTyped, Distinct
  <2>. QED
    BY <1>1, <2>1, IngressAssumption
    DEF Init, Typed, LinkTyped, HashesTyped, FetchTyped, SentTyped, Fetching
<1>2. ASSUME Typed, [Next]_vars PROVE Typed'
  <2>1. LinkTyped'
    <3>1. CASE UNCHANGED linkVars
      BY <1>2, <3>1 DEF Typed, LinkTyped, linkVars
    <3>. QED
      BY <1>2, <3>1, LinkKeepsTypes, PumpFrame, ProducerFrame DEF Next, vars, Typed
  <2>2. HashesTyped' /\ FetchTyped'
    <3>1. CASE UNCHANGED <<pumpVars, fallback>>
      <4>1. HashesTyped'
        BY <1>2, <3>1, HashesGrow DEF Typed, HashesTyped, Fetching, pumpVars
      <4>2. FetchTyped'
        BY <1>2, <3>1 DEF Typed, FetchTyped, pumpVars
      <4>. QED
        BY <4>1, <4>2
    <3>. QED
      BY <1>2, <3>1, PumpKeepsTypes, LinkFrame, ProducerFrame DEF Next, Typed
  <2>3. SentTyped'
    BY <1>2, SentKeepsTypes
  <2>. QED
    BY <2>1, <2>2, <2>3 DEF Typed
<1>. QED
  BY <1>1, <1>2

\* The types of Ingress hold: the cache is within its capacity and holds no hash twice, the
\* attempts never exceed the calls of the factory, and every item and every published event
\* is of an announcement already read.
THEOREM TypeCorrect == Spec => []TypeOK
<1>1. Spec => []Typed
  BY TypedInductive, PTL DEF Spec
<1>2. Typed => TypeOK
  BY TypedImpliesTypeOK
<1>. QED
  BY <1>1, <1>2, PTL

-----------------------------------------------------------------------------
(* What a fetch asks *)

LEMMA FinalInductive ==
  /\ Init => AnswersAreFinal
  /\ Typed /\ AnswersAreFinal /\ [Next]_vars => AnswersAreFinal'
<1>1. Init => AnswersAreFinal
  BY DEF Init, AnswersAreFinal, Members
<1>2. ASSUME Typed, AnswersAreFinal, [Next]_vars PROVE AnswersAreFinal'
  <2>1. CASE UNCHANGED <<fetches, fallback>>
    BY <1>2, <2>1 DEF AnswersAreFinal, Members
  <2>2. CASE Fetch
    <3>1. PICK a \in Answers : PrimaryAnswers(a) \/ RetryAnswers(a) \/ FallbackAnswers(a)
      BY <2>2 DEF Fetch
    <3>2. UNCHANGED fallback /\ fetches \in Seq([at : 1 .. read, answers : Seq(Answers)])
      BY <1>2, <2>2 DEF Fetch, Typed, SentTyped
    <3>3. CASE UNCHANGED fetches
      BY <2>1, <3>2, <3>3
    <3>4. CASE Finish(a)
      <4> DEFINE s == Append(answers, a)
                 n == Len(s)
                 full == IF fallback THEN 3 ELSE 2
      <4>1. fetches' = Append(fetches, [at |-> read, answers |-> s])
        BY <3>4 DEF Finish
      <4>2. /\ s \in Seq(Answers) /\ n = Len(answers) + 1 /\ s[n] = a
            /\ \A k \in 1 .. n - 1 : s[k] = answers[k]
        BY <1>2, TypedImpliesTypeOK DEF TypeOK
      <4>3. Len(answers) \in 0 .. 2 /\ \A k \in 1 .. Len(answers) : answers[k] = "transport"
        BY <1>2 DEF Typed, FetchTyped
      <4>4. pump = "primary" \/ pump = "retry" \/ (pump = "fallback" /\ fallback)
        BY <1>2, <3>1 DEF PrimaryAnswers, RetryAnswers, FallbackAnswers, Typed, FetchTyped
      <4>5. n <= full
        BY <1>2, <4>2, <4>4 DEF Typed, FetchTyped
      <4>6. a = "transport" => n = full
        <5> SUFFICES ASSUME a = "transport" PROVE n = full
          OBVIOUS
        <5>1. CASE pump = "primary"
          <6>1. AskAgain(a, "retry")
            BY <3>1, <5>1 DEF PrimaryAnswers, RetryAnswers, FallbackAnswers
          <6>2. fetches' = fetches
            BY <6>1 DEF AskAgain
          <6>. QED
            BY <3>2, <4>1, <6>2
        <5>2. CASE pump = "retry"
          <6>1. fallback => AskAgain(a, "fallback")
            BY <3>1, <5>2 DEF PrimaryAnswers, RetryAnswers, FallbackAnswers
          <6>2. fallback => fetches' = fetches
            BY <6>1 DEF AskAgain
          <6>3. ~ fallback
            BY <3>2, <4>1, <6>2
          <6>. QED
            BY <1>2, <4>2, <5>2, <6>3 DEF Typed, FetchTyped
        <5>3. CASE pump = "fallback" /\ fallback
          BY <1>2, <4>2, <5>3 DEF Typed, FetchTyped
        <5>. QED
          BY <4>4, <5>1, <5>2, <5>3
      <4> HIDE DEF s, full
      <4>7. \A f \in Members(fetches') : f \in Members(fetches) \/ f = [at |-> read, answers |-> s]
        <5>1. /\ DOMAIN fetches' = 1 .. Len(fetches) + 1 /\ DOMAIN fetches = 1 .. Len(fetches)
              /\ \A i \in 1 .. Len(fetches) : fetches'[i] = fetches[i]
              /\ fetches'[Len(fetches) + 1] = [at |-> read, answers |-> s]
              /\ Len(fetches) \in Nat
          BY <3>2, <4>1
        <5>2. \A i \in 1 .. Len(fetches) + 1 : i \in 1 .. Len(fetches) \/ i = Len(fetches) + 1
          BY <5>1
        <5>. QED
          BY <5>1, <5>2 DEF Members
      <4>8. \A k \in 1 .. n - 1 : s[k] = "transport"
        BY <4>2, <4>3
      <4>9. /\ n <= (IF fallback THEN 3 ELSE 2)
            /\ s[n] = "transport" => n = (IF fallback THEN 3 ELSE 2)
        BY <4>2, <4>5, <4>6 DEF full
      <4> DEFINE Final(t) == /\ \A k \in 1 .. Len(t) - 1 : t[k] = "transport"
                             /\ Len(t) <= (IF fallback THEN 3 ELSE 2)
                             /\ t[Len(t)] = "transport" => Len(t) = (IF fallback THEN 3 ELSE 2)
      <4>10. \A f \in Members(fetches) : Final(f.answers)
        BY <1>2 DEF AnswersAreFinal, Last
      <4>11. Final(s)
        BY <4>8, <4>9
      <4> HIDE DEF Final
      <4>12. \A f \in Members(fetches') : Final(f.answers)
        BY <4>7, <4>10, <4>11
      <4>. QED
        BY <3>2, <4>12 DEF AnswersAreFinal, Last, Final
    <3>. QED
      BY <3>1, <3>3, <3>4 DEF PrimaryAnswers, RetryAnswers, FallbackAnswers, AskAgain
  <2>3. CASE ForwardError \/ TakeHash \/ HashesEnd
    BY <2>1, <2>3 DEF ForwardError, TakeHash, HashesEnd
  <2>. QED
    BY <1>2, <2>1, <2>2, <2>3, LinkFrame, ProducerFrame DEF Next, Pump, pumpVars
<1>. QED
  BY <1>1, <1>2

\* NodeProvider: a transport error of the primary is retried once and then goes to the
\* fallback; any other answer of any endpoint is the result, and nobody is asked after it.
THEOREM FirstAnswerIsFinal == Spec => []AnswersAreFinal
<1>1. Spec => [](Typed /\ AnswersAreFinal)
  BY TypedInductive, FinalInductive, PTL DEF Spec
<1>. QED
  BY <1>1, PTL

-----------------------------------------------------------------------------
(* How long the subscription sleeps *)

\* The delay is that of the attempt before, unless none failed since the last connection.
Paced ==
  /\ link = "open" => fresh
  /\ link \in {"open", "connecting"} /\ fresh => attempt = 0
  /\ link = "sleeping" => ~ fresh /\ delay = backoff_delay(attempt)
  /\ link = "connecting" /\ ~ fresh => attempt # 0 /\ delay = backoff_delay(attempt - 1)

LEMMA PacedInductive ==
  /\ Init => Paced
  /\ Typed /\ Paced /\ [Next]_vars => Paced'
<1>1. Init => Paced
  BY DEF Init, Paced
<1>2. ASSUME Typed, Paced, [Next]_vars PROVE Paced'
  <2>1. CASE UNCHANGED linkVars
    BY <1>2, <2>1 DEF Paced, linkVars
  <2>2. CASE Sleep
    BY <2>2 DEF Sleep, Paced
  <2>3. CASE link' = "ended"
    BY <2>3 DEF Paced
  <2>4. CASE Connected
    BY <2>4 DEF Connected, Paced
  <2>5. CASE Wake
    <3>1. attempt \in Nat
      BY <1>2 DEF Typed, LinkTyped
    <3>2. attempt' # 0 /\ attempt' - 1 = attempt
      BY <2>5, <3>1 DEF Wake
    <3>. QED
      BY <1>2, <2>5, <3>2 DEF Wake, Paced
  <2>6. CASE ConnectFails \/ ConnectClosed \/ Announce \/ Disconnected
    BY <2>1, <2>2, <2>3, <2>6
    DEF ConnectFails, ConnectClosed, Announce, Disconnected, ReceiverGone
  <2>. QED
    BY <1>2, <2>1, <2>4, <2>5, <2>6, PumpFrame, ProducerFrame DEF Next, Link, vars
<1>. QED
  BY <1>1, <1>2

\* ReconnectingStream: the first sleep after a connection that worked is one second, and
\* each further one is the double of the one before, up to the cap.
THEOREM BackoffDoubles == Spec => DelaysDouble
<1>1. Spec => [](Typed /\ Paced)
  BY TypedInductive, PacedInductive, PTL DEF Spec
<1>2. ASSUME Typed, Paced, [Next]_vars, link # "sleeping", link' = "sleeping"
      PROVE  delay' = IF fresh THEN 1 ELSE Lesser(2 * delay, MaxDelay)
  <2>1. attempt \in Nat
    BY <1>2 DEF Typed, LinkTyped
  <2>2. Sleep /\ link \in {"open", "connecting"}
    <3>1. ~ UNCHANGED link
      BY <1>2
    <3>. QED
      BY <1>2, <3>1, PumpFrame, ProducerFrame
      DEF Next, Link, vars, linkVars, Connected, ConnectFails, ConnectClosed, Announce,
          Disconnected, Wake, ReceiverGone
  <2>3. delay' = backoff_delay(attempt)
    BY <2>2 DEF Sleep
  <2>4. CASE fresh
    BY <1>2, <2>2, <2>3, <2>4, DelayDoubles DEF Paced
  <2>5. CASE ~ fresh
    <3>1. link = "connecting" /\ attempt # 0 /\ delay = backoff_delay(attempt - 1)
      BY <1>2, <2>2, <2>5 DEF Paced
    <3>2. attempt - 1 \in Nat /\ (attempt - 1) + 1 = attempt
      BY <2>1, <3>1
    <3>. QED
      BY <2>3, <2>5, <3>1, <3>2, DelayDoubles
  <2>. QED
    BY <2>4, <2>5
<1>3. Typed /\ Paced /\ [Next]_vars =>
        [link # "sleeping" /\ link' = "sleeping" =>
           delay' = IF fresh THEN 1 ELSE Lesser(2 * delay, MaxDelay)]_vars
  BY <1>2
<1>. QED
  BY <1>1, <1>3, PTL DEF Spec, DelaysDouble

-----------------------------------------------------------------------------
(* Deduplication *)

\* The hashes announced after the jth, up to the nth.
Later(hs, n, j) == {hs[i] : i \in j + 1 .. n} \ {Error}

Windowed ==
  /\ Members(cache) \subseteq Later(hashes, read, 0)
  /\ \A j \in 0 .. read : InWindow(cache, Later(hashes, read, j))

LEMMA LaterIsFinite ==
  ASSUME NEW hs, NEW n \in Nat, NEW j \in Nat
  PROVE  IsFiniteSet(Later(hs, n, j))
<1> DEFINE I == j + 1 .. n
           T == {hs[i] : i \in I}
           f == [i \in I |-> hs[i]]
<1>1. IsFiniteSet(I)
  BY FS_Interval
<1>2. f \in Surjection(I, T)
  <2>1. f \in [I -> T]
    OBVIOUS
  <2>2. \A t \in T : \E i \in I : f[i] = t
    OBVIOUS
  <2> HIDE DEF f, I, T
  <2>. QED
    BY <2>1, <2>2 DEF Surjection
<1> HIDE DEF f, I
<1>3. IsFiniteSet(T)
  BY <1>1, <1>2, FS_Surjection
<1>. QED
  BY <1>3, FS_RemoveElement DEF Later, I

LEMMA LaterGrows ==
  ASSUME NEW hs, NEW n \in Nat, NEW j \in 0 .. n
  PROVE  /\ Later(hs, n + 1, j) = Later(hs, n, j) \cup ({hs[n + 1]} \ {Error})
         /\ Later(hs, n, n) = {}
         /\ j # 0 => Later(hs, n, j - 1) = Later(hs, n, j) \cup ({hs[j]} \ {Error})
<1>1. j + 1 .. n + 1 = (j + 1 .. n) \cup {n + 1}
  OBVIOUS
<1>2. n + 1 .. n = {}
  OBVIOUS
<1>3. j # 0 => (j - 1) + 1 .. n = (j + 1 .. n) \cup {j}
  OBVIOUS
<1>4. Later(hs, n + 1, j) = Later(hs, n, j) \cup ({hs[n + 1]} \ {Error})
  BY <1>1 DEF Later
<1>5. Later(hs, n, n) = {}
  BY <1>2 DEF Later
<1>6. j # 0 => Later(hs, n, j - 1) = Later(hs, n, j) \cup ({hs[j]} \ {Error})
  BY <1>3 DEF Later
<1>. QED
  BY <1>4, <1>5, <1>6

LEMMA WindowedInductive ==
  /\ Init => Windowed
  /\ Typed /\ Windowed /\ [Next]_vars => Windowed'
<1>1. ASSUME Init PROVE Windowed
  <2>1. Members(<<>>) = {}
    BY DEF Members
  <2>2. Later(<<>>, 0, 0) = {} /\ Top(<<>>, 0) = {}
    BY LaterGrows DEF Top
  <2>3. InWindow(<<>>, {})
    BY <2>2 DEF InWindow
  <2>4. \A j \in 0 .. 0 : j = 0
    OBVIOUS
  <2>. QED
    BY <1>1, <2>1, <2>2, <2>3, <2>4 DEF Init, Windowed
<1>2. ASSUME Typed, Windowed, [Next]_vars PROVE Windowed'
  <2>1. /\ read \in Nat /\ read <= Len(hashes) /\ CacheTyped(cache) /\ Len(hashes) \in Nat
        /\ \A k \in 1 .. Len(hashes) : hashes'[k] = hashes[k]
    BY <1>2, HashesGrow DEF Typed, HashesTyped, FetchTyped
  <2>2. \A j \in 0 .. read : Later(hashes', read, j) = Later(hashes, read, j)
    <3> TAKE j \in 0 .. read
    <3>1. \A i \in j + 1 .. read : hashes'[i] = hashes[i]
      BY <2>1
    <3>. QED
      BY <3>1 DEF Later
  <2>3. CASE UNCHANGED <<read, cache>>
    BY <1>2, <2>1, <2>2, <2>3 DEF Windowed
  <2>4. ASSUME UNCHANGED hashes, read' = read + 1,
               Members(cache') \subseteq Members(cache) \cup ({hashes[read + 1]} \ {Error}),
               \A L : InWindow(cache, L)
                        => InWindow(cache', L \cup ({hashes[read + 1]} \ {Error})),
               CacheTyped(cache')
        PROVE  Windowed'
    <3> DEFINE n == read + 1
               H == {hashes[n]} \ {Error}
    <3>1. \A j \in 0 .. read : Later(hashes, n, j) = Later(hashes, read, j) \cup H
      BY <2>1, LaterGrows
    <3>2. n \in Nat /\ n \in 0 .. n /\ Later(hashes, n, n) = {}
      BY <2>1, LaterGrows
    <3>3. InWindow(cache', {})
      <4>1. Len(cache') \in 0 .. Len(cache') /\ Len(cache') + 1 .. Len(cache') = {}
        BY <2>4 DEF CacheTyped
      <4>2. Top(cache', Len(cache')) = {}
        BY <4>1 DEF Top
      <4>. QED
        BY <4>1, <4>2 DEF InWindow
    <3>4. Members(cache') \subseteq Later(hashes, n, 0)
      <4>1. 0 \in 0 .. read
        BY <2>1
      <4>. QED
        BY <1>2, <2>4, <3>1, <4>1 DEF Windowed
    <3>5. ASSUME NEW j \in 0 .. n PROVE InWindow(cache', Later(hashes, n, j))
      <4>1. j = n \/ j \in 0 .. read
        BY <2>1
      <4>2. CASE j = n
        BY <3>2, <3>3, <4>2
      <4>3. CASE j \in 0 .. read
        <5>1. InWindow(cache, Later(hashes, read, j))
          BY <1>2, <4>3 DEF Windowed
        <5>2. InWindow(cache', Later(hashes, read, j) \cup H)
          BY <2>4, <5>1
        <5>. QED
          BY <3>1, <4>3, <5>2
      <4>. QED
        BY <4>1, <4>2, <4>3
    <3>. QED
      BY <2>4, <3>4, <3>5 DEF Windowed
  <2>5. CASE ForwardError
    <3>1. {hashes[read + 1]} \ {Error} = {} /\ cache' = cache /\ read' = read + 1 /\ hashes' = hashes
      BY <2>5 DEF ForwardError
    <3>2. \A L : L \cup {} = L
      OBVIOUS
    <3>. QED
      BY <2>1, <2>4, <3>1, <3>2
  <2>6. CASE TakeHash
    <3> DEFINE h == hashes[read + 1]
    <3>1. h \in Hashes /\ h # Error /\ cache' = Put(cache, h) /\ read' = read + 1 /\ hashes' = hashes
      BY <1>2, <2>6 DEF TakeHash, Typed, HashesTyped
    <3>2. {h} \ {Error} = {h}
      BY <3>1
    <3> HIDE DEF h
    <3>3. /\ CacheTyped(cache') /\ Members(cache') \subseteq Members(cache) \cup {h}
          /\ \A L : InWindow(cache, L) => InWindow(cache', L \cup {h})
      BY <2>1, <3>1, PutKeepsWindow
    <3>. QED
      BY <2>4, <3>1, <3>2, <3>3 DEF h
  <2>7. CASE Fetch \/ HashesEnd
    BY <2>3, <2>7 DEF Fetch, HashesEnd
  <2>. QED
    BY <1>2, <2>3, <2>5, <2>6, <2>7, LinkFrame, ProducerFrame DEF Next, Pump, pumpVars
<1>. QED
  BY <1>1, <1>2

\* The cache has the hash to be taken exactly if it repeats one of the window.
LEMMA CacheAnswers ==
  ASSUME Typed, Windowed, NEW h \in Hashes, read < Len(hashes), hashes[read + 1] = h
  PROVE  Contains(cache, h) <=> Repeats(read + 1)
<1> DEFINE c == cache
           n == Len(cache)
           M == Members(cache)
           L(j) == Later(hashes, read, j)
<1>1. /\ read \in Nat /\ Len(hashes) \in Nat /\ CacheTyped(c) /\ n \in Nat /\ CacheSize \in Nat
      /\ n <= CacheSize /\ h # Error /\ DOMAIN c = 1 .. n /\ c \in Seq(Hashes)
  BY IngressAssumption DEF Typed, HashesTyped, FetchTyped, CacheTyped
<1>2. IsFiniteSet(M) /\ Cardinality(M) = n
  <2>1. Cardinality(M) = n
    BY TypedImpliesTypeOK DEF TypeOK
  <2>2. c \in Surjection(1 .. n, M)
    <3>1. c \in [1 .. n -> M]
      BY <1>1 DEF Members
    <3>2. \A x \in M : \E i \in 1 .. n : c[i] = x
      BY <1>1 DEF Members
    <3>. QED
      BY <3>1, <3>2 DEF Surjection
  <2>3. IsFiniteSet(1 .. n)
    BY <1>1, FS_Interval
  <2>. QED
    BY <2>1, <2>2, <2>3, FS_Surjection
<1>3. Contains(c, h) <=> h \in M
  BY DEF Contains, Members
<1>4. \A m \in 0 .. n : Top(c, m) \subseteq M
  BY <1>1 DEF Top, Members
<1>5. Repeats(read + 1) <=>
        \E j \in 1 .. read : hashes[j] = h /\ Cardinality(L(j)) < CacheSize
  <2>1. 1 .. (read + 1) - 1 = 1 .. read /\ \A j \in 1 .. read : (j + 1 .. (read + 1) - 1) = j + 1 .. read
    BY <1>1
  <2>. QED
    BY <2>1 DEF Repeats, Later
<1>6. ASSUME NEW j \in 1 .. read, hashes[j] = h, Cardinality(L(j)) < CacheSize
      PROVE  h \in M
  <2>1. L(j - 1) = L(j) \cup {h} /\ j - 1 \in 0 .. read
    BY <1>1, <1>6, LaterGrows
  <2>2. InWindow(c, L(j - 1))
    BY <2>1 DEF Windowed
  <2>3. IsFiniteSet(L(j)) /\ IsFiniteSet(L(j - 1))
    BY <1>1, <2>1, LaterIsFinite
  <2>4. Cardinality(L(j - 1)) <= CacheSize
    <3>1. Cardinality(L(j)) \in Nat
      BY <2>3, FS_CardinalityType
    <3>2. Cardinality(L(j) \cup {h}) = IF h \in L(j) THEN Cardinality(L(j)) ELSE Cardinality(L(j)) + 1
      BY <2>3, FS_AddElement
    <3>3. Cardinality(L(j - 1)) = IF h \in L(j) THEN Cardinality(L(j)) ELSE Cardinality(L(j)) + 1
      BY <2>1, <3>2
    <3> HIDE DEF L
    <3>. QED
      BY <1>1, <1>6, <3>1, <3>3
  <2>5. ASSUME n = CacheSize, M \subseteq L(j - 1), M # L(j - 1) PROVE FALSE
    BY <1>1, <1>2, <2>3, <2>4, <2>5, FS_Subset, FS_CardinalityType
  <2>. QED
    BY <1>4, <2>1, <2>2, <2>5 DEF InWindow
<1>7. ASSUME h \in M PROVE \E j \in 1 .. read : hashes[j] = h /\ Cardinality(L(j)) < CacheSize
  <2> DEFINE J == {j \in 1 .. read : hashes[j] = h}
  <2>1. J \in SUBSET Nat /\ J # {} /\ \A j \in J : j <= read
    <3>1. h \in L(0)
      BY <1>7 DEF Windowed
    <3>2. \E j \in 0 + 1 .. read : hashes[j] = h
      BY <3>1 DEF Later
    <3>. QED
      BY <1>1, <3>2
  <2>2. PICK j \in J : \A i \in J : i <= j
    BY <1>1, <2>1, Greatest
  <2>3. h \notin L(j)
    <3>1. \A i \in j + 1 .. read : i \in 1 .. read /\ ~ (i <= j)
      BY <1>1
    <3>2. \A i \in j + 1 .. read : hashes[i] # h
      BY <2>2, <3>1
    <3>. QED
      BY <3>2 DEF Later
  <2>4. InWindow(c, L(j)) /\ j \in Nat
    BY <1>1, <2>2 DEF Windowed
  <2>5. L(j) \subseteq M /\ L(j) # M
    BY <1>4, <1>7, <2>3, <2>4 DEF InWindow
  <2>6. Cardinality(L(j)) < CacheSize
    <3>1. IsFiniteSet(L(j)) /\ Cardinality(L(j)) \in Nat
      BY <1>1, <2>4, LaterIsFinite, FS_CardinalityType
    <3>2. Cardinality(L(j)) < n
      BY <1>1, <1>2, <2>5, <3>1, FS_Subset
    <3>. QED
      BY <1>1, <3>1, <3>2
  <2>. QED
    BY <2>2, <2>6
<1>. QED
  BY <1>3, <1>5, <1>6, <1>7

\* A fetch of announcement k was made or is going on.
Asked(k) == (\E f \in Members(fetches) : f.at = k) \/ (k = read /\ Fetching)

LEMMA DedupSaysAsked ==
  DedupIsAWindow <=> \A k \in 1 .. read : hashes[k] # Error => (Repeats(k) <=> ~ Asked(k))
BY DEF DedupIsAWindow, Asked, Fetching

LEMMA RepeatsIsStable ==
  ASSUME HashesTyped, [Next]_vars, NEW k \in 1 .. Len(hashes)
  PROVE  Repeats(k)' <=> Repeats(k)
<1>1. /\ \A j \in 1 .. k : hashes'[j] = hashes[j]
      /\ \A j \in 1 .. k - 1 : j \in 1 .. k
      /\ k \in 1 .. k
      /\ \A j \in 1 .. k - 1 : \A i \in j + 1 .. k - 1 : i \in 1 .. k
  BY HashesGrow DEF HashesTyped
<1>2. \A j \in 1 .. k - 1 :
        {hashes'[i] : i \in j + 1 .. k - 1} = {hashes[i] : i \in j + 1 .. k - 1}
  BY <1>1
<1>. QED
  BY <1>1, <1>2, Zenon DEF Repeats

LEMMA DedupInductive ==
  /\ Init => DedupIsAWindow
  /\ Typed /\ Windowed /\ DedupIsAWindow /\ [Next]_vars => DedupIsAWindow'
<1>1. Init => DedupIsAWindow
  BY DEF Init, DedupIsAWindow
<1>2. ASSUME Typed, Windowed, DedupIsAWindow, [Next]_vars PROVE DedupIsAWindow'
  <2> DEFINE Right(k) == hashes[k] # Error => (Repeats(k) <=> ~ Asked(k))
  <2>1. /\ read \in Nat /\ Len(hashes) \in Nat /\ read <= Len(hashes)
        /\ \A k \in 1 .. Len(hashes) : hashes'[k] = hashes[k] /\ (Repeats(k)' <=> Repeats(k))
    BY <1>2, HashesGrow, RepeatsIsStable DEF Typed, HashesTyped
  <2>2. \A k \in 1 .. read : Right(k)
    BY <1>2, DedupSaysAsked
  <2>3. DedupIsAWindow' <=> \A k \in 1 .. read' : Right(k)'
    BY DEF DedupIsAWindow, Asked, Fetching
  <2>4. ASSUME UNCHANGED read, \A k \in 1 .. read : Asked(k)' <=> Asked(k)
        PROVE  DedupIsAWindow'
    BY <2>1, <2>2, <2>3, <2>4
  <2>5. CASE UNCHANGED <<read, fetches, pump>>
    BY <2>4, <2>5 DEF Asked, Fetching
  <2>6. ASSUME Pump, read' = read + 1, UNCHANGED <<hashes, fetches>>, pump = "recv",
               hashes[read + 1] # Error => (Repeats(read + 1) <=> ~ Fetching')
        PROVE  DedupIsAWindow'
    <3>1. \A f \in Members(fetches) : f.at \in 1 .. read
      <4>1. fetches \in Seq([at : 1 .. read, answers : Seq(Answers)])
        BY <1>2 DEF Typed, SentTyped
      <4>2. \A i \in 1 .. Len(fetches) : fetches[i].at \in 1 .. read
        <5> DEFINE F == [at : 1 .. read, answers : Seq(Answers)]
        <5>1. \A f \in F : f.at \in 1 .. read
          OBVIOUS
        <5> HIDE DEF F
        <5>. QED
          BY <4>1, <5>1, ElementOfSeq DEF F
      <4>. QED
        BY <4>1, <4>2 DEF Members
    <3>2. Members(fetches)' = Members(fetches)
      BY <2>6 DEF Members
    <3>3. ASSUME NEW k \in 1 .. read' PROVE Right(k)'
      <4>1. CASE k = read + 1
        <5>1. Asked(k)' <=> Fetching'
          BY <2>1, <2>6, <3>1, <3>2, <4>1 DEF Asked
        <5>2. Repeats(k)' <=> Repeats(k)
          BY <2>6 DEF Repeats
        <5>. QED
          BY <2>6, <4>1, <5>1, <5>2
      <4>2. CASE k \in 1 .. read
        <5>1. Asked(k)' <=> Asked(k)
          BY <2>1, <2>6, <3>2, <4>2 DEF Asked, Fetching
        <5>2. Repeats(k)' <=> Repeats(k)
          BY <2>6 DEF Repeats
        <5>. QED
          BY <2>2, <2>6, <4>2, <5>1, <5>2
      <4>. QED
        BY <2>1, <2>6, <4>1, <4>2
    <3>. QED
      BY <2>3, <3>3
  <2>7. CASE ForwardError
    BY <2>6, <2>7 DEF ForwardError, Pump
  <2>8. CASE TakeHash
    <3> DEFINE h == hashes[read + 1]
    <3>1. h \in Hashes /\ read < Len(hashes)
      BY <1>2, <2>8 DEF TakeHash, Typed, HashesTyped
    <3>2. Contains(cache, h) <=> Repeats(read + 1)
      BY <1>2, <3>1, CacheAnswers
    <3>3. Fetching' <=> ~ Contains(cache, h)
      BY <2>8 DEF TakeHash, Fetching
    <3>. QED
      BY <2>6, <2>8, <3>2, <3>3 DEF TakeHash, Pump
  <2>9. CASE Fetch
    <3>1. UNCHANGED read
      BY <2>9 DEF Fetch
    <3>2. Fetching /\ fetches \in Seq([at : 1 .. read, answers : Seq(Answers)])
      BY <1>2, <2>9 DEF Fetch, Fetching, PrimaryAnswers, RetryAnswers, FallbackAnswers, Typed, SentTyped
    <3>3. CASE UNCHANGED fetches /\ Fetching'
      BY <2>4, <3>1, <3>2, <3>3 DEF Asked
    <3>4. CASE \E s : fetches' = Append(fetches, [at |-> read, answers |-> s])
      <4>1. PICK s : fetches' = Append(fetches, [at |-> read, answers |-> s])
        BY <3>4
      <4> DEFINE n == Len(fetches)
                 e == [at |-> read, answers |-> s]
      <4>2. /\ n \in Nat /\ DOMAIN fetches = 1 .. n /\ DOMAIN fetches' = 1 .. n + 1
            /\ fetches'[n + 1] = e /\ \A i \in 1 .. n : fetches'[i] = fetches[i]
        BY <3>2, <4>1
      <4>3. e.at = read
        OBVIOUS
      <4> HIDE DEF e
      <4>4. Members(fetches') = Members(fetches) \cup {e}
        <5>1. 1 .. n + 1 = (1 .. n) \cup {n + 1}
          BY <4>2
        <5>. QED
          BY <4>2, <5>1 DEF Members
      <4>5. \A k \in 1 .. read : Asked(k)' <=> Asked(k)
        BY <3>1, <3>2, <4>3, <4>4 DEF Asked
      <4>. QED
        BY <2>4, <3>1, <4>5
    <3>. QED
      BY <2>9, <3>3, <3>4
      DEF Fetch, Finish, PrimaryAnswers, RetryAnswers, FallbackAnswers, AskAgain, Fetching
  <2>10. CASE HashesEnd
    BY <2>4, <2>10 DEF HashesEnd, Asked, Fetching
  <2>. QED
    BY <1>2, <2>5, <2>7, <2>8, <2>9, <2>10, LinkFrame, ProducerFrame DEF Next, Pump, pumpVars
<1>. QED
  BY <1>1, <1>2

\* build_mempool_stream: a hash is fetched exactly if fewer than CacheSize other hashes
\* came since it was last announced, whatever the errors, the fetches and the reconnections
\* between.
THEOREM DedupWindow == Spec => []DedupIsAWindow
<1>1. Spec => [](Typed /\ Windowed /\ DedupIsAWindow)
  BY TypedInductive, WindowedInductive, DedupInductive, PTL DEF Spec
<1>. QED
  BY <1>1, PTL

-----------------------------------------------------------------------------
(* What is published *)

IsEvent(k) == items[k].is = "event"
Events == {items[k].at : k \in {i \in 1 .. Len(items) : IsEvent(i)}}

\* The items are in the order of their announcements and the events among them are what the
\* finished fetches found; the producer published those of them that it took.
Ordered ==
  /\ \A i, j \in 1 .. Len(items) : i < j => items[i].at < items[j].at
  /\ Fetching => \A i \in 1 .. Len(items) : items[i].at < read
  /\ Events \subseteq Wanted /\ (producer # "aborted" => Events = Wanted)
  /\ producer = "finished" => pump = "ended"

Published ==
  /\ \A i, j \in 1 .. Len(published) : i < j => published[i] < published[j]
  /\ Members(published) = {items[k].at : k \in {i \in 1 .. taken : IsEvent(i)}}

LEMMA SentTypes ==
  ASSUME SentTyped
  PROVE  /\ Len(items) \in Nat /\ DOMAIN items = 1 .. Len(items)
         /\ \A i \in 1 .. Len(items) : items[i].at \in 1 .. read
         /\ Len(fetches) \in Nat /\ DOMAIN fetches = 1 .. Len(fetches)
         /\ \A i \in 1 .. Len(fetches) : fetches[i].at \in 1 .. read
<1> DEFINE F == [at : 1 .. read, answers : Seq(Answers)]
           I == [at : 1 .. read, is : {"event", "error", "closed"}]
<1>1. (\A f \in F : f.at \in 1 .. read) /\ (\A i \in I : i.at \in 1 .. read)
  OBVIOUS
<1>2. fetches \in Seq(F) /\ items \in Seq(I)
  BY DEF SentTyped
<1> HIDE DEF F, I
<1>. QED
  BY <1>1, <1>2, ElementOfSeq

\* Wanted reads hashes that were taken, which no step changes.
GoodFetch(f) == Last(f.answers) = "found" /\ hashes[f.at] \in Watched

LEMMA WantedOfFetches ==
  ASSUME Typed, [Next]_vars
  PROVE  /\ Wanted = {f.at : f \in {g \in Members(fetches) : GoodFetch(g)}}
         /\ Wanted' = {f.at : f \in {g \in Members(fetches') : GoodFetch(g)'}}
         /\ \A f \in Members(fetches) : GoodFetch(f)' <=> GoodFetch(f)
         /\ read \in 0 .. Len(hashes) /\ Len(hashes) \in Nat
         /\ \A k \in 1 .. Len(hashes) : hashes'[k] = hashes[k]
<1>1. /\ DOMAIN fetches = 1 .. Len(fetches)
      /\ \A i \in 1 .. Len(fetches) : fetches[i].at \in 1 .. Len(hashes)
      /\ \A k \in 1 .. Len(hashes) : hashes'[k] = hashes[k]
      /\ read \in 0 .. Len(hashes) /\ Len(hashes) \in Nat
  BY SentTypes, HashesGrow DEF Typed, HashesTyped
<1>2. \A f \in Members(fetches) : GoodFetch(f)' <=> GoodFetch(f)
  BY <1>1 DEF Members, GoodFetch, Last
<1>3. /\ Wanted = {f.at : f \in {g \in Members(fetches) : GoodFetch(g)}}
      /\ Wanted' = {f.at : f \in {g \in Members(fetches') : GoodFetch(g)'}}
  BY DEF Wanted, Members, GoodFetch, Last
<1>. QED
  BY <1>1, <1>2, <1>3

LEMMA WantedStays ==
  ASSUME Typed, [Next]_vars, UNCHANGED fetches
  PROVE  Wanted' = Wanted
<1> HIDE DEF GoodFetch
<1>. QED
  BY WantedOfFetches

LEMMA WantedGrows ==
  ASSUME Typed, [Next]_vars, NEW s \in Seq(Answers), NEW a \in Answers, read # 0,
         fetches' = Append(fetches, [at |-> read, answers |-> Append(s, a)])
  PROVE  Wanted' = Wanted \cup (IF a = "found" /\ hashes[read] \in Watched THEN {read} ELSE {})
<1> DEFINE n == Len(fetches)
<1>1. PICK e, r : e = [at |-> read, answers |-> Append(s, a)] /\ r = read
  OBVIOUS
<1>2. e.at = r /\ e.answers[Len(e.answers)] = a
  BY <1>1
<1>3. /\ n \in Nat /\ DOMAIN fetches = 1 .. n /\ DOMAIN fetches' = 1 .. n + 1
      /\ fetches'[n + 1] = e /\ \A i \in 1 .. n : fetches'[i] = fetches[i]
  <2>1. fetches \in Seq([at : 1 .. read, answers : Seq(Answers)]) /\ fetches' = Append(fetches, e)
    BY <1>1 DEF Typed, SentTyped
  <2>. QED
    BY <2>1
<1>4. Members(fetches') = Members(fetches) \cup {e}
  <2>1. 1 .. n + 1 = (1 .. n) \cup {n + 1}
    BY <1>3
  <2>. QED
    BY <1>3, <2>1 DEF Members
<1>5. GoodFetch(e)' <=> (a = "found" /\ hashes[r] \in Watched)
  <2>1. r \in 1 .. Len(hashes) /\ hashes'[r] = hashes[r]
    BY <1>1, WantedOfFetches
  <2>. QED
    BY <1>2, <2>1 DEF GoodFetch, Last
<1> HIDE DEF GoodFetch
<1>. QED
  BY <1>1, <1>2, <1>4, <1>5, WantedOfFetches

InOrder(s) == \A i, j \in 1 .. Len(s) : i < j => s[i].at < s[j].at

\* One more item, later than all: the order stays and only an event changes what was found.
LEMMA ItemSent ==
  ASSUME SentTyped, InOrder(items), NEW a \in Nat, NEW is,
         \A i \in 1 .. Len(items) : items[i].at < a,
         items' = Append(items, [at |-> a, is |-> is])
  PROVE  /\ InOrder(items') /\ Events' = Events \cup (IF is = "event" THEN {a} ELSE {})
<1> DEFINE n == Len(items)
<1>1. PICK e : e = [at |-> a, is |-> is]
  OBVIOUS
<1>2. e.at = a /\ e.is = is
  BY <1>1
<1>3. /\ n \in Nat /\ Len(items') = n + 1
      /\ items'[n + 1] = e /\ \A i \in 1 .. n : items'[i] = items[i]
      /\ \A i \in 1 .. n : items[i].at \in Nat
  <2>1. \A i \in 1 .. n : items[i].at \in 1 .. read
    BY SentTypes
  <2>. QED
    BY <1>1, <2>1 DEF SentTyped
<1>4. 1 .. n + 1 = (1 .. n) \cup {n + 1}
  BY <1>3
<1>5. InOrder(items')
  <2> SUFFICES ASSUME NEW i \in 1 .. n + 1, NEW j \in 1 .. n + 1, i < j
               PROVE  items'[i].at < items'[j].at
    BY <1>3 DEF InOrder
  <2>1. i \in 1 .. n
    BY <1>3
  <2>2. CASE j \in 1 .. n
    BY <1>3, <2>1, <2>2 DEF InOrder
  <2>3. CASE j = n + 1
    BY <1>2, <1>3, <2>1, <2>3
  <2>. QED
    BY <1>4, <2>2, <2>3
<1>6. Events' = {items'[k].at : k \in {i \in 1 .. n + 1 : items'[i].is = "event"}}
  BY <1>3 DEF Events, IsEvent
<1>7. Events' = Events \cup (IF is = "event" THEN {a} ELSE {})
  BY <1>2, <1>3, <1>4, <1>6 DEF Events, IsEvent
<1>. QED
  BY <1>5, <1>7

LEMMA OrderedInductive ==
  /\ Init => Ordered
  /\ Typed /\ Ordered /\ [Next]_vars => Ordered'
<1>1. Init => Ordered
  BY DEF Init, Ordered, Events, IsEvent, Fetching, Wanted, Members
<1>2. ASSUME Typed, Ordered, [Next]_vars PROVE Ordered'
  <2>1. /\ read \in Nat /\ Len(items) \in Nat /\ InOrder(items)
        /\ \A i \in 1 .. Len(items) : items[i].at \in 1 .. read
    BY <1>2, SentTypes DEF Typed, HashesTyped, Ordered, InOrder
  <2>2. ASSUME UNCHANGED <<items, fetches, producer>>, read <= read', read' \in Nat,
               Fetching' => (Fetching /\ read' = read) \/ read < read',
               producer = "finished" => pump' = "ended"
        PROVE  Ordered'
    <3>1. Wanted' = Wanted /\ Events' = Events
      BY <1>2, <2>2, WantedStays DEF Events, IsEvent
    <3>. QED
      BY <1>2, <2>1, <2>2, <3>1 DEF Ordered
  \* an item that is not an event
  <2>3. ASSUME NEW a \in Nat, NEW is \in {"error", "closed"},
               \A i \in 1 .. Len(items) : items[i].at < a,
               items' = Append(items, [at |-> a, is |-> is]),
               UNCHANGED producer, Wanted' = Wanted, ~ Fetching',
               producer = "finished" => pump' = "ended"
        PROVE  Ordered'
    <3>1. InOrder(items') /\ Events' = Events
      BY <1>2, <2>1, <2>3, ItemSent DEF Typed
    <3>. QED
      BY <1>2, <2>3, <3>1 DEF Ordered, InOrder
  <2>4. CASE Link \/ UNCHANGED vars
    <3>1. UNCHANGED <<items, fetches, producer, read, pump>>
      BY <2>4, LinkFrame DEF pumpVars, producerVars
    <3>. QED
      BY <1>2, <2>1, <2>2, <3>1 DEF Ordered, Fetching
  <2>5. CASE Pump
    <3>1. UNCHANGED producer
      BY <2>5, PumpFrame DEF producerVars
    <3>2. CASE ForwardError
      <4>1. /\ UNCHANGED fetches /\ pump = "recv" /\ read' = read + 1
            /\ pump' \in {"recv", "ended"} /\ ~ Fetching'
        BY <3>2 DEF ForwardError, SendItem, Fetching
      <4>2. producer # "finished"
        BY <1>2, <4>1 DEF Ordered
      <4>3. \A i \in 1 .. Len(items) : items[i].at < read + 1
        BY <2>1
      <4>4. CASE UNCHANGED items
        BY <2>1, <2>2, <3>1, <4>1, <4>2, <4>4
      <4>5. CASE items' = Append(items, [at |-> read + 1, is |-> "error"])
        <5>1. Wanted' = Wanted /\ read + 1 \in Nat
          BY <1>2, <2>1, <4>1, WantedStays
        <5>. QED
          BY <2>3, <3>1, <4>1, <4>2, <4>3, <4>5, <5>1
      <4>. QED
        BY <3>2, <4>4, <4>5 DEF ForwardError, SendItem
    <3>3. CASE TakeHash
      <4>1. UNCHANGED <<items, fetches>> /\ read' = read + 1 /\ pump = "recv"
        BY <3>3 DEF TakeHash
      <4>2. producer # "finished"
        BY <1>2, <4>1 DEF Ordered
      <4>. QED
        BY <2>1, <2>2, <3>1, <4>1, <4>2
    <3>4. CASE Fetch
      <4>1. PICK a \in Answers : PrimaryAnswers(a) \/ RetryAnswers(a) \/ FallbackAnswers(a)
        BY <3>4 DEF Fetch
      <4>2. UNCHANGED read /\ Fetching /\ producer # "finished" /\ read # 0
        BY <1>2, <3>4, <4>1
        DEF Fetch, Fetching, PrimaryAnswers, RetryAnswers, FallbackAnswers, Ordered, Typed, HashesTyped
      <4>3. CASE UNCHANGED <<fetches, items>>
        BY <2>1, <2>2, <3>1, <4>2, <4>3
      <4>4. CASE Finish(a)
        <5>1. answers \in Seq(Answers) /\ \A i \in 1 .. Len(items) : items[i].at < read
          BY <1>2, <4>2, TypedImpliesTypeOK DEF TypeOK, Ordered
        <5>2. Wanted' = Wanted \cup (IF a = "found" /\ hashes[read] \in Watched THEN {read} ELSE {})
          BY <1>2, <4>2, <4>4, <5>1, WantedGrows DEF Finish
        <5>3. pump' \in {"recv", "ended"} /\ ~ Fetching'
          BY <4>4 DEF Finish, Deliver, SendItem, Fetching
        <5>4. CASE a = "found" /\ hashes[read] \in Watched
          <6>1. SendItem(read, "event")
            BY <4>4, <5>4 DEF Finish, Deliver
          <6>2. CASE producer = "recv"
            <7>1. items' = Append(items, [at |-> read, is |-> "event"])
              BY <6>1, <6>2 DEF SendItem
            <7>2. InOrder(items') /\ Events' = Events \cup {read}
              BY <1>2, <2>1, <5>1, <7>1, ItemSent DEF Typed
            <7>. QED
              BY <1>2, <3>1, <4>2, <5>2, <5>3, <5>4, <7>2 DEF Ordered, InOrder
          <6>3. CASE producer # "recv"
            <7>1. items' = items /\ producer = "aborted" /\ Events' = Events
              BY <1>2, <4>2, <6>1, <6>3 DEF SendItem, Typed, SentTyped, Events, IsEvent
            <7>. QED
              BY <1>2, <3>1, <5>2, <5>3, <7>1 DEF Ordered
          <6>. QED
            BY <6>2, <6>3
        <5>5. CASE ~ (a = "found" /\ hashes[read] \in Watched)
          <6>1. Wanted' = Wanted
            BY <5>2, <5>5
          <6>2. CASE UNCHANGED items
            <7>1. Events' = Events
              BY <6>2 DEF Events, IsEvent
            <7>. QED
              BY <1>2, <3>1, <4>2, <5>3, <6>1, <6>2, <7>1 DEF Ordered
          <6>3. CASE \E is \in {"error", "closed"} : items' = Append(items, [at |-> read, is |-> is])
            BY <2>1, <2>3, <3>1, <4>2, <5>1, <5>3, <6>1, <6>3
          <6>. QED
            BY <4>4, <5>5, <6>2, <6>3 DEF Finish, Deliver, SendItem
        <5>. QED
          BY <5>4, <5>5
      <4>. QED
        BY <4>1, <4>3, <4>4 DEF PrimaryAnswers, RetryAnswers, FallbackAnswers, AskAgain
    <3>5. CASE HashesEnd
      BY <2>1, <2>2, <3>5 DEF HashesEnd, Fetching, producerVars
    <3>. QED
      BY <2>5, <3>2, <3>3, <3>4, <3>5 DEF Pump
  <2>6. CASE Producer
    <3>1. UNCHANGED <<items, fetches, read, pump>>
      BY <2>6, ProducerFrame DEF pumpVars
    <3>2. Wanted' = Wanted /\ Events' = Events
      BY <1>2, <3>1, WantedStays DEF Events, IsEvent
    <3>3. \/ UNCHANGED producer \/ producer' = "aborted"
          \/ producer = "recv" /\ producer' = "finished" /\ pump = "ended"
      BY <2>6 DEF Producer, TakeItem, ItemsEnd, AbortProducer
    <3>4. producer' # "aborted" => producer # "aborted"
      BY <3>3
    <3>5. producer' = "finished" => pump' = "ended"
      BY <1>2, <3>1, <3>3 DEF Ordered
    <3>. QED
      BY <1>2, <3>1, <3>2, <3>4, <3>5 DEF Ordered, Fetching
  <2>. QED
    BY <1>2, <2>4, <2>5, <2>6 DEF Next
<1>. QED
  BY <1>1, <1>2

LEMMA PublishedInductive ==
  /\ Init => Published
  /\ Typed /\ Ordered /\ Published /\ [Next]_vars => Published'
<1>1. Init => Published
  BY DEF Init, Published, Members
<1>2. ASSUME Typed, Ordered, Published, [Next]_vars PROVE Published'
  <2>1. /\ read \in Nat /\ Len(items) \in Nat /\ taken \in 0 .. Len(items)
        /\ \A i \in 1 .. Len(items) : items[i].at \in 1 .. read
        /\ published \in Seq(1 .. read)
    BY <1>2, SentTypes DEF Typed, HashesTyped, SentTyped
  <2>2. CASE UNCHANGED <<taken, published>>
    <3>1. \A i \in 1 .. taken : items'[i] = items[i]
      <4>1. UNCHANGED items \/ \E e : items' = Append(items, e)
        <5>1. Pump => UNCHANGED items \/ \E e : items' = Append(items, e)
          BY <1>2, PumpKeepsTypes DEF Typed, Extended
        <5>. QED
          BY <1>2, <5>1, LinkFrame, ProducerFrame DEF Next
      <4>2. \E I : items \in Seq(I)
        BY <1>2 DEF Typed, SentTyped
      <4>3. \A e : \A i \in 1 .. Len(items) : Append(items, e)[i] = items[i]
        BY <4>2
      <4>4. \A i \in 1 .. taken : i \in 1 .. Len(items)
        BY <2>1
      <4>. QED
        BY <4>1, <4>3, <4>4
    <3>2. {i \in 1 .. taken : IsEvent(i)'} = {i \in 1 .. taken : IsEvent(i)}
      BY <3>1 DEF IsEvent
    <3>3. {items'[k].at : k \in {i \in 1 .. taken : IsEvent(i)}}
            = {items[k].at : k \in {i \in 1 .. taken : IsEvent(i)}}
      BY <3>1
    <3>. QED
      BY <1>2, <2>2, <3>2, <3>3 DEF Published, Members
  <2>3. CASE TakeItem
    <3> DEFINE n == Len(published)
    <3>1. PICK t : t = taken + 1
      OBVIOUS
    <3>2. /\ t \in 1 .. Len(items) /\ taken' = t /\ UNCHANGED items
          /\ published' = IF IsEvent(t) THEN Append(published, items[t].at) ELSE published
      BY <2>1, <2>3, <3>1 DEF TakeItem, IsEvent
    <3>3. 1 .. t = (1 .. taken) \cup {t} /\ \A k \in 1 .. taken : k \in 1 .. Len(items) /\ k < t
      BY <2>1, <3>1
    <3>4. Members(published') = Members(published) \cup (IF IsEvent(t) THEN {items[t].at} ELSE {})
      <4>1. CASE ~ IsEvent(t)
        BY <3>2, <4>1
      <4>2. CASE IsEvent(t)
        <5>1. /\ DOMAIN published = 1 .. n /\ DOMAIN published' = 1 .. n + 1
              /\ published'[n + 1] = items[t].at
              /\ \A i \in 1 .. n : published'[i] = published[i]
              /\ 1 .. n + 1 = (1 .. n) \cup {n + 1}
          BY <2>1, <3>2, <4>2
        <5>. QED
          BY <4>2, <5>1 DEF Members
      <4>. QED
        BY <4>1, <4>2
    <3>5. Members(published') = {items[k].at : k \in {i \in 1 .. t : IsEvent(i)}}
      BY <1>2, <3>3, <3>4 DEF Published
    <3>6. \A i \in 1 .. n : published[i] < items[t].at
      <4> TAKE i \in 1 .. n
      <4>1. published[i] \in Members(published)
        BY <2>1 DEF Members
      <4>2. PICK k \in 1 .. taken : published[i] = items[k].at
        BY <1>2, <4>1 DEF Published
      <4>. QED
        BY <1>2, <3>2, <3>3, <4>2 DEF Ordered
    <3>7. \A i, j \in 1 .. Len(published') : i < j => published'[i] < published'[j]
      <4>1. CASE ~ IsEvent(t)
        BY <1>2, <3>2, <4>1 DEF Published
      <4>2. CASE IsEvent(t)
        <5>1. /\ Len(published') = n + 1 /\ n \in Nat
              /\ published'[n + 1] = items[t].at
              /\ \A i \in 1 .. n : published'[i] = published[i]
          BY <2>1, <3>2, <4>2
        <5> TAKE i, j \in 1 .. Len(published')
        <5>2. i < j => i \in 1 .. n /\ (j \in 1 .. n \/ j = n + 1)
          BY <5>1
        <5>. QED
          BY <1>2, <3>6, <5>1, <5>2 DEF Published
      <4>. QED
        BY <4>1, <4>2
    <3>8. {items'[k].at : k \in {i \in 1 .. taken' : IsEvent(i)'}}
            = {items[k].at : k \in {i \in 1 .. t : IsEvent(i)}}
      BY <3>2 DEF IsEvent
    <3>. QED
      BY <3>5, <3>7, <3>8 DEF Published, Members
  <2>4. CASE ItemsEnd \/ AbortProducer
    BY <2>2, <2>4 DEF ItemsEnd, AbortProducer
  <2>. QED
    BY <1>2, <2>2, <2>3, <2>4, LinkFrame, PumpFrame DEF Next, Producer, producerVars
<1>. QED
  BY <1>1, <1>2

\* producer_loop_phase4: each watched transaction that was found goes out once, in the order
\* of the announcements, and when nothing waits and the task was not aborted, all of them.
THEOREM FoundIsPublished == Spec => []PublishedInOrder
<1>1. Spec => [](Typed /\ Ordered /\ Published)
  BY TypedInductive, OrderedInductive, PublishedInductive, PTL DEF Spec
<1>2. ASSUME Typed, Ordered, Published PROVE PublishedInOrder
  <2>1. DOMAIN published = 1 .. Len(published) /\ taken \in 0 .. Len(items) /\ Len(items) \in Nat
    BY <1>2 DEF Typed, SentTyped
  <2>2. Members(published) \subseteq Events
    <3>1. \A k \in 1 .. taken : k \in 1 .. Len(items)
      BY <2>1
    <3>. QED
      BY <1>2, <3>1 DEF Published, Events
  <2>3. taken = Len(items) => Members(published) = Events
    BY <1>2 DEF Published, Events
  <2>. QED
    BY <1>2, <2>1, <2>2, <2>3 DEF PublishedInOrder, Ordered, Published
<1>. QED
  BY <1>1, <1>2, PTL
=============================================================================

---------------------------- MODULE DeviceProofs ----------------------------
(***************************************************************************)
(* What holds of the devices around the processor for every width of the   *)
(* timer's registers, every size of memory and transfer, and every game.   *)
(***************************************************************************)
EXTENDS Timers, Hdma, Joypad, SerialLink, FiniteSetTheorems, SequenceTheorems,
        WellFoundedInduction, TLAPS

-----------------------------------------------------------------------------
(* Division                                                                *)

LEMMA Remainder ==
    ASSUME NEW n \in Nat, NEW d \in Nat \ {0}
    PROVE  n \div d \in Nat /\ n % d \in 0 .. d - 1 /\ n = (n \div d) * d + (n % d)
OBVIOUS

LEMMA RemainderUnique ==
    ASSUME NEW m \in Nat, NEW d \in Nat \ {0}, NEW r \in 0 .. d - 1
    PROVE  (m * d + r) % d = r /\ (m * d + r) \div d = m
OBVIOUS

-----------------------------------------------------------------------------
(* Counting                                                                *)

\* Induction on the natural numbers, for a set instead of a predicate.
LEMMA SetInduction ==
    ASSUME NEW S, 0 \in S, \A n \in Nat : n \in S => n + 1 \in S
    PROVE  Nat \subseteq S
<1> DEFINE T == Nat \ S
           R == OpToRel(<, Nat)
<1>1. IsWellFoundedOn(R, Nat)
  BY NatLessThanWellFounded, Zenon
<1>2. \A x, y \in Nat : <<x, y>> \in R <=> x < y
  BY DEF OpToRel
<1> HIDE DEF R
<1>3. ASSUME T # {} PROVE FALSE
  <2>1. PICK x \in T : \A y \in T : ~(<<y, x>> \in R)
    BY <1>1, <1>3, WFMin, Zenon
  <2>2. x \in Nat /\ x # 0 /\ x - 1 \in Nat /\ x = (x - 1) + 1
    BY <2>1
  <2>3. <<x - 1, x>> \in R
    BY <1>2, <2>2
  <2>4. x - 1 \notin T
    BY <2>1, <2>3
  <2> QED
    BY <2>1, <2>2, <2>4
<1> QED
  BY <1>3

\* What is left of a number and its successor.
LEMMA NextRemainder ==
    ASSUME NEW n \in Nat, NEW d \in Nat \ {0}
    PROVE  /\ (n % d) + 1 = d => (n + 1) % d = 0 /\ (n + 1) \div d = n \div d + 1
           /\ (n % d) + 1 # d => (n + 1) % d = (n % d) + 1 /\ (n + 1) \div d = n \div d
<1> DEFINE q == n \div d
           r == n % d
<1>1. q \in Nat /\ r \in 0 .. d - 1 /\ n = q * d + r
  BY Remainder
<1> HIDE DEF q, r
<1>2. CASE r + 1 = d
  <2>1. n + 1 = (q + 1) * d + 0 /\ q + 1 \in Nat /\ 0 \in 0 .. d - 1
    BY <1>1, <1>2
  <2>2. ((q + 1) * d + 0) % d = 0 /\ ((q + 1) * d + 0) \div d = q + 1
    BY <2>1, RemainderUnique
  <2> QED
    BY <1>2, <2>1, <2>2, Zenon DEF q, r
<1>3. CASE r + 1 # d
  <2>1. n + 1 = q * d + (r + 1) /\ r + 1 \in 0 .. d - 1
    BY <1>1, <1>3
  <2>2. (q * d + (r + 1)) % d = r + 1 /\ (q * d + (r + 1)) \div d = q
    BY <1>1, <2>1, RemainderUnique
  <2> QED
    BY <1>3, <2>1, <2>2, Zenon DEF q, r
<1> QED
  BY <1>2, <1>3

\* A register that restarts from a when it overflows at size, after n steps from v.
After(size, v, a, n) == IF v + n < size THEN v + n ELSE a + ((v + n - size) % (size - a))

LEMMA AfterStep ==
    ASSUME NEW size \in Nat \ {0}, NEW v \in 0 .. size - 1, NEW a \in 0 .. size - 1, NEW n \in Nat
    PROVE  LET t == (After(size, v, a, n) + 1) % size
           IN  /\ t = 0 => After(size, v, a, n + 1) = a /\ v + (n + 1) >= size
               /\ t # 0 => /\ After(size, v, a, n + 1) = t
                           /\ v + (n + 1) >= size <=> v + n >= size
<1> DEFINE x == After(size, v, a, n)
           y == After(size, v, a, n + 1)
<1>1. size % size = 0 /\ \A i \in 0 .. size - 1 : i % size = i
  OBVIOUS
<1>2. CASE v + n + 1 < size
  <2>1. x = v + n /\ y = v + n + 1 /\ x + 1 = v + n + 1 /\ v + n + 1 \in 0 .. size - 1
    BY <1>2 DEF After
  <2>2. (x + 1) % size = v + n + 1
    BY <1>1, <2>1
  <2> QED
    BY <1>2, <2>1, <2>2
<1>3. CASE v + n + 1 = size
  <2>1. x = v + n /\ x + 1 = size
    BY <1>3 DEF After
  <2>2. 0 % (size - a) = 0
    OBVIOUS
  <2>3. y = a
    BY <1>3, <2>2 DEF After
  <2>4. (x + 1) % size = 0
    BY <1>1, <2>1, Zenon
  <2> QED
    BY <1>3, <2>3, <2>4
<1>4. CASE v + n >= size
  <2> DEFINE k == v + n - size
             d == size - a
  <2>1. k \in Nat /\ d \in Nat \ {0} /\ k % d \in 0 .. d - 1
    BY <1>4, Remainder
  <2>2. x = a + (k % d) /\ y = a + ((k + 1) % d)
    <3>1. v + (n + 1) - size = k + 1 /\ ~(v + n < size) /\ ~(v + (n + 1) < size)
      BY <1>4
    <3> QED
      BY <3>1, Zenon DEF After
  <2> HIDE DEF x, y
  <2>3. CASE (k % d) + 1 = d
    <3>1. (k + 1) % d = 0
      BY <2>1, <2>3, NextRemainder
    <3>2. x + 1 = size /\ y = a
      BY <2>1, <2>2, <2>3, <3>1
    <3>3. (x + 1) % size = 0
      BY <1>1, <3>2, Zenon
    <3> QED
      BY <1>4, <3>2, <3>3 DEF x, y
  <2>4. CASE (k % d) + 1 # d
    <3>1. (k + 1) % d = (k % d) + 1
      BY <2>1, <2>4, NextRemainder
    <3>2. y = x + 1 /\ x + 1 \in 0 .. size - 1 /\ x + 1 # 0
      BY <2>1, <2>2, <2>4, <3>1
    <3>3. (x + 1) % size = y
      BY <1>1, <3>2
    <3> QED
      BY <1>4, <3>2, <3>3 DEF x, y
  <2> QED
    BY <2>3, <2>4
<1> QED
  BY <1>2, <1>3, <1>4

\* What n calls of increment_tima make of TIMA, and whether one of them asks for the
\* interrupt.
LEMMA Counted ==
    ASSUME TIMA \in 0 .. Tima - 1, TMA \in 0 .. Tima - 1, NEW n \in Nat
    PROVE  /\ Incremented(n)[1] = After(Tima, TIMA, TMA, n)
           /\ Incremented(n)[2] = (TIMA + n >= Tima)
<1> DEFINE IsRun(g) ==
        g = [i \in 0 .. n |->
                IF i = 0 THEN <<TIMA, FALSE>>
                ELSE LET t == (g[i - 1][1] + 1) % Tima
                     IN  IF t = 0 THEN <<TMA, TRUE>> ELSE <<t, g[i - 1][2]>>]
           v(i) == After(Tima, TIMA, TMA, i)
           full(i) == TIMA + i >= Tima
           h == [i \in 0 .. n |-> <<v(i), full(i)>>]
           a == CHOOSE g : IsRun(g)
<1>0. Tima \in Nat \ {0}
  BY TimersAssumption
<1>1. v(0) = TIMA /\ full(0) = FALSE
  BY <1>0 DEF After
<1>2. ASSUME NEW i \in 1 .. n
      PROVE  <<v(i), full(i)>> = LET t == (v(i - 1) + 1) % Tima
                                 IN  IF t = 0 THEN <<TMA, TRUE>> ELSE <<t, full(i - 1)>>
  <2> DEFINE t == (v(i - 1) + 1) % Tima
  <2>1. i - 1 \in Nat /\ (i - 1) + 1 = i
    OBVIOUS
  <2>2. /\ t = 0 => v(i) = TMA /\ full(i)
        /\ t # 0 => v(i) = t /\ (full(i) <=> full(i - 1))
    BY <1>0, <2>1, AfterStep
  <2>3. full(i) \in BOOLEAN /\ full(i - 1) \in BOOLEAN
    OBVIOUS
  <2> HIDE DEF v, full, t
  <2>4. <<v(i), full(i)>> = IF t = 0 THEN <<TMA, TRUE>> ELSE <<t, full(i - 1)>>
    BY <2>2, <2>3
  <2> QED
    BY <2>4 DEF t
<1> HIDE DEF v, full
<1>3. IsRun(h)
  <2>1. ASSUME NEW i \in 0 .. n
        PROVE  h[i] = IF i = 0 THEN <<TIMA, FALSE>>
                      ELSE LET t == (h[i - 1][1] + 1) % Tima
                           IN  IF t = 0 THEN <<TMA, TRUE>> ELSE <<t, h[i - 1][2]>>
    <3>1. CASE i = 0
      BY <1>1, <3>1
    <3>2. CASE i # 0
      <4>1. i \in 1 .. n /\ i - 1 \in 0 .. n
        BY <3>2
      <4>2. h[i - 1][1] = v(i - 1) /\ h[i - 1][2] = full(i - 1) /\ h[i] = <<v(i), full(i)>>
        BY <4>1
      <4> HIDE DEF h
      <4> QED
        BY <1>2, <3>2, <4>1, <4>2
    <3> QED
      BY <3>1, <3>2
  <2>2. h = [i \in 0 .. n |-> h[i]]
    OBVIOUS
  <2> HIDE DEF h
  <2> QED
    BY <2>1, <2>2, Zenon
<1>4. IsRun(a)
  <2> HIDE DEF IsRun, h
  <2> QED
    BY <1>3, Zenon
<1>5. Incremented(n) = a[n]
  BY DEF Incremented
<1> HIDE DEF a
<1>6. \A i \in Nat : i <= n => a[i] = h[i]
  <2> DEFINE S == {i \in Nat : i <= n => a[i] = h[i]}
  <2>1. 0 \in S
    <3>1. a[0] = <<TIMA, FALSE>>
      <4>1. 0 \in 0 .. n
        OBVIOUS
      <4> QED
        BY <1>4, <4>1, Zenon
    <3>2. h[0] = <<v(0), full(0)>>
      OBVIOUS
    <3>3. a[0] = h[0]
      BY <1>1, <3>1, <3>2, Zenon
    <3> HIDE DEF h, IsRun
    <3> QED
      BY <3>3
  <2>2. ASSUME NEW i \in Nat, i \in S, i + 1 <= n PROVE a[i + 1] = h[i + 1]
    <3>1. i + 1 \in 0 .. n /\ i \in 0 .. n /\ (i + 1) - 1 = i /\ i + 1 # 0 /\ i + 1 \in 1 .. n
      BY <2>2
    <3>2. a[i] = <<v(i), full(i)>> /\ h[i + 1] = <<v(i + 1), full(i + 1)>>
      BY <2>2, <3>1
    <3>3. a[i + 1] = LET t == (a[i][1] + 1) % Tima
                     IN  IF t = 0 THEN <<TMA, TRUE>> ELSE <<t, a[i][2]>>
      BY <1>4, <3>1
    <3>4. <<v(i + 1), full(i + 1)>> = LET t == (v(i) + 1) % Tima
                                      IN  IF t = 0 THEN <<TMA, TRUE>> ELSE <<t, full(i)>>
      BY <1>2, <3>1
    <3>5. a[i][1] = v(i) /\ a[i][2] = full(i)
      BY <3>2
    <3> HIDE DEF h, IsRun
    <3> QED
      BY <3>2, <3>3, <3>4, <3>5, Zenon
  <2>3. ASSUME NEW i \in Nat, i \in S PROVE i + 1 \in S
    <3>1. i + 1 <= n => a[i + 1] = h[i + 1]
      BY <2>2, <2>3
    <3> HIDE DEF h, IsRun
    <3> QED
      BY <3>1
  <2> HIDE DEF S
  <2>4. Nat \subseteq S
    BY <2>1, <2>3, SetInduction
  <2> QED
    BY <2>4 DEF S
<1>7. Incremented(n) = <<v(n), full(n)>>
  BY <1>5, <1>6
<1> QED
  BY <1>7 DEF v, full

-----------------------------------------------------------------------------
(* Edges                                                                   *)

\* Bit h of a counter that wraps at p.
High1(p, h, x) == ((x % p) \div h) % 2 = 1

LEMMA HighIs ==
    ASSUME NEW h \in Nat \ {0}, NEW p \in Nat \ {0}, p % (2 * h) = 0, NEW x \in Nat
    PROVE  High1(p, h, x) <=> x % (2 * h) >= h
<1> DEFINE f == 2 * h
           m == p \div f
           k == x \div p
           y == x % p
           q == y \div f
           r == y % f
<1>1. f \in Nat \ {0} /\ m \in Nat /\ p = m * f
  <2>1. f \in Nat \ {0} /\ p % f = 0
    OBVIOUS
  <2> HIDE DEF f
  <2>2. p \div f \in Nat /\ p = (p \div f) * f + (p % f)
    BY <2>1, Remainder
  <2> QED
    BY <2>1, <2>2
<1>2. k \in Nat /\ y \in 0 .. p - 1 /\ x = k * p + y
  BY Remainder
<1> HIDE DEF f, m, k, y
<1>3. q \in Nat /\ r \in 0 .. f - 1 /\ y = q * f + r
  <2>1. y \in Nat
    BY <1>2
  <2> QED
    BY <1>1, <2>1, Remainder
<1> HIDE DEF q, r
<1>4. x % f = r
  <2>1. k * m \in Nat /\ k * m + q \in Nat
    BY <1>1, <1>2, <1>3
  <2>2. x = (k * m + q) * f + r
    BY <1>1, <1>2, <1>3
  <2>3. ((k * m + q) * f + r) % f = r
    BY <1>1, <1>3, <2>1, RemainderUnique
  <2> QED
    BY <2>2, <2>3, Zenon
<1>5. CASE r < h
  <2>1. y = (2 * q) * h + r /\ 2 * q \in Nat /\ r \in 0 .. h - 1
    BY <1>3, <1>5 DEF f
  <2>2. ((2 * q) * h + r) \div h = 2 * q
    BY <2>1, RemainderUnique
  <2>3. (2 * q) % 2 = 0
    BY <1>3
  <2>4. (y \div h) % 2 = 0
    BY <2>1, <2>2, <2>3, Zenon
  <2> QED
    BY <1>3, <1>4, <1>5, <2>4 DEF High1, y, f
<1>6. CASE r >= h
  <2>1. y = (2 * q + 1) * h + (r - h) /\ 2 * q + 1 \in Nat /\ r - h \in 0 .. h - 1
    BY <1>3, <1>6 DEF f
  <2>2. ((2 * q + 1) * h + (r - h)) \div h = 2 * q + 1
    BY <2>1, RemainderUnique
  <2>3. (2 * q + 1) % 2 = 1
    BY <1>3
  <2>4. (y \div h) % 2 = 1
    BY <2>1, <2>2, <2>3, Zenon
  <2> QED
    BY <1>3, <1>4, <1>6, <2>4 DEF High1, y, f
<1> QED
  BY <1>1, <1>3, <1>5, <1>6

\* The bit falls where another period of 2 * h is complete.
LEMMA FallsAt ==
    ASSUME NEW h \in Nat \ {0}, NEW p \in Nat \ {0}, p % (2 * h) = 0, NEW x \in Nat
    PROVE  /\ (x + 1) \div (2 * h) \in Nat /\ x \div (2 * h) \in Nat
           /\ High1(p, h, x) /\ ~High1(p, h, x + 1) =>
                  (x + 1) \div (2 * h) = x \div (2 * h) + 1
           /\ ~(High1(p, h, x) /\ ~High1(p, h, x + 1)) =>
                  (x + 1) \div (2 * h) = x \div (2 * h)
<1> DEFINE f == 2 * h
<1>1. f \in Nat \ {0} /\ f >= h + 1 /\ h \in Nat \ {0}
  OBVIOUS
<1>2. (High1(p, h, x) <=> x % f >= h) /\ (High1(p, h, x + 1) <=> (x + 1) % f >= h)
  <2>1. \A n \in Nat : High1(p, h, n) <=> n % f >= h
    BY HighIs
  <2>2. x + 1 \in Nat
    OBVIOUS
  <2> QED
    BY <2>1, <2>2, Zenon
<1> HIDE DEF f
<1>3. x % f \in 0 .. f - 1 /\ (x + 1) \div f \in Nat /\ x \div f \in Nat
  <2>1. \A n \in Nat : n % f \in 0 .. f - 1 /\ n \div f \in Nat
    BY <1>1, Remainder
  <2>2. x + 1 \in Nat
    OBVIOUS
  <2> QED
    BY <2>1, <2>2, Zenon
<1>4. /\ (x % f) + 1 = f => (x + 1) % f = 0 /\ (x + 1) \div f = x \div f + 1
      /\ (x % f) + 1 # f => (x + 1) % f = (x % f) + 1 /\ (x + 1) \div f = x \div f
  BY <1>1, NextRemainder
<1>5. (High1(p, h, x) /\ ~High1(p, h, x + 1)) <=> (x % f) + 1 = f
  BY <1>1, <1>2, <1>3, <1>4
<1> QED
  BY <1>3, <1>4, <1>5 DEF f

\* So its falling edges are counted by the shifts.
LEMMA EdgesCounted ==
    ASSUME NEW h \in Nat \ {0}, NEW p \in Nat \ {0}, p % (2 * h) = 0, NEW x \in Nat, NEW c \in Nat
    PROVE  Cardinality({t \in 1 .. c : High1(p, h, x + t - 1) /\ ~High1(p, h, x + t)})
               = (x + c) \div (2 * h) - x \div (2 * h)
<1> DEFINE Falls(t) == High1(p, h, x + t - 1) /\ ~High1(p, h, x + t)
           E(n) == {t \in 1 .. n : Falls(t)}
           f == 2 * h
           S == {n \in Nat : /\ IsFiniteSet(E(n))
                             /\ Cardinality(E(n)) = (x + n) \div f - x \div f}
<1>1. \A n \in Nat : (x + n) \div f \in Nat
  <2> SUFFICES ASSUME NEW n \in Nat PROVE (x + n) \div f \in Nat
    OBVIOUS
  <2>1. f \in Nat \ {0} /\ x + n \in Nat
    OBVIOUS
  <2> HIDE DEF f
  <2> QED
    BY <2>1, Remainder
<1>2. \A n \in Nat : /\ Falls(n + 1) => (x + (n + 1)) \div f = (x + n) \div f + 1
                     /\ ~Falls(n + 1) => (x + (n + 1)) \div f = (x + n) \div f
  <2> SUFFICES ASSUME NEW n \in Nat
               PROVE  /\ Falls(n + 1) => (x + (n + 1)) \div f = (x + n) \div f + 1
                      /\ ~Falls(n + 1) => (x + (n + 1)) \div f = (x + n) \div f
    OBVIOUS
  <2>1. x + n \in Nat /\ x + (n + 1) - 1 = x + n /\ x + (n + 1) = (x + n) + 1
    OBVIOUS
  <2>2. /\ High1(p, h, x + n) /\ ~High1(p, h, (x + n) + 1) =>
               ((x + n) + 1) \div f = (x + n) \div f + 1
        /\ ~(High1(p, h, x + n) /\ ~High1(p, h, (x + n) + 1)) =>
               ((x + n) + 1) \div f = (x + n) \div f
    BY <2>1, FallsAt
  <2> QED
    BY <2>1, <2>2, Zenon
<1> HIDE DEF Falls, f
<1>3. 0 \in S
  <2>1. E(0) = {}
    OBVIOUS
  <2>2. IsFiniteSet(E(0)) /\ Cardinality(E(0)) = 0
    BY <2>1, FS_EmptySet, Zenon
  <2>3. (x + 0) \div f - x \div f = 0
    <3>1. x + 0 = x
      OBVIOUS
    <3>2. x \div f \in Nat
      BY <1>1, <3>1
    <3> QED
      BY <3>1, <3>2
  <2> HIDE DEF E
  <2> QED
    BY <2>2, <2>3
<1>4. ASSUME NEW n \in Nat, n \in S PROVE n + 1 \in S
  <2>1. IsFiniteSet(E(n)) /\ Cardinality(E(n)) = (x + n) \div f - x \div f
    BY <1>4
  <2>2. (x + n) \div f \in Nat /\ x \div f \in Nat
    <3>1. x + 0 = x
      OBVIOUS
    <3> QED
      BY <1>1, <3>1
  <2>3. CASE Falls(n + 1)
    <3>1. E(n + 1) = E(n) \cup {n + 1} /\ n + 1 \notin E(n)
      BY <2>3
    <3> HIDE DEF E
    <3>2. IsFiniteSet(E(n + 1)) /\ Cardinality(E(n + 1)) = Cardinality(E(n)) + 1
      BY <2>1, <3>1, FS_AddElement
    <3>3. (x + (n + 1)) \div f = (x + n) \div f + 1
      BY <1>2, <2>3
    <3> QED
      BY <2>1, <2>2, <3>2, <3>3
  <2>4. CASE ~Falls(n + 1)
    <3>1. E(n + 1) = E(n)
      BY <2>4
    <3> HIDE DEF E
    <3>2. (x + (n + 1)) \div f = (x + n) \div f
      BY <1>2, <2>4
    <3> QED
      BY <2>1, <2>2, <3>1, <3>2
  <2> QED
    BY <2>3, <2>4
<1> HIDE DEF S
<1>5. Nat \subseteq S
  BY <1>3, <1>4, SetInduction
<1> QED
  BY <1>5 DEF S, E, Falls, f

-----------------------------------------------------------------------------
(* The timer                                                               *)

\* update_timers follows every write, and sets the frequency when the timer is on.
THEOREM FrequencyIsSelected == TimersSpec => []FrequencyFollows
<1>1. TimersInit => FrequencyFollows
  BY DEF TimersInit, FrequencyFollows
<1>2. FrequencyFollows /\ [TimersNext]_timersVars => FrequencyFollows'
  <2> SUFFICES ASSUME FrequencyFollows, [TimersNext]_timersVars PROVE FrequencyFollows'
    OBVIOUS
  <2>1. ASSUME NEW c \in Cycles, Update(c) PROVE FrequencyFollows'
    BY <2>1 DEF Update, SetFrequency, FrequencyFollows
  <2>2. CASE WriteDIV \/ WriteTAC \/ WriteTIMA \/ WriteTMA
    BY <2>2 DEF WriteDIV, WriteTAC, WriteTIMA, WriteTMA, FrequencyFollows
  <2>3. CASE Acknowledge \/ UNCHANGED timersVars
    BY <2>3 DEF Acknowledge, timersVars, FrequencyFollows
  <2> QED
    BY <2>1, <2>2, <2>3 DEF TimersNext
<1> QED
  BY <1>1, <1>2, PTL DEF TimersSpec

TimersInv == TimersTypeOK /\ FrequencyFollows

LEMMA TimerSizes ==
    /\ Low \in Nat \ {0} /\ High \in Nat \ {0} /\ Tima \in Nat \ {0} /\ Second \in Nat \ {0}
    /\ Low * High \in Nat \ {0}
    /\ \A c \in Cycles : c \in Nat /\ 0 < c /\ c < Low * High /\ c < Second
    /\ 0 \in 0 .. Tima - 1
BY TimersAssumption

\* The frequency of a value of TAC is twice the weight of the bit it selects.
LEMMA Weights ==
    ASSUME NEW s \in Sels
    PROVE  LET h == timer_frequencies[s] \div 2
           IN  /\ h \in Nat \ {0} /\ timer_frequencies[s] = 2 * h
               /\ (Low * High) % (2 * h) = 0
               /\ timer_frequencies[s] = 2^timer_frequencies_bits[s]
<1> DEFINE f == timer_frequencies[s]
<1>1. f \in Nat \ {0} /\ f % 2 = 0 /\ (Low * High) % f = 0
  BY TimersAssumption
<1>2. f = 2^timer_frequencies_bits[s]
  BY DEF timer_frequencies
<1> HIDE DEF f
<1>3. f \div 2 \in Nat \ {0} /\ f = 2 * (f \div 2)
  BY <1>1
<1> QED
  BY <1>1, <1>2, <1>3 DEF f

LEMMA AfterTyped ==
    ASSUME NEW size \in Nat \ {0}, NEW v \in 0 .. size - 1, NEW a \in 0 .. size - 1, NEW n \in Nat
    PROVE  After(size, v, a, n) \in 0 .. size - 1
<1>1. CASE v + n < size
  BY <1>1 DEF After
<1>2. CASE v + n >= size
  <2> DEFINE k == v + n - size
             d == size - a
  <2>1. k \in Nat /\ d \in Nat \ {0}
    BY <1>2
  <2> HIDE DEF k, d
  <2>2. k % d \in 0 .. d - 1
    BY <2>1, Remainder
  <2>3. After(size, v, a, n) = a + (k % d)
    BY <1>2 DEF After, k, d
  <2> QED
    BY <2>1, <2>2, <2>3 DEF d
<1> QED
  BY <1>1, <1>2

LEMMA FullTyped ==
    ASSUME TimersTypeOK
    PROVE  Full \in 0 .. Low * High - 1
<1>1. timer_counter \in 0 .. Low - 1 /\ DIV \in 0 .. High - 1
  BY DEF TimersTypeOK
<1>2. (DIV + 1) * Low <= High * Low /\ (DIV + 1) * Low = DIV * Low + Low /\ DIV * Low \in Nat
  BY <1>1, TimerSizes
<1>3. High * Low = Low * High
  BY TimerSizes
<1> QED
  BY <1>1, <1>2, <1>3, TimerSizes DEF Full

LEMMA Counts ==
    ASSUME TimersTypeOK, NEW n \in Nat, increment_tima(n)
    PROVE  Edges!Count(n) /\ TIMA' \in 0 .. Tima - 1 /\ requested' \in BOOLEAN
<1>1. TIMA \in 0 .. Tima - 1 /\ TMA \in 0 .. Tima - 1 /\ requested \in BOOLEAN
  BY DEF TimersTypeOK
<1>2. TIMA' = After(Tima, TIMA, TMA, n) /\ requested' = (requested \/ (TIMA + n >= Tima))
  <2>1. Incremented(n)[1] = After(Tima, TIMA, TMA, n) /\ Incremented(n)[2] = (TIMA + n >= Tima)
    BY <1>1, Counted
  <2> QED
    BY <2>1, Zenon DEF increment_tima
<1>3. TIMA' \in 0 .. Tima - 1
  BY <1>1, <1>2, TimerSizes, AfterTyped
<1>4. requested' \in BOOLEAN
  BY <1>2, Zenon
<1>5. Edges!Count(n)
  BY <1>2, Zenon DEF Edges!Count, After
<1> QED
  BY <1>3, <1>4, <1>5

\* The two bytes are the counter, and wrap at most once.
LEMMA Carried ==
    ASSUME TimersTypeOK, NEW c \in Cycles, Carry(c)
    PROVE  /\ timer_counter' \in 0 .. Low - 1 /\ DIV' \in 0 .. High - 1
           /\ Full' = (Full + c) % (Low * High)
           /\ Full + c = IF Full > Full' THEN Full' + Low * High ELSE Full'
<1> DEFINE p == Low * High
           a == (timer_counter + c) \div Low
           b == (timer_counter + c) % Low
           e == (DIV + a) \div High
           d == (DIV + a) % High
<1>0. /\ timer_counter \in 0 .. Low - 1 /\ DIV \in 0 .. High - 1 /\ Full \in 0 .. p - 1
      /\ c \in Nat /\ c < p /\ Low \in Nat \ {0} /\ High \in Nat \ {0} /\ p \in Nat \ {0}
  BY FullTyped, TimerSizes DEF TimersTypeOK
<1>1. a \in Nat /\ b \in 0 .. Low - 1 /\ timer_counter + c = a * Low + b
  <2>1. timer_counter + c \in Nat
    BY <1>0
  <2> QED
    BY <1>0, <2>1, Remainder
<1>2. timer_counter' = b /\ DIV' = d
  BY DEF Carry
<1> HIDE DEF a, b
<1>3. e \in Nat /\ d \in 0 .. High - 1 /\ DIV + a = e * High + d
  <2>1. DIV + a \in Nat
    BY <1>0, <1>1
  <2> QED
    BY <1>0, <2>1, Remainder
<1> HIDE DEF d, e
<1>4. Full' = d * Low + b
  BY <1>2 DEF Full
<1>5. Full + c = (e * p) + (d * Low + b)
  <2>1. Full + c = DIV * Low + (a * Low + b)
    BY <1>0, <1>1 DEF Full
  <2>2. DIV * Low + (a * Low + b) = (DIV + a) * Low + b
    BY <1>0, <1>1
  <2>3. (DIV + a) * Low = (e * High + d) * Low
    BY <1>3
  <2>4. (e * High + d) * Low = e * (Low * High) + d * Low
    BY <1>0, <1>3
  <2>5. e * (Low * High) \in Nat /\ d * Low \in Nat
    BY <1>0, <1>3
  <2> QED
    BY <1>1, <2>1, <2>2, <2>3, <2>4, <2>5
<1>6. d * Low + b \in 0 .. p - 1
  <2>1. (d + 1) * Low <= High * Low /\ (d + 1) * Low = d * Low + Low /\ d * Low \in Nat
    BY <1>0, <1>3
  <2>2. High * Low = p
    BY <1>0
  <2> HIDE DEF p
  <2> QED
    BY <1>0, <1>1, <2>1, <2>2
<1> DEFINE full == d * Low + b
<1> HIDE DEF p, full
<1>7. (Full + c) % p = full
  <2>1. (e * p + full) % p = full
    BY <1>0, <1>3, <1>6, RemainderUnique, ZenonT(40) DEF full
  <2> QED
    BY <1>5, <2>1, Zenon DEF full
<1>8. Full + c = IF Full > full THEN full + p ELSE full
  <2>1. e = 0 \/ e = 1
    <3>1. CASE e >= 2
      <4>1. e * p >= 2 * p /\ e * p \in Nat
        BY <1>0, <1>3, <3>1
      <4> QED
        BY <1>0, <1>5, <1>6, <4>1 DEF full
    <3> QED
      BY <1>3, <3>1
  <2>2. CASE e = 0
    <3>1. e * p = 0
      BY <1>0, <2>2
    <3> QED
      BY <1>0, <1>5, <1>6, <3>1 DEF full
  <2>3. CASE e = 1
    <3>1. e * p = p
      BY <1>0, <2>3
    <3> QED
      BY <1>0, <1>5, <1>6, <3>1 DEF full
  <2> QED
    BY <2>1, <2>2, <2>3
<1> QED
  BY <1>1, <1>2, <1>3, <1>4, <1>7, <1>8 DEF full, p

\* The line is the selected bit.
LEMMA BitSelected ==
    ASSUME sel \in Sels, NEW x
    PROVE  Edges!SelectedBit(x) <=> High1(Low * High, timer_frequencies[sel] \div 2, x)
<1>1. [s \in Sels |-> timer_frequencies[s] \div 2][sel] = timer_frequencies[sel] \div 2
  OBVIOUS
<1> QED
  BY <1>1, Zenon DEF Edges!SelectedBit, High1

LEMMA LineIs ==
    ASSUME TimersInv, on, ~written
    PROVE  HalfReached <=> Edges!SelectedBit(Full)
<1> DEFINE f == timer_frequencies[sel]
<1>1. sel \in Sels /\ timer_frequency_bits = timer_frequencies_bits[sel]
      /\ timer_frequency_bits \in Nat \ {0}
  BY TimersAssumption DEF TimersInv, TimersTypeOK, FrequencyFollows
<1>2. f = 2^timer_frequency_bits
  BY <1>1, Weights
<1>3. Full \in 0 .. Low * High - 1
  BY FullTyped DEF TimersInv
<1>4. Full % (Low * High) = Full
  <2> DEFINE p == Low * High
  <2>1. p \in Nat \ {0} /\ Full \in 0 .. p - 1
    BY <1>3, TimerSizes
  <2> HIDE DEF p
  <2>2. Full % p = Full
    BY <2>1
  <2> QED
    BY <2>2 DEF p
<1>5. timer_frequency_bits # None
  BY <1>1 DEF None
<1>6. HalfReached <=> (Full \div (f \div 2)) % 2 = 1
  BY <1>2, <1>5, Zenon DEF HalfReached
<1>7. Edges!SelectedBit(Full) <=> (Full \div (f \div 2)) % 2 = 1
  BY <1>1, <1>4, BitSelected, Zenon DEF High1
<1> QED
  BY <1>6, <1>7

\* The instance has a copy of its own.
LEMMA SameCardinality == \A S : Edges!Cardinality(S) = Cardinality(S)
BY Zenon DEF Edges!Cardinality, Cardinality

LEMMA UpdateStep ==
    ASSUME TimersInv, NEW c \in Cycles, Update(c)
    PROVE  TimersInv' /\ Edges!Advance(c)
<1> DEFINE f == timer_frequencies[sel]
           h == f \div 2
           falls == {t \in 1 .. c : Edges!SelectedBit(Full + t - 1) /\ ~Edges!SelectedBit(Full + t)}
<1>1. /\ TimersTypeOK /\ sel \in Sels /\ Full \in Nat /\ c \in Nat /\ c < Second /\ on \in BOOLEAN
      /\ clocks \in 0 .. Second - 1
  BY FullTyped, TimerSizes DEF TimersInv, TimersTypeOK
<1>2. /\ timer_counter' \in 0 .. Low - 1 /\ DIV' \in 0 .. High - 1
      /\ Full' = (Full + c) % (Low * High)
      /\ Full + c = IF Full > Full' THEN Full' + Low * High ELSE Full'
  BY <1>1, Carried DEF Update
<1>3. /\ clocks' \in 0 .. Second - 1 /\ written' = FALSE /\ UNCHANGED <<TMA, on, sel>>
  <2>1. /\ clocks' = IF clocks + c >= Second THEN clocks + c - Second ELSE clocks + c
        /\ written' = FALSE /\ UNCHANGED <<TMA, on, sel>>
    BY Zenon DEF Update
  <2>2. clocks' \in 0 .. Second - 1
    <3>1. clocks + c >= Second => clocks' = clocks + c - Second
      BY <2>1, Zenon
    <3>2. ~(clocks + c >= Second) => clocks' = clocks + c
      BY <2>1, Zenon
    <3> HIDE <2>1
    <3> QED
      BY <1>1, <3>1, <3>2, TimerSizes
  <2> QED
    BY <2>1, <2>2, Zenon
<1>4. /\ on => timer_frequency_bits' = timer_frequencies_bits[sel]
      /\ timer_frequency_bits' \in {None} \cup {timer_frequencies_bits[s] : s \in Sels}
  BY <1>1 DEF Update, SetFrequency, TimersTypeOK
<1>5. h \in Nat \ {0} /\ f = 2 * h /\ (Low * High) % (2 * h) = 0 /\ f = 2^timer_frequencies_bits[sel]
  BY <1>1, Weights
<1>6. increment_tima(IF on THEN (Full + c) \div 2^timer_frequency_bits' - Full \div 2^timer_frequency_bits' ELSE 0)
  <2>1. DIV' * Low + timer_counter' = Full'
    BY DEF Full
  <2> QED
    BY <1>2, <2>1, Zenon DEF Update
<1>7. CASE on
  <2>1. increment_tima((Full + c) \div f - Full \div f)
    BY <1>4, <1>5, <1>6, <1>7, Zenon
  <2>2. Cardinality(falls) = (Full + c) \div f - Full \div f
    <3>1. \A x : Edges!SelectedBit(x) <=> High1(Low * High, h, x)
      BY <1>1, BitSelected
    <3>2. falls = {t \in 1 .. c : High1(Low * High, h, Full + t - 1) /\ ~High1(Low * High, h, Full + t)}
      BY <3>1, Zenon
    <3> HIDE DEF falls, h, f
    <3>3. Low * High \in Nat \ {0}
      BY TimerSizes
    <3>4. Cardinality({t \in 1 .. c : High1(Low * High, h, Full + t - 1) /\ ~High1(Low * High, h, Full + t)})
              = (Full + c) \div (2 * h) - Full \div (2 * h)
      <4>1. \A p \in Nat \ {0}, k \in Nat \ {0}, x \in Nat, y \in Nat :
                p % (2 * k) = 0 =>
                Cardinality({t \in 1 .. y : High1(p, k, x + t - 1) /\ ~High1(p, k, x + t)})
                    = (x + y) \div (2 * k) - x \div (2 * k)
        BY EdgesCounted, ZenonT(40)
      <4> QED
        BY <1>1, <1>5, <3>3, <4>1, Zenon
    <3> QED
      BY <1>5, <3>2, <3>4, Zenon
  <2>3. (Full + c) \div f - Full \div f \in Nat
    <3>1. IsFiniteSet(falls)
      <4>1. IsFiniteSet(1 .. c) /\ falls \subseteq 1 .. c
        BY <1>1, FS_Interval
      <4> QED
        BY <4>1, FS_Subset
    <3> HIDE DEF falls
    <3> QED
      BY <2>2, <3>1, FS_CardinalityType
  <2>4. /\ Edges!Count(Cardinality(falls)) /\ TIMA' \in 0 .. Tima - 1 /\ requested' \in BOOLEAN
    BY <1>1, <2>1, <2>2, <2>3, Counts
  <2>5. Edges!Advance(c)
    <3>1. (IF on THEN Edges!Cardinality(falls) ELSE 0) = Cardinality(falls)
      BY <1>7, SameCardinality, Zenon
    <3> QED
      BY <1>2, <1>3, <2>4, <3>1, Zenon DEF Edges!Advance
  <2>6. TimersTypeOK'
    BY <1>1, <1>2, <1>3, <1>4, <2>4 DEF TimersTypeOK
  <2>7. FrequencyFollows'
    BY <1>3, <1>4, <1>7 DEF FrequencyFollows
  <2> QED
    BY <2>5, <2>6, <2>7 DEF TimersInv
<1>8. CASE ~on
  <2>1. increment_tima(0)
    BY <1>6, <1>8, Zenon
  <2>2. Edges!Count(0) /\ TIMA' \in 0 .. Tima - 1 /\ requested' \in BOOLEAN
    BY <1>1, <2>1, Counts
  <2>3. Edges!Advance(c)
    <3>1. (IF on THEN Edges!Cardinality(falls) ELSE 0) = 0
      BY <1>8, Zenon
    <3> QED
      BY <1>2, <1>3, <2>2, <3>1, Zenon DEF Edges!Advance
  <2>4. TimersTypeOK'
    BY <1>1, <1>2, <1>3, <1>4, <2>2 DEF TimersTypeOK
  <2>5. FrequencyFollows'
    BY <1>3, <1>8 DEF FrequencyFollows
  <2> QED
    BY <2>3, <2>4, <2>5 DEF TimersInv
<1> QED
  BY <1>7, <1>8

LEMMA TimerStep ==
    TimersInv /\ [TimersNext /\ (WriteDIV => on)]_timersVars => TimersInv' /\ [Edges!Next]_(Edges!vars)
<1>1. ASSUME TimersInv, UNCHANGED timersVars PROVE TimersInv' /\ UNCHANGED Edges!vars
  BY <1>1 DEF timersVars, TimersInv, TimersTypeOK, FrequencyFollows, Edges!vars, Full
<1> SUFFICES ASSUME TimersInv, TimersNext, WriteDIV => on
             PROVE  TimersInv' /\ [Edges!Next]_(Edges!vars)
  BY <1>1
<1>2. /\ TimersTypeOK /\ FrequencyFollows /\ sel \in Sels /\ on \in BOOLEAN /\ 0 \in Nat /\ 1 \in Nat
      /\ 0 \in 0 .. Low - 1 /\ 0 \in 0 .. High - 1
  BY TimerSizes DEF TimersInv, TimersTypeOK
<1>3. ASSUME NEW c \in Cycles, Update(c) PROVE TimersInv' /\ Edges!Next
  BY <1>3, UpdateStep DEF Edges!Next
<1>4. CASE WriteDIV
  <2>1. on /\ ~written /\ written' = TRUE
    BY <1>4 DEF WriteDIV
  <2>2. increment_tima(IF Edges!Line THEN 1 ELSE 0)
    BY <1>4, <2>1, LineIs DEF WriteDIV, Edges!Line
  <2>3. /\ Edges!Count(IF Edges!Line THEN 1 ELSE 0) /\ TIMA' \in 0 .. Tima - 1 /\ requested' \in BOOLEAN
    BY <1>2, <2>2, Counts
  <2>4. Full' = 0
    BY <1>4, TimerSizes DEF WriteDIV, Full
  <2>5. Edges!Reset
    BY <1>4, <2>3, <2>4 DEF WriteDIV, Edges!Reset
  <2>6. TimersInv'
    BY <1>2, <1>4, <2>1, <2>3 DEF WriteDIV, TimersInv, TimersTypeOK, FrequencyFollows
  <2> QED
    BY <2>5, <2>6 DEF Edges!Next
<1>5. CASE WriteTAC
  <2>1. ~written /\ written' = TRUE /\ on' \in BOOLEAN /\ sel' \in Sels
    BY <1>5 DEF WriteTAC
  <2>2. increment_tima(IF Edges!Line /\ ~on' THEN 1 ELSE 0)
    <3>1. CASE on
      BY <1>5, <2>1, <3>1, LineIs DEF WriteTAC, Edges!Line
    <3>2. CASE ~on
      BY <1>5, <3>2 DEF WriteTAC, Edges!Line
    <3> QED
      BY <3>1, <3>2
  <2>3. /\ Edges!Count(IF Edges!Line /\ ~on' THEN 1 ELSE 0)
        /\ TIMA' \in 0 .. Tima - 1 /\ requested' \in BOOLEAN
    BY <1>2, <2>2, Counts
  <2>4. Full' = Full
    BY <1>5 DEF WriteTAC, Full
  <2>5. Edges!Control
    BY <1>5, <2>1, <2>3, <2>4 DEF WriteTAC, Edges!Control
  <2>6. TimersInv'
    BY <1>2, <1>5, <2>1, <2>3 DEF WriteTAC, TimersInv, TimersTypeOK, FrequencyFollows
  <2> QED
    BY <2>5, <2>6 DEF Edges!Next
<1>6. CASE WriteTIMA \/ WriteTMA
  <2>1. TIMA' \in 0 .. Tima - 1 /\ TMA' \in 0 .. Tima - 1
    BY <1>2, <1>6, TimersAssumption DEF WriteTIMA, WriteTMA, TimersTypeOK
  <2>2. UNCHANGED <<timer_counter, DIV, on, sel, timer_frequency_bits, requested, clocks>> /\ written' = TRUE
    BY <1>6 DEF WriteTIMA, WriteTMA
  <2>3. Edges!Load
    BY <2>1, <2>2 DEF Edges!Load, Full
  <2>4. TimersInv'
    BY <1>2, <2>1, <2>2 DEF TimersInv, TimersTypeOK, FrequencyFollows
  <2> QED
    BY <2>3, <2>4 DEF Edges!Next
<1>7. CASE Acknowledge
  <2>1. Edges!Acknowledge
    BY <1>7 DEF Acknowledge, Edges!Acknowledge, Full
  <2>2. TimersInv'
    BY <1>2, <1>7 DEF Acknowledge, TimersInv, TimersTypeOK, FrequencyFollows
  <2> QED
    BY <2>1, <2>2 DEF Edges!Next
<1> QED
  BY <1>3, <1>4, <1>5, <1>6, <1>7 DEF TimersNext

\* For all widths of the registers, frequencies and batches of cycles: shifting a
\* counter that is split over two bytes counts in TIMA exactly the falling edges of the
\* bit that TAC selects, with its reloads and interrupts, for games that reset the
\* counter only while the timer is on.
THEOREM TimerIsExact == OnSpec => TimerExact
<1>1. TimersInit => TimersInv /\ Edges!Init
  <2> SUFFICES ASSUME TimersInit PROVE TimersInv /\ Edges!Init
    OBVIOUS
  <2>1. Div0 \in 0 .. High - 1 /\ 0 \in 0 .. Low - 1 /\ 0 \in 0 .. Second - 1 /\ sel \in Sels
    BY TimersAssumption DEF TimersInit
  <2>2. TimersTypeOK
    BY <2>1, TimerSizes DEF TimersInit, TimersTypeOK
  <2>3. FrequencyFollows
    BY DEF TimersInit, FrequencyFollows
  <2>4. Full \in 0 .. Low * High - 1
    BY <2>2, FullTyped
  <2>5. Edges!Init
    BY <2>1, <2>4 DEF TimersInit, Edges!Init
  <2> QED
    BY <2>2, <2>3, <2>5 DEF TimersInv
<1>2. TimersInv => TimersTypeOK /\ FrequencyFollows
  BY DEF TimersInv
<1> QED
  BY <1>1, <1>2, TimerStep, PTL DEF OnSpec, TimerExact, EdgeSpec, Edges!Spec

-----------------------------------------------------------------------------
(* Transfers into video memory                                             *)

\* StatusAgrees with the numbers it talks about.
StatusInv ==
    /\ StatusAgrees
    /\ HDMA5 \in -1 .. MaxBlocks - 1
    /\ hdma_bytes \in 0 .. MaxBlocks
    /\ hdma_in_progress \in BOOLEAN

\* A block of a running transfer takes one from both counts, so the two
\* tests at its end (hdma.c:76) come out alike.
LEMMA PerformKeepsStatus ==
    ASSUME NEW n \in Lengths, perform_hdma(n + 1, n)
    PROVE  StatusInv'
<1>1. HDMA5' = n - 1 /\ hdma_bytes' = n /\ n \in Nat /\ n < MaxBlocks
  BY HdmaAssumption DEF perform_hdma, Lengths
<1>2. hdma_in_progress' = (HDMA5' # -1 /\ hdma_bytes' # 0)
  BY Zenon DEF perform_hdma
<1>3. (HDMA5' # -1 <=> hdma_bytes' # 0) /\ hdma_bytes' = HDMA5' + 1
  BY <1>1
<1>4. HDMA5' \in -1 .. MaxBlocks - 1 /\ hdma_bytes' \in 0 .. MaxBlocks
  BY <1>1, HdmaAssumption
<1> QED
  BY <1>2, <1>3, <1>4, Zenon DEF StatusInv, StatusAgrees

\* A step that leaves the transfer off, with HDMA5 at 0xFF.
LEMMA OffKeepsStatus ==
    ASSUME hdma_in_progress' = FALSE, HDMA5' = -1, hdma_bytes' \in 0 .. MaxBlocks
    PROVE  StatusInv'
<1>1. HDMA5' \in -1 .. MaxBlocks - 1
  BY HdmaAssumption
<1> QED
  BY <1>1, Zenon DEF StatusInv, StatusAgrees

LEMMA StatusStep == StatusInv /\ [HdmaNext]_hdmaVars => StatusInv'
<1> SUFFICES ASSUME StatusInv, [HdmaNext]_hdmaVars PROVE StatusInv'
  OBVIOUS
<1> USE HdmaAssumption
<1>1. ASSUME NEW n \in Lengths, NEW hblank \in BOOLEAN, WriteHDMA5On(n, hblank)
      PROVE  StatusInv'
  <2>1. CASE ~hdma_in_progress /\ hblank
    BY <1>1, <2>1, PerformKeepsStatus DEF WriteHDMA5On
  <2>2. CASE ~(~hdma_in_progress /\ hblank)
    <3>1. hdma_in_progress' = TRUE /\ hdma_bytes' = n + 1 /\ HDMA5' = n
      BY <1>1, <2>2 DEF WriteHDMA5On
    <3> QED
      BY <3>1 DEF StatusInv, StatusAgrees, Lengths
  <2> QED
    BY <2>1, <2>2
<1>2. ASSUME NEW n \in Lengths, WriteHDMA5Off(n)
      PROVE  StatusInv'
  <2>1. hdma_in_progress' = FALSE
    BY <1>2, Zenon DEF WriteHDMA5Off, perform_gdma, StatusInv
  <2>2. hdma_bytes' = n + 1 /\ HDMA5' = -1
    BY <1>2 DEF WriteHDMA5Off, perform_gdma
  <2>3. hdma_bytes' \in 0 .. MaxBlocks
    BY <2>2 DEF Lengths
  <2> QED
    BY <2>1, <2>2, <2>3, OffKeepsStatus
<1>3. CASE Hblank
  <2>1. HDMA5 \in Lengths /\ hdma_bytes = HDMA5 + 1
    BY <1>3 DEF Hblank, StatusInv, StatusAgrees, Lengths
  <2> QED
    BY <1>3, <2>1, PerformKeepsStatus DEF Hblank
<1>4. ASSUME UNCHANGED control
      PROVE  StatusInv'
  BY <1>4 DEF control, StatusInv, StatusAgrees
<1> QED
  BY <1>1, <1>2, <1>3, <1>4 DEF HdmaNext, Game, hdmaVars, control, WriteHDMA1, WriteHDMA2,
     WriteHDMA3, WriteHDMA4

\* HDMA5, the count of the blocks left and the flag of a running transfer agree after
\* every write to the registers and every H-Blank (check_cgb_dma, perform_hdma,
\* perform_gdma).
THEOREM StatusAlwaysAgrees == HdmaSpec => []StatusAgrees
<1>1. HdmaInit => StatusInv
  <2>1. ASSUME HdmaInit PROVE -1 \in -1 .. MaxBlocks - 1 /\ 0 \in 0 .. MaxBlocks
    BY HdmaAssumption
  <2> QED
    BY <2>1, Zenon DEF HdmaInit, StatusInv, StatusAgrees
<1>2. StatusInv => StatusAgrees
  BY DEF StatusInv
<1> QED
  BY <1>1, <1>2, StatusStep, PTL DEF HdmaSpec

\* A multiple of a page is not inside a page.
LEMMA WithinPage ==
    ASSUME NEW p \in Nat \ {0}, NEW k \in Nat, NEW low \in 0 .. p - 1, NEW v \in Nat, v % p = 0
    PROVE  /\ k * p < v => k * p + low < v
           /\ k * p >= v => k * p + low >= v
<1> DEFINE q == v \div p
<1>1. q \in Nat /\ v = q * p
  BY SMT
<1> HIDE DEF q
<1>2. CASE k < q
  <2>1. (k + 1) * p <= q * p /\ (k + 1) * p = k * p + p
    BY <1>1, <1>2, SMT
  <2> QED
    BY <1>1, <2>1, SMT
<1>3. CASE k >= q
  <2>1. k * p >= q * p /\ k * p \in Nat
    BY <1>1, <1>3, SMT
  <2> QED
    BY <1>1, <2>1, SMT
<1> QED
  BY <1>1, <1>2, <1>3, SMT

\* What is a number of pages and less than another is a page less.
LEMMA RemainderOfPages ==
    ASSUME NEW p \in Nat \ {0}, NEW k \in Nat, NEW v \in Nat \ {0}, v % p = 0
    PROVE  (k * p) % v = (((k * p) % v) \div p) * p
<1> DEFINE q == v \div p
           r == k % q
<1>1. q \in Nat /\ v = q * p
  BY SMT
<1>2. q # 0
  BY <1>1, SMT
<1>3. k = (k \div q) * q + r /\ r \in 0 .. q - 1 /\ k \div q \in Nat
  BY <1>1, <1>2, Remainder
<1> DEFINE m == k \div q
<1> HIDE DEF q, r, m
<1>4. k * p = m * v + r * p
  BY <1>1, <1>3, SMTT(40) DEF m
<1>5. r * p \in Nat /\ r * p < v
  <2>1. (r + 1) * p <= q * p /\ (r + 1) * p = r * p + p /\ r * p \in Nat
    BY <1>1, <1>3, SMT
  <2> QED
    BY <1>1, <2>1
<1>6. (k * p) % v = r * p
  <2>1. m \in Nat /\ r * p \in 0 .. v - 1
    BY <1>3, <1>5 DEF m
  <2>2. \A x \in 0 .. v - 1 : (m * v + x) % v = x
    BY <2>1, RemainderUnique
  <2> QED
    BY <1>4, <2>1, <2>2, Zenon
<1>7. (r * p) \div p = r
  BY <1>3, SMT
<1> QED
  BY <1>6, <1>7

\* The facts of HdmaAssumption that do not talk of remainders.
LEMMA Sizes ==
    /\ VramStart \in Nat \ {0} /\ VramSize \in Nat \ {0} /\ Page \in Nat \ {0}
    /\ MaxBlocks \in Nat \ {0} /\ Page <= VramSize /\ VramSize < VramStart
    /\ Space = 2 * VramStart /\ VramEnd = VramStart + VramSize
    /\ Space \in Nat \ {0} /\ VramEnd \in Nat /\ VramEnd <= Space
BY HdmaAssumption DEF Space, VramEnd

\* VRAM and the address space begin and end where a page does.
LEMMA Aligned ==
    VramStart % Page = 0 /\ VramSize % Page = 0 /\ VramEnd % Page = 0 /\ Space % Page = 0
<1> DEFINE a == VramStart \div Page
           b == VramSize \div Page
<1>1. a \in Nat /\ b \in Nat /\ VramStart = a * Page /\ VramSize = b * Page
  BY Sizes, HdmaAssumption
<1> HIDE DEF a, b
<1>2. VramEnd = (a + b) * Page /\ Space = (2 * a) * Page
  BY <1>1, Sizes
<1>3. \A m \in Nat : (m * Page) % Page = 0
  <2> SUFFICES ASSUME NEW m \in Nat PROVE (m * Page) % Page = 0
    OBVIOUS
  <2>1. (m * Page + 0) % Page = 0
    BY Sizes, RemainderUnique
  <2> QED
    BY <2>1, Sizes
<1>4. VramEnd % Page = 0 /\ Space % Page = 0
  <2>1. a + b \in Nat /\ 2 * a \in Nat
    BY <1>1
  <2> QED
    BY <1>2, <1>3, <2>1, Zenon
<1> QED
  BY <1>4, HdmaAssumption

\* The addresses of a page are all in VRAM or none is.
LEMMA SamePage ==
    ASSUME NEW k \in Nat, NEW low \in 0 .. Page - 1
    PROVE  /\ k * Page + low \in Nat
           /\ k * Page + low \in Vram <=> k * Page \in Vram
           /\ k * Page + low < Space <=> k * Page < Space
<1>1. k * Page \in Nat /\ k * Page + low \in Nat
  BY Sizes
<1>2. \A v \in {VramStart, VramEnd, Space} : k * Page + low < v <=> k * Page < v
  <2> SUFFICES ASSUME NEW v \in {VramStart, VramEnd, Space} PROVE k * Page + low < v <=> k * Page < v
    OBVIOUS
  <2>1. v \in Nat /\ v % Page = 0
    BY Sizes, Aligned
  <2>2. (k * Page < v => k * Page + low < v) /\ (k * Page >= v => k * Page + low >= v)
    BY <2>1, Sizes, WithinPage
  <2> QED
    BY <1>1, <2>1, <2>2
<1> QED
  BY <1>1, <1>2, Sizes DEF Vram

\* An address is its page and its place there.
LEMMA Paged ==
    ASSUME NEW a \in Addresses
    PROVE  /\ a \div Page \in Nat /\ a % Page \in 0 .. Page - 1
           /\ a = (a \div Page) * Page + (a % Page)
<1>1. a \in Nat /\ Page \in Nat \ {0}
  BY Sizes DEF Addresses
<1> QED
  BY <1>1, Remainder, Zenon

\* The lines of VRAM are named by what is left of an address.
LEMMA OffsetInVram ==
    ASSUME NEW d \in Vram
    PROVE  Offset(d) = d - VramStart
<1> DEFINE m == VramStart \div VramSize
<1>1. m \in Nat /\ VramStart = m * VramSize
  BY Sizes, HdmaAssumption
<1> HIDE DEF m
<1>2. d - VramStart \in 0 .. VramSize - 1 /\ d = m * VramSize + (d - VramStart)
  BY <1>1, Sizes DEF Vram
<1>3. \A r \in 0 .. VramSize - 1 : (m * VramSize + r) % VramSize = r
  BY <1>1, Sizes, RemainderUnique
<1>4. (m * VramSize + (d - VramStart)) % VramSize = d - VramStart
  BY <1>2, <1>3
<1> QED
  BY <1>2, <1>4 DEF Offset

\* What HDMA1 to HDMA4 make of the addresses.
LEMMA SourcePage ==
    ASSUME hdma_source \in Addresses, NEW p \in Pages
    PROVE  LET s == (IF p * Page \in Vram THEN 0 ELSE p * Page) + (hdma_source % Page)
           IN  s \in Addresses \ Vram
<1> DEFINE low == hdma_source % Page
<1>1. low \in 0 .. Page - 1
  BY Paged
<1>2. p \in Nat /\ p * Page < Space /\ p * Page \in Nat
  <2>1. p \in Nat /\ p <= (Space \div Page) - 1
    BY Sizes DEF Pages
  <2>2. Space = (Space \div Page) * Page + (Space % Page) /\ Space \div Page \in Nat
    BY Sizes, Remainder
  <2> DEFINE q == Space \div Page
  <2> HIDE DEF q
  <2>3. Space = q * Page /\ q \in Nat /\ p < q
    BY <2>1, <2>2, Aligned, Sizes DEF q
  <2>4. p * Page + Page <= q * Page /\ p * Page \in Nat
    BY <2>1, <2>3, Sizes
  <2> QED
    BY <2>1, <2>3, <2>4, Sizes
<1> HIDE DEF low
<1>3. CASE p * Page \in Vram
  <2>1. low < VramStart /\ low \in Nat
    BY <1>1, Sizes
  <2>2. 0 + low \in Addresses \ Vram
    BY <2>1, Sizes DEF Addresses, Vram
  <2> QED
    BY <1>3, <2>2 DEF low
<1>4. CASE p * Page \notin Vram
  <2>1. p * Page + low \in Addresses \ Vram
    BY <1>1, <1>2, <1>4, SamePage, Sizes DEF Addresses
  <2> QED
    BY <1>4, <2>1 DEF low
<1> QED
  BY <1>3, <1>4

LEMMA SourceLow ==
    ASSUME hdma_source \in Addresses, NEW l \in 0 .. Page - 1
    PROVE  LET s == (hdma_source \div Page) * Page + l
           IN  s \in Addresses /\ (hdma_source \notin Vram => s \notin Vram)
<1> DEFINE k == hdma_source \div Page
           r == hdma_source % Page
<1>1. k \in Nat /\ r \in 0 .. Page - 1 /\ hdma_source = k * Page + r
  BY Paged
<1> HIDE DEF k, r
<1>2. k * Page + l \in Addresses /\ (hdma_source \notin Vram => k * Page + l \notin Vram)
  BY <1>1, SamePage, Sizes DEF Addresses
<1> QED
  BY <1>2 DEF k

LEMMA DestPage ==
    ASSUME hdma_dest \in Addresses, NEW p \in Pages
    PROVE  VramStart + Offset(p * Page) + (hdma_dest % Page) \in Vram
<1> DEFINE low == hdma_dest % Page
           o == Offset(p * Page)
           j == o \div Page
<1>1. low \in 0 .. Page - 1 /\ p \in Nat
  BY Paged, Sizes DEF Pages
<1>2. o \in 0 .. VramSize - 1
  <2>1. p * Page \in Nat
    BY <1>1, Sizes
  <2> QED
    BY <2>1, Sizes, Remainder DEF Offset
<1>3. o = j * Page
  BY <1>1, Sizes, Aligned, RemainderOfPages, ZenonT(40) DEF Offset
<1>4. j \in Nat
  BY <1>2, Sizes, Remainder
<1> HIDE DEF low, o, j
<1>5. j * Page + low < VramSize
  <2>1. j * Page < VramSize
    BY <1>2, <1>3, Sizes
  <2>2. VramSize \in Nat /\ Page \in Nat \ {0} /\ VramSize % Page = 0
    BY Sizes, Aligned
  <2> QED
    BY <1>1, <1>4, <2>1, <2>2, WithinPage
<1>6. VramStart + o + low \in Vram
  BY <1>1, <1>2, <1>3, <1>5, Sizes DEF Vram
<1> QED
  BY <1>6 DEF low, o

LEMMA DestLow ==
    ASSUME hdma_dest \in Addresses, NEW l \in 0 .. Page - 1
    PROVE  VramStart + (Offset(hdma_dest) \div Page) * Page + l \in Vram
<1> DEFINE o == Offset(hdma_dest)
           k == o \div Page
           r == o % Page
<1>1. o \in 0 .. VramSize - 1
  BY Sizes, Remainder DEF Offset, Addresses
<1>2. k \in Nat /\ r \in 0 .. Page - 1 /\ o = k * Page + r
  <2>1. o \in Nat /\ Page \in Nat \ {0}
    BY <1>1, Sizes
  <2> QED
    BY <2>1, Remainder, Zenon
<1> HIDE DEF o, k, r
<1>3. k * Page \in Nat /\ k * Page < VramSize
  BY <1>1, <1>2, Sizes
<1>4. k * Page + l < VramSize
  BY <1>2, <1>3, Sizes, Aligned, WithinPage
<1>5. VramStart + k * Page + l \in Vram
  BY <1>3, <1>4, Sizes DEF Vram
<1> QED
  BY <1>5 DEF k, o

-----------------------------------------------------------------------------
(* Copying blocks                                                          *)

\* Where the next block comes from and where it goes.
NextSource == IF hdma_source + 1 = VramStart THEN VramEnd ELSE (hdma_source + 1) % Space
NextDest == IF hdma_dest + 1 = VramEnd THEN VramStart ELSE (hdma_dest + 1) % Space

LEMMA NextPlaces ==
    ASSUME hdma_source \in Addresses \ Vram, hdma_dest \in Vram
    PROVE  /\ NextSource \in Addresses \ Vram /\ NextDest \in Vram
           /\ Offset(NextDest) = (Offset(hdma_dest) + 1) % VramSize
           /\ Offset(hdma_dest) = hdma_dest - VramStart
           /\ Offset(hdma_dest) \in 0 .. VramSize - 1
<1>1. \A n \in 0 .. Space - 1 : n % Space = n
  BY Sizes
<1>2. Space % Space = 0
  BY Sizes
<1>3. NextSource \in Addresses \ Vram
  <2>1. CASE hdma_source + 1 = VramStart
    BY <2>1, Sizes DEF NextSource, Addresses, Vram
  <2>2. CASE hdma_source + 1 = Space
    BY <1>2, <2>2, Sizes DEF NextSource, Addresses, Vram
  <2>3. CASE hdma_source + 1 # VramStart /\ hdma_source + 1 # Space
    <3>1. hdma_source + 1 \in 0 .. Space - 1 /\ hdma_source + 1 \notin Vram
      BY <2>3, Sizes DEF Addresses, Vram
    <3> QED
      BY <1>1, <2>3, <3>1 DEF NextSource, Addresses
  <2> QED
    BY <2>1, <2>2, <2>3
<1>4. Offset(hdma_dest) = hdma_dest - VramStart /\ Offset(hdma_dest) \in 0 .. VramSize - 1
  BY OffsetInVram, Sizes DEF Vram
<1>5. CASE hdma_dest + 1 = VramEnd
  <2>1. NextDest = VramStart /\ VramStart \in Vram
    BY <1>5, Sizes DEF NextDest, Vram
  <2>2. Offset(VramStart) = 0 /\ Offset(hdma_dest) + 1 = VramSize
    BY <1>4, <1>5, <2>1, OffsetInVram, Sizes
  <2>3. VramSize % VramSize = 0
    BY Sizes
  <2> QED
    BY <1>3, <1>4, <2>1, <2>2, <2>3
<1>6. CASE hdma_dest + 1 # VramEnd
  <2>1. hdma_dest + 1 \in Vram /\ hdma_dest + 1 \in 0 .. Space - 1
    BY <1>6, Sizes DEF Vram
  <2>2. NextDest = hdma_dest + 1
    BY <1>1, <1>6, <2>1 DEF NextDest
  <2>3. Offset(NextDest) = Offset(hdma_dest) + 1 /\ Offset(hdma_dest) + 1 \in 0 .. VramSize - 1
    BY <1>4, <2>1, <2>2, OffsetInVram, Sizes DEF Vram
  <2>4. \A n \in 0 .. VramSize - 1 : n % VramSize = n
    BY Sizes
  <2> QED
    BY <1>3, <1>4, <2>1, <2>2, <2>3, <2>4
<1> QED
  BY <1>5, <1>6

\* One block, to where it belongs.
LEMMA PerformPlaces ==
    ASSUME NEW n, NEW m, perform_hdma(n, m), hdma_source \in Addresses \ Vram, hdma_dest \in Vram
    PROVE  /\ hdma_source' \in Addresses \ Vram /\ hdma_dest' \in Vram
           /\ moved' = {<<hdma_source, hdma_dest>>}
           /\ hdma_source' = NextSource /\ hdma_dest' = NextDest
<1>1. hdma_source' = NextSource /\ hdma_dest' = NextDest
  BY DEF perform_hdma, NextSource, NextDest
<1>2. ~(hdma_dest < VramStart)
  BY Sizes DEF Vram
<1>3. moved' = {<<hdma_source, hdma_dest>>}
  BY <1>2 DEF perform_hdma
<1> QED
  BY <1>1, <1>3, NextPlaces

\* The invariant: a running transfer has both ends where they belong.
TransferInv ==
    /\ hdma_source \in Addresses /\ hdma_dest \in Addresses
    /\ StatusInv
    /\ hdma_in_progress => hdma_source \notin Vram /\ hdma_dest \in Vram
    /\ moved \subseteq (Addresses \ Vram) \X Vram

LEMMA VramAddresses == Vram \subseteq Addresses
BY Sizes DEF Vram, Addresses

\* All blocks at once.
LEMMA GdmaPlaces ==
    ASSUME hdma_source \in Addresses, hdma_dest \in Addresses, NEW n \in Lengths,
           FitsSource(n), Offset(hdma_dest) + n < VramSize, perform_gdma(n + 1, n)
    PROVE  /\ hdma_source' \in Addresses /\ hdma_dest' \in Addresses
           /\ moved' = {<<hdma_source + i, VramStart + Offset(hdma_dest) + i>> : i \in 0 .. n}
           /\ moved' \subseteq (Addresses \ Vram) \X Vram
           /\ Offset(hdma_dest) \in 0 .. VramSize - 1 /\ Offset(hdma_dest') \in 0 .. VramSize - 1
<1>1. n \in Nat /\ (n + 1) - 1 = n /\ hdma_source \in Nat /\ hdma_dest \in Nat
  BY Sizes DEF Lengths, Addresses
<1>2. \A m \in Nat : m % Space \in Addresses /\ Offset(m) \in 0 .. VramSize - 1
  BY Sizes, Remainder DEF Addresses, Offset
<1>3. hdma_source' \in Addresses /\ hdma_dest' \in Addresses
  BY <1>1, <1>2 DEF perform_gdma
<1>4. \A i \in 0 .. n : hdma_source + i \in Addresses \ Vram /\ (hdma_source + i) % Space = hdma_source + i
  BY Sizes DEF FitsSource, Addresses
<1>5. \A i \in 0 .. n : VramStart + Offset(hdma_dest) + i \in Vram
  <2> DEFINE o == Offset(hdma_dest)
  <2>1. o \in 0 .. VramSize - 1 /\ o + n < VramSize
    BY <1>1, <1>2
  <2> HIDE DEF o
  <2>2. \A i \in 0 .. n : VramStart + o + i \in Vram
    BY <1>1, <2>1, Sizes DEF Vram
  <2> QED
    BY <2>2 DEF o
<1>6. moved' = {<<(hdma_source + i) % Space, VramStart + Offset(hdma_dest) + i>> : i \in 0 .. n}
  BY <1>1 DEF perform_gdma
<1>7. moved' = {<<hdma_source + i, VramStart + Offset(hdma_dest) + i>> : i \in 0 .. n}
  BY <1>4, <1>6
<1>8. moved' \subseteq (Addresses \ Vram) \X Vram
  BY <1>4, <1>5, <1>7
<1> QED
  BY <1>1, <1>2, <1>3, <1>7, <1>8, Sizes DEF Addresses

LEMMA TransferStep ==
    TransferInv /\ [TidyNext]_hdmaVars => TransferInv' /\ [Transfer!Next]_(Transfer!vars)
<1>0. ASSUME TransferInv, UNCHANGED hdmaVars PROVE TransferInv' /\ UNCHANGED Transfer!vars
  BY <1>0 DEF hdmaVars, TransferInv, StatusInv, StatusAgrees, Transfer!vars, Offset
<1> SUFFICES ASSUME TransferInv, TidyNext
             PROVE  TransferInv' /\ [Transfer!Next]_(Transfer!vars)
  BY <1>0
<1> DEFINE blocks == {<<m[1], m[2] - VramStart>> : m \in moved}
           left == HDMA5 + 1
<1>1. StatusInv'
  BY StatusStep DEF TransferInv, TidyNext
<1>2. /\ HDMA5 \in -1 .. MaxBlocks - 1 /\ hdma_in_progress \in BOOLEAN
      /\ hdma_in_progress => HDMA5 # -1 /\ hdma_bytes = HDMA5 + 1
      /\ ~hdma_in_progress => HDMA5 = -1
  BY DEF TransferInv, StatusInv, StatusAgrees
<1>3. \A m \in Nat : Offset(m) \in 0 .. VramSize - 1
  BY Sizes, Remainder DEF Offset
<1>4. Transfer!Space = Addresses /\ Transfer!Outside = Addresses \ Vram /\ Transfer!Targets = 0 .. VramSize - 1
  <2>1. Transfer!Space = Addresses
    BY DEF Transfer!Space, Addresses, Space
  <2>2. Vram = VramStart .. VramStart + VramSize - 1
    <3>1. VramEnd - 1 = VramStart + VramSize - 1
      BY Sizes DEF VramEnd
    <3> QED
      BY <3>1, Zenon DEF Vram
  <2>3. Transfer!Outside = Transfer!Space \ (VramStart .. VramStart + VramSize - 1)
    BY Zenon DEF Transfer!Outside
  <2>4. Transfer!Targets = 0 .. VramSize - 1
    BY Zenon DEF Transfer!Targets
  <2> QED
    BY <2>1, <2>2, <2>3, <2>4, Zenon
\* The ends are moved.
<1>5. ASSUME hdma_source' \in Addresses, hdma_dest' \in Addresses,
             hdma_source \notin Vram => hdma_source' \notin Vram,
             hdma_dest \in Vram => hdma_dest' \in Vram,
             moved' = {}, UNCHANGED control
      PROVE  TransferInv' /\ [Transfer!Next]_(Transfer!vars)
  <2>1. TransferInv'
    BY <1>1, <1>5 DEF TransferInv, control
  <2>2. blocks' = {} /\ left' = left
    BY <1>5 DEF control
  <2>3. Offset(hdma_dest)' \in 0 .. VramSize - 1
    BY <1>3, <1>5 DEF Addresses, Offset
  <2>4. Transfer!Aim
    BY <1>4, <1>5, <2>2, <2>3 DEF Transfer!Aim
  <2> QED
    BY <2>1, <2>4 DEF Transfer!Next
\* One block is copied, of n + 1 that are left.
<1>6. ASSUME NEW n \in Lengths, perform_hdma(n + 1, n), hdma_source \in Addresses \ Vram, hdma_dest \in Vram
      PROVE  TransferInv' /\ Transfer!Copy(n + 1)
  <2>1. /\ hdma_source' \in Addresses \ Vram /\ hdma_dest' \in Vram
        /\ moved' = {<<hdma_source, hdma_dest>>}
        /\ hdma_source' = NextSource /\ hdma_dest' = NextDest
    BY <1>6, PerformPlaces
  <2>2. TransferInv'
    BY <1>1, <1>6, <2>1, VramAddresses DEF TransferInv
  <2>3. blocks' = {<<hdma_source, Offset(hdma_dest)>>}
    BY <1>6, <2>1, NextPlaces
  <2>4. Offset(hdma_dest)' = (Offset(hdma_dest) + 1) % VramSize
    BY <1>6, <2>1, NextPlaces DEF Offset
  <2>5. left' = (n + 1) - 1 /\ n + 1 > 0
    BY <1>6, Sizes DEF perform_hdma, Lengths
  <2>6. hdma_source' = IF hdma_source + 1 = VramStart THEN VramStart + VramSize
                       ELSE (hdma_source + 1) % (2 * VramStart)
    BY <2>1 DEF NextSource, VramEnd, Space
  <2>7. Transfer!Copy(n + 1)
    BY <1>4, <1>6, <2>3, <2>4, <2>5, <2>6 DEF Transfer!Copy
  <2> QED
    BY <2>2, <2>7
\* Nothing moves but the count.
<1>7. ASSUME moved' = {}, UNCHANGED <<hdma_source, hdma_dest>>,
             hdma_in_progress' => hdma_source \notin Vram /\ hdma_dest \in Vram
      PROVE  TransferInv' /\ blocks' = {} /\ UNCHANGED <<hdma_source, Offset(hdma_dest)>>
  BY <1>1, <1>7 DEF TransferInv, Offset
<1>8. ASSUME NEW p \in Pages, WriteHDMA1(p) \/ WriteHDMA3(p)
      PROVE  TransferInv' /\ [Transfer!Next]_(Transfer!vars)
  <2>1. CASE WriteHDMA1(p)
    BY <1>5, <2>1, SourcePage DEF WriteHDMA1, TransferInv
  <2>2. CASE WriteHDMA3(p)
    BY <1>5, <2>2, DestPage, VramAddresses DEF WriteHDMA3, TransferInv
  <2> QED
    BY <1>8, <2>1, <2>2
<1>9. ASSUME NEW l \in 0 .. Page - 1, WriteHDMA2(l) \/ WriteHDMA4(l)
      PROVE  TransferInv' /\ [Transfer!Next]_(Transfer!vars)
  <2>1. CASE WriteHDMA2(l)
    BY <1>5, <2>1, SourceLow DEF WriteHDMA2, TransferInv
  <2>2. CASE WriteHDMA4(l)
    BY <1>5, <2>2, DestLow, VramAddresses DEF WriteHDMA4, TransferInv
  <2> QED
    BY <1>9, <2>1, <2>2
<1>10. ASSUME NEW n \in Lengths, NEW hblank \in BOOLEAN, WriteHDMA5On(n, hblank)
       PROVE  TransferInv' /\ [Transfer!Next]_(Transfer!vars)
  <2>1. hdma_source \in Addresses \ Vram /\ hdma_dest \in Vram
    BY <1>2, <1>10 DEF TransferInv, TidyNext
  <2>2. n + 1 \in 1 .. MaxBlocks
    BY Sizes DEF Lengths
  <2>3. CASE ~hdma_in_progress /\ hblank
    <3>1. perform_hdma(n + 1, n)
      BY <1>10, <2>3 DEF WriteHDMA5On
    <3>2. left = 0
      BY <1>2, <2>3
    <3>3. TransferInv' /\ Transfer!Copy(n + 1)
      BY <1>6, <2>1, <3>1
    <3> QED
      BY <2>2, <3>2, <3>3 DEF Transfer!Next, Transfer!BeginAndCopy
  <2>4. CASE ~(~hdma_in_progress /\ hblank)
    <3>1. /\ hdma_in_progress' = TRUE /\ hdma_bytes' = n + 1 /\ HDMA5' = n
          /\ moved' = {} /\ UNCHANGED <<hdma_source, hdma_dest>>
      BY <1>10, <2>4 DEF WriteHDMA5On
    <3>2. TransferInv' /\ blocks' = {} /\ UNCHANGED <<hdma_source, Offset(hdma_dest)>>
      BY <1>7, <2>1, <3>1
    <3>3. left' \in 1 .. MaxBlocks
      BY <2>2, <3>1
    <3> QED
      BY <3>2, <3>3 DEF Transfer!Next, Transfer!Begin
  <2> QED
    BY <2>3, <2>4
<1>11. ASSUME NEW n \in Lengths, WriteHDMA5Off(n)
       PROVE  TransferInv' /\ [Transfer!Next]_(Transfer!vars)
  <2>1. CASE hdma_in_progress
    <3>1. /\ hdma_in_progress' = FALSE /\ HDMA5' = -1 /\ moved' = {}
          /\ UNCHANGED <<hdma_source, hdma_dest>>
      BY <1>11, <2>1 DEF WriteHDMA5Off
    <3>2. TransferInv' /\ blocks' = {} /\ UNCHANGED <<hdma_source, Offset(hdma_dest)>>
      BY <1>7, <3>1
    <3>3. left > 0 /\ left' = 0
      BY <1>2, <2>1, <3>1, Sizes
    <3> QED
      BY <3>2, <3>3 DEF Transfer!Next, Transfer!Stop
  <2>2. CASE ~hdma_in_progress
    <3>1. perform_gdma(n + 1, n) /\ FitsSource(n) /\ Offset(hdma_dest) + n < VramSize
      BY <1>11, <2>2 DEF WriteHDMA5Off, TidyNext
    <3>2. /\ hdma_source' \in Addresses /\ hdma_dest' \in Addresses
          /\ moved' = {<<hdma_source + i, VramStart + Offset(hdma_dest) + i>> : i \in 0 .. n}
          /\ moved' \subseteq (Addresses \ Vram) \X Vram
          /\ Offset(hdma_dest) \in 0 .. VramSize - 1 /\ Offset(hdma_dest') \in 0 .. VramSize - 1
      BY <3>1, GdmaPlaces DEF TransferInv
    <3>3. hdma_in_progress' = FALSE /\ left = 0 /\ left' = 0
      BY <1>2, <2>2, <3>1 DEF perform_gdma
    <3>4. TransferInv'
      BY <1>1, <3>2, <3>3 DEF TransferInv
    <3>5. blocks' = {<<hdma_source + i, Offset(hdma_dest) + i>> : i \in 0 .. (n + 1) - 1}
      <4>1. n \in Nat /\ (n + 1) - 1 = n
        BY Sizes DEF Lengths
      <4>2. \A i \in 0 .. n : (VramStart + Offset(hdma_dest) + i) - VramStart = Offset(hdma_dest) + i
        BY <3>2, <4>1, Sizes
      <4> DEFINE pair(i) == <<hdma_source + i, VramStart + Offset(hdma_dest) + i>>
      <4>3. moved' = {pair(i) : i \in 0 .. n}
        BY <3>2
      <4>4. blocks' = {<<pair(i)[1], pair(i)[2] - VramStart>> : i \in 0 .. n}
        <5> HIDE DEF pair
        <5> QED
          BY <4>3
      <4> QED
        BY <4>1, <4>2, <4>4
    <3>6. n + 1 \in 1 .. MaxBlocks /\ Offset(hdma_dest) + (n + 1) <= VramSize
      BY <3>1, <3>2, Sizes DEF Lengths
    <3>7. \A i \in 0 .. (n + 1) - 1 : hdma_source + i \in Transfer!Outside
      BY <1>4, <3>1, Sizes DEF FitsSource, Lengths
    <3>8. hdma_source' \in Transfer!Space /\ Offset(hdma_dest)' \in Transfer!Targets
      BY <1>4, <3>2 DEF Offset
    <3>9. Transfer!CopyAll
      BY <3>3, <3>5, <3>6, <3>7, <3>8 DEF Transfer!CopyAll
    <3> QED
      BY <3>4, <3>9 DEF Transfer!Next
  <2> QED
    BY <1>2, <2>1, <2>2
<1>12. CASE Hblank
  <2>1. HDMA5 \in Lengths /\ perform_hdma(HDMA5 + 1, HDMA5)
    BY <1>2, <1>12, Sizes DEF Hblank, Lengths
  <2>2. hdma_source \in Addresses \ Vram /\ hdma_dest \in Vram
    BY <1>12 DEF Hblank, TransferInv
  <2>3. PICK n \in Lengths : n = HDMA5
    BY <2>1
  <2>4. perform_hdma(n + 1, n)
    BY <2>1, <2>3, Zenon
  <2>5. TransferInv' /\ Transfer!Copy(n + 1)
    BY <1>6, <2>2, <2>4, Zenon
  <2>6. Transfer!Copy(HDMA5 + 1)
    <3>1. n + 1 = HDMA5 + 1
      BY <2>3
    <3> QED
      BY <2>5, <3>1, Zenon DEF Transfer!Copy
  <2> QED
    BY <2>5, <2>6, Zenon DEF Transfer!Next
<1> QED
  BY <1>8, <1>9, <1>10, <1>11, <1>12 DEF TidyNext, HdmaNext, Game

\* For games that ask for what fits, and whatever they write to the registers while a
\* transfer runs: every block is copied once and in order, into VRAM and from outside
\* it, and HDMA5 counts down what is left.
THEOREM TransfersAreExact == TidySpec => TransferExact
<1>1. HdmaInit => TransferInv /\ Transfer!Init
  <2> SUFFICES ASSUME HdmaInit PROVE TransferInv /\ Transfer!Init
    OBVIOUS
  <2>1. 0 \in Addresses /\ 0 % VramSize \in 0 .. VramSize - 1
    BY Sizes DEF Addresses
  <2>2. StatusInv
    <3>1. -1 \in -1 .. MaxBlocks - 1 /\ 0 \in 0 .. MaxBlocks
      BY Sizes
    <3> QED
      BY <3>1, Zenon DEF HdmaInit, StatusInv, StatusAgrees
  <2>3. Transfer!Init
    BY <2>1 DEF HdmaInit, Offset, Transfer!Init, Transfer!Space, Transfer!Targets, Addresses, Space
  <2> QED
    BY <2>1, <2>2, <2>3 DEF HdmaInit, TransferInv
<1>2. TransferInv => HdmaTypeOK /\ StatusAgrees /\ StaysInVram
  <2> SUFFICES ASSUME TransferInv PROVE HdmaTypeOK /\ StatusAgrees /\ StaysInVram
    OBVIOUS
  <2>1. Vram \subseteq 0 .. Space + MaxBlocks
    BY Sizes DEF Vram
  <2>2. moved \subseteq Addresses \X (0 .. Space + MaxBlocks)
    BY <2>1 DEF TransferInv
  <2> QED
    BY <2>2 DEF TransferInv, StatusInv, HdmaTypeOK, StaysInVram
<1> QED
  BY <1>1, <1>2, TransferStep, PTL DEF TidySpec, TransferExact, TransferSpec, Transfer!Spec

-----------------------------------------------------------------------------
(* The joypad                                                              *)

Spots == DOMAIN Places \cup {Up}
KeyEvents == [type : {"key"}, key : Keys, state : BOOLEAN]
FingerEvents == [type : {"finger"}, at : Spots, state : BOOLEAN]
MotionEvents == [type : {"motion"}, from : Spots, to : Spots]
Events == KeyEvents \cup FingerEvents \cup MotionEvents \cup [type : {"quit"}]

\* What an event makes of the pressed buttons.
Effect(e, p) ==
    IF e.type = "key"
    THEN IF e.state THEN p \cup ({e.key} \cap Buttons) ELSE p \ ({e.key} \cap Buttons)
    ELSE IF e.type = "finger" THEN IF e.state THEN p \cup On(e.at) ELSE p \ On(e.at)
    ELSE IF e.type = "motion"
    THEN (p \ (On(e.from) \ On(e.to))) \cup (On(e.to) \ On(e.from))
    ELSE p

\* The pressed buttons now and after each of the events that wait, of which the last
\* are the held ones.
Leads(course) ==
    /\ DOMAIN course = 1 .. Len(events) + 1
    /\ course[1] = pressed /\ course[Len(events) + 1] = HeldButtons
    /\ \A i \in 1 .. Len(events) : course[i + 1] = Effect(events[i], course[i])

JoypadInv ==
    /\ ready \in BOOLEAN /\ fresh \in BOOLEAN
    /\ held \subseteq Keys /\ fingers \in [Fingers -> Spots] /\ OneSource(held, fingers)
    /\ events \in Seq(Events)
    /\ \E course : Leads(course)
    /\ P1 \in [bit5 : BOOLEAN, bit4 : BOOLEAN, keys : SUBSET Buttons]
    /\ fresh => P1.keys = pressed \cap Group(P1.bit5, P1.bit4)
    /\ ~ready => held = {} /\ fingers = [f \in Fingers |-> Up] /\ events = <<>> /\ ~fresh

\* Posting an event that has the effect the player's move has on the held buttons.
LEMMA PostStep ==
    ASSUME NEW course, Leads(course), events \in Seq(Events), NEW e \in Events,
           events' = Append(events, e), pressed' = pressed,
           HeldButtons' = Effect(e, HeldButtons)
    PROVE  (\E c : Leads(c))' /\ events' \in Seq(Events)
<1> DEFINE n == Len(events)
           c == [i \in 1 .. n + 2 |-> IF i <= n + 1 THEN course[i] ELSE HeldButtons']
<1>1. n \in Nat /\ events' \in Seq(Events) /\ Len(events') = n + 1
  BY AppendProperties, LenProperties
<1>2. events'[n + 1] = e /\ \A i \in 1 .. n : events'[i] = events[i]
  BY AppendProperties
<1>3. c[1] = course[1] /\ c[n + 2] = HeldButtons' /\ \A i \in 1 .. n + 1 : c[i] = course[i]
  BY <1>1
<1>4. ASSUME NEW i \in 1 .. n + 1 PROVE c[i + 1] = Effect(events'[i], c[i])
  <2>1. CASE i = n + 1
    <3>1. c[i + 1] = HeldButtons' /\ c[i] = HeldButtons
      BY <1>1, <1>3, <2>1 DEF Leads
    <3> QED
      BY <1>2, <2>1, <3>1
  <2>2. CASE i \in 1 .. n
    <3>1. i + 1 \in 1 .. n + 1 /\ i \in 1 .. n + 1
      BY <1>1, <2>2
    <3>2. c[i + 1] = course[i + 1] /\ c[i] = course[i] /\ events'[i] = events[i]
      BY <1>2, <1>3, <2>2, <3>1
    <3> QED
      BY <2>2, <3>2 DEF Leads
  <2> QED
    BY <1>1, <2>1, <2>2
<1>5. DOMAIN c = 1 .. Len(events') + 1
  BY <1>1
<1> HIDE DEF c, n
<1>6. /\ DOMAIN c = 1 .. Len(events') + 1 /\ c[1] = pressed' /\ c[Len(events') + 1] = HeldButtons'
      /\ \A i \in 1 .. Len(events') : c[i + 1] = Effect(events'[i], c[i])
  BY <1>1, <1>3, <1>4, <1>5 DEF Leads
<1>7. PICK d : d = c
  OBVIOUS
<1>8. Leads(d)'
  BY <1>6, <1>7 DEF Leads, Effect
<1> QED
  BY <1>1, <1>8

\* Taking the first event goes one step along the course.
LEMMA TakeStep ==
    ASSUME NEW course, Leads(course), events \in Seq(Events), events # <<>>,
           events' = Tail(events), pressed' = Effect(Head(events), pressed),
           HeldButtons' = HeldButtons
    PROVE  (\E c : Leads(c))' /\ events' \in Seq(Events)
<1> DEFINE n == Len(events)
           c == [i \in 1 .. n |-> course[i + 1]]
<1>1. n \in Nat \ {0} /\ events' \in Seq(Events) /\ Len(events') = n - 1
  BY HeadTailProperties, EmptySeq, LenProperties
<1>2. Head(events) = events[1] /\ \A i \in 1 .. n - 1 : events'[i] = events[i + 1]
  BY HeadTailProperties
<1>3. c[1] = course[2] /\ c[n] = course[n + 1]
  BY <1>1
<1>4. course[2] = Effect(events[1], course[1])
  BY <1>1 DEF Leads
<1>5. ASSUME NEW i \in 1 .. n - 1 PROVE c[i + 1] = Effect(events'[i], c[i])
  <2>1. i \in 1 .. n /\ i + 1 \in 1 .. n
    BY <1>1
  <2>2. c[i + 1] = course[(i + 1) + 1] /\ c[i] = course[i + 1] /\ events'[i] = events[i + 1]
    BY <1>2, <2>1
  <2> QED
    BY <2>1, <2>2 DEF Leads
<1>6. DOMAIN c = 1 .. Len(events') + 1 /\ Len(events') + 1 = n
  BY <1>1
<1> HIDE DEF c, n
<1>7. /\ c[1] = pressed' /\ c[Len(events') + 1] = HeldButtons'
      /\ \A i \in 1 .. Len(events') : c[i + 1] = Effect(events'[i], c[i])
  BY <1>1, <1>2, <1>3, <1>4, <1>5, <1>6 DEF Leads, n
<1>8. PICK d : d = c
  OBVIOUS
<1>9. Leads(d)'
  BY <1>6, <1>7, <1>8 DEF Leads, Effect
<1> QED
  BY <1>1, <1>9

\* A finger that moves takes its buttons along: no other finger nor key is on them.
LEMMA FingerMoves ==
    ASSUME NEW f \in Fingers, NEW to \in Spots, fingers \in [Fingers -> Spots],
           OneSource(held, fingers), OneSource(held', fingers'),
           held' = held, fingers' = [fingers EXCEPT ![f] = to]
    PROVE  HeldButtons' = (HeldButtons \ (On(fingers[f]) \ On(to))) \cup (On(to) \ On(fingers[f]))
<1>1. \A b : b \in HeldButtons <=> (b \in held \cap Buttons) \/ \E g \in Fingers : b \in On(fingers[g])
  BY DEF HeldButtons
<1>2. \A b : b \in HeldButtons' <=> (b \in held' \cap Buttons) \/ \E g \in Fingers : b \in On(fingers'[g])
  BY DEF HeldButtons
<1>3. fingers'[f] = to /\ \A g \in Fingers : g # f => fingers'[g] = fingers[g]
  OBVIOUS
<1>4. \A b \in On(fingers[f]) : b \notin held /\ \A g \in Fingers : g # f => b \notin On(fingers[g])
  BY DEF OneSource
<1> QED
  BY <1>1, <1>2, <1>3, <1>4

\* Each of the player's moves posts an event whose effect on the held buttons it is.
LEMMA MoveStep ==
    ASSUME JoypadInv, ready, PressKey \/ ReleaseKey \/ Touch \/ Lift \/ Close
    PROVE  JoypadInv'
<1>1. PICK course : Leads(course)
  BY DEF JoypadInv
<1>2. ASSUME NEW e \in Events, PostEvent(e), HeldButtons' = Effect(e, HeldButtons),
             UNCHANGED <<ready, pressed, P1, fresh>>,
             held' \subseteq Keys, fingers' \in [Fingers -> Spots], OneSource(held', fingers')
      PROVE  JoypadInv'
  <2>1. (\E c : Leads(c))' /\ events' \in Seq(Events)
    BY <1>1, <1>2, PostStep DEF PostEvent, JoypadInv
  <2>2. OneSource(held, fingers)'
    BY <1>2 DEF OneSource
  <2> QED
    BY <1>2, <2>1, <2>2 DEF JoypadInv, Group
<1>3. CASE PressKey
  <2>1. PICK key \in Keys \ held :
          /\ OneSource(held \cup {key}, fingers) /\ held' = held \cup {key}
          /\ PostEvent([type |-> "key", key |-> key, state |-> TRUE])
          /\ UNCHANGED <<ready, fingers, pressed, P1, fresh, interrupt, quit>>
    BY <1>3 DEF PressKey
  <2>2. HeldButtons' = HeldButtons \cup ({key} \cap Buttons)
    BY <2>1 DEF HeldButtons
  <2> DEFINE e == [type |-> "key", key |-> key, state |-> TRUE]
  <2>3. e \in Events /\ Effect(e, HeldButtons) = HeldButtons \cup ({key} \cap Buttons)
    BY DEF Events, KeyEvents, Effect
  <2> QED
    BY <1>2, <2>1, <2>2, <2>3 DEF JoypadInv
<1>4. CASE ReleaseKey
  <2>1. PICK key \in held :
          /\ held' = held \ {key}
          /\ PostEvent([type |-> "key", key |-> key, state |-> FALSE])
          /\ UNCHANGED <<ready, fingers, pressed, P1, fresh, interrupt, quit>>
    BY <1>4 DEF ReleaseKey
  <2>2. OneSource(held, fingers) /\ OneSource(held', fingers')
    BY <2>1 DEF JoypadInv, OneSource
  <2>3. \A f \in Fingers : key \notin On(fingers[f])
    BY <2>2 DEF OneSource
  <2>4. HeldButtons' = HeldButtons \ ({key} \cap Buttons)
    BY <2>1, <2>3 DEF HeldButtons
  <2> DEFINE e == [type |-> "key", key |-> key, state |-> FALSE]
  <2>5. e \in Events /\ Effect(e, HeldButtons) = HeldButtons \ ({key} \cap Buttons)
    BY <2>1 DEF Events, KeyEvents, Effect, JoypadInv
  <2> QED
    BY <1>2, <2>1, <2>2, <2>4, <2>5 DEF JoypadInv
<1>5. CASE Touch
  <2>1. PICK f \in Fingers, to \in DOMAIN Places :
          /\ fingers[f] # to /\ OneSource(held, [fingers EXCEPT ![f] = to])
          /\ fingers' = [fingers EXCEPT ![f] = to]
          /\ PostEvent(IF fingers[f] = Up THEN [type |-> "finger", at |-> to, state |-> TRUE]
                       ELSE [type |-> "motion", from |-> fingers[f], to |-> to])
          /\ UNCHANGED <<ready, held, pressed, P1, fresh, interrupt, quit>>
    BY <1>5 DEF Touch
  <2>2. fingers \in [Fingers -> Spots] /\ fingers' \in [Fingers -> Spots] /\ OneSource(held', fingers')
    BY <2>1 DEF JoypadInv, Spots
  <2>3. HeldButtons' = (HeldButtons \ (On(fingers[f]) \ On(to))) \cup (On(to) \ On(fingers[f]))
    BY <2>1, <2>2, FingerMoves DEF JoypadInv
  <2>4. CASE fingers[f] = Up
    <3> DEFINE e == [type |-> "finger", at |-> to, state |-> TRUE]
    <3>1. e \in Events /\ Effect(e, HeldButtons) = HeldButtons \cup On(to)
      BY DEF Events, FingerEvents, Spots, Effect
    <3>2. HeldButtons' = HeldButtons \cup On(to)
      BY <2>3, <2>4 DEF On
    <3> QED
      BY <1>2, <2>1, <2>2, <2>4, <3>1, <3>2 DEF JoypadInv
  <2>5. CASE fingers[f] # Up
    <3> DEFINE e == [type |-> "motion", from |-> fingers[f], to |-> to]
    <3>1. e \in Events /\ HeldButtons' = Effect(e, HeldButtons)
      BY <2>2, <2>3 DEF Events, MotionEvents, Spots, Effect
    <3> QED
      BY <1>2, <2>1, <2>2, <2>5, <3>1 DEF JoypadInv
  <2> QED
    BY <2>4, <2>5
<1>6. CASE Lift
  <2>1. PICK f \in Fingers :
          /\ fingers' = [fingers EXCEPT ![f] = Up]
          /\ PostEvent([type |-> "finger", at |-> fingers[f], state |-> FALSE])
          /\ UNCHANGED <<ready, held, pressed, P1, fresh, interrupt, quit>>
    BY <1>6 DEF Lift
  <2>2. fingers \in [Fingers -> Spots] /\ fingers' \in [Fingers -> Spots]
    BY <2>1 DEF JoypadInv, Spots
  <2>3. OneSource(held', fingers')
    BY <2>1, <2>2 DEF JoypadInv, OneSource, On
  <2>4. HeldButtons' = HeldButtons \ On(fingers[f])
    <3>1. HeldButtons' = (HeldButtons \ (On(fingers[f]) \ On(Up))) \cup (On(Up) \ On(fingers[f]))
      BY <2>1, <2>2, <2>3, FingerMoves DEF JoypadInv
    <3> QED
      BY <3>1 DEF On
  <2> DEFINE e == [type |-> "finger", at |-> fingers[f], state |-> FALSE]
  <2>5. e \in Events /\ Effect(e, HeldButtons) = HeldButtons \ On(fingers[f])
    BY <2>2 DEF Events, FingerEvents, Effect
  <2> QED
    BY <1>2, <2>1, <2>2, <2>3, <2>4, <2>5 DEF JoypadInv
<1>7. CASE Close
  <2> DEFINE e == [type |-> "quit"]
  <2>1. e \in Events /\ Effect(e, HeldButtons) = HeldButtons
    BY DEF Events, Effect
  <2>2. HeldButtons' = HeldButtons
    BY <1>7 DEF Close, HeldButtons
  <2> QED
    BY <1>2, <1>7, <2>1, <2>2 DEF Close, JoypadInv
<1> QED
  BY <1>3, <1>4, <1>5, <1>6, <1>7

LEMMA TakesInv ==
    ASSUME JoypadInv, ready, update_keys
    PROVE  JoypadInv'
<1>1. PICK course : Leads(course)
  BY DEF JoypadInv
<1>2. /\ events \in Seq(Events) /\ events # <<>> /\ events' = Tail(events) /\ fresh' = FALSE
      /\ UNCHANGED <<ready, held, fingers, P1>>
  BY DEF update_keys, JoypadInv
<1>3. pressed' = Effect(Head(events), pressed)
  BY DEF update_keys, Effect, KeyButton, Hits, check_keys_pressed, check_keys_moved
<1>4. HeldButtons' = HeldButtons
  BY <1>2 DEF HeldButtons
<1>5. (\E c : Leads(c))' /\ events' \in Seq(Events)
  BY <1>1, <1>2, <1>3, <1>4, TakeStep
<1>6. OneSource(held, fingers)'
  BY <1>2 DEF JoypadInv, OneSource
<1> QED
  BY <1>2, <1>5, <1>6 DEF JoypadInv

LEMMA JoypadStep == JoypadInv /\ [JoypadNext]_joypadVars => JoypadInv'
<1> SUFFICES ASSUME JoypadInv, [JoypadNext]_joypadVars PROVE JoypadInv'
  OBVIOUS
<1>1. ASSUME UNCHANGED <<held, fingers, events, pressed>>
      PROVE  (\E course : Leads(course))' /\ OneSource(held, fingers)'
  <2>1. PICK course : Leads(course)
    BY DEF JoypadInv
  <2>2. Leads(course)'
    BY <1>1, <2>1 DEF Leads, HeldButtons
  <2> QED
    BY <1>1, <2>2 DEF JoypadInv, OneSource
<1>2. CASE init_joypad
  <2>1. /\ events = <<>> /\ held = {} /\ fingers = [f \in Fingers |-> Up] /\ ~fresh
        /\ ready' = TRUE /\ pressed' = {} /\ UNCHANGED <<held, fingers, events, P1, fresh>>
    BY <1>2 DEF init_joypad, JoypadInv
  <2>2. HeldButtons' = {}
    BY <2>1 DEF HeldButtons, On
  <2>3. Leads(<<{}>>)'
    <3>1. Len(<<>>) = 0 /\ DOMAIN <<{}>> = 1 .. 1 /\ <<{}>>[1] = {}
      OBVIOUS
    <3> QED
      BY <2>1, <2>2, <3>1 DEF Leads
  <2>4. OneSource(held, fingers)'
    BY <2>1 DEF JoypadInv, OneSource
  <2> QED
    BY <2>1, <2>3, <2>4 DEF JoypadInv
<1>3. CASE ready /\ joypad_write
  <2>1. PICK bit5 \in BOOLEAN, bit4 \in BOOLEAN :
          /\ P1' = [bit5 |-> bit5, bit4 |-> bit4, keys |-> pressed \cap Group(bit5, bit4)]
          /\ fresh' = TRUE /\ UNCHANGED <<ready, held, fingers, events, pressed, quit>>
    BY <1>3 DEF joypad_write
  <2>2. /\ P1' \in [bit5 : BOOLEAN, bit4 : BOOLEAN, keys : SUBSET Buttons]
        /\ P1'.keys = pressed' \cap Group(P1'.bit5, P1'.bit4)
    BY <2>1 DEF Group, Buttons
  <2> QED
    BY <1>1, <1>3, <2>1, <2>2 DEF JoypadInv, Group
<1>4. CASE (ready /\ Take) \/ UNCHANGED joypadVars
  <2>1. UNCHANGED <<ready, held, fingers, events, pressed, P1, fresh, quit>>
    BY <1>4 DEF Take, joypadVars
  <2> QED
    BY <1>1, <2>1 DEF JoypadInv, Group
<1> QED
  BY <1>2, <1>3, <1>4, MoveStep, TakesInv DEF JoypadNext, Playing

LEMMA JoypadStart == JoypadInit => JoypadInv
<1> SUFFICES ASSUME JoypadInit PROVE JoypadInv
  OBVIOUS
<1>1. HeldButtons = {}
  BY DEF JoypadInit, HeldButtons, On
<1>2. Leads(<<{}>>)
  <2>1. Len(<<>>) = 0 /\ DOMAIN <<{}>> = 1 .. 1 /\ <<{}>>[1] = {}
    OBVIOUS
  <2> QED
    BY <1>1, <2>1 DEF JoypadInit, Leads
<1>3. <<>> \in Seq(Events)
  BY EmptySeq
<1> QED
  BY <1>2, <1>3 DEF JoypadInit, JoypadInv, OneSource, On, Spots

\* However many keys and fingers go down, slide and come up between two polls, and
\* however many events wait: once the last is taken the pressed buttons are the held
\* ones, and P1 shows them.
THEOREM ButtonsAreHeld == JoypadSpec => []HeldExact
<1>1. JoypadInv => HeldExact
  <2> SUFFICES ASSUME JoypadInv, events = <<>> PROVE HeldExact
    BY DEF HeldExact, NoStuckKey, GameReadsHeld
  <2>1. PICK course : Leads(course)
    BY DEF JoypadInv
  <2>2. Len(events) + 1 = 1
    BY DEF JoypadInv
  <2>3. pressed = HeldButtons
    BY <2>1, <2>2 DEF Leads
  <2> QED
    BY <2>3 DEF HeldExact, NoStuckKey, GameReadsHeld, JoypadInv, Group, Directions, Actions
<1> QED
  BY <1>1, JoypadStart, JoypadStep, PTL DEF JoypadSpec

-----------------------------------------------------------------------------
(* The link cable                                                          *)

PortValues == Bytes \cup {0, NoGameBoy}
Rest == {"game", "tick", "recv", "answer", "quit"}

LinkTypes ==
    /\ LinkTypeOK /\ recv \in [Sides -> PortValues]
    /\ start_bit \in [Sides -> BOOLEAN] /\ transfer_in_progress \in [Sides -> BOOLEAN]
    /\ internal_clock \in [Sides -> BOOLEAN]
    /\ chan \in [Sides -> Seq(PortValues \cup {Welcome})]
    /\ linked \in BOOLEAN /\ swallowed \in BOOLEAN

\* Both emulators run, and what is on its way are bytes.
BothRun == (\A p \in Sides : pc[p] \in Rest) /\ chan \in [Sides -> Seq(PortValues)]

\* Before the server accepts, and until the client has read the welcome.
Unconnected ==
    /\ pc["server"] = "listen" /\ pc["client"] \in {"connect", "welcome"}
    /\ chan = All(<<>>) /\ ahead = All(<<>>)
Greeting ==
    /\ pc["client"] = "welcome" /\ pc["server"] \in Rest \ {"answer"}
    /\ chan["server"] = <<>> /\ ahead = All(<<>>)
    /\ chan["client"] = IF pc["server"] = "recv" THEN <<Welcome, data_to_send["server"]>>
                                                 ELSE <<Welcome>>

\* As many exchanges are finished on both sides: what comes to p is the byte of a peer
\* that waits, unless p is answering it.
Fits(p) ==
    pc[p] # "quit" =>
        /\ chan[p] = IF pc[Peer(p)] = "recv" /\ pc[p] # "answer"
                     THEN <<data_to_send[Peer(p)]>> ELSE <<>>
        /\ pc[p] = "answer" => pc[Peer(p)] = "recv" /\ recv[p] = data_to_send[Peer(p)]
Even == ahead = All(<<>>) /\ \A p \in Sides : Fits(p)

\* One more is finished on p's side: its byte x is on its way to the other, which waits.
OneAhead(p) ==
    \E x \in PortValues :
        /\ ahead = [All(<<>>) EXCEPT ![p] = <<[out |-> x, in |-> data_to_send[Peer(p)]]>>]
        /\ pc[Peer(p)] = "recv" /\ pc[p] # "answer" /\ chan[p] = <<>>
        /\ chan[Peer(p)] = IF pc[p] = "recv" THEN <<x, data_to_send[p]>> ELSE <<x>>

Stage == Unconnected \/ Greeting \/ (BothRun /\ (Even \/ \E p \in Sides : OneAhead(p)))

LinkInv ==
    /\ LinkTypes /\ StartBitTells
    /\ Unconnected \/ Greeting \/ BothRun
    /\ ~swallowed => agreed /\ Stage
    /\ swallowed => BothRun

\* The other side.
LEMMA Peers ==
    ASSUME NEW p \in Sides
    PROVE  /\ Peer(p) \in Sides /\ Peer(p) # p /\ Peer(Peer(p)) = p
           /\ \A s \in Sides : s = p \/ s = Peer(p)
BY DEF Sides, Peer

LEMMA LinkInvGives == LinkInv => LinkExact
<1> SUFFICES ASSUME LinkInv PROVE LinkExact
  OBVIOUS
<1>1. LinkTypeOK /\ StartBitTells /\ InStep
  BY DEF LinkInv, LinkTypes, InStep
<1>2. NoMutualWait
  <2> SUFFICES ASSUME ~swallowed, \A p \in Sides : pc[p] = "recv"
               PROVE  \E p \in Sides : chan[p] # <<>>
    BY DEF NoMutualWait
  <2>1. Even \/ \E p \in Sides : OneAhead(p)
    BY DEF LinkInv, Stage, Unconnected, Greeting, Sides
  <2>2. CASE Even
    BY <2>2 DEF Even, Fits, Sides, Peer
  <2>3. ASSUME NEW p \in Sides, OneAhead(p) PROVE chan[Peer(p)] # <<>>
    BY <2>3 DEF OneAhead
  <2> QED
    BY <2>1, <2>2, <2>3, Peers
<1> QED
  BY <1>1, <1>2 DEF LinkExact

LEMMA LinkStart == LinkInit => LinkInv
<1> SUFFICES ASSUME LinkInit PROVE LinkInv
  OBVIOUS
<1>1. Period \in Nat \ {0} /\ 0 \in PortValues /\ NoGameBoy \in PortValues
  BY SerialAssumption DEF PortValues
<1>2. <<>> \in Seq(PortValues) /\ <<>> \in Seq(PortValues \cup {Welcome})
  BY EmptySeq
<1>3. pc \in [Sides -> {"listen", "connect", "welcome", "game", "tick", "recv", "answer", "quit"}]
  BY DEF LinkInit, All, Sides
<1>4. LinkTypes
  <2>1. 0 \in 0 .. Period - 1
    BY <1>1
  <2>2. \A S, v : v \in S => All(v) \in [Sides -> S]
    BY DEF All
  <2>3. LinkTypeOK
    BY <1>1, <1>3, <2>1, <2>2 DEF LinkInit, LinkTypeOK, PortValues
  <2> QED
    BY <1>1, <1>2, <2>2, <2>3 DEF LinkInit, LinkTypes
<1>5. StartBitTells
  BY DEF LinkInit, StartBitTells, All
<1>6. Unconnected \/ (BothRun /\ Even)
  <2>1. CASE linked
    <3>1. pc = [server |-> "listen", client |-> "connect"]
      BY <2>1 DEF LinkInit
    <3>2. pc["server"] = "listen" /\ pc["client"] = "connect"
      BY <3>1
    <3> QED
      BY <3>2 DEF LinkInit, Unconnected
  <2>2. CASE ~linked
    <3>1. \A p \in Sides : pc[p] = "game" /\ chan[p] = <<>>
      BY <2>2 DEF LinkInit, All
    <3>2. BothRun
      BY <1>2, <3>1 DEF LinkInit, BothRun, Rest, All
    <3>3. Even
      BY <3>1, Peers DEF LinkInit, Even, Fits
    <3> QED
      BY <3>2, <3>3
  <2> QED
    BY <2>1, <2>2 DEF LinkInit
<1> QED
  BY <1>4, <1>5, <1>6 DEF LinkInit, LinkInv, Stage

\* One and two bytes on their way.
LEMMA Appended ==
    ASSUME NEW a, NEW b
    PROVE  Append(<<a>>, b) = <<a, b>>
<1>1. <<a, b>> \in Seq({a, b}) /\ Len(<<a, b>>) = 2 /\ <<a, b>>[1] = a /\ <<a, b>>[2] = b
  OBVIOUS
<1>2. /\ Append(<<a>>, b) \in Seq({a, b}) /\ Len(Append(<<a>>, b)) = 2
      /\ Append(<<a>>, b)[1] = a /\ Append(<<a>>, b)[2] = b
  OBVIOUS
<1>3. \A i \in 1 .. 2 : i = 1 \/ i = 2
  OBVIOUS
<1> QED
  BY <1>1, <1>2, <1>3, SeqEqual

LEMMA Taken ==
    ASSUME NEW a, NEW b
    PROVE  /\ Head(<<a>>) = a /\ Head(<<a, b>>) = a
           /\ Tail(<<a>>) = <<>> /\ Tail(<<a, b>>) = <<b>>
OBVIOUS

LEMMA SecondOf ==
    ASSUME NEW a, NEW b
    PROVE  SubSeq(<<a, b>>, 1 + 1, Len(<<a, b>>)) = <<b>>
<1>1. <<a, b>> \in Seq({a, b}) /\ <<a, b>> # <<>> /\ 1 + 1 = 2
  OBVIOUS
<1>2. Tail(<<a, b>>) = SubSeq(<<a, b>>, 2, Len(<<a, b>>))
  BY <1>1, TailIsSubSeq
<1> QED
  BY <1>1, <1>2, Taken, Zenon

\* A step of p that neither sends, receives nor finishes an exchange.
LEMMA Alone ==
    ASSUME LinkInv, LinkTypes', StartBitTells', NEW p \in Sides, NEW w \in {"game", "tick", "quit"},
           pc[p] \in {"game", "tick"}, Goto(p, w), UNCHANGED <<chan, recv, ahead, agreed, swallowed>>,
           data_to_send'[Peer(p)] = data_to_send[Peer(p)]
    PROVE  LinkInv'
<1> DEFINE q == Peer(p)
<1>1. q \in Sides /\ q # p /\ Peer(q) = p /\ \A s \in Sides : s = p \/ s = q
  BY Peers
<1>2. pc' \in [Sides -> {"listen", "connect", "welcome", "game", "tick", "recv", "answer", "quit"}]
      /\ pc'[p] = w /\ pc'[q] = pc[q]
  BY <1>1 DEF Goto, LinkInv, LinkTypes, LinkTypeOK
<1> HIDE DEF q
<1>3. ~Unconnected
  BY DEF Unconnected, Sides
<1>4. ASSUME BothRun PROVE BothRun'
  BY <1>1, <1>2, <1>4 DEF BothRun, Rest
<1>5. ASSUME Greeting PROVE Greeting'
  <2>1. p = "server" /\ q = "client"
    BY <1>1, <1>5 DEF Greeting, Sides
  <2> QED
    BY <1>2, <1>5, <2>1 DEF Greeting, Rest
<1>6. ASSUME Even PROVE Even'
  <2>1. Fits(p) /\ Fits(q)
    BY <1>1, <1>6 DEF Even
  <2>2. Fits(p)'
    BY <1>1, <1>2, <2>1 DEF Fits, q
  <2>3. Fits(q)'
    BY <1>1, <1>2, <2>1 DEF Fits
  <2> QED
    BY <1>1, <1>6, <2>2, <2>3 DEF Even
<1>7. ASSUME NEW s \in Sides, OneAhead(s) PROVE OneAhead(s)'
  <2>1. s = p
    BY <1>1, <1>7 DEF OneAhead
  <2> QED
    BY <1>1, <1>2, <1>7, <2>1 DEF OneAhead, q
<1> QED
  BY <1>3, <1>4, <1>5, <1>6, <1>7 DEF LinkInv, Stage

\* The peer has quit, and nothing is left to receive.
LEMMA Closed ==
    ASSUME LinkInv, LinkTypes', StartBitTells', NEW p \in Sides,
           pc[p] = "recv", chan[p] = <<>>, PeerQuit(p), Goto(p, "game"),
           UNCHANGED <<chan, recv, ahead, agreed, swallowed, data_to_send>>
    PROVE  LinkInv'
<1> DEFINE q == Peer(p)
<1>1. q \in Sides /\ q # p /\ Peer(q) = p /\ \A s \in Sides : s = p \/ s = q
  BY Peers
<1>2. pc'[p] = "game" /\ pc'[q] = pc[q] /\ pc[q] = "quit"
  BY <1>1 DEF Goto, LinkInv, LinkTypes, LinkTypeOK, PeerQuit
<1> HIDE DEF q
<1>3. BothRun
  BY <1>1, <1>2 DEF LinkInv, Unconnected, Greeting, Sides
<1>4. BothRun'
  BY <1>1, <1>2, <1>3 DEF BothRun, Rest
<1>5. ASSUME Even PROVE Even'
  <2>1. Fits(p) /\ Fits(q)
    BY <1>1, <1>5 DEF Even
  <2>2. Fits(p)'
    BY <1>1, <1>2, <2>1 DEF Fits, q
  <2>3. Fits(q)'
    BY <1>1, <1>2, <2>1 DEF Fits
  <2> QED
    BY <1>1, <1>5, <2>2, <2>3 DEF Even
<1>6. ASSUME NEW s \in Sides, OneAhead(s) PROVE FALSE
  BY <1>1, <1>2, <1>6 DEF OneAhead, q
<1>7. ~Unconnected /\ ~Greeting
  BY <1>1, <1>2 DEF Unconnected, Greeting, Sides
<1> QED
  BY <1>4, <1>5, <1>6, <1>7 DEF LinkInv, Stage

\* p sends the byte of its transfer and waits.
LEMMA Sent ==
    ASSUME LinkInv, LinkTypes', StartBitTells', NEW p \in Sides,
           pc[p] = "tick", Goto(p, "recv"), Send(p, data_to_send[p]),
           UNCHANGED <<recv, ahead, agreed, swallowed, data_to_send>>
    PROVE  LinkInv'
<1> DEFINE q == Peer(p)
<1>1. q \in Sides /\ q # p /\ Peer(q) = p /\ \A s \in Sides : s = p \/ s = q
  BY Peers
<1>2. pc'[p] = "recv" /\ pc'[q] = pc[q]
  BY <1>1 DEF Goto, LinkInv, LinkTypes, LinkTypeOK
<1>3. /\ chan'[p] = chan[p]
      /\ chan'[q] = IF pc[q] = "quit" THEN chan[q] ELSE Append(chan[q], data_to_send[p])
  BY <1>1 DEF Send, PeerQuit, LinkInv, LinkTypes
<1>4. data_to_send[p] \in PortValues
  BY DEF LinkInv, LinkTypes, LinkTypeOK, PortValues
<1> HIDE DEF q
<1>5. ~Unconnected
  BY DEF Unconnected, Sides
<1>6. ASSUME BothRun PROVE BothRun'
  <2>1. Append(chan[q], data_to_send[p]) \in Seq(PortValues)
    BY <1>1, <1>4, <1>6, AppendProperties DEF BothRun
  <2>2. chan' \in [Sides -> Seq(PortValues)]
    BY <1>6, <2>1 DEF Send, BothRun, q
  <2> QED
    BY <1>1, <1>2, <1>6, <2>2 DEF BothRun, Rest
<1>7. ASSUME Greeting PROVE Greeting'
  <2>1. p = "server" /\ q = "client"
    BY <1>1, <1>7 DEF Greeting, Sides
  <2>2. chan'["client"] = <<Welcome, data_to_send["server"]>>
    <3>1. Append(<<Welcome>>, data_to_send["server"]) = <<Welcome, data_to_send["server"]>>
      BY Appended
    <3> QED
      BY <1>2, <1>3, <1>7, <2>1, <3>1 DEF Greeting
  <2> QED
    BY <1>2, <1>3, <1>7, <2>1, <2>2 DEF Greeting, Rest
<1>8. ASSUME Even PROVE Even'
  <2>1. Fits(p) /\ Fits(q)
    BY <1>1, <1>8 DEF Even
  <2>2. Fits(p)'
    BY <1>1, <1>2, <1>3, <2>1 DEF Fits, q
  <2>3. Fits(q)'
    <3>1. pc[q] # "quit" => chan[q] = <<>> /\ pc[q] # "answer"
      BY <1>1, <2>1 DEF Fits
    <3> QED
      BY <1>1, <1>2, <1>3, <3>1 DEF Fits
  <2> QED
    BY <1>1, <1>8, <2>2, <2>3 DEF Even
<1>9. ASSUME NEW s \in Sides, OneAhead(s) PROVE OneAhead(s)'
  <2>1. s = p
    BY <1>1, <1>9 DEF OneAhead
  <2>2. PICK x \in PortValues :
           /\ ahead = [All(<<>>) EXCEPT ![p] = <<[out |-> x, in |-> data_to_send[q]]>>]
           /\ pc[q] = "recv" /\ chan[p] = <<>> /\ chan[q] = <<x>>
    BY <1>9, <2>1 DEF OneAhead, q
  <2>3. chan'[q] = <<x, data_to_send[p]>>
    BY <1>3, <2>2, Appended
  <2> QED
    BY <1>1, <1>2, <1>3, <2>1, <2>2, <2>3 DEF OneAhead, q
<1> QED
  BY <1>5, <1>6, <1>7, <1>8, <1>9 DEF LinkInv, Stage

\* A byte arrives at a side that polls.
LEMMA Polled ==
    ASSUME LinkInv, LinkTypes', StartBitTells', NEW p \in Sides,
           pc[p] = "tick", chan[p] # <<>>, Goto(p, "answer"),
           recv' = [recv EXCEPT ![p] = Head(chan[p])], chan' = [chan EXCEPT ![p] = Tail(@)],
           UNCHANGED <<ahead, agreed, swallowed, data_to_send>>
    PROVE  LinkInv'
<1> DEFINE q == Peer(p)
<1>1. q \in Sides /\ q # p /\ Peer(q) = p /\ \A s \in Sides : s = p \/ s = q
  BY Peers
<1>2. /\ pc'[p] = "answer" /\ pc'[q] = pc[q]
      /\ chan'[p] = Tail(chan[p]) /\ chan'[q] = chan[q]
      /\ recv'[p] = Head(chan[p]) /\ recv'[q] = recv[q]
  BY <1>1 DEF Goto, LinkInv, LinkTypes, LinkTypeOK
<1> HIDE DEF q
<1>3. BothRun /\ ~Unconnected /\ ~Greeting
  BY <1>1 DEF LinkInv, Unconnected, Greeting, Sides
<1>4. BothRun'
  <2>1. Tail(chan[p]) \in Seq(PortValues)
    BY <1>3, HeadTailProperties DEF BothRun
  <2>2. chan' \in [Sides -> Seq(PortValues)]
    BY <1>3, <2>1 DEF BothRun
  <2> QED
    BY <1>1, <1>2, <1>3, <2>2 DEF BothRun, Rest
<1>5. ASSUME Even PROVE Even'
  <2>1. Fits(p) /\ Fits(q)
    BY <1>1, <1>5 DEF Even
  <2>2. chan[p] = <<data_to_send[q]>> /\ pc[q] = "recv"
    BY <2>1 DEF Fits, q
  <2>3. Head(chan[p]) = data_to_send[q] /\ Tail(chan[p]) = <<>>
    BY <2>2, Taken
  <2>4. Fits(p)'
    BY <1>1, <1>2, <2>2, <2>3 DEF Fits, q
  <2>5. Fits(q)'
    BY <1>1, <1>2, <2>1, <2>2 DEF Fits
  <2> QED
    BY <1>1, <1>5, <2>4, <2>5 DEF Even
<1>6. ASSUME NEW s \in Sides, OneAhead(s) PROVE FALSE
  BY <1>1, <1>2, <1>6 DEF OneAhead, q
<1> QED
  BY <1>3, <1>4, <1>5, <1>6 DEF LinkInv, Stage

\* The answer arrives at a side that waits.
LEMMA Received ==
    ASSUME LinkInv, LinkTypes', StartBitTells', NEW p \in Sides,
           pc[p] = "recv", chan[p] # <<>>, Goto(p, "game"), Exchanged(p, Head(chan[p])),
           chan' = [chan EXCEPT ![p] = Tail(@)],
           UNCHANGED <<recv, swallowed, data_to_send>>
    PROVE  LinkInv'
<1> DEFINE q == Peer(p)
           in == Head(chan[p])
<1>1. q \in Sides /\ q # p /\ Peer(q) = p /\ \A s \in Sides : s = p \/ s = q
  BY Peers
<1>2. /\ pc'[p] = "game" /\ pc'[q] = pc[q]
      /\ chan'[p] = Tail(chan[p]) /\ chan'[q] = chan[q]
  BY <1>1 DEF Goto, LinkInv, LinkTypes, LinkTypeOK
<1> HIDE DEF q
<1>3. BothRun /\ ~Unconnected /\ ~Greeting
  BY <1>1 DEF LinkInv, Unconnected, Greeting, Sides
<1>4. BothRun'
  <2>1. Tail(chan[p]) \in Seq(PortValues)
    BY <1>3, HeadTailProperties DEF BothRun
  <2>2. chan' \in [Sides -> Seq(PortValues)]
    BY <1>3, <2>1 DEF BothRun
  <2> QED
    BY <1>1, <1>2, <1>3, <2>2 DEF BothRun, Rest
<1>5. ASSUME Even, agreed PROVE OneAhead(p)' /\ agreed'
  <2>1. Fits(p) /\ Fits(q)
    BY <1>1, <1>5 DEF Even
  <2>2. chan[p] = <<data_to_send[q]>> /\ pc[q] = "recv" /\ chan[q] = <<data_to_send[p]>>
    BY <1>1, <2>1 DEF Fits, q
  <2>3. in = data_to_send[q] /\ Tail(chan[p]) = <<>>
    BY <2>2, Taken
  <2>4. ahead[q] = <<>> /\ ahead[p] = <<>> /\ ahead = All(<<>>)
    BY <1>1, <1>5 DEF Even, All
  <2>5. agreed' /\ ahead' = [ahead EXCEPT ![p] = Append(@, [out |-> data_to_send[p], in |-> in])]
    BY <1>5, <2>4 DEF Exchanged, q
  <2> DEFINE e == [out |-> data_to_send[p], in |-> data_to_send[q]]
  <2>6. ahead' = [All(<<>>) EXCEPT ![p] = Append(<<>>, e)]
    <3> HIDE DEF in
    <3> QED
      BY <2>3, <2>4, <2>5
  <2>7. ahead' = [All(<<>>) EXCEPT ![p] = <<e>>]
    <3> HIDE DEF e
    <3>1. Append(<<>>, e) = <<e>>
      OBVIOUS
    <3> QED
      BY <2>6, <3>1
  <2>8. data_to_send[p] \in PortValues
    BY DEF LinkInv, LinkTypes, LinkTypeOK, PortValues
  <2> QED
    BY <1>1, <1>2, <2>2, <2>3, <2>5, <2>7, <2>8 DEF OneAhead, q
<1>6. ASSUME NEW s \in Sides, OneAhead(s), agreed PROVE Even' /\ agreed'
  <2>1. s = q
    BY <1>1, <1>6 DEF OneAhead
  <2>2. PICK x \in PortValues :
           /\ ahead = [All(<<>>) EXCEPT ![q] = <<[out |-> x, in |-> data_to_send[p]]>>]
           /\ pc[q] # "answer" /\ chan[q] = <<>>
           /\ chan[p] = IF pc[q] = "recv" THEN <<x, data_to_send[q]>> ELSE <<x>>
    BY <1>1, <1>6, <2>1 DEF OneAhead
  <2>3. /\ in = x /\ Tail(chan[p]) = IF pc[q] = "recv" THEN <<data_to_send[q]>> ELSE <<>>
    BY <2>2, Taken
  <2> DEFINE e == [out |-> x, in |-> data_to_send[p]]
  <2>4. ahead[q] = <<e>> /\ ahead[p] = <<>> /\ ahead = [All(<<>>) EXCEPT ![q] = <<e>>]
    BY <1>1, <2>2 DEF All
  <2>5. /\ ahead' = [ahead EXCEPT ![q] = Tail(@)]
        /\ agreed' = (agreed /\ Head(ahead[q]) = [out |-> in, in |-> data_to_send[p]])
    <3>1. ahead[q] # <<>>
      BY <2>4
    <3> QED
      BY <3>1 DEF Exchanged, q
  <2>6. agreed'
    <3>1. Head(ahead[q]) = e
      <4> HIDE DEF e
      <4> QED
        BY <2>4
    <3>2. e = [out |-> in, in |-> data_to_send[p]]
      BY <2>3
    <3> QED
      BY <1>6, <2>5, <3>1, <3>2, Zenon
  <2>7. ahead' = All(<<>>)
    <3> HIDE DEF e
    <3>1. Tail(ahead[q]) = <<>>
      BY <2>4
    <3>2. ahead' = [[All(<<>>) EXCEPT ![q] = <<e>>] EXCEPT ![q] = <<>>]
      BY <2>4, <2>5, <3>1
    <3> QED
      BY <1>1, <3>2 DEF All
  <2>8. Fits(p)'
    BY <1>1, <1>2, <2>3 DEF Fits, q
  <2>9. Fits(q)'
    BY <1>1, <1>2, <2>2 DEF Fits
  <2> QED
    BY <1>1, <2>6, <2>7, <2>8, <2>9 DEF Even
<1> QED
  BY <1>1, <1>3, <1>4, <1>5, <1>6 DEF LinkInv, Stage

\* p answers with its own byte.
LEMMA Answered ==
    ASSUME LinkInv, LinkTypes', StartBitTells', NEW p \in Sides,
           pc[p] = "answer", Goto(p, "game"), Send(p, data_to_send[p]), Exchanged(p, recv[p]),
           UNCHANGED <<swallowed, data_to_send>>, \A s \in Sides : s # p => recv'[s] = recv[s]
    PROVE  LinkInv'
<1> DEFINE q == Peer(p)
<1>1. q \in Sides /\ q # p /\ Peer(q) = p /\ \A s \in Sides : s = p \/ s = q
  BY Peers
<1>2. /\ pc'[p] = "game" /\ pc'[q] = pc[q] /\ chan'[p] = chan[p] /\ recv'[q] = recv[q]
      /\ chan'[q] = IF pc[q] = "quit" THEN chan[q] ELSE Append(chan[q], data_to_send[p])
  BY <1>1 DEF Goto, Send, PeerQuit, LinkInv, LinkTypes, LinkTypeOK
<1>3. data_to_send[p] \in PortValues
  BY DEF LinkInv, LinkTypes, LinkTypeOK, PortValues
<1> HIDE DEF q
<1>4. BothRun /\ ~Unconnected /\ ~Greeting
  BY <1>1 DEF LinkInv, Unconnected, Greeting, Sides
<1>5. BothRun'
  <2>1. Append(chan[q], data_to_send[p]) \in Seq(PortValues)
    BY <1>1, <1>3, <1>4, AppendProperties DEF BothRun
  <2>2. chan' \in [Sides -> Seq(PortValues)]
    BY <1>4, <2>1 DEF Send, BothRun, q
  <2> QED
    BY <1>1, <1>2, <1>4, <2>2 DEF BothRun, Rest
<1>6. ASSUME Even, agreed PROVE OneAhead(p)' /\ agreed'
  <2>1. Fits(p) /\ Fits(q)
    BY <1>1, <1>6 DEF Even
  <2>2. recv[p] = data_to_send[q] /\ pc[q] = "recv" /\ chan[q] = <<>> /\ chan[p] = <<>>
    BY <1>1, <2>1 DEF Fits, q
  <2>3. ahead[q] = <<>> /\ ahead[p] = <<>> /\ ahead = All(<<>>)
    BY <1>1, <1>6 DEF Even, All
  <2> DEFINE e == [out |-> data_to_send[p], in |-> data_to_send[q]]
  <2>4. agreed' /\ ahead' = [ahead EXCEPT ![p] = Append(@, e)]
    BY <1>6, <2>2, <2>3 DEF Exchanged, q
  <2>5. ahead' = [All(<<>>) EXCEPT ![p] = <<e>>]
    <3> HIDE DEF e
    <3>1. Append(<<>>, e) = <<e>>
      OBVIOUS
    <3> QED
      BY <2>3, <2>4, <3>1
  <2>6. chan'[q] = <<data_to_send[p]>>
    BY <1>2, <2>2
  <2> QED
    BY <1>1, <1>2, <1>3, <2>2, <2>4, <2>5, <2>6 DEF OneAhead, q
<1>7. ASSUME NEW s \in Sides, OneAhead(s) PROVE FALSE
  BY <1>1, <1>7 DEF OneAhead, q
<1> QED
  BY <1>1, <1>4, <1>5, <1>6, <1>7 DEF LinkInv, Stage

\* The answer cannot be sent: the peer has quit, which it does not while it waits.
LEMMA AnswerLost ==
    ASSUME LinkInv, LinkTypes', StartBitTells', NEW p \in Sides,
           pc[p] = "answer", PeerQuit(p), Goto(p, "game"),
           UNCHANGED <<chan, ahead, agreed, swallowed, data_to_send>>
    PROVE  LinkInv'
<1> DEFINE q == Peer(p)
<1>1. q \in Sides /\ q # p /\ Peer(q) = p /\ \A s \in Sides : s = p \/ s = q
  BY Peers
<1>2. pc'[p] = "game" /\ pc'[q] = pc[q] /\ pc[q] = "quit"
  BY <1>1 DEF Goto, LinkInv, LinkTypes, LinkTypeOK, PeerQuit
<1> HIDE DEF q
<1>3. BothRun /\ ~Unconnected /\ ~Greeting
  BY <1>1 DEF LinkInv, Unconnected, Greeting, Sides
<1>4. BothRun'
  BY <1>1, <1>2, <1>3 DEF BothRun, Rest
<1>5. ~Even
  BY <1>2 DEF Even, Fits, q
<1>6. \A s \in Sides : ~OneAhead(s)
  BY <1>1, <1>2 DEF OneAhead, q
<1> QED
  BY <1>3, <1>4, <1>5, <1>6 DEF LinkInv, Stage

\* Setting up.
LEMMA SetUp ==
    ASSUME LinkInv, LinkTypes', StartBitTells', Setup
    PROVE  LinkInv'
<1> USE DEF Goto
<1>1. /\ pc \in [Sides -> {"listen", "connect", "welcome", "game", "tick", "recv", "answer", "quit"}]
      /\ "server" \in Sides /\ "client" \in Sides /\ Sides = {"server", "client"}
      /\ Peer("server") = "client" /\ Peer("client") = "server"
      /\ UNCHANGED <<data_to_send, recv, ahead, agreed>>
      /\ chan \in [Sides -> Seq(PortValues \cup {Welcome})]
  BY DEF LinkInv, LinkTypes, LinkTypeOK, Sides, Peer, Setup, setup_server, Connect, ReadWelcome, history, port
<1>2. CASE setup_server
  <2>1. Unconnected /\ ~swallowed /\ ~swallowed' /\ agreed
    BY <1>1, <1>2 DEF setup_server, LinkInv, Unconnected, Greeting, BothRun, Rest
  <2>2. chan'["client"] = <<Welcome>> /\ chan'["server"] = <<>>
    <3>1. Append(<<>>, Welcome) = <<Welcome>>
      OBVIOUS
    <3> QED
      BY <1>1, <1>2, <2>1, <3>1 DEF setup_server, Send, PeerQuit, Unconnected, All
  <2>3. pc'["server"] = "game" /\ pc'["client"] = "welcome"
    BY <1>1, <1>2 DEF setup_server
  <2>4. Greeting'
    BY <1>1, <2>1, <2>2, <2>3 DEF Unconnected, Greeting, Rest
  <2> QED
    BY <1>1, <2>1, <2>4 DEF LinkInv, Stage
<1>3. CASE Connect
  <2>1. Unconnected /\ ~swallowed /\ ~swallowed' /\ agreed
    BY <1>1, <1>3 DEF Connect, LinkInv, Unconnected, Greeting, BothRun, Rest
  <2>2. Unconnected'
    BY <1>1, <1>3, <2>1 DEF Connect, Unconnected
  <2> QED
    BY <1>1, <2>1, <2>2 DEF LinkInv, Stage
<1>4. CASE ReadWelcome
  <2>1. PICK n \in 1 .. Len(chan["client"]) :
           /\ chan' = [chan EXCEPT !["client"] = SubSeq(@, n + 1, Len(@))]
           /\ swallowed' = (n > 1)
    BY <1>4 DEF ReadWelcome
  <2>2. pc["client"] = "welcome" /\ pc'["client"] = "game" /\ pc'["server"] = pc["server"]
    BY <1>1, <1>4 DEF ReadWelcome
  <2>3. Greeting /\ ~swallowed /\ agreed
    <3>1. ~BothRun
      BY <1>1, <2>2 DEF BothRun, Rest
    <3>2. ~Unconnected
      <4>1. Len(chan["client"]) # 0
        <5>1. Len(chan["client"]) \in Nat
          BY <1>1, LenProperties
        <5> QED
          BY <2>1, <5>1
      <4> QED
        BY <1>1, <4>1 DEF Unconnected, All
    <3> QED
      BY <3>1, <3>2 DEF LinkInv
  <2> DEFINE d == data_to_send["server"]
             rest == SubSeq(chan["client"], n + 1, Len(chan["client"]))
  <2>4. d \in PortValues
    BY <1>1 DEF LinkInv, LinkTypes, LinkTypeOK, PortValues
  <2>5. CASE pc["server"] = "recv"
    <3>1. chan["client"] = <<Welcome, d>> /\ Len(<<Welcome, d>>) = 2
      BY <2>3, <2>5 DEF Greeting
    <3>2. n = 1 \/ n = 2
      BY <2>1, <3>1
    <3>3. n = 1 => rest = <<d>>
      BY <3>1, SecondOf
    <3>4. n = 2 => rest = <<>>
      <4>1. SubSeq(<<Welcome, d>>, 3, 2) = <<>>
        BY SubSeqEmpty
      <4> QED
        BY <3>1, <4>1
    <3>5. rest \in Seq(PortValues)
      <4>1. <<d>> \in Seq(PortValues) /\ <<>> \in Seq(PortValues)
        BY <2>4
      <4> HIDE DEF rest
      <4> QED
        BY <3>2, <3>3, <3>4, <4>1
    <3> HIDE DEF rest, d
    <3>6. chan'["client"] = rest /\ chan'["server"] = <<>>
      BY <1>1, <2>1, <2>3 DEF Greeting, rest
    <3>7. BothRun'
      <4>1. chan' \in [Sides -> Seq(PortValues)]
        <5>1. <<>> \in Seq(PortValues)
          OBVIOUS
        <5> QED
          BY <1>1, <2>1, <3>5, <3>6, <5>1
      <4> QED
        BY <1>1, <2>2, <2>5, <4>1 DEF BothRun, Rest
    <3>8. ASSUME n = 1 PROVE Even'
      <4>1. Fits("client")' /\ Fits("server")'
        BY <1>1, <2>2, <2>5, <3>3, <3>6, <3>8 DEF Fits, d
      <4> QED
        BY <1>1, <2>3, <4>1 DEF Even, Greeting
    <3>9. ASSUME n = 2 PROVE swallowed'
      <4>1. n > 1
        BY <3>9
      <4> QED
        BY <2>1, <4>1, Zenon
    <3>10. agreed'
      BY <1>1, <2>3
    <3> QED
      BY <3>2, <3>7, <3>8, <3>9, <3>10 DEF LinkInv, Stage
  <2>6. CASE pc["server"] # "recv"
    <3>1. chan["client"] = <<Welcome>> /\ Len(<<Welcome>>) = 1
      BY <2>3, <2>6 DEF Greeting
    <3>2. n = 1
      BY <2>1, <3>1
    <3>3. rest = <<>>
      <4>1. SubSeq(<<Welcome>>, 2, 1) = <<>>
        BY SubSeqEmpty
      <4> QED
        BY <3>1, <3>2, <4>1
    <3> HIDE DEF rest, d
    <3>4. chan'["client"] = <<>> /\ chan'["server"] = <<>>
      BY <1>1, <2>1, <2>3, <3>3 DEF Greeting, rest
    <3>5. BothRun'
      <4>1. chan' \in [Sides -> Seq(PortValues)]
        <5>1. <<>> \in Seq(PortValues)
          OBVIOUS
        <5> QED
          BY <1>1, <2>1, <3>4, <5>1
      <4> QED
        BY <1>1, <2>2, <2>3, <4>1 DEF BothRun, Rest, Greeting
    <3>6. Even'
      <4>1. Fits("client")' /\ Fits("server")'
        BY <1>1, <2>2, <2>3, <2>6, <3>4 DEF Fits, Greeting, Rest
      <4> QED
        BY <1>1, <2>3, <4>1 DEF Even, Greeting
    <3> QED
      BY <1>1, <2>1, <2>3, <3>5, <3>6 DEF LinkInv, Stage
  <2> QED
    BY <2>5, <2>6
<1> QED
  BY <1>2, <1>3, <1>4 DEF Setup

\* Where each side is, and the types of what it has, follow from the step alone and
\* from what is on its way being bytes once the welcome is read.
LEMMA TypesStep ==
    ASSUME LinkInv, LinkNext
    PROVE  LinkTypes' /\ StartBitTells'
<1> DEFINE Stops == {"listen", "connect", "welcome", "game", "tick", "recv", "answer", "quit"}
           Chans == Seq(PortValues \cup {Welcome})
<1>1. /\ SB \in [Sides -> PortValues] /\ data_to_send \in [Sides -> PortValues] /\ recv \in [Sides -> PortValues]
      /\ cur_cycles \in [Sides -> 0 .. Period - 1] /\ pc \in [Sides -> Stops]
      /\ start_bit \in [Sides -> BOOLEAN] /\ transfer_in_progress \in [Sides -> BOOLEAN]
      /\ internal_clock \in [Sides -> BOOLEAN] /\ chan \in [Sides -> Chans]
      /\ linked \in BOOLEAN /\ swallowed \in BOOLEAN
      /\ \A s \in Sides : start_bit[s] = transfer_in_progress[s]
  BY DEF LinkInv, LinkTypes, LinkTypeOK, StartBitTells, PortValues
<1>2. /\ 0 \in PortValues /\ NoGameBoy \in PortValues /\ Bytes \subseteq PortValues
      /\ 0 \in 0 .. Period - 1 /\ Period \in Nat /\ Ticks \subseteq Nat
  BY SerialAssumption DEF PortValues
<1>3. \A p \in Sides, v \in PortValues : Append(chan[p], v) \in Chans
  <2> SUFFICES ASSUME NEW p \in Sides, NEW v \in PortValues PROVE Append(chan[p], v) \in Chans
    OBVIOUS
  <2> QED
    BY <1>1, AppendProperties
<1>4. ASSUME NEW p \in Sides, NEW v \in PortValues, Send(p, v) PROVE chan' \in [Sides -> Chans]
  <2>1. Peer(p) \in Sides
    BY Peers
  <2> QED
    BY <1>1, <1>3, <1>4, <2>1 DEF Send
<1>5. ASSUME NEW p \in Sides, chan[p] # <<>>, pc[p] \in {"tick", "recv"}
      PROVE  Head(chan[p]) \in PortValues /\ Tail(chan[p]) \in Chans
  <2>1. BothRun
    BY <1>5 DEF LinkInv, Unconnected, Greeting, Sides
  <2>2. chan[p] \in Seq(PortValues) /\ chan[p] \in Chans
    BY <1>1, <2>1 DEF BothRun
  <2> QED
    BY <1>5, <2>2, HeadTailProperties
<1> HIDE DEF Chans
<1>6. CASE Setup
  <2>1. UNCHANGED <<SB, data_to_send, recv, cur_cycles, start_bit, transfer_in_progress, internal_clock, linked>>
    BY <1>6 DEF Setup, setup_server, Connect, ReadWelcome, port
  <2>2. pc' \in [Sides -> Stops]
    BY <1>1, <1>6 DEF Setup, setup_server, Connect, ReadWelcome, Goto
  <2>3. swallowed' \in BOOLEAN
    <3>1. ReadWelcome => swallowed' \in BOOLEAN
      <4> SUFFICES ASSUME ReadWelcome PROVE swallowed' \in BOOLEAN
        OBVIOUS
      <4>1. PICK n \in 1 .. Len(chan["client"]) : swallowed' = (n > 1)
        BY DEF ReadWelcome
      <4>2. (n > 1) \in BOOLEAN
        OBVIOUS
      <4> QED
        BY <4>1, <4>2, Zenon
    <3>2. setup_server \/ Connect => swallowed' = swallowed
      BY DEF setup_server, Connect
    <3> QED
      BY <1>1, <1>6, <3>1, <3>2 DEF Setup
  <2>4. chan' \in [Sides -> Chans]
    <3>1. CASE setup_server
      <4>1. Append(chan["client"], Welcome) \in Chans
        BY <1>1, AppendProperties DEF Chans, Sides
      <4> QED
        BY <1>1, <3>1, <4>1 DEF setup_server, Send, Peer
    <3>2. CASE Connect
      BY <1>1, <3>2 DEF Connect
    <3>3. CASE ReadWelcome
      <4>1. PICK n \in 1 .. Len(chan["client"]) :
               chan' = [chan EXCEPT !["client"] = SubSeq(@, n + 1, Len(@))]
        BY <3>3 DEF ReadWelcome
      <4>2. chan["client"] \in Seq(PortValues \cup {Welcome})
        BY <1>1 DEF Chans, Sides
      <4>3. \A i \in n + 1 .. Len(chan["client"]) : chan["client"][i] \in PortValues \cup {Welcome}
        BY <4>2, LenProperties, ElementOfSeq
      <4>4. Len(chan["client"]) \in Nat
        BY <4>2, LenProperties
      <4>5. SubSeq(chan["client"], n + 1, Len(chan["client"])) \in Seq(PortValues \cup {Welcome})
        BY <4>3, <4>4, SubSeqProperties
      <4> QED
        BY <1>1, <4>1, <4>5 DEF Chans
    <3> QED
      BY <1>6, <3>1, <3>2, <3>3 DEF Setup
  <2> QED
    BY <1>1, <2>1, <2>2, <2>3, <2>4 DEF LinkTypes, LinkTypeOK, StartBitTells, PortValues, Chans
<1>7. ASSUME NEW p \in Sides, PlayOn(p) PROVE LinkTypes' /\ StartBitTells'
  <2>1. /\ UNCHANGED <<recv, chan, linked, swallowed>>
        /\ SB' \in [Sides -> PortValues] /\ pc' \in [Sides -> Stops]
    BY <1>1, <1>2, <1>7 DEF PlayOn, WriteSB, WriteSC, Other, Quit, Goto, port
  <2>2. /\ data_to_send' \in [Sides -> PortValues] /\ cur_cycles' \in [Sides -> 0 .. Period - 1]
        /\ start_bit' \in [Sides -> BOOLEAN] /\ transfer_in_progress' \in [Sides -> BOOLEAN]
        /\ internal_clock' \in [Sides -> BOOLEAN]
        /\ \A s \in Sides : start_bit'[s] = transfer_in_progress'[s]
    <3>1. ASSUME NEW start \in BOOLEAN, NEW clock \in BOOLEAN, WriteSC(p, start, clock)
          PROVE  <2>2!:
      BY <1>1, <1>2, <3>1 DEF WriteSC, start_transfer
    <3>2. CASE (\E v \in Bytes : WriteSB(p, v)) \/ Other(p) \/ Quit(p)
      BY <1>1, <3>2 DEF WriteSB, Other, Quit, port
    <3> QED
      BY <1>7, <3>1, <3>2 DEF PlayOn
  <2> QED
    BY <1>1, <2>1, <2>2 DEF LinkTypes, LinkTypeOK, StartBitTells, PortValues, Chans
<1>8. ASSUME NEW p \in Sides, NEW v \in PortValues, Complete(p, v), recv' \in [Sides -> PortValues],
             chan' \in [Sides -> Chans], UNCHANGED <<linked, swallowed>>
      PROVE  LinkTypes' /\ StartBitTells'
  <2>1. /\ SB' \in [Sides -> PortValues] /\ pc' \in [Sides -> Stops] /\ data_to_send' = data_to_send
        /\ cur_cycles' \in [Sides -> 0 .. Period - 1]
    BY <1>1, <1>2, <1>8 DEF Complete, Goto
  <2>2. /\ start_bit' \in [Sides -> BOOLEAN] /\ transfer_in_progress' \in [Sides -> BOOLEAN]
        /\ internal_clock' \in [Sides -> BOOLEAN]
        /\ \A s \in Sides : start_bit'[s] = transfer_in_progress'[s]
    BY <1>1, <1>8 DEF Complete
  <2> QED
    BY <1>1, <1>8, <2>1, <2>2 DEF LinkTypes, LinkTypeOK, StartBitTells, PortValues, Chans
<1>9. ASSUME NEW p \in Sides, NEW w \in Stops, Goto(p, w), recv' \in [Sides -> PortValues],
             chan' \in [Sides -> Chans], cur_cycles' \in [Sides -> 0 .. Period - 1],
             UNCHANGED <<SB, start_bit, transfer_in_progress, internal_clock, data_to_send, linked, swallowed>>
      PROVE  LinkTypes' /\ StartBitTells'
  <2>1. pc' \in [Sides -> Stops]
    BY <1>1, <1>9 DEF Goto
  <2> QED
    BY <1>1, <1>9, <2>1 DEF LinkTypes, LinkTypeOK, StartBitTells, PortValues, Chans
<1>10. ASSUME NEW p \in Sides, inc_serial_cycles(p) PROVE LinkTypes' /\ StartBitTells'
  <2>1. CASE ~transfer_in_progress[p]
    BY <1>1, <1>9, <1>10, <2>1 DEF inc_serial_cycles, NothingExchanged, port
  <2>2. CASE transfer_in_progress[p] /\ ~internal_clock[p]
    <3>1. CASE linked /\ chan[p] # <<>>
      <4>1. Head(chan[p]) \in PortValues /\ Tail(chan[p]) \in Chans
        BY <1>5, <1>10, <3>1 DEF inc_serial_cycles
      <4>2. recv' \in [Sides -> PortValues] /\ chan' \in [Sides -> Chans]
        BY <1>1, <1>10, <2>2, <3>1, <4>1, ZenonT(40) DEF inc_serial_cycles, transfer_ext
      <4> QED
        BY <1>1, <1>9, <1>10, <2>2, <3>1, <4>2, ZenonT(40) DEF inc_serial_cycles, transfer_ext, port
    <3>2. CASE ~(linked /\ chan[p] # <<>>)
      BY <1>1, <1>9, <1>10, <2>2, <3>2 DEF inc_serial_cycles, transfer_ext, NothingExchanged, port
    <3> QED
      BY <3>1, <3>2
  <2>3. CASE transfer_in_progress[p] /\ internal_clock[p]
    <3>1. PICK c \in Ticks :
             IF cur_cycles[p] + c >= Period THEN transfer_int(p)
             ELSE /\ cur_cycles' = [cur_cycles EXCEPT ![p] = @ + c] /\ Goto(p, "game")
                  /\ UNCHANGED <<SB, start_bit, transfer_in_progress, internal_clock, data_to_send>>
                  /\ NothingExchanged
      BY <1>10, <2>3 DEF inc_serial_cycles
    <3>2. UNCHANGED <<linked, swallowed>>
      BY <1>10 DEF inc_serial_cycles
    <3>3. CASE cur_cycles[p] + c < Period
      <4>1. cur_cycles[p] + c \in 0 .. Period - 1 /\ ~(cur_cycles[p] + c >= Period)
        BY <1>1, <1>2, <3>3
      <4>2. cur_cycles' \in [Sides -> 0 .. Period - 1]
        BY <1>1, <3>1, <4>1
      <4> QED
        BY <1>1, <1>9, <3>1, <3>2, <4>1, <4>2 DEF NothingExchanged
    <3>4. CASE transfer_int(p) /\ ~Complete(p, NoGameBoy)
      <4>1. Send(p, data_to_send[p]) /\ Goto(p, "recv") /\ cur_cycles' = [cur_cycles EXCEPT ![p] = 0]
            /\ UNCHANGED <<SB, start_bit, transfer_in_progress, internal_clock, data_to_send, recv>>
        BY <3>4 DEF transfer_int, Offered
      <4>2. chan' \in [Sides -> Chans]
        BY <1>1, <1>4, <4>1
      <4>3. cur_cycles' \in [Sides -> 0 .. Period - 1]
        BY <1>1, <1>2, <4>1
      <4> QED
        BY <1>1, <1>9, <3>2, <4>1, <4>2, <4>3
    <3>5. CASE transfer_int(p) /\ Complete(p, NoGameBoy)
      <4>1. recv' = recv
        BY <3>5 DEF transfer_int, NothingExchanged
      <4>2. chan' \in [Sides -> Chans]
        <5>1. data_to_send[p] \in PortValues
          BY <1>1
        <5> QED
          BY <1>1, <1>4, <3>5, <5>1 DEF transfer_int, NothingExchanged, Offered
      <4> QED
        BY <1>1, <1>2, <1>8, <3>2, <3>5, <4>1, <4>2
    <3>6. cur_cycles[p] \in Nat /\ c \in Nat
      BY <1>1, <1>2
    <3> QED
      BY <1>2, <3>1, <3>3, <3>4, <3>5, <3>6
  <2> QED
    BY <2>1, <2>2, <2>3
<1>11. ASSUME NEW p \in Sides, Receive(p) PROVE LinkTypes' /\ StartBitTells'
  <2>1. CASE chan[p] # <<>>
    <3>1. Head(chan[p]) \in PortValues /\ Tail(chan[p]) \in Chans
      BY <1>5, <1>11, <2>1 DEF Receive
    <3>2. /\ Complete(p, Head(chan[p])) /\ chan' = [chan EXCEPT ![p] = Tail(@)]
          /\ UNCHANGED <<recv, linked, swallowed>>
      BY <1>11, <2>1 DEF Receive
    <3>3. chan' \in [Sides -> Chans]
      BY <1>1, <3>1, <3>2
    <3> QED
      BY <1>1, <1>8, <3>1, <3>2, <3>3
  <2>2. CASE chan[p] = <<>>
    BY <1>1, <1>2, <1>8, <1>11, <2>2 DEF Receive, NothingExchanged
  <2> QED
    BY <2>1, <2>2
<1>12. ASSUME NEW p \in Sides, Answer(p) PROVE LinkTypes' /\ StartBitTells'
  <2>1. recv' \in [Sides -> PortValues] /\ UNCHANGED <<linked, swallowed>>
    BY <1>1, <1>2, <1>12 DEF Answer
  <2>2. CASE Send(p, Offered(p)) /\ Complete(p, recv[p])
    <3>1. chan' \in [Sides -> Chans] /\ recv[p] \in PortValues
      BY <1>1, <1>4, <2>2 DEF Offered
    <3> QED
      BY <1>8, <2>1, <2>2, <3>1
  <2>3. CASE Goto(p, "game") /\ UNCHANGED <<port, chan>>
    BY <1>1, <1>9, <2>1, <2>3 DEF port
  <2> QED
    BY <1>12, <2>2, <2>3 DEF Answer
<1> QED
  BY <1>6, <1>7, <1>10, <1>11, <1>12 DEF LinkNext, Emulate

LEMMA LinkStep == LinkInv /\ [LinkNext]_linkVars => LinkInv'
<1>1. ASSUME LinkInv, UNCHANGED linkVars PROVE LinkInv'
  <2> USE <1>1 DEF linkVars, port, history
  <2>1. LinkTypes' /\ StartBitTells'
    BY DEF LinkInv, LinkTypes, LinkTypeOK, StartBitTells
  <2>2. BothRun => BothRun'
    BY DEF BothRun
  <2>3. (Unconnected => Unconnected') /\ (Greeting => Greeting')
    BY DEF Unconnected, Greeting
  <2>4. (Even => Even') /\ \A p \in Sides : OneAhead(p) => OneAhead(p)'
    BY DEF Even, Fits, OneAhead
  <2> QED
    BY <2>1, <2>2, <2>3, <2>4 DEF LinkInv, Stage
<1> SUFFICES ASSUME LinkInv, LinkNext PROVE LinkInv'
  BY <1>1
<1>2. LinkTypes' /\ StartBitTells'
  BY TypesStep
<1>3. CASE Setup
  BY <1>2, <1>3, SetUp
<1>4. ASSUME NEW p \in Sides, PlayOn(p) PROVE LinkInv'
  <2>1. PICK w \in {"tick", "quit"} : Goto(p, w)
    BY <1>4 DEF PlayOn, WriteSB, WriteSC, Other, Quit
  <2>2. pc[p] = "game" /\ UNCHANGED <<chan, recv, ahead, agreed, swallowed>>
    BY <1>4 DEF PlayOn, WriteSB, WriteSC, Other, Quit, history
  <2>3. data_to_send'[Peer(p)] = data_to_send[Peer(p)]
    <3>1. Peer(p) # p /\ Peer(p) \in Sides
      BY Peers
    <3>2. ASSUME NEW start, NEW clock, start_transfer(p, start, clock)
          PROVE  data_to_send'[Peer(p)] = data_to_send[Peer(p)]
      BY <3>1, <3>2 DEF start_transfer, LinkInv, LinkTypes, LinkTypeOK
    <3> QED
      BY <1>4, <3>2 DEF PlayOn, WriteSB, WriteSC, Other, Quit, port
  <2> QED
    BY <1>2, <2>1, <2>2, <2>3, Alone
\* A transfer that ends or goes on without the other side.
<1>5. ASSUME NEW p \in Sides, pc[p] = "tick", NothingExchanged, Goto(p, "game"), swallowed' = swallowed,
             data_to_send' = data_to_send
      PROVE  LinkInv'
  BY <1>2, <1>5, Alone DEF NothingExchanged, history
<1>6. ASSUME NEW p \in Sides, inc_serial_cycles(p) PROVE LinkInv'
  <2>1. pc[p] = "tick" /\ swallowed' = swallowed
    BY <1>6 DEF inc_serial_cycles
  <2>2. CASE NothingExchanged /\ Goto(p, "game") /\ data_to_send' = data_to_send
    BY <1>5, <2>1, <2>2
  <2>3. CASE transfer_in_progress[p] /\ ~internal_clock[p] /\ transfer_ext(p) /\ chan[p] # <<>> /\ linked
    <3>1. /\ Goto(p, "answer") /\ recv' = [recv EXCEPT ![p] = Head(chan[p])]
          /\ chan' = [chan EXCEPT ![p] = Tail(@)]
          /\ UNCHANGED <<ahead, agreed, data_to_send>>
      BY <2>3 DEF transfer_ext, port, history
    <3> QED
      BY <1>2, <2>1, <2>3, <3>1, Polled
  <2>4. CASE Send(p, data_to_send[p]) /\ Goto(p, "recv") /\ UNCHANGED <<recv, history, data_to_send>>
    BY <1>2, <2>1, <2>4, Sent DEF history
  <2> QED
    BY <1>6, <2>2, <2>3, <2>4
       DEF inc_serial_cycles, transfer_ext, transfer_int, Complete, NothingExchanged, Offered, port
<1>7. ASSUME NEW p \in Sides, Receive(p) PROVE LinkInv'
  <2>1. pc[p] = "recv" /\ swallowed' = swallowed
    BY <1>7 DEF Receive
  <2>2. CASE chan[p] # <<>>
    <3>1. /\ Goto(p, "game") /\ Exchanged(p, Head(chan[p])) /\ chan' = [chan EXCEPT ![p] = Tail(@)]
          /\ UNCHANGED <<recv, data_to_send>>
      BY <1>7, <2>2 DEF Receive, Complete
    <3> QED
      BY <1>2, <2>1, <2>2, <3>1, Received
  <2>3. CASE chan[p] = <<>>
    <3>1. PeerQuit(p) /\ Goto(p, "game") /\ UNCHANGED <<chan, recv, ahead, agreed, data_to_send>>
      BY <1>7, <2>3 DEF Receive, Complete, NothingExchanged, history
    <3> QED
      BY <1>2, <2>1, <2>3, <3>1, Closed
  <2> QED
    BY <2>2, <2>3
<1>8. ASSUME NEW p \in Sides, Answer(p) PROVE LinkInv'
  <2>1. /\ pc[p] = "answer" /\ swallowed' = swallowed
        /\ \A s \in Sides : s # p => recv'[s] = recv[s]
    BY <1>8 DEF Answer, LinkInv, LinkTypes
  <2>2. CASE Send(p, Offered(p)) /\ Complete(p, recv[p]) /\ Exchanged(p, recv[p])
    BY <1>2, <2>1, <2>2, Answered DEF Offered, Complete
  <2>3. CASE PeerQuit(p) /\ Goto(p, "game") /\ UNCHANGED <<port, chan, history>>
    BY <1>2, <2>1, <2>3, AnswerLost DEF port, history
  <2> QED
    BY <1>8, <2>2, <2>3 DEF Answer
<1> QED
  BY <1>3, <1>4, <1>6, <1>7, <1>8 DEF LinkNext, Emulate

\* For all bytes and cycles, and however the two emulators start, end and break off
\* their transfers: the kth exchange of one side is the kth of the other, each gets what
\* the other gave, unless the welcome was read together with a byte; and no two
\* emulators wait for each other.
THEOREM LinkIsExact == LinkSpec => []LinkExact
BY LinkStart, LinkStep, LinkInvGives, PTL DEF LinkSpec
=============================================================================
